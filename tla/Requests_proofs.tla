-------------------------- MODULE Requests_proofs ---------------------------
(***************************************************************************)
(* Proofs about what a request meets on its way to a backend: the          *)
(* signature and the session of the HTTP front, for any connections and    *)
(* requests; the cache of filtered servers, for any keys; the token cache, *)
(* for any audiences.                                                      *)
(*                                                                         *)
(* A copy of a signed request is refused although the nonce table forgets: *)
(* the proof splits what was accepted into what is remembered and what is  *)
(* stale, and NonceInv says that a connection still reading an old body is *)
(* remembered for twice the age limit from when its request came.  The     *)
(* cache's clock is read before its lock is taken; TimesInv bounds by how  *)
(* much.                                                                   *)
(***************************************************************************)
EXTENDS HttpFront, TtlCache, TokenCache, FiniteSetTheorems, WellFoundedInduction, TLAPS

-----------------------------------------------------------------------------
(* The HTTP front (HttpFront).                                             *)

FrontPlaces == {"idle", "reading", "inner", "notify", "sdk", "running"}
ConnType == [pc : FrontPlaces, req : FrontRequests, since : Nat, sid : Nat]
Owners == {SessionID(r) : r \in FrontRequests}
SessionType == [owner : Owners, state : {"new", "ready", "expired"}]

FrontType ==
  /\ now \in Nat
  /\ nonces \in [NonceSet -> Nat]
  /\ conn \in [Conns -> ConnType]
  /\ mcp \in Seq(SessionType)
  /\ taken \subseteq NonceSet \X Nat

\* A body that is being read was fresh when its request came.
ReadingInv ==
  \A c \in Conns : conn[c].pc = "reading" =>
    conn[c].since <= now /\ conn[c].req.ts <= conn[c].since + MaxAge

Reads(c, x) == conn[c].pc = "reading" /\ <<conn[c].req.nonce, conn[c].req.ts>> = x

\* Reads x, and for no longer than a nonce is kept.
Fresh(c, x) == Reads(c, x) /\ now <= conn[c].since + 2 * MaxAge

\* A request that was let in is remembered for as long as its timestamp is good
\* and a copy of it is freshly read; when it is forgotten neither is the case.
Remembered(x) ==
  /\ nonces[x[1]] # 0 /\ x[2] + MaxAge <= nonces[x[1]]
  /\ \A c \in Conns : Reads(c, x) => conn[c].since + 2 * MaxAge <= nonces[x[1]]
Stale(x) ==
  /\ x[2] + MaxAge < now
  /\ \A c \in Conns : ~Fresh(c, x)

NonceInv == \A x \in taken : Remembered(x) \/ Stale(x)

\* A call that needs a handshake is in the session made for it, from the
\* handshake on.
OwnerInv ==
  \A c \in Conns : NeedsHandshake(conn[c].req) =>
    /\ conn[c].pc \in {"reading", "inner"} => conn[c].sid = 0
    /\ conn[c].pc = "notify" => conn[c].sid # 0
    /\ conn[c].pc \in {"notify", "sdk"} /\ conn[c].sid # 0 =>
         conn[c].sid \in DOMAIN mcp /\ mcp[conn[c].sid].owner = SessionID(conn[c].req)

FrontInv == FrontType /\ ReadingInv /\ NonceInv /\ OwnerInv

LEMMA QuietType == Quiet \in ConnType /\ Quiet.pc = "idle"
<1>1. PICK r \in FrontRequests : r = CHOOSE any \in FrontRequests : TRUE
  BY FrontAssumption, Zenon
<1>2. Quiet = [pc |-> "idle", req |-> r, since |-> 0, sid |-> 0]
  BY <1>1, Zenon DEF Quiet
<1> QED
  BY <1>2 DEF ConnType, FrontPlaces

LEMMA RequestTypes ==
  ASSUME NEW r \in FrontRequests
  PROVE  r.nonce \in NonceSet /\ r.ts \in Nat /\ r.sid \in Nat /\ SessionID(r) \in Owners
  BY FrontAssumption DEF NonceSet, Owners

LEMMA EvictedType ==
  ASSUME nonces \in [NonceSet -> Nat]
  PROVE  /\ Evicted(nonces) \in [NonceSet -> Nat]
         /\ \A n \in NonceSet : Evicted(nonces)[n] = IF now > nonces[n] THEN 0 ELSE nonces[n]
  BY DEF Evicted

LEMMA StateChange ==
  ASSUME mcp \in Seq(SessionType), NEW s \in DOMAIN mcp, NEW x \in {"new", "ready", "expired"}
  PROVE  LET changed == [mcp EXCEPT ![s].state = x]
         IN /\ changed \in Seq(SessionType) /\ DOMAIN changed = DOMAIN mcp
            /\ \A t \in DOMAIN mcp : changed[t].owner = mcp[t].owner
<1>1. mcp[s] \in SessionType
  OBVIOUS
<1>2. [mcp[s] EXCEPT !.state = x] \in SessionType
  BY <1>1 DEF SessionType
<1>3. [mcp EXCEPT ![s].state = x] = [mcp EXCEPT ![s] = [mcp[s] EXCEPT !.state = x]]
  OBVIOUS
<1>4. [mcp EXCEPT ![s] = [mcp[s] EXCEPT !.state = x]] \in Seq(SessionType)
  BY <1>2
<1> QED
  BY <1>1, <1>3, <1>4 DEF SessionType

LEMMA NewSessions ==
  ASSUME mcp \in Seq(SessionType), NEW owner \in Owners
  PROVE  /\ NewSession(owner) \in Seq(SessionType)
         /\ Len(mcp) + 1 \in DOMAIN NewSession(owner) /\ Len(mcp) + 1 # 0
         /\ NewSession(owner)[Len(mcp) + 1].owner = owner
         /\ \A t \in DOMAIN mcp : t \in DOMAIN NewSession(owner) /\ NewSession(owner)[t] = mcp[t]
<1>1. [owner |-> owner, state |-> "new"] \in SessionType
  BY DEF SessionType
<1> QED
  BY <1>1 DEF NewSession

LEMMA ConnChange ==
  ASSUME conn \in [Conns -> ConnType], NEW c \in Conns, NEW p \in FrontPlaces, NEW n \in Nat
  PROVE  /\ [conn EXCEPT ![c].pc = p, ![c].since = n] \in [Conns -> ConnType]
         /\ [conn EXCEPT ![c].pc = p, ![c].sid = n] \in [Conns -> ConnType]
<1>1. conn[c] \in ConnType
  OBVIOUS
<1>2. /\ [conn[c] EXCEPT !.pc = p, !.since = n] \in ConnType
      /\ [conn[c] EXCEPT !.pc = p, !.sid = n] \in ConnType
  BY <1>1 DEF ConnType
<1>3. /\ [conn EXCEPT ![c].pc = p, ![c].since = n]
           = [conn EXCEPT ![c] = [conn[c] EXCEPT !.pc = p, !.since = n]]
      /\ [conn EXCEPT ![c].pc = p, ![c].sid = n]
           = [conn EXCEPT ![c] = [conn[c] EXCEPT !.pc = p, !.sid = n]]
  OBVIOUS
<1> QED
  BY <1>2, <1>3

LEMMA PhaseChange ==
  ASSUME conn \in [Conns -> ConnType], NEW c \in Conns, NEW d \in Conns,
         NEW p \in FrontPlaces, NEW n \in Nat
  PROVE  /\ [conn EXCEPT ![d].pc = p][c].pc \in {conn[c].pc, p}
         /\ [conn EXCEPT ![d].pc = p, ![d].since = n][c].pc \in {conn[c].pc, p}
         /\ [conn EXCEPT ![d].pc = p, ![d].sid = n][c].pc \in {conn[c].pc, p}
<1>1. conn[c] \in ConnType /\ conn[d] \in ConnType
  OBVIOUS
<1>2. CASE c = d
  BY <1>1, <1>2 DEF ConnType
<1>3. CASE c # d
  BY <1>1, <1>3
<1> QED
  BY <1>2, <1>3

LEMMA FrontInvInit == FrontInit => FrontInv
<1> SUFFICES ASSUME FrontInit PROVE FrontInv
  OBVIOUS
<1>1. \A c \in Conns : conn[c] \in ConnType /\ conn[c].pc = "idle"
  BY QuietType DEF FrontInit
<1>2. conn \in [Conns -> ConnType]
  BY <1>1 DEF FrontInit
<1>3. mcp \in Seq(SessionType)
  BY DEF FrontInit
<1> QED
  BY <1>1, <1>2, <1>3
  DEF FrontInit, FrontInv, FrontType, ReadingInv, NonceInv, OwnerInv

LEMMA FrontTypeNext == FrontType /\ [FrontNext]_frontVars => FrontType'
<1> SUFFICES ASSUME FrontType, [FrontNext]_frontVars PROVE FrontType'
  OBVIOUS
<1> USE DEF FrontType, ConnType, FrontPlaces
<1>1. \A c \in Conns : Answer(c) => conn' \in [Conns -> ConnType]
  BY QuietType DEF Answer
<1>2. CASE FrontTick
  BY <1>2 DEF FrontTick
<1>3. ASSUME NEW s \in DOMAIN mcp, ExpireSession(s) PROVE FrontType'
  <2>1. mcp' \in Seq(SessionType)
    BY <1>3, StateChange DEF ExpireSession
  <2> QED
    BY <1>3, <2>1 DEF ExpireSession
<1>4. ASSUME NEW c \in Conns, NEW r \in FrontRequests, Receive(c, r) PROVE FrontType'
  <2>1. nonces' \in [NonceSet -> Nat]
    BY <1>4, EvictedType DEF Receive
  <2>2. r.sid \in Nat
    BY RequestTypes
  <2>3. conn' \in [Conns -> ConnType]
    <3>1. CASE UNCHANGED conn
      BY <3>1
    <3>2. CASE conn' = [conn EXCEPT ![c] =
                 [pc |-> IF secret THEN "reading" ELSE "inner", req |-> r,
                  since |-> IF secret THEN now ELSE 0, sid |-> r.sid]]
      BY <2>2, <3>2
    <3> QED
      BY <1>4, <3>1, <3>2 DEF Receive
  <2> QED
    BY <1>4, <2>1, <2>3 DEF Receive
<1>5. ASSUME NEW c \in Conns, BodyFails(c) PROVE FrontType'
  BY <1>1, <1>5 DEF BodyFails
<1>6. ASSUME NEW c \in Conns, CheckSignature(c) PROVE FrontType'
  <2>1. conn[c].req \in FrontRequests
    OBVIOUS
  <2> QED
    <3> DEFINE table == IF conn[c].req.signed THEN Evicted(nonces) ELSE nonces
    <3>1. table \in [NonceSet -> Nat]
      BY EvictedType
    <3>2. conn[c].req.nonce \in NonceSet /\ conn[c].req.ts \in Nat
      BY <2>1, RequestTypes
    <3>3. CASE conn[c].req.signed /\ table[conn[c].req.nonce] = 0
      <4>1. now + NonceTTL(MaxAge) \in Nat
        BY FrontAssumption DEF NonceTTL
      <4>2. nonces' = [table EXCEPT ![conn[c].req.nonce] = now + NonceTTL(MaxAge)]
        BY <1>6, <3>3 DEF CheckSignature
      <4>3. taken' \subseteq NonceSet \X Nat /\ UNCHANGED <<now, mcp>>
        BY <1>6, <3>2, <3>3 DEF CheckSignature
      <4>4. conn' = [conn EXCEPT ![c].pc = "inner", ![c].since = 0]
        BY <1>6, <3>3 DEF CheckSignature
      <4>5. conn' \in [Conns -> ConnType]
        BY <4>4, ConnChange
      <4> QED
        BY <3>1, <4>1, <4>2, <4>3, <4>5
    <3>4. CASE ~(conn[c].req.signed /\ table[conn[c].req.nonce] = 0)
      BY <1>1, <1>6, <3>1, <3>4 DEF CheckSignature
    <3> QED
      BY <3>3, <3>4
<1>7. ASSUME NEW c \in Conns, AutoInitialize(c) PROVE FrontType'
  <2>1. SessionID(conn[c].req) \in Owners
    BY RequestTypes
  <2>2. mcp' \in Seq(SessionType)
    BY <1>7, <2>1, NewSessions DEF AutoInitialize, CopyHeaders
  <2> QED
    <3>1. Len(mcp) + 1 \in Nat
      OBVIOUS
    <3>2. conn' \in [Conns -> ConnType]
      <4>1. CASE conn' = [conn EXCEPT ![c].pc = "sdk"]
        BY <4>1
      <4>2. CASE conn' = [conn EXCEPT ![c].pc = "notify", ![c].sid = Len(mcp) + 1]
        BY <3>1, <4>2, ConnChange
      <4> QED
        BY <1>7, <4>1, <4>2 DEF AutoInitialize
    <3> QED
      BY <1>7, <2>2, <3>2 DEF AutoInitialize
<1>8. ASSUME NEW c \in Conns, AutoNotify(c) PROVE FrontType'
  <2>1. mcp' \in Seq(SessionType)
    BY <1>8, StateChange DEF AutoNotify, Live
  <2> QED
    BY <1>8, <2>1 DEF AutoNotify
<1>9. ASSUME NEW c \in Conns, ForwardUnchanged(c) PROVE FrontType'
  BY <1>9 DEF ForwardUnchanged
<1>10. ASSUME NEW c \in Conns, SdkInSession(c) PROVE FrontType'
  <2>1. mcp' \in Seq(SessionType)
    BY <1>10, StateChange DEF SdkInSession, Live
  <2> QED
    BY <1>1, <1>10, <2>1 DEF SdkInSession
<1>11. ASSUME NEW c \in Conns, SdkNewSession(c) PROVE FrontType'
  <2>1. SessionID(conn[c].req) \in Owners
    BY RequestTypes
  <2>2. mcp' \in Seq(SessionType)
    BY <1>11, <2>1, NewSessions DEF SdkNewSession
  <2> QED
    BY <1>1, <1>11, <2>2 DEF SdkNewSession
<1>12. ASSUME NEW c \in Conns, CallEnds(c) PROVE FrontType'
  BY <1>1, <1>12 DEF CallEnds
<1>13. CASE UNCHANGED frontVars
  BY <1>13 DEF frontVars
<1> QED
  BY <1>2, <1>3, <1>4, <1>5, <1>6, <1>7, <1>8, <1>9, <1>10, <1>11, <1>12, <1>13 DEF FrontNext

\* Only Receive begins to read a body, and nothing changes a request meanwhile.
NoneBegins == \A d \in Conns : conn'[d].pc = "reading" => conn'[d] = conn[d]

LEMMA FewRead ==
  ASSUME FrontType, NEW c \in Conns,
         \/ BodyFails(c) \/ CheckSignature(c) \/ AutoInitialize(c) \/ AutoNotify(c)
         \/ ForwardUnchanged(c) \/ SdkInSession(c) \/ SdkNewSession(c) \/ CallEnds(c)
  PROVE  NoneBegins
<1> USE DEF FrontType, ConnType, NoneBegins
<1>1. Answer(c) => NoneBegins
  BY QuietType DEF Answer
<1>2. CASE BodyFails(c) \/ CallEnds(c)
  BY <1>1, <1>2 DEF BodyFails, CallEnds
<1>3. CASE CheckSignature(c)
  BY <1>1, <1>3 DEF CheckSignature
<1>4. CASE AutoInitialize(c)
  BY <1>4 DEF AutoInitialize
<1>5. CASE AutoNotify(c) \/ ForwardUnchanged(c)
  BY <1>5 DEF AutoNotify, ForwardUnchanged
<1>6. CASE SdkInSession(c)
  BY <1>1, <1>6 DEF SdkInSession
<1>7. CASE SdkNewSession(c)
  BY <1>1, <1>7 DEF SdkNewSession
<1> QED
  BY <1>2, <1>3, <1>4, <1>5, <1>6, <1>7

\* The steps that touch neither the clock nor the nonces.
Indifferent == NoneBegins /\ UNCHANGED <<now, nonces, taken>>

LEMMA Indifference ==
  ASSUME FrontType, [FrontNext]_frontVars
  PROVE  \/ Indifferent
         \/ FrontTick
         \/ \E c \in Conns : CheckSignature(c) \/ \E r \in FrontRequests : Receive(c, r)
<1>1. ASSUME NEW s \in DOMAIN mcp, ExpireSession(s) PROVE Indifferent
  BY <1>1 DEF ExpireSession, Indifferent, NoneBegins
<1>2. ASSUME NEW c \in Conns,
             \/ BodyFails(c) \/ AutoInitialize(c) \/ AutoNotify(c)
             \/ ForwardUnchanged(c) \/ SdkInSession(c) \/ SdkNewSession(c) \/ CallEnds(c)
      PROVE  Indifferent
  <2>1. NoneBegins
    BY <1>2, FewRead
  <2> QED
    BY <1>2, <2>1
    DEF Indifferent, BodyFails, AutoInitialize, AutoNotify, ForwardUnchanged, SdkInSession,
        SdkNewSession, CallEnds
<1>3. CASE UNCHANGED frontVars
  BY <1>3 DEF frontVars, Indifferent, NoneBegins
<1> QED
  BY <1>1, <1>2, <1>3 DEF FrontNext

LEMMA ReadingInvNext == FrontType /\ ReadingInv /\ [FrontNext]_frontVars => ReadingInv'
<1> SUFFICES ASSUME FrontType, ReadingInv, [FrontNext]_frontVars PROVE ReadingInv'
  OBVIOUS
<1>1. CASE NoneBegins /\ UNCHANGED now
  BY <1>1 DEF ReadingInv, NoneBegins
<1>2. CASE FrontTick
  BY <1>2, FrontAssumption DEF ReadingInv, FrontTick, FrontType, ConnType
<1>3. ASSUME NEW c \in Conns, NEW r \in FrontRequests, Receive(c, r) PROVE ReadingInv'
  <2> SUFFICES ASSUME NEW d \in Conns, conn'[d].pc = "reading"
               PROVE  conn'[d].since <= now /\ conn'[d].req.ts <= conn'[d].since + MaxAge
    BY <1>3 DEF ReadingInv, Receive
  <2>1. CASE conn'[d] = conn[d]
    BY <2>1 DEF ReadingInv
  <2>2. CASE /\ secret /\ InWindow(r)
             /\ conn'[d] = [pc |-> "reading", req |-> r, since |-> now, sid |-> r.sid]
    BY <2>2, RequestTypes, FrontAssumption DEF FrontType, InWindow
  <2>3. CASE conn'[d].pc = "inner"
    BY <2>3
  <2> QED
    BY <1>3, <2>1, <2>2, <2>3 DEF Receive, FrontType
<1>4. ASSUME NEW c \in Conns, CheckSignature(c) PROVE ReadingInv'
  BY <1>1, <1>4, FewRead DEF CheckSignature
<1> QED
  BY <1>1, <1>2, <1>3, <1>4, Indifference DEF Indifferent

\* A request is forgotten only when it is stale.
LEMMA Forgetting ==
  ASSUME FrontType, ReadingInv, NEW x \in NonceSet \X Nat, Remembered(x)
  PROVE  /\ Evicted(nonces)[x[1]] = nonces[x[1]] \/ Stale(x)
         /\ x[2] + MaxAge >= now => Evicted(nonces)[x[1]] = nonces[x[1]]
         /\ (\E c \in Conns : Fresh(c, x)) => Evicted(nonces)[x[1]] = nonces[x[1]]
<1>1. Evicted(nonces)[x[1]] = IF now > nonces[x[1]] THEN 0 ELSE nonces[x[1]]
  BY EvictedType DEF FrontType
<1>2. nonces[x[1]] \in Nat /\ now \in Nat /\ x[2] \in Nat
  BY DEF FrontType
<1>3. \A c \in Conns : Fresh(c, x) => now <= nonces[x[1]]
  <2> TAKE c \in Conns
  <2> HAVE Fresh(c, x)
  <2>1. now <= conn[c].since + 2 * MaxAge /\ conn[c].since + 2 * MaxAge <= nonces[x[1]]
    BY DEF Fresh, Reads, Remembered
  <2>2. conn[c].since \in Nat
    BY DEF FrontType, ConnType
  <2> QED
    BY <1>2, <2>1, <2>2, FrontAssumption
<1> QED
  BY <1>1, <1>2, <1>3, FrontAssumption DEF Remembered, Stale

LEMMA NonceInvNext ==
  FrontType /\ ReadingInv /\ NonceInv /\ [FrontNext]_frontVars => NonceInv'
<1> SUFFICES ASSUME FrontType, ReadingInv, NonceInv, [FrontNext]_frontVars,
                    NEW x \in taken'
             PROVE  Remembered(x)' \/ Stale(x)'
  BY DEF NonceInv
<1>1. x \in NonceSet \X Nat
  BY FrontTypeNext DEF FrontType
<1>2. CASE Indifferent
  BY <1>2 DEF NonceInv, Indifferent, NoneBegins, Remembered, Stale, Reads, Fresh
<1>3. CASE FrontTick
  <2>1. UNCHANGED <<nonces, conn, taken>> /\ now' = now + 1 /\ now \in Nat /\ x[2] \in Nat
    BY <1>1, <1>3 DEF FrontTick, FrontType
  <2>2. CASE Remembered(x)
    BY <2>1, <2>2 DEF Remembered, Reads
  <2>3. CASE Stale(x)
    <3>1. \A c \in Conns : conn[c].since + 2 * MaxAge \in Nat
      BY FrontAssumption DEF FrontType, ConnType
    <3>2. \A c \in Conns : Fresh(c, x)' => Fresh(c, x)
      BY <2>1, <3>1 DEF Fresh, Reads
    <3> QED
      BY <2>1, <2>3, <3>2, FrontAssumption DEF Stale
  <2> QED
    BY <2>1, <2>2, <2>3 DEF NonceInv
<1>4. ASSUME NEW c \in Conns, NEW r \in FrontRequests, Receive(c, r)
      PROVE  Remembered(x)' \/ Stale(x)'
  <2>1. x \in taken /\ UNCHANGED <<now, taken>>
    BY <1>4 DEF Receive
  <2>2. nonces' = Evicted(nonces) \/ (nonces' = nonces /\ (~secret \/ conn' = conn))
    BY <1>4 DEF Receive
  <2>3. CASE conn' = conn
    <3>1. CASE Stale(x)
      BY <2>1, <2>3, <3>1 DEF Stale, Reads, Fresh
    <3>2. CASE Remembered(x) /\ ~Stale(x)
      <4>1. nonces'[x[1]] = nonces[x[1]]
        BY <1>1, <2>2, <3>2, Forgetting
      <4> QED
        BY <2>1, <2>3, <3>2, <4>1 DEF Remembered, Reads
    <3> QED
      BY <2>1, <3>1, <3>2 DEF NonceInv
  <2>4. CASE \A d \in Conns : Reads(d, x)' => Reads(d, x) /\ conn'[d] = conn[d]
    <3>1. CASE Stale(x)
      BY <2>1, <2>4, <3>1 DEF Stale, Fresh
    <3>2. CASE Remembered(x) /\ ~Stale(x)
      <4>1. nonces'[x[1]] = nonces[x[1]]
        BY <1>1, <2>2, <3>2, Forgetting
      <4> QED
        BY <2>1, <2>4, <3>2, <4>1 DEF Remembered
    <3> QED
      BY <2>1, <3>1, <3>2 DEF NonceInv
  <2>5. CASE /\ secret /\ InWindow(r) /\ Evicted(nonces)[r.nonce] = 0
             /\ conn' = [conn EXCEPT ![c] =
                   [pc |-> "reading", req |-> r, since |-> now, sid |-> r.sid]]
    <3>1. r.nonce \in NonceSet /\ r.ts \in Nat /\ now <= r.ts + MaxAge
      BY <2>5, RequestTypes DEF InWindow
    <3>2. CASE <<r.nonce, r.ts>> = x
      <4>1. x[1] = r.nonce /\ x[2] = r.ts
        BY <3>2
      <4>2. ~Stale(x)
        BY <3>1, <4>1, FrontAssumption DEF Stale, FrontType
      <4>3. Remembered(x)
        BY <2>1, <4>2 DEF NonceInv
      <4>4. Evicted(nonces)[x[1]] = nonces[x[1]] /\ nonces[x[1]] # 0
        BY <1>1, <3>1, <4>1, <4>3, Forgetting, FrontAssumption DEF Remembered, FrontType
      <4> QED
        BY <2>5, <4>1, <4>4
    <3>3. CASE <<r.nonce, r.ts>> # x
      <4>1. \A d \in Conns : Reads(d, x)' => Reads(d, x) /\ conn'[d] = conn[d]
        BY <2>5, <3>3 DEF Reads, FrontType
      <4> QED
        BY <2>4, <4>1
    <3> QED
      BY <3>2, <3>3
  <2>6. CASE ~secret /\ conn' = [conn EXCEPT ![c] =
                 [pc |-> "inner", req |-> r, since |-> 0, sid |-> r.sid]]
    <3>1. \A d \in Conns : Reads(d, x)' => Reads(d, x) /\ conn'[d] = conn[d]
      BY <2>6 DEF Reads, FrontType
    <3> QED
      BY <2>4, <3>1
  <2> QED
    BY <1>4, <2>3, <2>5, <2>6 DEF Receive
<1>5. ASSUME NEW c \in Conns, CheckSignature(c)
      PROVE  Remembered(x)' \/ Stale(x)'
  <2> DEFINE r == conn[c].req
             table == IF r.signed THEN Evicted(nonces) ELSE nonces
  <2>1. NoneBegins /\ UNCHANGED now
    BY <1>5, FewRead DEF CheckSignature
  <2>2. \A d \in Conns : Reads(d, x)' => Reads(d, x) /\ conn'[d] = conn[d]
    BY <2>1 DEF NoneBegins, Reads
  <2>3. r.nonce \in NonceSet /\ r.ts \in Nat
    BY RequestTypes DEF FrontType, ConnType
  <2>4. table \in [NonceSet -> Nat]
    BY EvictedType DEF FrontType
  <2>5. CASE x \in taken /\ nonces'[x[1]] = table[x[1]]
    <3>1. CASE Stale(x)
      BY <2>1, <2>2, <3>1 DEF Stale, Fresh
    <3>2. CASE Remembered(x) /\ ~Stale(x)
      <4>1. nonces'[x[1]] = nonces[x[1]]
        BY <1>1, <2>5, <3>2, Forgetting
      <4> QED
        BY <2>1, <2>2, <3>2, <4>1 DEF Remembered
    <3> QED
      BY <2>5, <3>1, <3>2 DEF NonceInv
  <2>6. CASE ~(r.signed /\ table[r.nonce] = 0)
    BY <1>5, <2>5, <2>6 DEF CheckSignature
  <2>7. CASE r.signed /\ table[r.nonce] = 0
    <3>1. /\ nonces' = [table EXCEPT ![r.nonce] = now + 2 * MaxAge]
          /\ taken' = taken \cup {<<r.nonce, r.ts>>}
      BY <1>5, <2>7 DEF CheckSignature, NonceTTL
    <3>2. CASE x = <<r.nonce, r.ts>>
      <4>1. x[1] = r.nonce /\ x[2] = r.ts
        BY <3>2
      <4>2. nonces'[x[1]] = now + 2 * MaxAge
        BY <2>3, <2>4, <3>1, <4>1
      <4>3. x[2] <= now + MaxAge
        <5>1. conn[c].since <= now /\ r.ts <= conn[c].since + MaxAge
          BY <1>5 DEF CheckSignature, ReadingInv
        <5>2. conn[c].since \in Nat /\ now \in Nat
          BY DEF FrontType, ConnType
        <5> QED
          BY <2>3, <4>1, <5>1, <5>2, FrontAssumption
      <4>4. \A d \in Conns : Reads(d, x) => conn[d].since <= now /\ conn[d].since \in Nat
        BY DEF Reads, ReadingInv, FrontType, ConnType
      <4>5. x[2] \in Nat /\ now \in Nat
        BY <2>3, <4>1 DEF FrontType
      <4>6. \A d \in Conns : Reads(d, x)' => conn'[d].since + 2 * MaxAge <= nonces'[x[1]]
        BY <2>2, <4>2, <4>4, <4>5, FrontAssumption
      <4>7. nonces'[x[1]] # 0 /\ x[2] + MaxAge <= nonces'[x[1]]
        BY <4>2, <4>3, <4>5, FrontAssumption
      <4> QED
        BY <4>6, <4>7 DEF Remembered
    <3>3. CASE x # <<r.nonce, r.ts>> /\ x[1] # r.nonce
      BY <1>1, <2>4, <2>5, <3>1, <3>3
    <3>4. CASE x # <<r.nonce, r.ts>> /\ x[1] = r.nonce
      <4>1. x \in taken
        BY <3>1, <3>4
      <4>2. CASE Stale(x)
        BY <2>1, <2>2, <4>2 DEF Stale, Fresh
      <4>3. CASE Remembered(x) /\ ~Stale(x)
        <5>1. table[x[1]] = nonces[x[1]] /\ nonces[x[1]] # 0
          BY <1>1, <4>3, Forgetting DEF Remembered
        <5> QED
          BY <2>7, <3>4, <5>1
      <4> QED
        BY <4>1, <4>2, <4>3 DEF NonceInv
    <3> QED
      BY <3>2, <3>3, <3>4
  <2> QED
    BY <2>6, <2>7
<1> QED
  BY <1>2, <1>3, <1>4, <1>5, Indifference

\* What the SDK's sessions keep: they stay, with their owners.
SessionsStay ==
  \A s \in DOMAIN mcp : s \in DOMAIN mcp' /\ mcp'[s].owner = mcp[s].owner

\* What OwnerInv says of one call.
InOwnSession(c) ==
  NeedsHandshake(conn[c].req) =>
    /\ conn[c].pc \in {"reading", "inner"} => conn[c].sid = 0
    /\ conn[c].pc = "notify" => conn[c].sid # 0
    /\ conn[c].pc \in {"notify", "sdk"} /\ conn[c].sid # 0 =>
         conn[c].sid \in DOMAIN mcp /\ mcp[conn[c].sid].owner = SessionID(conn[c].req)

LEMMA OwnerInvNext == FrontType /\ OwnerInv /\ [FrontNext]_frontVars => OwnerInv'
<1> SUFFICES ASSUME FrontType, OwnerInv, [FrontNext]_frontVars,
                    NEW d \in Conns
             PROVE  InOwnSession(d)'
  BY DEF OwnerInv, InOwnSession
<1>1. InOwnSession(d) /\ conn[d] \in ConnType
  BY DEF OwnerInv, InOwnSession, FrontType
<1>2. SessionsStay /\ (conn'[d] = conn[d] \/ conn'[d].pc = "idle") => InOwnSession(d)'
  BY <1>1 DEF SessionsStay, InOwnSession
<1>3. \A c \in Conns : Answer(c) => conn'[d] = conn[d] \/ conn'[d].pc = "idle"
  BY QuietType DEF Answer, FrontType
<1>4. UNCHANGED mcp => SessionsStay
  BY DEF SessionsStay
<1>5. \A s \in DOMAIN mcp, v \in {"ready", "expired"} :
        mcp' = [mcp EXCEPT ![s].state = v] => SessionsStay
  BY StateChange DEF SessionsStay, FrontType
<1>6. \A o \in Owners : mcp' = NewSession(o) => SessionsStay
  BY NewSessions DEF SessionsStay, FrontType
<1>7. CASE FrontTick \/ UNCHANGED frontVars
  BY <1>2, <1>4, <1>7 DEF FrontTick, frontVars
<1>8. ASSUME NEW s \in DOMAIN mcp, ExpireSession(s) PROVE InOwnSession(d)'
  BY <1>2, <1>5, <1>8 DEF ExpireSession
<1>9. ASSUME NEW c \in Conns, NEW r \in FrontRequests, Receive(c, r) PROVE InOwnSession(d)'
  <2>1. SessionsStay
    BY <1>4, <1>9 DEF Receive
  <2>2. CASE conn'[d] = conn[d]
    BY <1>2, <2>1, <2>2
  <2>3. CASE conn'[d] # conn[d]
    <3>1. conn'[d].pc \in {"reading", "inner"} /\ conn'[d].req = r /\ conn'[d].sid = r.sid
      BY <1>9, <2>3 DEF Receive, FrontType
    <3> QED
      BY <3>1 DEF InOwnSession, NeedsHandshake
  <2> QED
    BY <2>2, <2>3
<1>10. ASSUME NEW c \in Conns, BodyFails(c) \/ CallEnds(c) PROVE InOwnSession(d)'
  BY <1>2, <1>3, <1>4, <1>10 DEF BodyFails, CallEnds
<1>11. ASSUME NEW c \in Conns, CheckSignature(c) PROVE InOwnSession(d)'
  <2>1. SessionsStay
    BY <1>4, <1>11 DEF CheckSignature
  <2>2. CASE Answer(c) \/ d # c
    BY <1>2, <1>3, <1>11, <2>1, <2>2 DEF CheckSignature, FrontType
  <2>3. CASE d = c /\ conn' = [conn EXCEPT ![c].pc = "inner", ![c].since = 0]
    <3>1. conn'[d].pc = "inner" /\ conn'[d].req = conn[d].req /\ conn'[d].sid = conn[d].sid
          /\ conn[d].pc = "reading"
      BY <1>1, <1>11, <2>3 DEF ConnType, CheckSignature, FrontType
    <3> QED
      BY <1>1, <3>1 DEF InOwnSession
  <2> QED
    BY <1>11, <2>2, <2>3 DEF CheckSignature
<1>12. ASSUME NEW c \in Conns, AutoInitialize(c) PROVE InOwnSession(d)'
  <2> DEFINE owner == SessionID(conn[c].req)
  <2>1. owner \in Owners
    BY RequestTypes DEF FrontType, ConnType
  <2>2. SessionsStay
    BY <1>4, <1>6, <1>12, <2>1 DEF AutoInitialize, CopyHeaders
  <2>3. CASE d # c
    BY <1>2, <1>12, <2>2, <2>3 DEF AutoInitialize, FrontType
  <2>4. CASE d = c /\ conn' = [conn EXCEPT ![c].pc = "sdk"]
    <3>1. /\ conn'[d].pc = "sdk" /\ conn'[d].req = conn[d].req /\ conn'[d].sid = conn[d].sid
          /\ conn[d].pc = "inner"
      BY <1>1, <1>12, <2>4 DEF ConnType, AutoInitialize, FrontType
    <3> QED
      BY <1>1, <3>1 DEF InOwnSession
  <2>5. CASE /\ d = c /\ conn' = [conn EXCEPT ![c].pc = "notify", ![c].sid = Len(mcp) + 1]
             /\ mcp' = NewSession(owner)
    <3>1. conn'[d].pc = "notify" /\ conn'[d].req = conn[d].req /\ conn'[d].sid = Len(mcp) + 1
      BY <1>1, <2>5 DEF ConnType, FrontType
    <3>2. /\ Len(mcp) + 1 # 0 /\ Len(mcp) + 1 \in DOMAIN mcp'
          /\ mcp'[Len(mcp) + 1].owner = owner
      BY <2>1, <2>5, NewSessions DEF FrontType
    <3> QED
      BY <2>5, <3>1, <3>2 DEF InOwnSession
  <2> QED
    BY <1>12, <2>3, <2>4, <2>5 DEF AutoInitialize, CopyHeaders
<1>13. ASSUME NEW c \in Conns, AutoNotify(c) PROVE InOwnSession(d)'
  <2>1. SessionsStay
    BY <1>4, <1>5, <1>13 DEF AutoNotify, Live
  <2>2. CASE d # c
    BY <1>2, <1>13, <2>1, <2>2 DEF AutoNotify, FrontType
  <2>3. CASE d = c
    <3>1. /\ conn'[d].pc = "sdk" /\ conn'[d].req = conn[d].req /\ conn'[d].sid = conn[d].sid
          /\ conn[d].pc = "notify"
      BY <1>1, <1>13, <2>3 DEF ConnType, AutoNotify, FrontType
    <3> QED
      BY <1>1, <2>1, <3>1 DEF InOwnSession, SessionsStay
  <2> QED
    BY <2>2, <2>3
<1>14. ASSUME NEW c \in Conns, ForwardUnchanged(c) PROVE InOwnSession(d)'
  <2>1. SessionsStay
    BY <1>4, <1>14 DEF ForwardUnchanged
  <2>2. CASE d # c
    BY <1>2, <1>14, <2>1, <2>2 DEF ForwardUnchanged, FrontType
  <2>3. CASE d = c
    BY <1>1, <1>14, <2>3 DEF ConnType, ForwardUnchanged, FrontType, InOwnSession
  <2> QED
    BY <2>2, <2>3
<1>15. ASSUME NEW c \in Conns, SdkInSession(c) PROVE InOwnSession(d)'
  <2>1. SessionsStay
    BY <1>4, <1>5, <1>15 DEF SdkInSession, Live
  <2>2. CASE d # c \/ Answer(c)
    BY <1>2, <1>3, <1>15, <2>1, <2>2 DEF SdkInSession, FrontType
  <2>3. CASE d = c /\ conn' = [conn EXCEPT ![c].pc = "running"]
    BY <1>1, <2>3 DEF ConnType, FrontType, InOwnSession
  <2> QED
    BY <1>15, <2>2, <2>3 DEF SdkInSession
<1>16. ASSUME NEW c \in Conns, SdkNewSession(c) PROVE InOwnSession(d)'
  <2>1. SessionID(conn[c].req) \in Owners
    BY RequestTypes DEF FrontType, ConnType
  <2> QED
    BY <1>2, <1>3, <1>4, <1>6, <1>16, <2>1 DEF SdkNewSession
<1> QED
  BY <1>7, <1>8, <1>9, <1>10, <1>11, <1>12, <1>13, <1>14, <1>15, <1>16 DEF FrontNext

LEMMA FrontInvariant == FrontSpec => []FrontInv
<1>1. FrontInv /\ [FrontNext]_frontVars => FrontInv'
  BY FrontTypeNext, ReadingInvNext, NonceInvNext, OwnerInvNext DEF FrontInv
<1> QED
  BY <1>1, FrontInvInit, PTL DEF FrontSpec

\* Type correctness of the front of the gateway.
THEOREM FrontTypeCorrect == FrontSpec => []FrontType
  BY FrontInvariant, PTL DEF FrontInv

\* AcceptedOnce: of all copies of a signed request one gets in, for every age limit,
\* every order of their steps and every time that reading their bodies takes,
\* those whose body took longer than a nonce is kept excepted (hmacMiddleware).
THEOREM CopiesAreRefused == FrontSpec => AcceptedOnce
<1> DEFINE First ==
      \A c \in Conns :
        conn[c].pc = "reading" /\ conn'[c].pc = "inner" /\ now <= conn[c].since + 2 * MaxAge
          => <<conn[c].req.nonce, conn[c].req.ts>> \notin taken
<1>1. ASSUME FrontInv, [FrontNext]_frontVars PROVE First
  <2> SUFFICES ASSUME NEW c \in Conns, conn[c].pc = "reading", conn'[c].pc = "inner",
                      now <= conn[c].since + 2 * MaxAge
               PROVE  <<conn[c].req.nonce, conn[c].req.ts>> \notin taken
    OBVIOUS
  <2> DEFINE r == conn[c].req
             x == <<r.nonce, r.ts>>
  <2>1. CheckSignature(c)
    <3> USE DEF FrontInv, FrontType, ConnType
    <3>1. \A d \in Conns : Answer(d) => conn'[c] = conn[c] \/ conn'[c].pc = "idle"
      BY QuietType DEF Answer
    <3>2. ~(\E d \in Conns, q \in FrontRequests : Receive(d, q))
      BY <1>1 DEF Receive
    <3>3. ~(\E d \in Conns : BodyFails(d) \/ CallEnds(d) \/ AutoNotify(d) \/ ForwardUnchanged(d))
      BY <1>1, <3>1 DEF BodyFails, CallEnds, AutoNotify, ForwardUnchanged
    <3>4. ~(\E d \in Conns : AutoInitialize(d) \/ SdkInSession(d) \/ SdkNewSession(d))
      BY <1>1, <3>1 DEF AutoInitialize, SdkInSession, SdkNewSession
    <3>5. ~FrontTick /\ ~UNCHANGED frontVars /\ ~(\E s \in DOMAIN mcp : ExpireSession(s))
      BY DEF FrontTick, frontVars, ExpireSession
    <3>6. \A d \in Conns : CheckSignature(d) => d = c
      BY <1>1, <3>1 DEF CheckSignature
    <3> QED
      BY <1>1, <3>2, <3>3, <3>4, <3>5, <3>6 DEF FrontNext
  <2>2. r.signed /\ Evicted(nonces)[r.nonce] = 0
    BY <1>1, <2>1, QuietType DEF CheckSignature, Answer, FrontInv, FrontType
  <2>3. x \in NonceSet \X Nat /\ x[1] = r.nonce /\ Fresh(c, x)
    BY <1>1, RequestTypes DEF FrontInv, FrontType, ConnType, Reads, Fresh
  <2>4. ~Stale(x)
    BY <2>3 DEF Stale
  <2>5. ~Remembered(x)
    <3> SUFFICES ASSUME Remembered(x) PROVE FALSE
      OBVIOUS
    <3>1. Evicted(nonces)[x[1]] = nonces[x[1]]
      BY <1>1, <2>3, Forgetting DEF FrontInv
    <3> QED
      BY <2>2, <2>3, <3>1 DEF Remembered
  <2> QED
    BY <1>1, <2>4, <2>5 DEF FrontInv, NonceInv
<1>2. [FrontNext]_frontVars /\ FrontInv => [First]_frontVars
  BY <1>1
<1> QED
  BY <1>2, FrontInvariant, PTL DEF FrontSpec, AcceptedOnce

\* RunsInOwnSession: whoever calls a tool without a session runs it in a
\* session made for its own identity, whatever other clients and expiring
\* sessions do in between (performSessionAutoInit).
THEOREM CallersKeepApart == FrontSpec => RunsInOwnSession
<1> DEFINE Own ==
      \A c \in Conns :
        conn'[c].pc = "running" /\ conn[c].pc # "running" /\ NeedsHandshake(conn[c].req)
          => LET s == mcp[conn[c].sid]
             IN s.state = "ready" /\ s.owner = SessionID(conn[c].req)
<1>1. ASSUME FrontInv, [FrontNext]_frontVars PROVE Own
  <2> SUFFICES ASSUME NEW c \in Conns, conn'[c].pc = "running", conn[c].pc # "running",
                      NeedsHandshake(conn[c].req)
               PROVE  /\ mcp[conn[c].sid].state = "ready"
                      /\ mcp[conn[c].sid].owner = SessionID(conn[c].req)
    OBVIOUS
  <2> USE DEF FrontInv, FrontType, ConnType
  <2>1. \A d \in Conns : Answer(d) => conn'[c] = conn[c] \/ conn'[c].pc = "idle"
    BY <1>1, QuietType DEF Answer
  <2>2. ~(\E d \in Conns, q \in FrontRequests : Receive(d, q))
    BY <1>1 DEF Receive
  <2>3. ~(\E d \in Conns : BodyFails(d) \/ CallEnds(d) \/ AutoNotify(d) \/ ForwardUnchanged(d))
    BY <1>1, <2>1 DEF BodyFails, CallEnds, AutoNotify, ForwardUnchanged
  <2>4. ~(\E d \in Conns : AutoInitialize(d) \/ CheckSignature(d) \/ SdkNewSession(d))
    <3>1. ASSUME NEW d \in Conns PROVE ~AutoInitialize(d)
      <4>1. SUFFICES ASSUME AutoInitialize(d) PROVE conn'[c].pc \in {conn[c].pc, "sdk", "notify"}
        BY <1>1
      <4>2. conn' = [conn EXCEPT ![d].pc = "sdk"] \/
            conn' = [conn EXCEPT ![d].pc = "notify", ![d].sid = Len(mcp) + 1]
        BY <4>1 DEF AutoInitialize
      <4>3. Len(mcp) + 1 \in Nat /\ {"sdk", "notify"} \subseteq FrontPlaces
        BY <1>1 DEF FrontPlaces
      <4>4. [conn EXCEPT ![d].pc = "sdk"][c].pc \in {conn[c].pc, "sdk"}
        BY <1>1, <4>3, PhaseChange
      <4>5. [conn EXCEPT ![d].pc = "notify", ![d].sid = Len(mcp) + 1][c].pc \in {conn[c].pc, "notify"}
        BY <1>1, <4>3, PhaseChange
      <4> QED
        BY <4>2, <4>4, <4>5
    <3>2. ASSUME NEW d \in Conns PROVE ~CheckSignature(d)
      <4>1. SUFFICES ASSUME CheckSignature(d), ~Answer(d)
                     PROVE  conn'[c].pc \in {conn[c].pc, "inner"}
        BY <1>1, <2>1 DEF CheckSignature
      <4>2. conn' = [conn EXCEPT ![d].pc = "inner", ![d].since = 0]
        BY <4>1 DEF CheckSignature
      <4>3. "inner" \in FrontPlaces
        BY DEF FrontPlaces
      <4>4. [conn EXCEPT ![d].pc = "inner", ![d].since = 0][c].pc \in {conn[c].pc, "inner"}
        BY <1>1, <4>3, PhaseChange
      <4> QED
        BY <4>2, <4>4
    <3>3. ASSUME NEW d \in Conns PROVE ~SdkNewSession(d)
      BY <1>1, <2>1 DEF SdkNewSession
    <3> QED
      BY <3>1, <3>2, <3>3
  <2>5. ~FrontTick /\ ~UNCHANGED frontVars /\ ~(\E s \in DOMAIN mcp : ExpireSession(s))
    BY DEF FrontTick, frontVars, ExpireSession
  <2>6. \A d \in Conns : SdkInSession(d) => d = c
    BY <1>1, <2>1 DEF SdkInSession
  <2>7. SdkInSession(c)
    BY <1>1, <2>2, <2>3, <2>4, <2>5, <2>6 DEF FrontNext
  <2>8. conn[c].pc = "sdk" /\ conn[c].sid # 0 /\ mcp[conn[c].sid].state = "ready"
    BY <1>1, <2>1, <2>7 DEF SdkInSession
  <2> QED
    BY <1>1, <2>8 DEF OwnerInv
<1>2. [FrontNext]_frontVars /\ FrontInv => [Own]_frontVars
  BY <1>1
<1> QED
  BY <1>2, FrontInvariant, PTL DEF FrontSpec, RunsInOwnSession

-----------------------------------------------------------------------------
(* The cache of filtered servers (TtlCache).                               *)

CacheType ==
  /\ clock \in 0..MaxCacheTime
  /\ entries \in [CacheKeys -> Nat]
  /\ get \in [Getters -> [key : CacheKeys, at : Nat]]
  /\ usedAt \in [CacheKeys -> Nat]

\* A request that waits read the clock at most MaxWait ago; an entry was really
\* used at its lastUsed or at most MaxWait later.
TimesInv ==
  /\ \A g \in Getters : get[g].at # Absent => get[g].at <= clock /\ clock <= get[g].at + MaxWait
  /\ \A k \in CacheKeys : usedAt[k] <= clock
  /\ \A k \in Held(entries) : entries[k] <= usedAt[k] /\ usedAt[k] <= entries[k] + MaxWait

SizeInv == Cardinality(Held(entries)) <= CacheSize

CacheInv == CacheType /\ TimesInv /\ SizeInv

LEMMA HeldFinite == ASSUME NEW table
                    PROVE  /\ Held(table) \subseteq CacheKeys /\ IsFiniteSet(Held(table))
                           /\ Cardinality(Held(table)) \in Nat
  BY FS_Subset, FS_CardinalityType, CacheAssumption DEF Held

LEMMA IdleType == Idle \in [key : CacheKeys, at : Nat] /\ Idle.at = Absent
<1>1. PICK k \in CacheKeys : k = CHOOSE any \in CacheKeys : TRUE
  BY CacheAssumption, Zenon
<1>2. Idle = [key |-> k, at |-> Absent]
  BY <1>1, Zenon DEF Idle
<1> QED
  BY <1>2, CacheAssumption DEF Absent

LEMMA CacheInvInit == CacheInit => CacheInv
<1> SUFFICES ASSUME CacheInit PROVE CacheInv
  OBVIOUS
<1>1. CacheType /\ TimesInv
  BY IdleType, CacheAssumption DEF CacheInit, CacheType, TimesInv, Held, Absent
<1>2. Held(entries) = {}
  BY DEF CacheInit, Held
<1>3. SizeInv
  BY <1>2, FS_EmptySet, CacheAssumption DEF SizeInv
<1> QED
  BY <1>1, <1>3 DEF CacheInv

\* What the sweep leaves of the cache.
Swept(g) == Sweep(entries, get[g].at)

LEMMA SweptKeeps ==
  ASSUME CacheType, SizeInv, NEW g \in Getters
  PROVE  /\ Swept(g) \in [CacheKeys -> Nat]
         /\ \A k \in CacheKeys : Swept(g)[k] \in {entries[k], Absent}
         /\ Held(Swept(g)) \subseteq Held(entries)
         /\ Cardinality(Held(Swept(g))) <= Cardinality(Held(entries))
<1>1. /\ Swept(g) \in [CacheKeys -> Nat]
      /\ \A k \in CacheKeys : Swept(g)[k] \in {entries[k], Absent}
  BY CacheAssumption DEF Swept, Sweep, CacheType, Absent
<1>2. Held(Swept(g)) \subseteq Held(entries)
  BY <1>1 DEF Held
<1>3. Cardinality(Held(Swept(g))) <= Cardinality(Held(entries))
  BY <1>2, HeldFinite, FS_Subset
<1> QED
  BY <1>1, <1>2, <1>3

LEMMA LeastNatural ==
  ASSUME NEW S \in SUBSET Nat, S # {}
  PROVE  \E m \in S : \A n \in S : m <= n
<1> DEFINE R == OpToRel(<, Nat)
<1>1. IsWellFoundedOn(R, Nat)
  BY NatLessThanWellFounded, Zenon
<1>2. \A m, n \in Nat : <<n, m>> \in R <=> n < m
  BY Zenon DEF OpToRel
<1> HIDE DEF R
<1>3. \E m \in S : \A n \in S : <<n, m>> \notin R
  BY <1>1, WFMin
<1>4. \E m \in S : \A n \in S : ~(n < m)
  BY <1>2, <1>3, Zenon
<1> QED
  BY <1>4

\* A full cache has an entry used least recently.
LEMMA VictimExists ==
  ASSUME NEW table \in [CacheKeys -> Nat], NEW key \in CacheKeys,
         table[key] = Absent, Cardinality(Held(table)) >= CacheSize
  PROVE  Victims(table, key) # {}
<1> DEFINE Ages == {table[k] : k \in Held(table)}
<1>1. PICK k \in Held(table) : TRUE
  BY FS_EmptySet, CacheAssumption, HeldFinite
<1>2. Ages \in SUBSET Nat /\ table[k] \in Ages
  BY <1>1 DEF Held
<1>3. PICK oldest \in Ages : \A age \in Ages : oldest <= age
  BY <1>1, <1>2, LeastNatural
<1>4. PICK v \in Held(table) : table[v] = oldest
  BY <1>3
<1>5. \A j \in Held(table) : table[v] <= table[j]
  BY <1>3, <1>4
<1>6. v \in {w \in Held(table) : \A j \in Held(table) : table[w] <= table[j]}
  BY <1>4, <1>5
<1>7. Cardinality(Held(table)) \in Nat
  BY HeldFinite
<1> QED
  BY <1>6, <1>7, CacheAssumption DEF Victims

LEMMA CacheTypeNext == CacheType /\ SizeInv /\ [CacheNext]_cacheVars => CacheType'
<1> SUFFICES ASSUME CacheType, SizeInv, [CacheNext]_cacheVars PROVE CacheType'
  OBVIOUS
<1> USE CacheAssumption
<1>1. CASE CacheTick
  BY <1>1 DEF CacheTick, CacheType
<1>2. ASSUME NEW g \in Getters, Locked(g) PROVE CacheType'
  <2>1. get[g].key \in CacheKeys /\ get[g].at \in Nat /\ Absent \in Nat /\ clock \in Nat
    BY DEF CacheType, Absent
  <2>2. entries' \in [CacheKeys -> Nat]
    BY <1>2, <2>1, SweptKeeps DEF Locked, Touched, Swept
  <2>3. get' \in [Getters -> [key : CacheKeys, at : Nat]]
    BY <1>2, IdleType DEF Locked, CacheType
  <2> QED
    BY <1>2, <2>1, <2>2, <2>3 DEF Locked, CacheType
<1>3. ASSUME NEW g \in Getters, NEW k \in CacheKeys, ReadClock(g, k) PROVE CacheType'
  BY <1>3 DEF ReadClock, CacheType
<1>4. CASE UNCHANGED cacheVars
  BY <1>4 DEF cacheVars, CacheType
<1> QED
  BY <1>1, <1>2, <1>3, <1>4 DEF CacheNext

\* The locked part of GetOrCreate, taken apart: what becomes of each entry.
LEMMA LockedEntries ==
  ASSUME CacheType, SizeInv, NEW g \in Getters, Locked(g)
  PROVE  \E gone \in SUBSET CacheKeys :
           /\ IF Victims(Swept(g), get[g].key) = {} THEN gone = {}
              ELSE \E v \in Victims(Swept(g), get[g].key) : gone = {v}
           /\ get[g].at # Absent /\ entries'[get[g].key] = get[g].at
           /\ \A k \in CacheKeys \ {get[g].key} :
                entries'[k] = IF k \in gone THEN Absent ELSE Swept(g)[k]
<1>1. get[g].key \in CacheKeys
  BY DEF CacheType
<1>2. Victims(Swept(g), get[g].key) \subseteq CacheKeys
  BY DEF Victims, Held
<1>3. PICK gone \in IF Victims(Swept(g), get[g].key) = {} THEN {{}}
                    ELSE {{v} : v \in Victims(Swept(g), get[g].key)} :
        entries' = [k \in CacheKeys |->
                      IF k = get[g].key THEN Touched(Swept(g)[k], get[g].at)
                      ELSE IF k \in gone THEN Absent ELSE Swept(g)[k]]
  BY DEF Locked, Swept
<1>4. get[g].at # Absent
  BY DEF Locked
<1>5. gone \in SUBSET CacheKeys
  BY <1>2, <1>3
<1> QED
  BY <1>1, <1>3, <1>4, <1>5 DEF Touched

LEMMA TimesInvNext ==
  CacheType /\ SizeInv /\ TimesInv /\ [CacheNext]_cacheVars => TimesInv'
<1> SUFFICES ASSUME CacheType, SizeInv, TimesInv, [CacheNext]_cacheVars PROVE TimesInv'
  OBVIOUS
<1> USE CacheAssumption
<1>1. CASE CacheTick
  BY <1>1 DEF CacheTick, CacheType, TimesInv, Held
<1>2. ASSUME NEW g \in Getters, Locked(g) PROVE TimesInv'
  <2>1. PICK gone \in SUBSET CacheKeys :
          /\ get[g].at # Absent /\ entries'[get[g].key] = get[g].at
          /\ \A k \in CacheKeys \ {get[g].key} :
               entries'[k] = IF k \in gone THEN Absent ELSE Swept(g)[k]
    BY <1>2, LockedEntries
  <2>2. /\ get[g].key \in CacheKeys /\ get[g].at \in Nat /\ clock \in Nat
        /\ clock' = clock /\ usedAt' = [usedAt EXCEPT ![get[g].key] = clock]
        /\ get' = [get EXCEPT ![g] = Idle]
    BY <1>2 DEF Locked, CacheType
  <2>3. \A h \in Getters : get'[h].at # Absent =>
          get'[h].at <= clock' /\ clock' <= get'[h].at + MaxWait
    BY <2>2, IdleType DEF TimesInv, CacheType
  <2>4. \A k \in CacheKeys : usedAt'[k] <= clock'
    BY <2>2 DEF TimesInv, CacheType
  <2>5. ASSUME NEW k \in CacheKeys, entries'[k] # Absent
        PROVE  entries'[k] <= usedAt'[k] /\ usedAt'[k] <= entries'[k] + MaxWait
    <3>1. CASE k = get[g].key
      BY <2>1, <2>2, <3>1 DEF TimesInv, CacheType
    <3>2. CASE k # get[g].key
      <4>1. entries'[k] = entries[k] /\ entries[k] # Absent
        BY <2>1, <2>5, <3>2, SweptKeeps
      <4>2. usedAt'[k] = usedAt[k]
        BY <2>2, <3>2 DEF CacheType
      <4> QED
        BY <4>1, <4>2 DEF TimesInv, Held
    <3> QED
      BY <3>1, <3>2
  <2> QED
    BY <2>3, <2>4, <2>5 DEF TimesInv, Held
<1>3. ASSUME NEW g \in Getters, NEW k \in CacheKeys, ReadClock(g, k) PROVE TimesInv'
  BY <1>3 DEF ReadClock, CacheType, TimesInv, Held
<1>4. CASE UNCHANGED cacheVars
  BY <1>4 DEF cacheVars, CacheType, TimesInv, Held
<1> QED
  BY <1>1, <1>2, <1>3, <1>4 DEF CacheNext

LEMMA SizeInvNext == CacheType /\ SizeInv /\ [CacheNext]_cacheVars => SizeInv'
<1> SUFFICES ASSUME CacheType, SizeInv, [CacheNext]_cacheVars PROVE SizeInv'
  OBVIOUS
<1>1. CASE UNCHANGED entries
  BY <1>1 DEF SizeInv, Held
<1>2. ASSUME NEW g \in Getters, Locked(g) PROVE SizeInv'
  <2> DEFINE key == get[g].key
             kept == Held(Swept(g))
  <2>1. PICK gone \in SUBSET CacheKeys :
          /\ IF Victims(Swept(g), key) = {} THEN gone = {}
             ELSE \E v \in Victims(Swept(g), key) : gone = {v}
          /\ get[g].at # Absent /\ entries'[key] = get[g].at
          /\ \A k \in CacheKeys \ {key} :
               entries'[k] = IF k \in gone THEN Absent ELSE Swept(g)[k]
    BY <1>2, LockedEntries
  <2>2. key \in CacheKeys /\ Swept(g) \in [CacheKeys -> Nat]
    BY SweptKeeps DEF CacheType
  <2>3. Held(entries') = (kept \ (gone \ {key})) \cup {key}
    BY <2>1, <2>2 DEF Held
  <2>4. IsFiniteSet(kept) /\ Cardinality(kept) \in Nat /\ Cardinality(kept) <= CacheSize
    <3>1. Cardinality(kept) <= Cardinality(Held(entries)) /\ Cardinality(Held(entries)) <= CacheSize
      BY SweptKeeps DEF SizeInv
    <3> QED
      BY <3>1, HeldFinite, CacheAssumption
  <2>5. CASE key \in kept
    <3>1. Held(entries') \subseteq kept
      BY <2>3, <2>5
    <3>2. Cardinality(Held(entries')) <= Cardinality(kept) /\ Cardinality(Held(entries')) \in Nat
      BY <2>4, <3>1, FS_Subset, FS_CardinalityType
    <3> QED
      BY <2>4, <3>2, CacheAssumption DEF SizeInv
  <2>6. CASE key \notin kept /\ Cardinality(kept) < CacheSize
    <3>1. Held(entries') \subseteq kept \cup {key}
      BY <2>3
    <3>2. /\ IsFiniteSet(kept \cup {key})
          /\ Cardinality(kept \cup {key}) = Cardinality(kept) + 1
      BY <2>4, <2>6, FS_AddElement
    <3>3. /\ Cardinality(Held(entries')) <= Cardinality(kept) + 1
          /\ Cardinality(Held(entries')) \in Nat
      BY <3>1, <3>2, FS_Subset, FS_CardinalityType
    <3> QED
      BY <2>4, <2>6, <3>3, CacheAssumption DEF SizeInv
  <2>7. CASE key \notin kept /\ Cardinality(kept) >= CacheSize
    <3>1. Swept(g)[key] = Absent
      BY <2>2, <2>7 DEF Held
    <3>2. PICK v \in Victims(Swept(g), key) : gone = {v}
      BY <2>1, <2>2, <2>7, <3>1, VictimExists
    <3>3. v \in kept /\ v # key
      BY <2>7, <3>2 DEF Victims
    <3>4. Held(entries') = (kept \ {v}) \cup {key}
      BY <2>3, <3>2, <3>3
    <3>5. IsFiniteSet(kept \ {v}) /\ Cardinality(kept \ {v}) = Cardinality(kept) - 1
      BY <2>4, <3>3, FS_RemoveElement
    <3>6. Cardinality(Held(entries')) = Cardinality(kept)
      <4>1. key \notin kept \ {v}
        BY <2>7
      <4>2. Cardinality((kept \ {v}) \cup {key}) = Cardinality(kept \ {v}) + 1
        BY <3>5, <4>1, FS_AddElement
      <4> QED
        BY <2>4, <3>4, <3>5, <4>2
    <3> QED
      BY <2>4, <3>6 DEF SizeInv
  <2> QED
    BY <2>4, <2>5, <2>6, <2>7, CacheAssumption
<1> QED
  BY <1>1, <1>2 DEF CacheNext, CacheTick, ReadClock, cacheVars

LEMMA CacheInvariant == CacheSpec => []CacheInv
<1>1. CacheInv /\ [CacheNext]_cacheVars => CacheInv'
  BY CacheTypeNext, TimesInvNext, SizeInvNext DEF CacheInv
<1> QED
  BY <1>1, CacheInvInit, PTL DEF CacheSpec

\* The cache never holds more than its limit.
THEOREM CacheIsBounded == CacheSpec => []SizeInv
  BY CacheInvariant, PTL DEF CacheInv

\* OnlyIdleEntriesGo: a late caller that sets an entry back in time costs no
\* session a server it has used within the TTL less one wait for the lock,
\* unless the cache is full (GetOrCreate).
THEOREM OnlyIdleGo == CacheSpec => OnlyIdleEntriesGo
<1> DEFINE Due ==
      \A k \in CacheKeys : Gone(k) =>
        \/ clock + MaxWait > usedAt[k] + CacheTTL
        \/ /\ Cardinality(Held(entries)) = CacheSize
           /\ \A j \in Held(entries') : usedAt[k] <= usedAt'[j] + MaxWait
<1>1. ASSUME CacheInv, [CacheNext]_cacheVars PROVE Due
  <2> SUFFICES ASSUME NEW k \in CacheKeys, entries[k] # Absent, entries'[k] = Absent
               PROVE  \/ clock + MaxWait > usedAt[k] + CacheTTL
                      \/ /\ Cardinality(Held(entries)) = CacheSize
                         /\ \A j \in Held(entries') : usedAt[k] <= usedAt'[j] + MaxWait
    BY DEF Gone
  <2> USE CacheAssumption
  <2>1. CacheType /\ TimesInv /\ SizeInv
    BY <1>1 DEF CacheInv
  <2>2. PICK g \in Getters : Locked(g)
    BY <1>1 DEF CacheNext, CacheTick, ReadClock, cacheVars
  <2> DEFINE key == get[g].key
  <2>3. PICK gone \in SUBSET CacheKeys :
          /\ IF Victims(Swept(g), key) = {} THEN gone = {}
             ELSE \E v \in Victims(Swept(g), key) : gone = {v}
          /\ get[g].at # Absent /\ entries'[key] = get[g].at
          /\ \A i \in CacheKeys \ {key} :
               entries'[i] = IF i \in gone THEN Absent ELSE Swept(g)[i]
    BY <2>1, <2>2, LockedEntries
  <2>4. /\ key \in CacheKeys /\ get[g].at \in Nat /\ clock \in Nat
        /\ usedAt' = [usedAt EXCEPT ![key] = clock] /\ usedAt \in [CacheKeys -> Nat]
        /\ entries \in [CacheKeys -> Nat]
    BY <2>1, <2>2 DEF Locked, CacheType
  <2>5. k # key
    BY <2>3
  <2>6. entries[k] <= usedAt[k] /\ usedAt[k] <= entries[k] + MaxWait /\ usedAt[k] <= clock
    BY <2>1 DEF TimesInv, Held
  <2>7. CASE Swept(g)[k] = Absent
    <3>1. Expired(entries[k], get[g].at)
      BY <2>7 DEF Swept, Sweep
    <3>2. get[g].at <= clock
      BY <2>1, <2>3 DEF TimesInv
    <3> QED
      BY <2>4, <2>6, <3>1, <3>2 DEF Expired
  <2>8. CASE Swept(g)[k] # Absent
    <3>1. gone = {k} /\ k \in Victims(Swept(g), key)
      BY <2>3, <2>5, <2>8
    <3>2. /\ Swept(g)[key] = Absent /\ ~(Cardinality(Held(Swept(g))) < CacheSize)
          /\ \A j \in Held(Swept(g)) : Swept(g)[k] <= Swept(g)[j]
      BY <3>1 DEF Victims
    <3>3. Cardinality(Held(entries)) = CacheSize
      <4>1. Cardinality(Held(Swept(g))) <= Cardinality(Held(entries))
        BY <2>1, SweptKeeps
      <4>2. Cardinality(Held(Swept(g))) \in Nat /\ Cardinality(Held(entries)) \in Nat
        BY HeldFinite
      <4> QED
        BY <2>1, <3>2, <4>1, <4>2 DEF SizeInv
    <3>4. ASSUME NEW j \in Held(entries') PROVE usedAt[k] <= usedAt'[j] + MaxWait
      <4>1. j \in CacheKeys /\ entries'[j] # Absent
        BY DEF Held
      <4>2. CASE j = key
        BY <2>4, <2>6, <4>2
      <4>3. CASE j # key
        <5>1. Swept(g)[j] = entries[j] /\ entries[j] # Absent /\ j \in Held(Swept(g))
          BY <2>1, <2>3, <4>1, <4>3, SweptKeeps DEF Held
        <5>2. Swept(g)[k] = entries[k]
          BY <2>1, <2>8, SweptKeeps
        <5>3. entries[k] <= entries[j]
          BY <3>2, <5>1, <5>2
        <5>4. entries[j] <= usedAt[j] /\ usedAt'[j] = usedAt[j]
          BY <2>1, <2>4, <4>1, <4>3, <5>1 DEF TimesInv, Held
        <5>5. entries[j] \in Nat /\ entries[k] \in Nat /\ usedAt[j] \in Nat /\ usedAt[k] \in Nat
          BY <2>4, <4>1
        <5> QED
          BY <2>6, <5>3, <5>4, <5>5
      <4> QED
        BY <4>2, <4>3
    <3> QED
      BY <3>3, <3>4
  <2> QED
    BY <2>7, <2>8
<1>2. [CacheNext]_cacheVars /\ CacheInv => [Due]_cacheVars
  BY <1>1
<1> QED
  BY <1>2, CacheInvariant, PTL DEF CacheSpec, OnlyIdleEntriesGo

-----------------------------------------------------------------------------
(* The token cache (TokenCache).                                           *)

TokenType ==
  /\ time \in Nat
  /\ held \in Senders \cup {Unlocked}
  /\ tokens \in [Audiences -> Nat]
  /\ send \in [Senders -> [pc : {"idle", "lock", "fetch", "sent", "failed"},
                           aud : Audiences, since : Nat]]

\* Who fetches holds the lock, and what the cache has for its audience is of no use.
FetchInv ==
  \A s \in Senders : send[s].pc = "fetch" => held = s /\ ~IsValid(tokens[send[s].aud])

TokenInv == TokenType /\ FetchInv

LEMMA TokenInvInit == TokenInit => TokenInv
<1>1. PICK a \in Audiences : a = CHOOSE any \in Audiences : TRUE
  BY TokenAssumption, Zenon
<1>2. Resting = [pc |-> "idle", aud |-> a, since |-> 0]
  BY <1>1, Zenon DEF Resting
<1> QED
  BY <1>2 DEF TokenInit, TokenInv, TokenType, FetchInv

LEMMA TokenInvNext == TokenInv /\ [TokenNext]_tokenVars => TokenInv'
<1> SUFFICES ASSUME TokenInv, [TokenNext]_tokenVars PROVE TokenInv'
  OBVIOUS
<1> USE TokenAssumption DEF TokenInv, TokenType, FetchInv, IsValid
<1>1. CASE TokenTick
  BY <1>1 DEF TokenTick
<1>2. ASSUME NEW s \in Senders, Lock(s) PROVE TokenInv'
  BY <1>2 DEF Lock, MayEnter
<1>3. ASSUME NEW s \in Senders, FetchFails(s) PROVE TokenInv'
  BY <1>3 DEF FetchFails
<1>4. ASSUME NEW s \in Senders, NEW l \in Lifetimes, Fetched(s, l) PROVE TokenInv'
  <2>1. l \in Nat
    BY DEF Lifetimes
  <2>2. held = s /\ \A r \in Senders \ {s} : send[r].pc # "fetch"
    BY <1>4 DEF Fetched
  <2>3. /\ send'[s].pc = "sent" /\ \A r \in Senders \ {s} : send'[r] = send[r]
        /\ send' \in [Senders -> [pc : {"idle", "lock", "fetch", "sent", "failed"},
                                  aud : Audiences, since : Nat]]
    BY <1>4 DEF Fetched
  <2>4. tokens' \in [Audiences -> Nat] /\ held' = Unlocked /\ time' = time
    BY <1>4, <2>1 DEF Fetched
  <2> QED
    BY <2>2, <2>3, <2>4
<1>5. ASSUME NEW s \in Senders, NEW a \in Audiences, Start(s, a) PROVE TokenInv'
  BY <1>5 DEF Start
<1>6. CASE UNCHANGED tokenVars
  BY <1>6 DEF tokenVars
<1> QED
  BY <1>1, <1>2, <1>3, <1>4, <1>5, <1>6 DEF TokenNext, FetchEnds

LEMMA TokenInvariant == TokenSpec => []TokenInv
  BY TokenInvInit, TokenInvNext, PTL DEF TokenSpec

\* NoFreshTokenReplaced: a token is replaced only when it is about to expire,
\* however many requests wait for the lock while one of them fetches (Token of
\* oidc/provider.go).
THEOREM FreshTokensStay == TokenSpec => NoFreshTokenReplaced
<1> DEFINE Stays == \A a \in Audiences : tokens'[a] # tokens[a] => ~IsValid(tokens[a])
<1>1. ASSUME TokenInv, [TokenNext]_tokenVars PROVE Stays
  <2>1. ASSUME NEW s \in Senders, NEW l \in Lifetimes, Fetched(s, l) PROVE Stays
    BY <1>1, <2>1 DEF TokenInv, TokenType, FetchInv, Fetched
  <2>2. CASE UNCHANGED tokens
    BY <2>2
  <2> QED
    BY <1>1, <2>1, <2>2
    DEF TokenNext, FetchEnds, TokenTick, Lock, FetchFails, Start, tokenVars
<1>2. [TokenNext]_tokenVars /\ TokenInv => [Stays]_tokenVars
  BY <1>1
<1> QED
  BY <1>2, TokenInvariant, PTL DEF TokenSpec, NoFreshTokenReplaced
=============================================================================
