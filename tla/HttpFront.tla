----------------------------- MODULE HttpFront -----------------------------
(***************************************************************************)
(* What an MCP request passes before the SDK sees it: the API key          *)
(* (server/middleware_auth.go), the signature and its nonces (hmac.go),    *)
(* the handshake done for clients that skip it (session_auto_init.go), and *)
(* the session that the headers name (session.go, auth/header.go).  The    *)
(* SDK's sessions are external.                                            *)
(***************************************************************************)
EXTENDS Naturals, Sequences

CONSTANTS Conns,       \* requests under way at a time
          FrontRequests,    \* what they may carry, see below
          Keys,        \* gateway.api_key: the values to check, Unset for none
          Secrets,     \* is an HMAC secret set
          MaxAge,      \* hmacMaxAgeSecs
          MaxNow,      \* bound: the clock stops here
          MaxMcpSessions  \* bound: MCP sessions made

ASSUME FrontAssumption ==
  /\ FrontRequests # {} /\ \A r \in FrontRequests : r.ts \in Nat /\ r.sid \in Nat
  /\ MaxAge \in Nat \ {0} /\ MaxNow \in Nat /\ MaxMcpSessions \in Nat

\* A request: agent is X-Agent-ID, auth is Authorization split at its scheme,
\* sid is Mcp-Session-Id (0 when absent), method the JSON-RPC method; nonce, ts
\* and signed describe the signature headers.
Unset == "unset"
Garbled == "garbled"     \* holds a control character: IsMalformedHeader
Nested == "a/b"          \* more than one path segment

VARIABLES now, apiKey, secret,
          nonces,    \* nonce -> eviction deadline, 0 when absent
          conn,      \* of each connection: pc, req, since, sid
          mcp,       \* the SDK's sessions: of each its owner and state
          taken      \* history: the signed requests that were let in

frontVars == <<now, apiKey, secret, nonces, conn, mcp, taken>>

NonceSet == {r.nonce : r \in FrontRequests}
Quiet == [pc |-> "idle", req |-> CHOOSE r \in FrontRequests : TRUE, since |-> 0, sid |-> 0]

FrontInit ==
  /\ now = 1
  /\ apiKey \in Keys /\ secret \in Secrets
  /\ nonces = [n \in NonceSet |-> 0]
  /\ conn = [c \in Conns |-> Quiet]
  /\ mcp = <<>>
  /\ taken = {}

-----------------------------------------------------------------------------
(* Who the headers say is calling.                                         *)

\* ExtractSessionID: the value behind a scheme, or the whole header.
ExtractSessionID(auth) == auth.value

ExtractSessionIDFromHeaders(r) ==
  IF r.agent # Unset
    THEN IF r.agent = Garbled THEN Unset ELSE r.agent
    ELSE IF r.auth.value = Garbled THEN Unset ELSE ExtractSessionID(r.auth)

IsSinglePathSegment(id) == id \notin {Unset, Nested}

\* extractAndValidateSession; Unset turns the session away.
SessionID(r) ==
  LET id == ExtractSessionIDFromHeaders(r)
  IN IF IsSinglePathSegment(id) THEN id ELSE Unset

-----------------------------------------------------------------------------
(* API key, signature, nonce.                                              *)

\* Exactly the key: "Bearer <key>" is another value.
Authenticated(r) == apiKey = Unset \/ (r.auth.scheme = "plain" /\ r.auth.value = apiKey)

InWindow(r) == r.ts <= now + MaxAge /\ now <= r.ts + MaxAge

\* evictExpired: a deadline is kept through its last instant.
Evicted(table) == [n \in NonceSet |-> IF now > table[n] THEN 0 ELSE table[n]]

\* A definition named X_Bug is X with one plausible bug; no specification uses it.
NonceTTL_Short(age) == age
NonceTTL(age) == 2 * age

Answer(c) == conn' = [conn EXCEPT ![c] = Quiet]

\* The two early checks, and the one for a nonce already seen.
Receive(c, r) ==
  /\ conn[c].pc = "idle"
  /\ LET table == IF secret /\ Authenticated(r) /\ InWindow(r) THEN Evicted(nonces) ELSE nonces
     IN /\ nonces' = table
        /\ IF ~Authenticated(r) \/ (secret /\ (~InWindow(r) \/ table[r.nonce] # 0))
             THEN UNCHANGED conn
             ELSE conn' = [conn EXCEPT ![c] =
                    [pc |-> IF secret THEN "reading" ELSE "inner", req |-> r,
                     since |-> IF secret THEN now ELSE 0, sid |-> r.sid]]
  /\ UNCHANGED <<now, apiKey, secret, mcp, taken>>

BodyFails(c) ==
  /\ conn[c].pc = "reading"
  /\ Answer(c)
  /\ UNCHANGED <<now, apiKey, secret, nonces, mcp, taken>>

\* The body is read, its signature compared, and the nonce taken if it still
\* is free: checkAndSet.
CheckSignature(c) ==
  LET r == conn[c].req
      table == IF r.signed THEN Evicted(nonces) ELSE nonces
  IN
  /\ conn[c].pc = "reading"
  /\ IF r.signed /\ table[r.nonce] = 0
       THEN /\ nonces' = [table EXCEPT ![r.nonce] = now + NonceTTL(MaxAge)]
            /\ conn' = [conn EXCEPT ![c].pc = "inner", ![c].since = 0]
            /\ taken' = taken \cup {<<r.nonce, r.ts>>}
       ELSE nonces' = table /\ Answer(c) /\ UNCHANGED taken
  /\ UNCHANGED <<now, apiKey, secret, mcp>>

\* Time matters to signatures only; a body may be read for any time.
FrontTick ==
  /\ secret /\ now < MaxNow
  /\ now' = now + 1
  /\ UNCHANGED <<apiKey, secret, nonces, conn, mcp, taken>>

-----------------------------------------------------------------------------
(* The SDK's streamable handler (external), and the handshake in front.    *)

Live(s) == s \in DOMAIN mcp /\ mcp[s].state # "expired"

NewSession(owner) == Append(mcp, [owner |-> owner, state |-> "new"])

\* A tools/call of no session.
NeedsHandshake(r) == r.sid = 0 /\ r.method = "tools/call"

CopyHeaders_NoAgent(r) == [r EXCEPT !.agent = Unset]
CopyHeaders(r) == r

\* The initialize request goes to the inner handler with the headers of the
\* original; what it lacks then is forwarded as it came.
AutoInitialize(c) ==
  LET owner == SessionID(CopyHeaders(conn[c].req))
  IN
  /\ conn[c].pc = "inner" /\ NeedsHandshake(conn[c].req)
  /\ IF owner = Unset
       THEN /\ conn' = [conn EXCEPT ![c].pc = "sdk"]
            /\ UNCHANGED mcp
       ELSE /\ Len(mcp) < MaxMcpSessions
            /\ mcp' = NewSession(owner)
            /\ conn' = [conn EXCEPT ![c].pc = "notify", ![c].sid = Len(mcp) + 1]
  /\ UNCHANGED <<now, apiKey, secret, nonces, taken>>

\* notifications/initialized: its answer is not looked at.
AutoNotify(c) ==
  LET s == conn[c].sid
  IN
  /\ conn[c].pc = "notify"
  /\ mcp' = IF Live(s) THEN [mcp EXCEPT ![s].state = "ready"] ELSE mcp
  /\ conn' = [conn EXCEPT ![c].pc = "sdk"]
  /\ UNCHANGED <<now, apiKey, secret, nonces, taken>>

ForwardUnchanged(c) ==
  /\ conn[c].pc = "inner" /\ ~NeedsHandshake(conn[c].req)
  /\ conn' = [conn EXCEPT ![c].pc = "sdk"]
  /\ UNCHANGED <<now, apiKey, secret, nonces, mcp, taken>>

\* A request in a session: the notification makes it ready, a call needs it to
\* be; an ID nobody knows is not found.
SdkInSession(c) ==
  LET s == conn[c].sid
  IN
  /\ conn[c].pc = "sdk" /\ s # 0
  /\ mcp' = IF Live(s) /\ conn[c].req.method = "initialized"
              THEN [mcp EXCEPT ![s].state = "ready"] ELSE mcp
  /\ IF Live(s) /\ conn[c].req.method = "tools/call" /\ mcp[s].state = "ready"
       THEN conn' = [conn EXCEPT ![c].pc = "running"]
       ELSE Answer(c)
  /\ UNCHANGED <<now, apiKey, secret, nonces, taken>>

\* Without one the factory decides (setupSessionCallback): no valid identity,
\* no server; any other method than initialize fails in a session so new.
SdkNewSession(c) ==
  LET r == conn[c].req
  IN
  /\ conn[c].pc = "sdk" /\ conn[c].sid = 0
  /\ IF r.method = "initialize" /\ SessionID(r) # Unset
       THEN Len(mcp) < MaxMcpSessions /\ mcp' = NewSession(SessionID(r))
       ELSE UNCHANGED mcp
  /\ Answer(c)
  /\ UNCHANGED <<now, apiKey, secret, nonces, taken>>

CallEnds(c) ==
  /\ conn[c].pc = "running"
  /\ Answer(c)
  /\ UNCHANGED <<now, apiKey, secret, nonces, mcp, taken>>

\* A session idle for MCP_GATEWAY_SESSION_TIMEOUT, or deleted by its client.
ExpireSession(s) ==
  /\ Live(s)
  /\ mcp' = [mcp EXCEPT ![s].state = "expired"]
  /\ UNCHANGED <<now, apiKey, secret, nonces, conn, taken>>

FrontNext ==
  \/ FrontTick
  \/ \E s \in DOMAIN mcp : ExpireSession(s)
  \/ \E c \in Conns :
       \/ \E r \in FrontRequests : Receive(c, r)
       \/ BodyFails(c) \/ CheckSignature(c)
       \/ AutoInitialize(c) \/ AutoNotify(c) \/ ForwardUnchanged(c)
       \/ SdkInSession(c) \/ SdkNewSession(c) \/ CallEnds(c)

FrontSpec == FrontInit /\ [][FrontNext]_frontVars

-----------------------------------------------------------------------------
(* Properties.                                                             *)

\* Of all copies of a signed request, at whatever time they come and however
\* their steps mix, one gets in: until its timestamp is too old its nonce is
\* still known (hmacMiddleware).  Nothing limits the time that reading a body
\* takes; a copy whose body took longer than a nonce is kept, twice the age
\* limit, is not covered.
AcceptedOnce ==
  [][\A c \in Conns :
       conn[c].pc = "reading" /\ conn'[c].pc = "inner" /\ now <= conn[c].since + 2 * MaxAge
         => <<conn[c].req.nonce, conn[c].req.ts>> \notin taken]_frontVars

\* A call that named no MCP session runs, if it runs, in one that finished its
\* handshake and belongs to whom the call's own headers name, as it would for
\* a client that had done the handshake itself (performSessionAutoInit).
RunsInOwnSession ==
  [][\A c \in Conns :
       conn'[c].pc = "running" /\ conn[c].pc # "running" /\ NeedsHandshake(conn[c].req)
         => LET s == mcp[conn[c].sid]
            IN s.state = "ready" /\ s.owner = SessionID(conn[c].req)]_frontVars
=============================================================================
