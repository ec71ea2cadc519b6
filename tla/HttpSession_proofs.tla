------------------------- MODULE HttpSession_proofs -------------------------
(* Proofs about an HTTP connection, for any number of requests and sessions. *)
EXTENDS HttpSession, TLAPS

USE ContextAssumption, NobodyAssumption, SessionBound DEF SessionIDs, NoSession, Gateway, Ended, Places

Holds(c) == reqPc[c] \in {"closing", "connecting"}

(* The lock is with the request that reconnects, which is on its first try. *)
LockInv ==
  \A c \in Requests :
    /\ Holds(c) <=> lock = c
    /\ reqPc[c] = "reconnect" \/ Holds(c) => attempt[c] = 1

(* The backend was told of the end of an SDK session that is about to be replaced. *)
CloseInv ==
  transport = "sdk" =>
    \A c \in Requests : reqPc[c] = "connecting" => alive \subseteq forgotten

IInv == SessionTypeOK /\ LockInv /\ CloseInv /\ SessionsReleased

-----------------------------------------------------------------------------
LEMMA FreshIsUnused ==
  ASSUME UnusedIDs # {}
  PROVE  FreshID \in UnusedIDs
BY DEF FreshID

LEMMA InitInv == SessionInit => IInv
<1> SUFFICES ASSUME SessionInit PROVE IInv
  OBVIOUS
<1> USE DEF SessionInit
<1>1. SessionTypeOK
  BY DEF SessionTypeOK
<1>2. LockInv /\ CloseInv /\ SessionsReleased
  BY DEF LockInv, Holds, CloseInv, SessionsReleased
<1>3. QED BY <1>1, <1>2 DEF IInv

(* The transport is chosen once. *)
LEMMA TransportFixed ==
  ASSUME [SessionNext]_sessionVars
  PROVE  transport' = transport
<1>1. ASSUME NEW c \in Requests, Begin(c) \/ Pick(c) \/ Sending(c) \/ Closed(c)
      PROVE  transport' = transport
  BY <1>1 DEF Begin, Pick, Sending, Issue, Refused, Answered, NotFound, Fails, Closed, connection
<1>2. ASSUME NEW c \in Requests, Reconnect(c) \/ Reconnected(c) \/ ReconnectFails(c)
      PROVE  transport' = transport
  BY <1>2 DEF Reconnect, Reconnected, ReconnectFails
<1>3. CASE (\E s \in SessionIDs : Expire(s)) \/ UNCHANGED sessionVars
  BY <1>3 DEF Expire, sessionVars, connection
<1>4. QED
  BY <1>1, <1>2, <1>3 DEF SessionNext, Connecting

(* Types. *)
LEMMA TypeStep ==
  ASSUME SessionTypeOK, LockInv, [SessionNext]_sessionVars
  PROVE  SessionTypeOK'
<1> USE DEF SessionTypeOK
<1>1. ASSUME NEW c \in Requests, Begin(c) \/ Pick(c)
      PROVE  SessionTypeOK'
  <2>1. CASE Begin(c)
    BY <2>1 DEF Begin, Restart, RequestGoto, connection, backend
  <2>2. CASE Pick(c)
    <3>1. Chosen(c) \in SessionIDs \cup {NoSession, Gateway}
      BY DEF Chosen
    <3>2. QED BY <2>2, <3>1 DEF Pick, RequestGoto, connection, backend
  <2>3. QED BY <1>1, <2>1, <2>2
<1>2. ASSUME NEW c \in Requests, Sending(c)
      PROVE  SessionTypeOK'
  <2>1. \E place \in Places : reqPc' = [reqPc EXCEPT ![c] = place]
    <3>1. CASE Issue(c) \/ Answered(c) \/ Fails(c)
      BY <3>1 DEF Issue, Answered, Fails, Restart, RequestGoto
    <3>2. CASE Refused(c)
      BY <3>2 DEF Refused, AfterNotFound, RequestGoto
    <3>3. CASE NotFound(c)
      BY <3>3 DEF NotFound, AfterNotFound, RequestGoto
    <3>4. QED BY <1>2, <3>1, <3>2, <3>3 DEF Sending
  <2>2. /\ attempt' \in [Requests -> {1, 2}]
        /\ sent' \in [Requests -> SessionIDs \cup {NoSession, Gateway}]
        /\ UNCHANGED <<connection, backend>>
    BY <1>2 DEF Sending, Issue, Refused, Answered, NotFound, Fails, Restart
  <2>3. reqPc' \in [Requests -> Places]
    BY <2>1
  <2>4. QED BY <2>2, <2>3 DEF connection, backend
<1>3. ASSUME NEW c \in Requests, Reconnect(c) \/ ReconnectFails(c)
      PROVE  SessionTypeOK'
  <2>1. CASE Reconnect(c)
    BY <2>1 DEF Reconnect, Closes, RequestGoto, backend
  <2>2. CASE ReconnectFails(c)
    BY <2>2 DEF ReconnectFails, Restart, RequestGoto, backend
  <2>3. QED BY <1>3, <2>1, <2>2
<1>4. ASSUME NEW c \in Requests, Closed(c)
      PROVE  SessionTypeOK'
  BY <1>4 DEF Closed, RequestGoto, connection
<1>5. ASSUME NEW c \in Requests, Reconnected(c)
      PROVE  SessionTypeOK'
  <2>1. FreshID \in SessionIDs /\ attempt[c] = 1
    BY <1>5, FreshIsUnused DEF Reconnected, AttemptAfter, UnusedIDs, LockInv, Holds
  <2>2. QED BY <1>5, <2>1 DEF Reconnected, AttemptAfter, RequestGoto
<1>6. ASSUME NEW s \in SessionIDs, Expire(s)
      PROVE  SessionTypeOK'
  BY <1>6 DEF Expire, connection, requestVars
<1>7. CASE UNCHANGED sessionVars
  BY <1>7 DEF sessionVars, connection, requestVars, backend
<1>8. QED
  BY <1>1, <1>2, <1>3, <1>4, <1>5, <1>6, <1>7 DEF SessionNext, Connecting

(* The lock, the closing and what the backend is left with. *)
ReleaseInv == LockInv /\ CloseInv /\ SessionsReleased

LEMMA ReleaseStep ==
  ASSUME SessionTypeOK, ReleaseInv, [SessionNext]_sessionVars
  PROVE  ReleaseInv'
<1>1. transport' = transport
  BY TransportFixed
<1> USE <1>1 DEF SessionTypeOK, ReleaseInv, LockInv, CloseInv, SessionsReleased, Holds
<1>2. ASSUME NEW c \in Requests, Begin(c) \/ Pick(c) \/ Sending(c)
      PROVE  ReleaseInv'
  <2>1. /\ \E place \in Places \ {"closing", "connecting"} : reqPc' = [reqPc EXCEPT ![c] = place]
        /\ reqPc'[c] = "reconnect" => attempt[c] = 1 /\ attempt' = attempt
        /\ ~Holds(c)
        /\ UNCHANGED <<current, closed, lock, alive, forgotten>>
    BY <1>2
    DEF Begin, Pick, Sending, Issue, Refused, Answered, NotFound, Fails, AfterNotFound, Restart, RequestGoto,
        connection, backend
  <2>2. \A d \in Requests \ {c} : attempt'[d] = attempt[d]
    BY <1>2 DEF Begin, Pick, Sending, Issue, Refused, Answered, NotFound, Fails, Restart
  <2>3. QED BY <2>1, <2>2
<1>3. ASSUME NEW c \in Requests, Reconnect(c)
      PROVE  ReleaseInv'
  BY <1>3 DEF Reconnect, Closes, RequestGoto, backend
<1>4. ASSUME NEW c \in Requests, Closed(c)
      PROVE  ReleaseInv'
  <2>1. lock = c /\ reqPc[c] = "closing" /\ reqPc' = [reqPc EXCEPT ![c] = "connecting"]
        /\ UNCHANGED <<current, closed, lock, attempt>>
    BY <1>4 DEF Closed, RequestGoto, connection
  <2>2. LockInv'
    BY <2>1
  <2>3. transport = "sdk" => alive' \subseteq forgotten'
    BY <1>4, <2>1 DEF Closed, Closes
  <2>4. QED BY <2>1, <2>2, <2>3
<1>5. ASSUME NEW c \in Requests, Reconnected(c)
      PROVE  ReleaseInv'
  <2>1. PICK x \in SessionIDs :
          /\ x \notin alive
          /\ current' = x
          /\ alive' = alive \cup {x}
          /\ forgotten' = forgotten \ {x}
    BY <1>5, FreshIsUnused DEF Reconnected, AttemptAfter, UnusedIDs
  <2>2. /\ lock = c /\ reqPc[c] = "connecting" /\ lock' = Nobody
        /\ reqPc' = [reqPc EXCEPT ![c] = "send"]
        /\ \A d \in Requests \ {c} : attempt'[d] = attempt[d]
    BY <1>5 DEF Reconnected, AttemptAfter, RequestGoto
  <2>3. LockInv'
    BY <2>2
  <2>4. CloseInv' /\ SessionsReleased'
    BY <2>1, <2>2
  <2>5. QED BY <2>3, <2>4
<1>6. ASSUME NEW c \in Requests, ReconnectFails(c)
      PROVE  ReleaseInv'
  BY <1>6 DEF ReconnectFails, Restart, RequestGoto, backend
<1>7. ASSUME NEW s \in SessionIDs, Expire(s)
      PROVE  ReleaseInv'
  BY <1>7 DEF Expire, connection, requestVars
<1>8. CASE UNCHANGED sessionVars
  BY <1>8 DEF sessionVars, connection, requestVars, backend
<1>9. QED
  BY <1>2, <1>3, <1>4, <1>5, <1>6, <1>7, <1>8 DEF SessionNext, Connecting

LEMMA NextInv == IInv /\ [SessionNext]_sessionVars => IInv'
BY TypeStep, ReleaseStep DEF IInv, ReleaseInv

(* The inductive invariant: who holds the lock, and what is left of the       *)
(* session being replaced (reconnectPlainJSON, reconnectSDKTransport).        *)
THEOREM Invariance == SessionSpec => []IInv
BY InitInv, NextInv, PTL DEF SessionSpec

(* Every reachable state is well typed; no request is tried three times. *)
THEOREM TypeCorrect == SessionSpec => []SessionTypeOK
<1>1. IInv => SessionTypeOK
  BY DEF IInv
<1>2. QED BY Invariance, <1>1, PTL

(* A reconnect of an SDK transport leaves no session behind at the backend. *)
THEOREM NoSessionLeft == SessionSpec => []SessionsReleased
<1>1. IInv => SessionsReleased
  BY DEF IInv
<1>2. QED BY Invariance, <1>1, PTL
=============================================================================
