---------------------------- MODULE HttpSession ----------------------------
(***************************************************************************)
(* One HTTP connection to a backend that manages sessions, shared by       *)
(* concurrent requests: a request that is told that the session is gone    *)
(* reconnects and is sent once more (connection_transport.go,              *)
(* http_transport.go in internal/mcp).                                     *)
(*                                                                         *)
(* "sdk" stands for the streamable and SSE transports, whose sessions are  *)
(* objects of the MCP SDK; "plain" for JSON-RPC over HTTP, whose session   *)
(* is an ID in a header.  The connection's sessionMu is written `lock'.    *)
(***************************************************************************)
EXTENDS Naturals

CONSTANTS Requests,     \* goroutines that send over the connection
          FromContext,  \* those made for an agent, with its session ID in their context
          Nobody,       \* the holder of a free lock
          MaxSessions   \* bound: sessions that are remembered at a time

ASSUME ContextAssumption == FromContext \subseteq Requests
ASSUME NobodyAssumption == Nobody \notin Requests
ASSUME SessionBound == MaxSessions \in Nat \ {0}

VARIABLES transport, \* "sdk" or "plain", whichever worked at first
          current,   \* httpSessionID, or the SDK session
          closed,    \* SDK sessions, in use, on which Close was called
          lock,      \* who holds sessionMu for writing
          reqPc, attempt, sent,  \* per request: place, first or second try, its session
          alive,     \* the sessions the backend knows
          forgotten  \* ghost: those whose end it was not told

connection == <<transport, current, closed, lock>>
requestVars == <<reqPc, attempt, sent>>
backend == <<alive, forgotten>>
sessionVars == <<connection, requestVars, backend>>

SessionIDs == 1..MaxSessions
NoSession == 0
Gateway == MaxSessions + 1  \* the session ID in the context, unknown to the backend

Ended == {"idle", "lost"}   \* "lost": with the session error; otherwise nothing is kept
Places == Ended \cup {"send", "picked", "wait", "reconnect", "closing", "connecting"}

SessionTypeOK ==
  /\ transport \in {"sdk", "plain"}
  /\ current \in SessionIDs
  /\ closed \subseteq SessionIDs
  /\ lock \in Requests \cup {Nobody}
  /\ reqPc \in [Requests -> Places]
  /\ attempt \in [Requests -> {1, 2}]
  /\ sent \in [Requests -> SessionIDs \cup {NoSession, Gateway}]
  /\ alive \subseteq SessionIDs
  /\ forgotten \subseteq SessionIDs

\* NewHTTPConnection has just connected with the first transport that works.
SessionInit ==
  /\ transport \in {"sdk", "plain"}
  /\ current = 1
  /\ closed = {}
  /\ lock = Nobody
  /\ reqPc = [c \in Requests |-> "idle"]
  /\ attempt = [c \in Requests |-> 1]
  /\ sent = [c \in Requests |-> NoSession]
  /\ alive = {1}
  /\ forgotten = {}

RequestGoto(c, place) == reqPc' = [reqPc EXCEPT ![c] = place]

\* A request is over, or a new one begins.
Restart(c, place) ==
  /\ RequestGoto(c, place)
  /\ attempt' = [attempt EXCEPT ![c] = 1]
  /\ sent' = [sent EXCEPT ![c] = NoSession]

-----------------------------------------------------------------------------
(* Sending: SendRequestWithServerID. *)
Begin(c) ==
  /\ reqPc[c] \in Ended
  /\ Restart(c, "send")
  /\ UNCHANGED <<connection, backend>>

\* The session a request goes out with.  The plain transport prefers the one in
\* the context, captured once for both tries, to the connection's, which is read
\* anew for each.
Chosen(c) == IF transport = "plain" /\ c \in FromContext THEN Gateway ELSE current

\* getSDKSession and getHTTPSessionID take the read lock.
Pick(c) ==
  /\ reqPc[c] = "send"
  /\ lock = Nobody
  /\ sent' = [sent EXCEPT ![c] = Chosen(c)]
  /\ RequestGoto(c, "picked")
  /\ UNCHANGED <<attempt, connection, backend>>

\* A closed SDK session refuses new requests.
Issue(c) ==
  /\ reqPc[c] = "picked"
  /\ sent[c] \notin closed
  /\ RequestGoto(c, "wait")
  /\ UNCHANGED <<attempt, sent, connection, backend>>

\* What an error that says "session not found" leads to.
AfterNotFound(c) == IF attempt[c] = 1 THEN "reconnect" ELSE "lost"

Refused(c) ==
  /\ reqPc[c] = "picked"
  /\ sent[c] \in closed
  /\ \E place \in {AfterNotFound(c), "lost"} : RequestGoto(c, place)
  /\ UNCHANGED <<attempt, sent, connection, backend>>

Answered(c) ==
  /\ reqPc[c] = "wait"
  /\ sent[c] \in alive
  /\ Restart(c, "idle")
  /\ UNCHANGED <<connection, backend>>

NotFound(c) ==
  /\ reqPc[c] = "wait"
  /\ sent[c] \notin alive
  /\ RequestGoto(c, AfterNotFound(c))
  /\ UNCHANGED <<attempt, sent, connection, backend>>

\* Any other error, and the tool timeout.
Fails(c) ==
  /\ reqPc[c] = "wait"
  /\ Restart(c, "idle")
  /\ UNCHANGED <<connection, backend>>

-----------------------------------------------------------------------------
(* Reconnecting: withReconnectLock, reconnectSDKTransport, reconnectPlainJSON. *)

\* The SDK session is closed first, whatever has become of it.
Closes_Never == {}
Closes == IF transport = "sdk" THEN {current} ELSE {}

Reconnect(c) ==
  /\ reqPc[c] = "reconnect"
  /\ lock = Nobody
  /\ lock' = c
  /\ closed' = closed \cup Closes
  /\ sent' = [sent EXCEPT ![c] = NoSession]
  /\ RequestGoto(c, "closing")
  /\ UNCHANGED <<transport, current, attempt, backend>>

\* Close waits for the requests under way and tells the backend, whose answer
\* nobody looks at.
Closed(c) ==
  /\ reqPc[c] = "closing"
  /\ \A d \in Requests : reqPc[d] = "wait" => sent[d] \notin Closes
  /\ \/ alive' = alive \ Closes /\ forgotten' = forgotten
     \/ alive' = alive /\ forgotten' = forgotten \cup (Closes \cap alive)
  /\ RequestGoto(c, "connecting")
  /\ UNCHANGED <<connection, attempt, sent>>

\* Session IDs that nothing refers to.
UnusedIDs == {s \in SessionIDs \ (alive \cup {current}) : \A c \in Requests : sent[c] # s}

FreshID == CHOOSE s \in UnusedIDs : TRUE

\* There is one retry, not a loop.
AttemptAfter_Loop(c) == attempt[c]
AttemptAfter(c) == attempt[c] + 1

Reconnected(c) ==
  /\ reqPc[c] = "connecting"
  /\ UnusedIDs # {}
  /\ current' = FreshID
  /\ alive' = alive \cup {FreshID}
  /\ closed' = {s \in closed : \E d \in Requests : sent[d] = s}
  /\ forgotten' = forgotten \ {FreshID}
  /\ lock' = Nobody
  /\ attempt' = [attempt EXCEPT ![c] = AttemptAfter(c)]
  /\ RequestGoto(c, "send")
  /\ UNCHANGED <<transport, sent>>

\* The first error is returned; the closed session stays.
ReconnectFails(c) ==
  /\ reqPc[c] = "connecting"
  /\ lock' = Nobody
  /\ Restart(c, "idle")
  /\ UNCHANGED <<transport, current, closed, backend>>

-----------------------------------------------------------------------------
\* The backend ends a session, for its age or because it restarts.
Expire(s) ==
  /\ s \in alive
  /\ alive' = alive \ {s}
  /\ forgotten' = forgotten \ {s}
  /\ UNCHANGED <<connection, requestVars>>

Sending(c) == Issue(c) \/ Refused(c) \/ Answered(c) \/ NotFound(c) \/ Fails(c)
Connecting(c) == Reconnected(c) \/ ReconnectFails(c)

SessionNext ==
  \/ \E c \in Requests :
       \/ Begin(c) \/ Pick(c) \/ Sending(c)
       \/ Reconnect(c) \/ Closed(c) \/ Connecting(c)
  \/ \E s \in SessionIDs : Expire(s)

SessionSpec == SessionInit /\ [][SessionNext]_sessionVars

\* Requests end by their deadline, a Go mutex starves nobody, and the SDK's
\* connecting has a timeout, which the plain transport's initialize has not.
SessionFairness ==
  \A c \in Requests :
    /\ WF_sessionVars(Sending(c))
    /\ SF_sessionVars(Pick(c)) /\ SF_sessionVars(Reconnect(c))
    /\ WF_sessionVars(Closed(c))
    /\ WF_sessionVars(transport = "sdk" /\ Connecting(c))

SessionFairSpec == SessionSpec /\ SessionFairness

-----------------------------------------------------------------------------
(* Properties. *)

\* A retry ends in a session error only if the backend ended its session: to
\* reconnect is "safe for concurrent callers" (connection_transport.go:29, 44),
\* and no request loses the session it has just been given to another one.
RetryLostOnlyIfExpired ==
  \A c \in Requests : reqPc[c] = "lost" /\ attempt[c] = 2 => sent[c] \notin closed

\* The backend is left with no session but the current one, those whose end it
\* was not told and the one being closed (connection_transport.go:47-50).
SessionsReleased ==
  transport = "sdk" => alive \subseteq {current} \cup forgotten

\* A retry goes out in the session the connection then has: it "attempts a
\* one-time session reconnect and retries the request transparently"
\* (http_transport.go:564-565), and the "retry should use the reconnected
\* session" (http_transport_test.go:986).
RetriesInNewSession ==
  [][\A c \in Requests :
       reqPc[c] = "send" /\ reqPc'[c] = "picked" /\ attempt[c] = 2
         => sent'[c] = current]_sessionVars

\* Every request over an SDK transport ends: calls are "bounded by toolTimeout
\* rather than hanging indefinitely" (unified.go:369-371), and so is the wait
\* for the lock, since connecting has a timeout (connection_transport.go:71-72).
RequestsEnd ==
  \A c \in Requests : transport = "sdk" /\ reqPc[c] = "send" ~> reqPc[c] \in Ended
=============================================================================
