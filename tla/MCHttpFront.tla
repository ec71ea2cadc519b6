---------------------------- MODULE MCHttpFront -----------------------------
(***************************************************************************)
(* Signed requests at four times; requests under every kind of identity;   *)
(* requests in a session that may or may not exist.                        *)
(***************************************************************************)
EXTENDS HttpFront

PlainKey(v) == [scheme |-> "plain", value |-> v]
Bearer(v) == [scheme |-> "Bearer", value |-> v]

Ping == [agent |-> "ada", auth |-> PlainKey("key"), sid |-> 0, method |-> "ping",
         nonce |-> "n1", ts |-> 1, signed |-> TRUE]
OutOfDate == 99

Signed == {[Ping EXCEPT !.ts = i, !.signed = b] : i \in 1..4, b \in BOOLEAN}
Headed ==
  {[Ping EXCEPT !.agent = a, !.auth = h, !.method = m, !.ts = OutOfDate] :
     a \in {Unset, "ada", Nested}, h \in {PlainKey("key"), Bearer("key"), PlainKey(Unset)},
     m \in {"initialize", "tools/call"}}
InSession ==
  {[Ping EXCEPT !.sid = 1, !.method = m, !.ts = OutOfDate] : m \in {"initialized", "tools/call"}}

MCFrontRequests == Signed \cup Headed \cup InSession
=============================================================================
