---------------------------- MODULE Proxy_proofs ----------------------------
(***************************************************************************)
(* Proofs about the proxy that filters by a guard's labels (Proxy), for    *)
(* any clients, labels and answers; about the table that names the tool of *)
(* a path (Router), for paths of any length; and about the rewriting of    *)
(* GraphQL queries (GraphqlRewrite), for queries of any length.            *)
(*                                                                         *)
(* AskInv says of each request what its phases have established; the       *)
(* labels of the shared agent only widen what it may read, so the steps of *)
(* others do not undo it.  The same invariant carries the refinement of    *)
(* the reading half of the reference monitor.  The index of the table is   *)
(* exact because a row filed under a segment matches only paths that have  *)
(* it, and the rows that are filed under none come last.                   *)
(*                                                                         *)
(* A rewritten query is the query with its tokens moved apart by fields    *)
(* (Movement): a field is no brace, so what lies between two tokens of the *)
(* query is as balanced as before (EnclosesMoved), nodes and the names of  *)
(* their connections stay what they were, and the fields land in the block *)
(* whose brace they follow.  The code finds the block of a token walking   *)
(* back from it and the property finds it from where blocks end: SameBlock *)
(* shows, from the depth of the braces, that a closed query has both the   *)
(* same.                                                                   *)
(***************************************************************************)
EXTENDS Router, Proxy, GraphqlRewrite, FiniteSetTheorems, SequenceTheorems,
        WellFoundedInduction, TLAPS

-----------------------------------------------------------------------------
(* The filtering proxy (Proxy).                                            *)

\* The phases of a request (handleWithDIFC).
AskPlaces == {"idle", "passthrough", "unrecognized", "label", "forward", "labelResponse",
              "filter", "accumulate", "accumulateIntegrity", "reply"}

AskType == [pc : AskPlaces, op : Operations, res : ProxyLabels \cup {NoLabels}, routed : BOOLEAN,
            allowed : BOOLEAN, labelled : BOOLEAN, todo : SUBSET ProxyLabels,
            accessible : SUBSET ProxyLabels, filtered : SUBSET ProxyLabels]

ProxyType ==
  /\ proxy \in [phase : {"new", "up", "down"}, mode : ProxyModes, ready : BOOLEAN]
  /\ ask \in [Clients -> AskType]

\* Nobody asks, and nothing is told, before the agent has its labels.
NewInv ==
  proxy.phase # "up" => psec = {} /\ told = {} /\ slipped = {} /\ \A c \in Clients : ask[c] = NoRequest

\* The agent, as it is now, may read d.
Readable(d) == CanRead(Agent, d)

\* What the phases of a request have established, and what the labels of the
\* agent, which only widen what it may read, do not take away.
AskInv(c) ==
  LET q == ask[c] IN
  /\ q.pc = "filter" => q.labelled
  /\ q.pc \in {"forward", "labelResponse"} => q.routed
  /\ q.labelled => q.op # "write"
  /\ q.pc = "accumulateIntegrity" => proxy.mode = "propagate"
  /\ proxy.mode = "strict" /\ q.pc # "filter" => q.filtered = {}
  /\ q.pc \in {"accumulate", "accumulateIntegrity", "reply"} => q.labelled \/ q.allowed
  /\ proxy.mode # "propagate" =>
       /\ q.allowed /\ q.routed /\ q.op # "write" => Readable(q.res)
       /\ \A i \in q.accessible : Readable(i)
  /\ proxy.mode = "propagate" /\ q.op # "write" =>
       /\ q.pc \in {"accumulateIntegrity", "reply"} => ReadLabels(c).sec \subseteq psec
       /\ q.pc = "reply" => pint \subseteq ReadLabels(c).int

\* RepliesReadable is part of its own strengthening.
ProxyInv == ProxyType /\ NewInv /\ RepliesReadable /\ \A c \in Clients : AskInv(c)

\* A client that asks for nothing.
LEMMA RestingAsk == NoRequest \in AskType /\ NoRequest.pc = "idle"
  BY DEF NoRequest, AskType, AskPlaces, Operations

\* Nothing is asked or told at the start.
LEMMA ProxyInvInit == ProxyInit => ProxyInv
<1> SUFFICES ASSUME ProxyInit PROVE ProxyInv
  OBVIOUS
<1>1. ProxyType
  BY RestingAsk DEF ProxyInit, ProxyType
<1>2. \A c \in Clients : ask[c] = NoRequest
  BY DEF ProxyInit
<1>3. NewInv /\ RepliesReadable
  BY <1>2, RestingAsk DEF ProxyInit, NewInv, RepliesReadable
<1>4. \A c \in Clients : AskInv(c)
  BY <1>2 DEF AskInv, NoRequest
<1> QED
  BY <1>1, <1>3, <1>4 DEF ProxyInv

\* The labels of the agent only widen what it may read.
Widens == psec \subseteq psec' /\ pint' \subseteq pint

\* Labels that widen take nothing out of reach.
LEMMA ReadableStays ==
  ASSUME Widens, NEW d, Readable(d)
  PROVE  Readable(d)'
  BY DEF Widens, Readable, Agent, CanRead, IntegrityFlows, SecrecyFlows, Covers

\* A step of client c: what it has to show for the invariant to hold after it.
StepOf(c) ==
  /\ \E changed \in AskType : ask' = [ask EXCEPT ![c] = changed]
  /\ proxy' = proxy /\ proxy.phase = "up" /\ Widens
  /\ AskInv(c)'
  /\ \A d \in told' : d \in told \/ Readable(d)'
  /\ proxy.mode = "strict" /\ "items" \in slipped' => "items" \in slipped

\* A step of one client that shows this keeps the invariant of all.
LEMMA StepKeeps ==
  ASSUME ProxyInv, NEW c \in Clients, StepOf(c)
  PROVE  ProxyInv'
<1> USE DEF ProxyInv
<1>1. PICK changed \in AskType : ask' = [ask EXCEPT ![c] = changed]
  BY DEF StepOf
<1>2. ProxyType'
  BY <1>1 DEF StepOf, ProxyType
<1>3. NewInv'
  BY DEF StepOf, NewInv
<1>4. RepliesReadable'
  BY ReadableStays DEF StepOf, RepliesReadable, Readable
<1>5. ASSUME NEW b \in Clients PROVE AskInv(b)'
  <2>1. CASE b = c
    BY <2>1 DEF StepOf
  <2>2. CASE b # c
    <3>1. ask'[b] = ask[b] /\ proxy' = proxy /\ Widens
      BY <1>1, <2>2 DEF StepOf, ProxyType
    <3>2. ReadLabels(b)' = ReadLabels(b)
      BY <3>1 DEF ReadLabels
    <3>3. AskInv(b)
      OBVIOUS
    <3>4. \A d : Readable(d) => Readable(d)'
      BY <3>1, ReadableStays
    <3>5. /\ ask[b].pc = "filter" => ask[b].labelled
          /\ ask[b].pc \in {"forward", "labelResponse"} => ask[b].routed
          /\ ask[b].labelled => ask[b].op # "write"
          /\ ask[b].pc = "accumulateIntegrity" => proxy.mode = "propagate"
          /\ proxy.mode = "strict" /\ ask[b].pc # "filter" => ask[b].filtered = {}
          /\ ask[b].pc \in {"accumulate", "accumulateIntegrity", "reply"} =>
               ask[b].labelled \/ ask[b].allowed
      BY <3>3 DEF AskInv
    <3>6. proxy.mode # "propagate" =>
            /\ ask[b].allowed /\ ask[b].routed /\ ask[b].op # "write" => Readable(ask[b].res)'
            /\ \A i \in ask[b].accessible : Readable(i)'
      BY <3>1, <3>3, <3>4 DEF AskInv, Readable
    <3>7. proxy.mode = "propagate" /\ ask[b].op # "write" =>
            /\ ask[b].pc \in {"accumulateIntegrity", "reply"} => ReadLabels(b).sec \subseteq psec'
            /\ ask[b].pc = "reply" => pint' \subseteq ReadLabels(b).int
      BY <3>1, <3>3 DEF AskInv, Widens
    <3> QED
      BY <3>1, <3>2, <3>5, <3>6, <3>7 DEF AskInv
  <2> QED
    BY <2>1, <2>2
<1> QED
  BY <1>2, <1>3, <1>4, <1>5

\* A request that is answered leaves nothing to keep.
LEMMA Answered ==
  ASSUME ProxyInv, NEW c \in Clients, Reply(c), UNCHANGED <<proxy, psec, pint>>,
         ask[c].pc # "idle", \A d \in told' : d \in told \/ Readable(d),
         proxy.mode = "strict" /\ "items" \in slipped' => "items" \in slipped
  PROVE  StepOf(c)
<1>1. proxy.phase = "up" /\ Widens
  BY RestingAsk DEF ProxyInv, NewInv, Widens
<1>2. ask'[c] = NoRequest
  BY DEF Reply, Step, ProxyInv, ProxyType
<1>3. AskInv(c)'
  BY <1>2 DEF AskInv, NoRequest
<1>4. \A d \in told' : d \in told \/ Readable(d)'
  BY <1>1, ReadableStays
<1> QED
  BY <1>1, <1>3, <1>4, RestingAsk DEF StepOf, Reply, Step

\* A request that goes on without a change of the agent's labels.
LEMMA GoesOn ==
  ASSUME ProxyInv, NEW c \in Clients, NEW changed \in AskType, Step(c, changed),
         UNCHANGED <<proxy, psec, pint, history>>, proxy.phase = "up", AskInv(c)'
  PROVE  StepOf(c)
  BY DEF StepOf, Step, Widens, history

\* The same, for a step that only moves on.
LEMMA Moved ==
  ASSUME ProxyInv, NEW c \in Clients, NEW pc \in AskPlaces, Move(c, pc)
  PROVE  /\ [ask[c] EXCEPT !.pc = pc] \in AskType /\ Step(c, [ask[c] EXCEPT !.pc = pc])
         /\ ask'[c] = [ask[c] EXCEPT !.pc = pc] /\ ask'[c].pc = pc
         /\ ask'[c].op = ask[c].op /\ ask'[c].res = ask[c].res /\ ask'[c].routed = ask[c].routed
         /\ ask'[c].allowed = ask[c].allowed /\ ask'[c].labelled = ask[c].labelled
         /\ ask'[c].accessible = ask[c].accessible /\ ask'[c].filtered = ask[c].filtered
         /\ ReadLabels(c)' = ReadLabels(c)
<1>1. [ask[c] EXCEPT !.pc = pc] \in AskType
  BY DEF AskType, ProxyInv, ProxyType
<1>2. ask'[c] = [ask[c] EXCEPT !.pc = pc]
  BY DEF Move, Step, ProxyInv, ProxyType
<1>3. ask[c] \in AskType
  BY DEF ProxyInv, ProxyType
<1> QED
  BY <1>1, <1>2, <1>3 DEF Move, AskType, ReadLabels

\* A whole answer that is passed on for a check that holds is readable.
LEMMA PassedOn ==
  ASSUME NEW c \in Clients, AskInv(c), ask[c].allowed, ask[c].routed, PassOn(c)
  PROVE  \A d \in told' : d \in told \/ Readable(d)
  BY DEF PassOn, AskInv

\* Phases 0 to 3.
LEMMA EarlyStep ==
  ASSUME ProxyInv, NEW c \in Clients,
         Receive(c) \/ Passthrough(c) \/ Unrecognized(c) \/ LabelResource(c) \/ Forward(c)
  PROVE  StepOf(c)
<1>1. /\ ask[c] \in AskType /\ AskInv(c) /\ (ask[c].pc # "idle" => proxy.phase = "up")
      /\ proxy.mode \in Modes
  BY ProxyAssumption, RestingAsk DEF ProxyInv, ProxyType, NewInv
<1>2. ASSUME Reply(c), UNCHANGED <<proxy, psec, pint, history>>, ask[c].pc # "idle" PROVE StepOf(c)
  BY <1>2, Answered DEF history
<1>3. CASE Receive(c)
  <2>1. PICK pc \in {"passthrough", "unrecognized", "label"} : Move(c, pc)
    BY <1>3 DEF Receive
  <2>2. AskInv(c)'
    BY <1>1, <1>3, <2>1, Moved DEF Receive, AskInv, Readable, Agent, AskPlaces
  <2> QED
    BY <1>3, <2>1, <2>2, Moved, GoesOn DEF Receive, AskPlaces
<1>4. CASE Passthrough(c)
  BY <1>2, <1>4 DEF Passthrough
<1>5. CASE Unrecognized(c)
  <2>1. CASE Reply(c)
    BY <1>2, <1>5, <2>1 DEF Unrecognized
  <2>2. CASE Step(c, [NoRequest EXCEPT !.pc = "accumulate", !.allowed = TRUE])
    <3> DEFINE changed == [NoRequest EXCEPT !.pc = "accumulate", !.allowed = TRUE]
    <3>1. /\ changed \in AskType /\ changed.pc = "accumulate" /\ changed.allowed
          /\ ~changed.labelled /\ ~changed.routed /\ changed.accessible = {}
          /\ changed.filtered = {}
      BY DEF NoRequest, AskType, AskPlaces, Operations
    <3>2. ask'[c] = changed
      BY <2>2 DEF Step, ProxyInv, ProxyType
    <3>3. AskInv(c)'
      BY <3>1, <3>2 DEF AskInv
    <3> QED
      BY <1>1, <1>5, <2>2, <3>1, <3>3, GoesOn DEF Unrecognized
  <2> QED
    BY <1>5, <2>1, <2>2 DEF Unrecognized
<1>6. CASE LabelResource(c)
  <2>1. CASE Reply(c)
    BY <1>2, <1>6, <2>1 DEF LabelResource
  <2>2. CASE ~Reply(c)
    <3>1. PICK op \in ProxyOps, res \in ProxyLabels :
            LET outcome == CoarseOutcome(proxy.mode, Agent, res, op)
            IN  Step(c, [NoRequest EXCEPT !.pc = "forward", !.op = op, !.res = res,
                                          !.routed = TRUE, !.allowed = outcome = "allowed"])
      BY <1>6, <2>2 DEF LabelResource
    <3> DEFINE allowed == CoarseOutcome(proxy.mode, Agent, res, op) = "allowed"
               changed == [NoRequest EXCEPT !.pc = "forward", !.op = op, !.res = res,
                                            !.routed = TRUE, !.allowed = allowed]
    <3>2. op \in Operations
      BY ProxyAssumption
    <3>3. /\ changed \in AskType /\ changed.pc = "forward" /\ changed.op = op /\ changed.res = res
          /\ changed.routed
          /\ changed.allowed = allowed /\ ~changed.labelled /\ changed.accessible = {}
          /\ changed.filtered = {}
      BY <3>2 DEF NoRequest, AskType, AskPlaces
    <3>4. ask'[c] = changed
      BY <3>1 DEF Step, ProxyInv, ProxyType
    <3>5. allowed /\ proxy.mode # "propagate" /\ op # "write" => Readable(res)
      BY <3>2 DEF CoarseOutcome, IsAllowed, Readable, Operations
    <3> HIDE DEF allowed, changed
    <3>6. UNCHANGED <<proxy, psec, pint>>
      BY <1>6 DEF LabelResource
    <3>7. AskInv(c)'
      BY <3>3, <3>4, <3>5, <3>6 DEF AskInv, Readable, Agent
    <3> QED
      BY <1>1, <1>6, <3>1, <3>3, <3>7, GoesOn DEF LabelResource, allowed, changed
  <2> QED
    BY <2>1, <2>2
<1>7. CASE Forward(c)
  <2>1. CASE ForwardFails(c)
    BY <1>2, <2>1 DEF ForwardFails
  <2>2. CASE ForwardAsIs(c)
    <3>1. /\ ask[c].pc = "forward" /\ Reply(c) /\ UNCHANGED <<proxy, psec, pint>>
          /\ told' = told \/ (PassOn(c) /\ ask[c].allowed)
          /\ slipped' = slipped \/ slipped' = slipped \cup {"whole"}
      BY <2>2 DEF ForwardAsIs, PassOn
    <3>2. \A d \in told' : d \in told \/ Readable(d)
      BY <1>1, <3>1, PassedOn DEF AskInv
    <3> QED
      BY <3>1, <3>2, Answered
  <2>3. CASE ForwardJson(c)
    <3>1. AskInv(c)'
      BY <1>1, <2>3, Moved DEF ForwardJson, AskInv, Readable, Agent, AskPlaces
    <3> QED
      BY <1>1, <2>3, <3>1, Moved, GoesOn DEF ForwardJson, AskPlaces
  <2> QED
    BY <1>7, <2>1, <2>2, <2>3 DEF Forward
<1> QED
  BY <1>3, <1>4, <1>5, <1>6, <1>7

\* Phases 4 and 5.
LEMMA FilterStep ==
  ASSUME ProxyInv, NEW c \in Clients,
         \/ LabelResponseFails(c) \/ LabelResponseNil(c) \/ LabelResponseItems(c)
         \/ FilterItem(c) \/ FilterRefuses(c) \/ FilterPasses(c)
  PROVE  StepOf(c)
<1>1. /\ ask[c] \in AskType /\ AskInv(c) /\ (ask[c].pc # "idle" => proxy.phase = "up")
      /\ proxy.mode \in Modes
  BY ProxyAssumption, RestingAsk DEF ProxyInv, ProxyType, NewInv
<1>2. ASSUME Reply(c), UNCHANGED <<proxy, psec, pint, history>>, ask[c].pc # "idle" PROVE StepOf(c)
  BY <1>2, Answered DEF history
<1>3. CASE LabelResponseFails(c)
  <2>1. /\ Reply(c) /\ UNCHANGED <<proxy, psec, pint>> /\ ask[c].pc # "idle" /\ ask[c].routed
        /\ told' = told \/ (PassOn(c) /\ ask[c].allowed)
        /\ slipped' = slipped \/ slipped' = slipped \cup {"whole"}
    BY <1>1, <1>3 DEF LabelResponseFails, MayFallBack, PassOn, history, AskInv
  <2>2. \A d \in told' : d \in told \/ Readable(d)
    BY <1>1, <2>1, PassedOn
  <2> QED
    BY <2>1, <2>2, Answered
<1>4. CASE LabelResponseNil(c)
  <2>1. CASE Reply(c)
    BY <1>2, <1>4, <2>1 DEF LabelResponseNil
  <2>2. CASE Move(c, "accumulate") /\ ask[c].allowed
    <3>1. AskInv(c)'
      BY <1>1, <1>4, <2>2, Moved DEF LabelResponseNil, AskInv, Readable, Agent, AskPlaces
    <3> QED
      BY <1>1, <1>4, <2>2, <3>1, Moved, GoesOn DEF LabelResponseNil, AskPlaces
  <2> QED
    BY <1>4, <2>1, <2>2 DEF LabelResponseNil, MayFallBack
<1>5. CASE LabelResponseItems(c)
  <2>1. PICK items \in ProxyResponses :
          Step(c, [ask[c] EXCEPT !.pc = "filter", !.labelled = TRUE, !.todo = items])
    BY <1>5 DEF LabelResponseItems
  <2> DEFINE changed == [ask[c] EXCEPT !.pc = "filter", !.labelled = TRUE, !.todo = items]
  <2>2. /\ changed \in AskType /\ changed.pc = "filter" /\ changed.op = ask[c].op
        /\ changed.labelled
        /\ changed.res = ask[c].res /\ changed.routed = ask[c].routed
        /\ changed.allowed = ask[c].allowed /\ changed.accessible = ask[c].accessible
    BY <1>1, ProxyAssumption DEF AskType, AskPlaces
  <2>3. ask'[c] = changed
    BY <2>1 DEF Step, ProxyInv, ProxyType
  <2> HIDE DEF changed
  <2>4. ask[c].op # "write" /\ UNCHANGED <<proxy, psec, pint>>
    BY <1>5 DEF LabelResponseItems, ShouldCallLabelResponse
  <2>5. AskInv(c)'
    BY <1>1, <2>2, <2>3, <2>4 DEF AskInv, Readable, Agent
  <2> QED
    BY <1>1, <1>5, <2>1, <2>2, <2>5, GoesOn DEF LabelResponseItems, changed
<1>6. CASE FilterItem(c)
  <2>1. PICK i \in ask[c].todo :
          IF IsAllowed(proxy.mode, Agent, i, ask[c].op)
            THEN Step(c, [ask[c] EXCEPT !.todo = @ \ {i}, !.accessible = @ \cup {i}])
            ELSE Step(c, [ask[c] EXCEPT !.todo = @ \ {i}, !.filtered = @ \cup {i}])
    BY <1>6 DEF FilterItem
  <2>2. i \in ProxyLabels
    BY <1>1 DEF AskType
  <2> DEFINE kept == [ask[c] EXCEPT !.todo = @ \ {i}, !.accessible = @ \cup {i}]
             dropped == [ask[c] EXCEPT !.todo = @ \ {i}, !.filtered = @ \cup {i}]
  <2>3. /\ kept \in AskType /\ kept.pc = ask[c].pc /\ kept.op = ask[c].op /\ kept.res = ask[c].res
        /\ kept.routed = ask[c].routed /\ kept.allowed = ask[c].allowed
        /\ kept.labelled = ask[c].labelled /\ kept.accessible = ask[c].accessible \cup {i}
    BY <1>1, <2>2 DEF AskType
  <2>4. /\ dropped \in AskType /\ dropped.pc = ask[c].pc /\ dropped.op = ask[c].op
        /\ dropped.res = ask[c].res /\ dropped.routed = ask[c].routed
        /\ dropped.allowed = ask[c].allowed /\ dropped.labelled = ask[c].labelled
        /\ dropped.accessible = ask[c].accessible
    BY <1>1, <2>2 DEF AskType
  <2> HIDE DEF kept, dropped
  <2>5. \A q \in {kept, dropped} :
          /\ q \in AskType /\ q.pc = ask[c].pc /\ q.op = ask[c].op /\ q.res = ask[c].res
          /\ q.routed = ask[c].routed /\ q.allowed = ask[c].allowed /\ q.labelled = ask[c].labelled
          /\ q.accessible \in {ask[c].accessible, ask[c].accessible \cup {i}}
    BY <2>3, <2>4
  <2>6. PICK q \in {kept, dropped} :
          /\ Step(c, q)
          /\ q = dropped \/ (q = kept /\ IsAllowed(proxy.mode, Agent, i, ask[c].op))
    BY <2>1 DEF kept, dropped
  <2>7. ask'[c] = q
    BY <2>6 DEF Step, ProxyInv, ProxyType
  <2>8. UNCHANGED <<proxy, psec, pint>> /\ ask[c].pc = "filter"
    BY <1>6 DEF FilterItem
  <2>9. ask[c].labelled
    BY <1>1, <2>8 DEF AskInv
  <2>10. ask[c].op # "write" /\ ask[c].op \in Operations
    BY <1>1, <2>9 DEF AskInv, AskType
  <2>11. IsAllowed(proxy.mode, Agent, i, ask[c].op) /\ proxy.mode # "propagate" => Readable(i)
    BY <2>10 DEF IsAllowed, Readable, Operations
  <2>12. proxy.mode # "propagate" => \A x \in q.accessible : Readable(x)
    BY <1>1, <2>4, <2>5, <2>6, <2>11 DEF AskInv
  <2>13. AskInv(c)'
    BY <1>1, <2>5, <2>7, <2>8, <2>10, <2>12 DEF AskInv, Readable, Agent
  <2> QED
    BY <1>1, <1>6, <2>5, <2>6, <2>8, <2>13, GoesOn DEF FilterItem
<1>7. CASE FilterRefuses(c)
  BY <1>2, <1>7 DEF FilterRefuses
<1>8. CASE FilterPasses(c)
  <2>1. Move(c, "accumulate") /\ ask[c].labelled
    BY <1>1, <1>8 DEF FilterPasses, AskInv
  <2>2. proxy.mode = "strict" => ask[c].filtered = {}
    BY <1>8 DEF FilterPasses, ShouldBlockFilteredResponse
  <2>3. AskInv(c)'
    BY <1>1, <1>8, <2>1, <2>2, Moved DEF FilterPasses, AskInv, Readable, Agent, AskPlaces
  <2> QED
    BY <1>1, <1>8, <2>1, <2>3, Moved, GoesOn DEF FilterPasses, AskPlaces
<1> QED
  BY <1>3, <1>4, <1>5, <1>6, <1>7, <1>8

\* Phase 6 and the reply.
LEMMA LateStep ==
  ASSUME ProxyInv, NEW c \in Clients,
         SkipAccumulation(c) \/ AccumulateSecrecy(c) \/ AccumulateIntegrity(c) \/ Respond(c)
  PROVE  StepOf(c)
<1>1. /\ ask[c] \in AskType /\ AskInv(c) /\ (ask[c].pc # "idle" => proxy.phase = "up")
      /\ proxy.mode \in Modes
  BY ProxyAssumption, RestingAsk DEF ProxyInv, ProxyType, NewInv
<1>2. CASE SkipAccumulation(c)
  <2>1. Move(c, "reply") /\ (proxy.mode # "propagate" \/ ask[c].op = "write")
    BY <1>2 DEF SkipAccumulation, ShouldAccumulateReadLabels
  <2>2. AskInv(c)'
    BY <1>1, <1>2, <2>1, Moved DEF SkipAccumulation, AskInv, Readable, Agent, AskPlaces
  <2> QED
    BY <1>1, <1>2, <2>1, <2>2, Moved, GoesOn DEF SkipAccumulation, AskPlaces
<1>3. CASE AccumulateSecrecy(c)
  <2>1. /\ Move(c, "accumulateIntegrity") /\ proxy.mode = "propagate"
        /\ psec' = psec \cup ReadLabels(c).sec /\ UNCHANGED <<proxy, pint, told, slipped>>
        /\ ask[c].pc = "accumulate"
    BY <1>3 DEF AccumulateSecrecy, Raised, ShouldAccumulateReadLabels, history
  <2>2. AskInv(c)'
    BY <1>1, <2>1, Moved DEF AskInv, AskPlaces
  <2>3. Widens
    BY <2>1 DEF Widens
  <2> QED
    BY <1>1, <2>1, <2>2, <2>3, Moved DEF StepOf, Step, AskPlaces
<1>4. CASE AccumulateIntegrity(c)
  <2>1. /\ Move(c, "reply") /\ pint' = pint \cap ReadLabels(c).int
        /\ UNCHANGED <<proxy, psec, told, slipped>> /\ ask[c].pc = "accumulateIntegrity"
    BY <1>4 DEF AccumulateIntegrity, history
  <2>2. proxy.mode = "propagate"
    BY <1>1, <2>1 DEF AskInv
  <2>3. AskInv(c)'
    BY <1>1, <2>1, <2>2, Moved DEF AskInv, AskPlaces
  <2>4. Widens
    BY <2>1 DEF Widens
  <2> QED
    BY <1>1, <2>1, <2>3, <2>4, Moved DEF StepOf, Step, AskPlaces
<1>5. CASE Respond(c)
  <2>1. ask[c].pc = "reply" /\ Reply(c) /\ UNCHANGED <<proxy, psec, pint>>
        /\ (told' = told \/ told' = told \cup Labels(c))
    BY <1>5 DEF Respond, history
  <2>2. ASSUME NEW d \in Labels(c) PROVE Readable(d)
    <3>1. CASE ask[c].labelled /\ proxy.mode # "propagate"
      BY <1>1, <2>2, <3>1 DEF Labels, AskInv
    <3>2. CASE proxy.mode = "propagate"
      <4>1. d = ReadLabels(c) /\ ask[c].op # "write"
        BY <1>1, <2>2, <3>2 DEF Labels, ReadLabels, AskInv
      <4>2. d.sec \subseteq psec /\ pint \subseteq d.int
        BY <1>1, <2>1, <3>2, <4>1 DEF AskInv
      <4> QED
        BY <4>2 DEF Readable, Agent, CanRead, IntegrityFlows, SecrecyFlows, Covers
    <3>3. CASE ~ask[c].labelled /\ proxy.mode # "propagate"
      BY <1>1, <2>1, <2>2, <3>3 DEF Labels, AskInv
    <3> QED
      BY <3>1, <3>2, <3>3
  <2>3. proxy.mode = "strict" => ask[c].filtered = {}
    BY <1>1, <2>1 DEF AskInv
  <2>4. proxy.mode = "strict" /\ "items" \in slipped' => "items" \in slipped
    BY <1>5, <2>3 DEF Respond, history
  <2> QED
    BY <2>1, <2>2, <2>4, Answered
<1> QED
  BY <1>2, <1>3, <1>4, <1>5

\* Every step of every client, and the start of the proxy, keeps the invariant.
LEMMA ProxyInvNext == ProxyInv /\ [ProxyNext]_proxyVars => ProxyInv'
<1> SUFFICES ASSUME ProxyInv, [ProxyNext]_proxyVars PROVE ProxyInv'
  OBVIOUS
<1>1. ASSUME NEW c \in Clients, ProxyStep(c) PROVE ProxyInv'
  BY <1>1, EarlyStep, FilterStep, LateStep, StepKeeps DEF ProxyStep
<1>2. CASE NewFails \/ NewWithoutPolicy \/ InitGuardPolicy
  <2>1. proxy.phase # "up" /\ told' = told /\ slipped' = slipped /\ ask' = ask
    BY <1>2 DEF NewFails, NewWithoutPolicy, InitGuardPolicy, history
  <2>2. told = {} /\ slipped = {} /\ \A c \in Clients : ask[c] = NoRequest
    BY <2>1 DEF ProxyInv, NewInv
  <2>3. ProxyType'
    <3>1. proxy' \in [phase : {"new", "up", "down"}, mode : ProxyModes, ready : BOOLEAN]
      <4>1. CASE NewFails \/ NewWithoutPolicy
        <5>1. PICK phase \in {"up", "down"} : proxy' = [proxy EXCEPT !.phase = phase]
          BY <4>1 DEF NewFails, NewWithoutPolicy
        <5> QED
          BY <5>1 DEF ProxyInv, ProxyType
      <4>2. CASE InitGuardPolicy
        BY <4>2 DEF InitGuardPolicy
      <4> QED
        BY <1>2, <4>1, <4>2
    <3> QED
      BY <2>1, <3>1 DEF ProxyInv, ProxyType
  <2>4. NewInv' /\ RepliesReadable'
    BY <1>2, <2>1, <2>2 DEF ProxyInv, NewInv, RepliesReadable, NewFails, NewWithoutPolicy,
                            InitGuardPolicy
  <2>5. \A c \in Clients : AskInv(c)'
    BY <2>1, <2>2 DEF AskInv, NoRequest
  <2> QED
    BY <2>3, <2>4, <2>5 DEF ProxyInv
<1>3. CASE UNCHANGED proxyVars
  BY <1>3
  DEF proxyVars, history, ProxyInv, ProxyType, NewInv, RepliesReadable, AskInv, Readable, Agent, ReadLabels
<1> QED
  BY <1>1, <1>2, <1>3 DEF ProxyNext

\* The invariant of the proxy.
LEMMA ProxyInvariant == ProxySpec => []ProxyInv
  BY ProxyInvInit, ProxyInvNext, PTL DEF ProxySpec

\* RepliesReadable, for any clients, guard, labels and answers: what a check let
\* through stays within what the shared agent may read, and in strict mode no
\* reply holds an item that failed its check (handleWithDIFC).
THEOREM RepliesStayReadable == ProxySpec => []RepliesReadable
  BY ProxyInvariant, PTL DEF ProxyInv

-----------------------------------------------------------------------------
(* The proxy implements the reading half of the reference monitor.         *)

\* The labels of responses, one by one and taken together, are labels of the monitor.
LEMMA ProxyLabelsAreLabels ==
  /\ ProxyLabels \cup {NoLabels} \subseteq ProxyLattice
  /\ \A items \in SUBSET ProxyLabels : Overall(items) \in ProxyLattice
<1>1. ProxyLabels \subseteq ProxyLattice
  BY ProxyAssumption DEF ProxyLattice, ProxyTags
<1>2. NoLabels \in ProxyLattice
  BY DEF NoLabels, ProxyLattice
<1>3. ASSUME NEW items \in SUBSET ProxyLabels PROVE Overall(items) \in ProxyLattice
  BY <1>3 DEF Overall, ProxyLattice, ProxyTags
<1> QED
  BY <1>1, <1>2, <1>3

\* So are those a request carries.
LEMMA ReadLabelsAreLabels ==
  ASSUME ProxyInv, NEW c \in Clients
  PROVE  /\ ReadLabels(c) \in ProxyLattice
         /\ Labels(c) \subseteq ProxyLattice /\ ask[c].res \in ProxyLattice
<1>1. /\ ask[c].res \in ProxyLabels \cup {NoLabels}
      /\ ask[c].accessible \in SUBSET ProxyLabels /\ ask[c].filtered \in SUBSET ProxyLabels
  BY DEF ProxyInv, ProxyType, AskType
<1>2. ReadLabels(c) \in ProxyLattice
  BY <1>1, ProxyLabelsAreLabels DEF ReadLabels
<1> QED
  BY <1>1, <1>2, ProxyLabelsAreLabels DEF Labels

\* A step that only raises the clearance is a Raise of the monitor.
LEMMA MonitorRaise ==
  ASSUME NEW S \in SUBSET ProxyTags, psec' = psec \cup S, told' = told
  PROVE  ProxyMonitor!Next
<1>1. ProxyMonitor!Raise("proxy")
  BY DEF ProxyMonitor!Raise
<1> QED
  BY <1>1 DEF ProxyMonitor!Next

\* A step that only tells, and leaves every reply readable, is a Learn.
LEMMA MonitorLearn ==
  ASSUME NEW D \in SUBSET ProxyLattice, told' = told \cup D, psec' = psec, RepliesReadable'
  PROVE  ProxyMonitor!Next
<1>1. \A d \in D : ProxyMonitor!Covers(psec, d.sec)
  BY DEF RepliesReadable, CanRead, SecrecyFlows, Agent, Covers, ProxyMonitor!Covers
<1>2. ProxyMonitor!Learn("proxy")
  BY <1>1 DEF ProxyMonitor!Learn
<1> QED
  BY <1>2 DEF ProxyMonitor!Next

\* The steps that reply with what a check let through.
Tells(c) == ForwardAsIs(c) \/ LabelResponseFails(c) \/ Respond(c)

\* Every step of the proxy is a step of the monitor or a stutter.
LEMMA MonitorStep ==
  ProxyInv /\ [ProxyNext]_proxyVars => [ProxyMonitor!Next]_ProxyMonitor!mvars
<1> SUFFICES ASSUME ProxyInv, [ProxyNext]_proxyVars
             PROVE  [ProxyMonitor!Next]_ProxyMonitor!mvars
  OBVIOUS
<1>1. RepliesReadable'
  BY ProxyInvNext DEF ProxyInv
<1>2. CASE UNCHANGED <<psec, told>>
  BY <1>2 DEF ProxyMonitor!mvars
<1>3. CASE InitGuardPolicy
  <2>1. PICK grant \in ProxyGrants : psec' = grant.sec
    BY <1>3 DEF InitGuardPolicy
  <2>2. psec = {} /\ told' = told /\ grant.sec \in SUBSET ProxyTags
    BY <1>3 DEF InitGuardPolicy, history, ProxyInv, NewInv, ProxyTags
  <2> QED
    BY <2>1, <2>2, MonitorRaise
<1>4. ASSUME NEW c \in Clients, AccumulateSecrecy(c) PROVE ProxyMonitor!Next
  <2>1. ReadLabels(c).sec \in SUBSET ProxyTags
    BY ReadLabelsAreLabels DEF ProxyLattice
  <2> QED
    BY <1>4, <2>1, MonitorRaise DEF AccumulateSecrecy, Raised, history
<1>5. ASSUME NEW c \in Clients, Tells(c), told' # told PROVE ProxyMonitor!Next
  <2>1. psec' = psec /\ \E D \in {{ask[c].res}, Labels(c)} : told' = told \cup D
    BY <1>5 DEF Tells, ForwardAsIs, LabelResponseFails, Respond, PassOn, history
  <2> QED
    BY <1>1, <2>1, ReadLabelsAreLabels, MonitorLearn
<1>6. ASSUME NEW c \in Clients, ProxyStep(c), ~AccumulateSecrecy(c), ~(Tells(c) /\ told' # told)
      PROVE  UNCHANGED <<psec, told>>
  BY <1>6 DEF ProxyStep, Tells, Receive, Passthrough, Unrecognized, LabelResource, Forward,
       ForwardFails, ForwardAsIs, ForwardJson, LabelResponseFails, LabelResponseNil,
       LabelResponseItems, FilterItem, FilterRefuses, FilterPasses, SkipAccumulation,
       AccumulateIntegrity, Respond, history
<1>7. CASE NewFails \/ NewWithoutPolicy \/ UNCHANGED proxyVars
  BY <1>2, <1>7 DEF NewFails, NewWithoutPolicy, proxyVars, history
<1> QED
  BY <1>2, <1>3, <1>4, <1>5, <1>6, <1>7 DEF ProxyNext

\* ReadsAreMonitored: whatever its clients ask and in whatever order their
\* requests run, the proxy only ever raises the clearance of the agent they
\* share, and what a check let through is within it; what no check stops, which
\* slipped records, is no part of the claim (handleWithDIFC).
THEOREM ProxyIsMonitor == ProxySpec => ReadsAreMonitored
<1>1. ProxyInit => ProxyMonitor!Init
  BY DEF ProxyInit, ProxyMonitor!Init
<1> QED
  BY <1>1, ProxyInvariant, MonitorStep, PTL DEF ProxySpec, ReadsAreMonitored, ProxyMonitor!Spec

-----------------------------------------------------------------------------
(* The route table (Router). *)

\* An element of a pattern that stands for itself only.
Literal(p) == p \notin {Digits, One, Rest, Empty}

\* What the rows of the table have in common.
WellFormed(row) ==
  LET p == row.pattern
  IN /\ Len(p) \in Nat \ {0} /\ Literal(p[1])
     /\ p[1] = "repos" =>
          /\ Len(p) >= 3 /\ p[2] = One /\ p[3] = One
          /\ Len(p) > 3 => Literal(p[4]) \/ (p[4] = Rest /\ Len(p) = 4)

\* A row that the index files under a segment of the path.
KeyedRow(row) == WellFormed(row) /\ RouteKey(row) # Empty

\* A pattern with a literal fourth segment is filed under that segment.
LEMMA KeyedPattern ==
  ASSUME NEW row, Len(row.pattern) \in Nat, Len(row.pattern) > 3,
         row.pattern[1] = "repos", row.pattern[2] = One, row.pattern[3] = One,
         Literal(row.pattern[4])
  PROVE  KeyedRow(row)
<1>1. Literal("repos")
  BY Zenon DEF Literal, Empty, Digits, One, Rest
<1>2. row.pattern[4] # Rest /\ row.pattern[4] # Empty
  BY DEF Literal
<1>3. WellFormed(row)
  BY <1>1, <1>2 DEF WellFormed
<1>4. RouteKey(row) # Empty
  BY <1>1, <1>2 DEF RouteKey
<1> QED
  BY <1>3, <1>4 DEF KeyedRow

\* The rows of a repository that name a sub-resource.
LEMMA InRepoKeyed ==
  ASSUME NEW tool, NEW tail,
         LET p == <<"repos", One, One>> \o tail
         IN /\ Len(p) \in Nat /\ Len(p) > 3
            /\ p[1] = "repos" /\ p[2] = One /\ p[3] = One /\ Literal(p[4])
  PROVE  KeyedRow(InRepo(tool, tail))
<1> DEFINE row == InRepo(tool, tail)
<1>1. row.pattern = <<"repos", One, One>> \o tail
  BY DEF InRepo, Row
<1>2. /\ Len(row.pattern) \in Nat /\ Len(row.pattern) > 3
      /\ row.pattern[1] = "repos" /\ row.pattern[2] = One /\ row.pattern[3] = One
      /\ Literal(row.pattern[4])
  BY <1>1, Zenon
<1> HIDE DEF row
<1> QED
  BY <1>2, KeyedPattern DEF row

\* Tails of up to six segments.
LEMMA TailsKeyed ==
  ASSUME NEW tool, NEW a, Literal(a)
  PROVE  /\ KeyedRow(InRepo(tool, <<a>>))
         /\ \A b : KeyedRow(InRepo(tool, <<a, b>>))
         /\ \A b, c : KeyedRow(InRepo(tool, <<a, b, c>>))
         /\ \A b, c, d : KeyedRow(InRepo(tool, <<a, b, c, d>>))
         /\ \A b, c, d, e, f : KeyedRow(InRepo(tool, <<a, b, c, d, e, f>>))
<1>1. KeyedRow(InRepo(tool, <<a>>))
  BY InRepoKeyed
<1>2. \A b : KeyedRow(InRepo(tool, <<a, b>>))
  BY InRepoKeyed
<1>3. \A b, c : KeyedRow(InRepo(tool, <<a, b, c>>))
  BY InRepoKeyed
<1>4. \A b, c, d : KeyedRow(InRepo(tool, <<a, b, c, d>>))
  BY InRepoKeyed
<1>5. \A b, c, d, e, f : KeyedRow(InRepo(tool, <<a, b, c, d, e, f>>))
  BY InRepoKeyed
<1> QED
  BY <1>1, <1>2, <1>3, <1>4, <1>5

\* The four parts of the table, row by row.
LEMMA IssuesKeyed ==
  Len(IssueRoutes) = 10 /\ \A i \in 1..10 : KeyedRow(IssueRoutes[i])
<1>1. Literal("issues") /\ Literal("pulls")
  BY Zenon DEF Literal, Empty, Digits, One, Rest
<1>2. Len(IssueRoutes) = 10
  BY DEF IssueRoutes
<1>3. \A i \in 1..10 : KeyedRow(IssueRoutes[i])
  BY <1>1, TailsKeyed DEF IssueRoutes
<1> QED
  BY <1>2, <1>3

\* The rows outside a repository.
LEMMA TopLevelKeyed ==
  ASSUME NEW tool, NEW pattern,
         Len(pattern) \in Nat \ {0}, Literal(pattern[1]), pattern[1] # "repos"
  PROVE  KeyedRow(Row(tool, pattern))
<1> DEFINE row == Row(tool, pattern)
<1>1. row.pattern = pattern
  BY DEF Row
<1> HIDE DEF row
<1>2. WellFormed(row) /\ RouteKey(row) # Empty
  BY <1>1 DEF WellFormed, RouteKey, Literal
<1> QED
  BY <1>2 DEF KeyedRow, row

\* The rows about the contents of a repository.
LEMMA ContentsKeyed ==
  Len(ContentRoutes) = 12 /\ \A i \in 1..12 : KeyedRow(ContentRoutes[i])
<1>1. /\ Literal("commits") /\ Literal("branches") /\ Literal("git") /\ Literal("tags")
      /\ Literal("releases") /\ Literal("contents") /\ Literal("labels")
  BY Zenon DEF Literal, Empty, Digits, One, Rest
<1>2. Len(ContentRoutes) = 12
  BY DEF ContentRoutes
<1>3. /\ KeyedRow(ContentRoutes[1]) /\ KeyedRow(ContentRoutes[2]) /\ KeyedRow(ContentRoutes[3])
      /\ KeyedRow(ContentRoutes[4]) /\ KeyedRow(ContentRoutes[5]) /\ KeyedRow(ContentRoutes[6])
      /\ KeyedRow(ContentRoutes[7]) /\ KeyedRow(ContentRoutes[8]) /\ KeyedRow(ContentRoutes[9])
      /\ KeyedRow(ContentRoutes[10]) /\ KeyedRow(ContentRoutes[11]) /\ KeyedRow(ContentRoutes[12])
  BY <1>1, TailsKeyed DEF ContentRoutes
<1> QED
  BY <1>2, <1>3

\* The rows about workflows and what belongs to them.
LEMMA ActionsKeyed ==
  Len(ActionRoutes) = 17 /\ \A i \in 1..17 : KeyedRow(ActionRoutes[i])
<1>1. Literal("actions") /\ Literal("environments")
  BY Zenon DEF Literal, Empty, Digits, One, Rest
<1>2. Len(ActionRoutes) = 17
  BY DEF ActionRoutes
<1>3. /\ KeyedRow(ActionRoutes[1]) /\ KeyedRow(ActionRoutes[2]) /\ KeyedRow(ActionRoutes[3])
      /\ KeyedRow(ActionRoutes[4]) /\ KeyedRow(ActionRoutes[5]) /\ KeyedRow(ActionRoutes[6])
      /\ KeyedRow(ActionRoutes[7]) /\ KeyedRow(ActionRoutes[8]) /\ KeyedRow(ActionRoutes[9])
      /\ KeyedRow(ActionRoutes[10]) /\ KeyedRow(ActionRoutes[11]) /\ KeyedRow(ActionRoutes[12])
      /\ KeyedRow(ActionRoutes[13]) /\ KeyedRow(ActionRoutes[14]) /\ KeyedRow(ActionRoutes[15])
      /\ KeyedRow(ActionRoutes[16]) /\ KeyedRow(ActionRoutes[17])
  BY <1>1, TailsKeyed DEF ActionRoutes
<1> QED
  BY <1>2, <1>3

\* The other rows; the last two are those filed under no segment.
LEMMA OthersKeyed ==
  /\ Len(OtherRoutes) = 19
  /\ \A i \in 1..17 : KeyedRow(OtherRoutes[i])
  /\ OtherRoutes[18] = InRepo("get_file_contents", <<>>)
  /\ OtherRoutes[19] = InRepo("get_file_contents", <<Rest>>)
<1>1. /\ Literal("discussions") /\ Literal("commits") /\ Literal("notifications")
      /\ Literal("user") /\ Literal("orgs") /\ Literal("search")
  BY Zenon DEF Literal, Empty, Digits, One, Rest
<1>2. Len(OtherRoutes) = 19
  BY DEF OtherRoutes
<1>3. /\ KeyedRow(OtherRoutes[1]) /\ KeyedRow(OtherRoutes[2])
      /\ KeyedRow(OtherRoutes[3]) /\ KeyedRow(OtherRoutes[4]) /\ KeyedRow(OtherRoutes[5])
  BY <1>1, TopLevelKeyed DEF OtherRoutes
<1>4. /\ KeyedRow(OtherRoutes[6]) /\ KeyedRow(OtherRoutes[7])
      /\ KeyedRow(OtherRoutes[8]) /\ KeyedRow(OtherRoutes[9])
  BY <1>1, TopLevelKeyed DEF OtherRoutes
<1>5. /\ KeyedRow(OtherRoutes[10]) /\ KeyedRow(OtherRoutes[11]) /\ KeyedRow(OtherRoutes[12])
      /\ KeyedRow(OtherRoutes[13]) /\ KeyedRow(OtherRoutes[14])
  BY <1>1, TailsKeyed DEF OtherRoutes
<1>6. /\ KeyedRow(OtherRoutes[15]) /\ KeyedRow(OtherRoutes[16]) /\ KeyedRow(OtherRoutes[17])
  BY <1>1, TopLevelKeyed DEF OtherRoutes
<1>7. /\ OtherRoutes[18] = InRepo("get_file_contents", <<>>)
      /\ OtherRoutes[19] = InRepo("get_file_contents", <<Rest>>)
  BY DEF OtherRoutes
<1> QED
  BY <1>2, <1>3, <1>4, <1>5, <1>6, <1>7

\* The parts are sequences, over any set that has their rows.
LEMMA TablesAreSequences ==
  ASSUME NEW S
  PROVE  /\ (\A i \in 1..10 : IssueRoutes[i] \in S) => IssueRoutes \in Seq(S)
         /\ (\A i \in 1..12 : ContentRoutes[i] \in S) => ContentRoutes \in Seq(S)
         /\ (\A i \in 1..17 : ActionRoutes[i] \in S) => ActionRoutes \in Seq(S)
         /\ (\A i \in 1..19 : OtherRoutes[i] \in S) => OtherRoutes \in Seq(S)
<1>1. (\A i \in 1..10 : IssueRoutes[i] \in S) => IssueRoutes \in Seq(S)
  BY DEF IssueRoutes
<1>2. (\A i \in 1..19 : OtherRoutes[i] \in S) => OtherRoutes \in Seq(S)
  BY DEF OtherRoutes
<1>3. (\A i \in 1..12 : ContentRoutes[i] \in S) => ContentRoutes \in Seq(S)
  BY DEF ContentRoutes
<1>4. (\A i \in 1..17 : ActionRoutes[i] \in S) => ActionRoutes \in Seq(S)
  BY DEF ActionRoutes
<1> QED
  BY <1>1, <1>2, <1>3, <1>4

\* The first m rows of a table are keyed.
Keyed(table, m) == m \in 0..Len(table) /\ \A i \in 1..m : KeyedRow(table[i])

\* Two parts joined: lengths add up, and the keyed prefix grows.
LEMMA Joined ==
  ASSUME NEW S, NEW s \in Seq(S), NEW t \in Seq(S), NEW m,
         Keyed(s, Len(s)), Keyed(t, m)
  PROVE  /\ s \o t \in Seq(S) /\ Len(s \o t) = Len(s) + Len(t)
         /\ Keyed(s \o t, Len(s) + m)
         /\ \A i \in 1..Len(t) : (s \o t)[Len(s) + i] = t[i]
<1> DEFINE st == s \o t
<1>1. /\ st \in Seq(S) /\ Len(st) = Len(s) + Len(t)
      /\ \A i \in 1..(Len(s) + Len(t)) :
           st[i] = IF i <= Len(s) THEN s[i] ELSE t[i - Len(s)]
  BY ConcatProperties
<1>2. /\ Len(s) \in Nat /\ Len(t) \in Nat /\ m \in 0..Len(t)
      /\ \A i \in 1..Len(s) : KeyedRow(s[i])
      /\ \A i \in 1..m : KeyedRow(t[i])
  BY DEF Keyed
<1> HIDE DEF st
<1>3. ASSUME NEW i \in 1..(Len(s) + m)
      PROVE  KeyedRow(st[i])
  <2>1. CASE i <= Len(s)
    BY <1>1, <1>2, <2>1
  <2>2. CASE i > Len(s)
    <3>1. i - Len(s) \in 1..m /\ st[i] = t[i - Len(s)]
      BY <1>1, <1>2, <2>2
    <3> QED
      BY <1>2, <3>1
  <2> QED
    BY <1>2, <2>1, <2>2
<1>4. ASSUME NEW i \in 1..Len(t)
      PROVE  st[Len(s) + i] = t[i]
  <2>1. Len(s) + i \in 1..(Len(s) + Len(t)) /\ (Len(s) + i) - Len(s) = i
           /\ ~(Len(s) + i <= Len(s))
    BY <1>2
  <2> QED
    BY <1>1, <2>1
<1>5. Keyed(st, Len(s) + m)
  BY <1>1, <1>2, <1>3 DEF Keyed
<1> QED
  BY <1>1, <1>4, <1>5 DEF st

\* The whole table: 56 rows filed under a segment, then two catch-all rows.
LEMMA RoutesShape ==
  /\ DOMAIN Routes = 1..58
  /\ \A i \in 1..56 : KeyedRow(Routes[i])
  /\ Routes[57] = InRepo("get_file_contents", <<>>)
  /\ Routes[58] = InRepo("get_file_contents", <<Rest>>)
<1> DEFINE S == {IssueRoutes[i] : i \in 1..10} \cup {ContentRoutes[i] : i \in 1..12}
                  \cup {ActionRoutes[i] : i \in 1..17} \cup {OtherRoutes[i] : i \in 1..19}
<1>1. /\ IssueRoutes \in Seq(S) /\ ContentRoutes \in Seq(S)
      /\ ActionRoutes \in Seq(S) /\ OtherRoutes \in Seq(S)
  <2>1. /\ \A i \in 1..10 : IssueRoutes[i] \in S
        /\ \A i \in 1..12 : ContentRoutes[i] \in S
        /\ \A i \in 1..17 : ActionRoutes[i] \in S
        /\ \A i \in 1..19 : OtherRoutes[i] \in S
    OBVIOUS
  <2> HIDE DEF S
  <2> QED
    BY <2>1, TablesAreSequences
<1> HIDE DEF S
<1>2. /\ Len(IssueRoutes) = 10 /\ Len(ContentRoutes) = 12
      /\ Len(ActionRoutes) = 17 /\ Len(OtherRoutes) = 19
  BY IssuesKeyed, ContentsKeyed, ActionsKeyed, OthersKeyed
<1> DEFINE AB == IssueRoutes \o ContentRoutes
           ABC == AB \o ActionRoutes
<1>3. /\ Keyed(IssueRoutes, 10) /\ Keyed(ContentRoutes, 12)
      /\ Keyed(ActionRoutes, 17) /\ Keyed(OtherRoutes, 17)
  BY <1>2, IssuesKeyed, ContentsKeyed, ActionsKeyed, OthersKeyed DEF Keyed
<1>4. AB \in Seq(S) /\ Len(AB) = 22 /\ Keyed(AB, 22)
  <2>1. Keyed(IssueRoutes, Len(IssueRoutes)) /\ Keyed(ContentRoutes, 12)
    BY <1>2, <1>3
  <2>2. /\ IssueRoutes \o ContentRoutes \in Seq(S)
        /\ Len(IssueRoutes \o ContentRoutes) = Len(IssueRoutes) + Len(ContentRoutes)
        /\ Keyed(IssueRoutes \o ContentRoutes, Len(IssueRoutes) + 12)
        /\ \A i \in 1..Len(ContentRoutes) :
             (IssueRoutes \o ContentRoutes)[Len(IssueRoutes) + i] = ContentRoutes[i]
    BY <1>1, <2>1, Joined
  <2> QED
    BY <1>2, <2>2
<1>5. Routes = ABC \o OtherRoutes
  BY Zenon DEF Routes
<1> HIDE DEF AB
<1>6. ABC \in Seq(S) /\ Len(ABC) = 39 /\ Keyed(ABC, 39)
  <2>1. /\ AB \in Seq(S) /\ ActionRoutes \in Seq(S)
        /\ Keyed(AB, Len(AB)) /\ Keyed(ActionRoutes, 17)
    BY <1>1, <1>3, <1>4
  <2>2. /\ AB \o ActionRoutes \in Seq(S) /\ Len(AB \o ActionRoutes) = Len(AB) + Len(ActionRoutes)
        /\ Keyed(AB \o ActionRoutes, Len(AB) + 17)
        /\ \A i \in 1..Len(ActionRoutes) : (AB \o ActionRoutes)[Len(AB) + i] = ActionRoutes[i]
    BY <2>1, Joined
  <2> QED
    BY <1>2, <1>4, <2>2
<1> HIDE DEF ABC
<1>7. /\ Routes \in Seq(S) /\ Len(Routes) = 58 /\ Keyed(Routes, 56)
      /\ \A i \in 1..19 : Routes[39 + i] = OtherRoutes[i]
  <2>1. /\ ABC \in Seq(S) /\ OtherRoutes \in Seq(S)
        /\ Keyed(ABC, Len(ABC)) /\ Keyed(OtherRoutes, 17)
    BY <1>1, <1>3, <1>6
  <2>2. /\ ABC \o OtherRoutes \in Seq(S) /\ Len(ABC \o OtherRoutes) = Len(ABC) + Len(OtherRoutes)
        /\ Keyed(ABC \o OtherRoutes, Len(ABC) + 17)
        /\ \A i \in 1..Len(OtherRoutes) : (ABC \o OtherRoutes)[Len(ABC) + i] = OtherRoutes[i]
    BY <2>1, Joined
  <2>3. /\ Routes \in Seq(S) /\ Len(Routes) = Len(ABC) + Len(OtherRoutes)
        /\ Keyed(Routes, Len(ABC) + 17)
        /\ \A i \in 1..Len(OtherRoutes) : Routes[Len(ABC) + i] = OtherRoutes[i]
    BY <1>5, <2>2, Zenon
  <2> QED
    BY <1>2, <1>6, <2>3
<1>8. DOMAIN Routes = 1..58 /\ Routes[57] = OtherRoutes[18] /\ Routes[58] = OtherRoutes[19]
  BY <1>7
<1> QED
  BY <1>7, <1>8, OthersKeyed DEF Keyed

\* The patterns of the two.
LEMMA CatchAllPatterns ==
  /\ Routes[57].pattern = <<"repos", One, One>> \o <<>>
  /\ Routes[58].pattern = <<"repos", One, One>> \o <<Rest>>
<1>1. \A tool, tail : InRepo(tool, tail).pattern = <<"repos", One, One>> \o tail
  BY DEF InRepo, Row
<1> QED
  BY <1>1, RoutesShape, Zenon

\* The catch-all rows have no key.
LEMMA CatchAllRows ==
  \A i \in 57..58 : WellFormed(Routes[i]) /\ RouteKey(Routes[i]) = Empty
<1>1. Routes[57].pattern = <<"repos", One, One>> \o <<>>
  BY CatchAllPatterns
<1>2. Routes[58].pattern = <<"repos", One, One>> \o <<Rest>>
  BY CatchAllPatterns
<1>3. Literal("repos")
  BY Zenon DEF Literal, Digits, One, Rest, Empty
<1>4. WellFormed(Routes[57]) /\ RouteKey(Routes[57]) = Empty
  BY <1>1, <1>3 DEF WellFormed, RouteKey
<1>5. WellFormed(Routes[58]) /\ RouteKey(Routes[58]) = Empty
  BY <1>2, <1>3 DEF WellFormed, RouteKey
<1> QED
  BY <1>4, <1>5

\* The segments of a path.
Segments == Literals \cup Numbers \cup OtherSegments

\* A row with a key matches only paths that have that key.
LEMMA MatchedKey ==
  ASSUME NEW row, WellFormed(row), NEW path \in Seq(Segments), path # <<>>,
         Matches(row, path), RouteKey(row) # Empty
  PROVE  RouteKey(row) = RouteMatchKey(path)
<1> DEFINE p == row.pattern
           n == Len(p)
           fixed == IF p[n] = Rest THEN n - 1 ELSE n
<1>1. /\ n \in Nat \ {0} /\ Literal(p[1])
      /\ p[1] = "repos" /\ n > 3 => Literal(p[4]) \/ (p[4] = Rest /\ n = 4)
  BY DEF WellFormed
<1>2. /\ Len(path) \in Nat /\ Len(path) >= n
      /\ \A i \in 1..fixed : SegmentMatches(p[i], path[i])
  BY <1>1 DEF Matches
<1>3. ASSUME NEW i \in 1..fixed, Literal(p[i])
      PROVE  p[i] = path[i]
  BY <1>2, <1>3 DEF SegmentMatches, Literal
<1>4. path[1] = p[1]
  BY <1>1, <1>3 DEF Literal
<1>5. CASE p[1] # "repos"
  BY <1>4, <1>5 DEF RouteKey, RouteMatchKey
<1>6. CASE p[1] = "repos"
  <2>1. n > 3 /\ p[4] # Rest
    BY <1>1, <1>6 DEF RouteKey
  <2>2. 4 \in 1..fixed /\ Literal(p[4])
    BY <1>1, <1>6, <2>1
  <2>3. path[4] = p[4] /\ Len(path) >= 4
    BY <1>1, <1>2, <1>3, <2>1, <2>2
  <2> QED
    BY <1>1, <1>2, <1>4, <1>6, <2>1, <2>3 DEF RouteKey, RouteMatchKey
<1> QED
  BY <1>5, <1>6

\* A set of numbers has a least one.
LEMMA LeastNatural ==
  ASSUME NEW S \in SUBSET Nat, S # {}
  PROVE  \E m \in S : \A n \in S : m <= n
<1> DEFINE R == OpToRel(<, Nat)
<1>1. IsWellFoundedOn(R, Nat)
  BY NatLessThanWellFounded, Zenon
<1>2. \A m, n \in Nat : <<n, m>> \in R <=> n < m
  BY Zenon DEF OpToRel
<1> HIDE DEF R
<1>3. \E m \in S : \A n \in S : <<n, m>> \notin R
  BY <1>1, WFMin
<1>4. \E m \in S : \A n \in S : ~(n < m)
  BY <1>2, <1>3, Zenon
<1> QED
  BY <1>4

\* The rows among these that match.
Hits(indices, path) == {i \in indices : Matches(Routes[i], path)}

\* The search returns the least row that matches.
LEMMA FirstOfLeast ==
  ASSUME NEW indices \in SUBSET (1..58), NEW path
  PROVE  /\ Hits(indices, path) = {} => FirstOf(indices, path) = 0
         /\ Hits(indices, path) # {} =>
              /\ FirstOf(indices, path) \in Hits(indices, path)
              /\ \A j \in Hits(indices, path) : FirstOf(indices, path) <= j
<1> DEFINE hits == Hits(indices, path)
<1>1. FirstOf(indices, path) =
        IF hits = {} THEN 0 ELSE CHOOSE i \in hits : \A j \in hits : i <= j
  BY Zenon DEF FirstOf, Hits
<1>2. hits \in SUBSET Nat
  <2>1. 1..58 \subseteq Nat /\ hits \subseteq indices
    BY DEF Hits
  <2> QED
    BY <2>1
<1> HIDE DEF hits
<1>3. hits # {} => \E i \in hits : \A j \in hits : i <= j
  BY <1>2, LeastNatural
<1>4. hits # {} => LET m == FirstOf(indices, path) IN m \in hits /\ \A j \in hits : m <= j
  BY <1>1, <1>3, Zenon
<1> QED
  BY <1>1, <1>4, Zenon DEF hits

\* Rows 1 to 56 have a key, rows 57 and 58 have none.
LEMMA RowKeys ==
  ASSUME NEW i \in 1..58
  PROVE  /\ WellFormed(Routes[i])
         /\ i <= 56 => RouteKey(Routes[i]) # Empty
         /\ i >= 57 => RouteKey(Routes[i]) = Empty
<1>1. CASE i <= 56
  <2>1. i \in 1..56
    BY <1>1
  <2>2. KeyedRow(Routes[i])
    BY <2>1, RoutesShape
  <2> QED
    BY <1>1, <2>2 DEF KeyedRow
<1>2. CASE i >= 57
  <2>1. i \in 57..58
    BY <1>2
  <2> QED
    BY <1>2, <2>1, CatchAllRows
<1> QED
  BY <1>1, <1>2

\* A bucket's rows are rows of the table with that key.
LEMMA Buckets ==
  ASSUME NEW key
  PROVE  Bucket(key) = {i \in 1..58 : RouteKey(Routes[i]) = key}
<1>1. DOMAIN Routes = 1..58
  BY RoutesShape
<1> QED
  BY <1>1, Zenon DEF Bucket

\* Looking only at the bucket of the path's key, and then at the rows without a key,
\* finds what a search of the whole table would find: the rows without a key are
\* its last.
LEMMA IndexIsExact ==
  ASSUME NEW path \in Seq(Segments), path # <<>>
  PROVE  MatchIndex(path) = FirstOf(DOMAIN Routes, path)
<1> DEFINE key == RouteMatchKey(path)
           all == Hits(1..58, path)
           keyed == Hits(Bucket(key), path)
           open == Hits(Bucket(Empty), path)
           f == FirstOf(1..58, path)
           g == FirstOf(Bucket(key), path)
           h == FirstOf(Bucket(Empty), path)
<1>1. Bucket(key) \in SUBSET (1..58) /\ Bucket(Empty) \in SUBSET (1..58)
  BY Buckets
<1>2. DOMAIN Routes = 1..58
  BY RoutesShape
<1>3. MatchIndex(path) = IF g # 0 \/ key = Empty THEN g ELSE h
  BY Zenon DEF MatchIndex
<1>4. all = keyed \cup open
  <2>1. all \subseteq keyed \cup open
    <3> SUFFICES ASSUME NEW i \in all
                 PROVE  i \in keyed \cup open
      OBVIOUS
    <3>1. i \in 1..58 /\ Matches(Routes[i], path) /\ WellFormed(Routes[i])
      BY RowKeys DEF Hits
    <3>2. RouteKey(Routes[i]) = Empty \/ RouteKey(Routes[i]) = key
      BY <3>1, MatchedKey
    <3> QED
      BY <3>1, <3>2, Buckets DEF Hits
  <2>2. keyed \cup open \subseteq all
    BY <1>1 DEF Hits
  <2> QED
    BY <2>1, <2>2
<1>5. all \subseteq 1..58
  BY DEF Hits
<1>6. ASSUME NEW i \in open
      PROVE  i >= 57
  <2>1. i \in 1..58 /\ RouteKey(Routes[i]) = Empty
    BY Buckets DEF Hits
  <2>2. i <= 56 => RouteKey(Routes[i]) # Empty
    BY <2>1, RowKeys
  <2> QED
    BY <2>1, <2>2
<1>7. ASSUME NEW i \in keyed, key # Empty
      PROVE  i <= 56
  <2>1. i \in 1..58 /\ RouteKey(Routes[i]) = key
    BY Buckets DEF Hits
  <2>2. i >= 57 => RouteKey(Routes[i]) = Empty
    BY <2>1, RowKeys
  <2> QED
    BY <1>7, <2>1, <2>2
<1>8. /\ all = {} => f = 0
      /\ all # {} => f \in all /\ \A j \in all : f <= j
  BY FirstOfLeast
<1>9. /\ keyed = {} => g = 0
      /\ keyed # {} => g \in keyed /\ \A j \in keyed : g <= j
  BY <1>1, FirstOfLeast
<1>10. /\ open = {} => h = 0
       /\ open # {} => h \in open /\ \A j \in open : h <= j
  BY <1>1, FirstOfLeast
<1>11. key = Empty => keyed = open
  OBVIOUS
<1>12. MatchIndex(path) = f
  <2> HIDE DEF all, keyed, open, key, f, g, h
  <2>1. CASE keyed = {}
    <3>1. all = open /\ g = 0
      BY <1>4, <1>9, <2>1
    <3>2. CASE open = {}
      BY <1>3, <1>8, <1>10, <1>11, <2>1, <3>1, <3>2
    <3>3. CASE open # {}
      <4>1. f \in open /\ h \in open /\ f <= h /\ h <= f
        BY <1>8, <1>10, <3>1, <3>3
      <4>2. f \in 1..58 /\ h \in 1..58
        BY <1>4, <1>5, <4>1
      <4>3. f = h
        BY <4>1, <4>2
      <4> QED
        BY <1>3, <1>11, <2>1, <3>1, <3>3, <4>3
    <3> QED
      BY <3>2, <3>3
  <2>2. CASE keyed # {}
    <3>1. g \in keyed /\ g \in all /\ f \in all /\ g \in 1..58 /\ f \in 1..58
      BY <1>4, <1>5, <1>8, <1>9, <2>2
    <3>2. f <= g
      BY <1>8, <3>1
    <3>3. g <= f
      <4>1. CASE f \in keyed
        BY <1>9, <4>1
      <4>2. CASE f \in open /\ key # Empty
        BY <1>6, <1>7, <3>1, <4>2
      <4> QED
        BY <1>4, <1>11, <3>1, <4>1, <4>2
    <3>4. MatchIndex(path) = g
      BY <1>3, <3>1
    <3> QED
      BY <3>1, <3>2, <3>3, <3>4
  <2> QED
    BY <2>1, <2>2
<1> QED
  BY <1>2, <1>12, Zenon

\* A row that matches has the first segment of the path.
LEMMA MatchedHead ==
  ASSUME NEW row, WellFormed(row), NEW path \in Seq(Segments), Matches(row, path)
  PROVE  row.pattern[1] = path[1]
<1> DEFINE p == row.pattern
           n == Len(p)
           fixed == IF p[n] = Rest THEN n - 1 ELSE n
<1>1. n \in Nat \ {0} /\ Literal(p[1])
  BY DEF WellFormed
<1>2. \A i \in 1..fixed : SegmentMatches(p[i], path[i])
  BY <1>1 DEF Matches
<1>3. 1 \in 1..fixed
  BY <1>1 DEF Literal
<1> QED
  BY <1>1, <1>2, <1>3 DEF SegmentMatches, Literal

\* A path into a repository always matches: the last rows catch the others.
LEMMA CatchAllMatches ==
  ASSUME NEW path \in Seq(Segments), Len(path) >= 3,
         path[1] = "repos", path[2] # Empty, path[3] # Empty
  PROVE  \E i \in 1..58 : Matches(Routes[i], path)
<1>1. Routes[57].pattern = <<"repos", One, One>> \o <<>>
  BY CatchAllPatterns
<1>2. Routes[58].pattern = <<"repos", One, One>> \o <<Rest>>
  BY CatchAllPatterns
<1>3. Literal("repos") /\ One # Digits /\ One # Rest
  BY Zenon DEF Literal, Digits, One, Rest, Empty
<1>4. SegmentMatches("repos", path[1]) /\ SegmentMatches(One, path[2])
        /\ SegmentMatches(One, path[3])
  BY <1>3, Zenon DEF SegmentMatches, Literal
<1>5. CASE Len(path) = 3
  <2>1. Matches(Routes[57], path)
    BY <1>1, <1>3, <1>4, <1>5 DEF Matches
  <2> QED
    BY <2>1
<1>6. CASE Len(path) > 3
  <2>1. Matches(Routes[58], path)
    BY <1>2, <1>3, <1>4, <1>6 DEF Matches
  <2> QED
    BY <2>1
<1>7. Len(path) = 3 \/ Len(path) > 3
  OBVIOUS
<1> QED
  BY <1>5, <1>6, <1>7

\* The match of such a path names the repository.
LEMMA RepoKept ==
  ASSUME NEW path \in Seq(Segments), Len(path) >= 3,
         path[1] = "repos", path[2] # Empty, path[3] # Empty
  PROVE  MatchRoute(path).repo = <<path[2], path[3]>>
<1> DEFINE i == MatchIndex(path)
<1>1. Hits(1..58, path) # {}
  BY CatchAllMatches DEF Hits
<1>2. i = FirstOf(1..58, path)
  <2>1. DOMAIN Routes = 1..58 /\ path # <<>>
    BY RoutesShape
  <2> QED
    BY <2>1, IndexIsExact, Zenon
<1>3. i \in Hits(1..58, path)
  BY <1>1, <1>2, FirstOfLeast
<1> HIDE DEF i
<1>4. i \in 1..58 /\ Matches(Routes[i], path)
  BY <1>3 DEF Hits
<1>5. i # 0 /\ Routes[i].pattern[1] = "repos"
  <2>1. i # 0
    BY <1>4
  <2>2. WellFormed(Routes[i])
    BY <1>4, RowKeys, Zenon
  <2>3. Routes[i].pattern[1] = path[1]
    BY <1>4, <2>2, MatchedHead
  <2> QED
    BY <2>1, <2>3
<1>6. MatchRoute(path) =
        [tool |-> Routes[i].tool,
         repo |-> IF Routes[i].pattern[1] = "repos" THEN <<path[2], path[3]>> ELSE <<>>]
  BY <1>5, Zenon DEF MatchRoute, i
<1> QED
  BY <1>5, <1>6

\* Any sequence of segments is a path, however long.
RouterType == asked \in Seq(Segments)

\* FirstMatchWins: for a path of any length, the indexed search finds the row that
\* a search of the table from its top would find, and a path into a repository is
\* always given that repository (MatchRoute,
\* buildRouteDispatch).
THEOREM FirstMatchWinsHolds == RouterSpec => []FirstMatchWins
<1>1. RouterInit => RouterType
  BY DEF RouterInit, RouterType
<1>2. RouterType /\ [RouterNext]_routerVars => RouterType'
  BY DEF RouterType, RouterNext, Ask, routerVars, Segments
<1>3. RouterType => FirstMatchWins
  <2> SUFFICES ASSUME RouterType, asked # <<>>
               PROVE  /\ MatchIndex(asked) = FirstOf(DOMAIN Routes, asked)
                      /\ asked[1] = "repos" /\ Len(asked) >= 3
                           /\ asked[2] # Empty /\ asked[3] # Empty
                           => MatchRoute(asked).repo = <<asked[2], asked[3]>>
    BY DEF FirstMatchWins
  <2>1. MatchIndex(asked) = FirstOf(DOMAIN Routes, asked)
    BY IndexIsExact DEF RouterType
  <2>2. ASSUME asked[1] = "repos", Len(asked) >= 3, asked[2] # Empty, asked[3] # Empty
        PROVE  MatchRoute(asked).repo = <<asked[2], asked[3]>>
    BY <2>2, RepoKept DEF RouterType
  <2> QED
    BY <2>1, <2>2
<1> QED
  BY <1>1, <1>2, <1>3, PTL DEF RouterSpec

-----------------------------------------------------------------------------
(* The rewriting of queries (GraphqlRewrite): sets of places.              *)

\* Min and Max are what they are called.
LEMMA MinIsLeast ==
  ASSUME NEW S \in SUBSET Nat, S # {}
  PROVE  Min(S) \in S /\ \A n \in S : Min(S) <= n
  BY LeastNatural, Zenon DEF Min

\* A set of numbers with a bound has a greatest one.
LEMMA MaxIsGreatest ==
  ASSUME NEW S \in SUBSET Nat, S # {}, NEW b \in Nat, \A n \in S : n <= b
  PROVE  Max(S) \in S /\ \A n \in S : n <= Max(S)
<1> DEFINE U == {m \in Nat : \A n \in S : n <= m}
<1>1. PICK u \in U : \A m \in U : u <= m
  <2>1. U \in SUBSET Nat /\ b \in U
    OBVIOUS
  <2> HIDE DEF U
  <2> QED
    BY <2>1, LeastNatural
<1>2. u \in S
  <2> SUFFICES ASSUME u \notin S PROVE FALSE
    OBVIOUS
  <2>1. PICK s \in S : TRUE
    OBVIOUS
  <2>2. \A n \in S : n <= u - 1 /\ u - 1 \in Nat
    BY <1>1, <2>1
  <2>3. u - 1 \in U
    BY <2>1, <2>2
  <2> QED
    BY <1>1, <2>3
<1>3. \E m \in S : \A n \in S : m >= n
  BY <1>1, <1>2
<1>4. Max(S) \in S /\ \A n \in S : Max(S) >= n
  BY <1>3, Zenon DEF Max
<1> QED
  BY <1>4

\* A member that no other exceeds is the greatest.
LEMMA MaxIs ==
  ASSUME NEW T \in SUBSET Nat, NEW m \in T, \A n \in T : n <= m
  PROVE  Max(T) = m
<1>1. m \in Nat /\ T # {} /\ T \in SUBSET Nat
  OBVIOUS
<1>2. Max(T) \in T /\ \A n \in T : n <= Max(T)
  BY <1>1, MaxIsGreatest
<1>3. Max(T) \in Nat /\ Max(T) <= m /\ m <= Max(T)
  BY <1>2
<1> QED
  BY <1>1, <1>3

\* The ranks of the places of a finite set are 1, 2, ..., one place each.
LEMMA Ranks ==
  ASSUME NEW n \in Nat, NEW S \in SUBSET (1..n)
  PROVE  /\ IsFiniteSet(S) /\ Cardinality(S) \in Nat
         /\ \A k \in S : Rank(S, k) \in 1..Cardinality(S)
         /\ \A k, l \in S : k < l => Rank(S, k) < Rank(S, l)
         /\ \A i \in 1..Cardinality(S) : \E k \in S : Rank(S, k) = i
<1> DEFINE upTo(k) == {j \in S : j <= k}
<1>1. IsFiniteSet(S) /\ Cardinality(S) \in Nat
  <2>1. IsFiniteSet(1..n)
    BY FS_Interval
  <2> QED
    BY <2>1, FS_Subset, FS_CardinalityType
<1>2. ASSUME NEW k \in S
      PROVE  /\ IsFiniteSet(upTo(k)) /\ Cardinality(upTo(k)) \in Nat
             /\ Cardinality(upTo(k)) >= 1 /\ Cardinality(upTo(k)) <= Cardinality(S)
  <2>1. upTo(k) \in SUBSET S /\ k \in upTo(k)
    OBVIOUS
  <2> HIDE DEF upTo
  <2>2. IsFiniteSet(upTo(k)) /\ Cardinality(upTo(k)) <= Cardinality(S)
    BY <1>1, <2>1, FS_Subset
  <2>3. Cardinality(upTo(k)) \in Nat /\ Cardinality(upTo(k)) # 0
    BY <2>1, <2>2, FS_CardinalityType, FS_EmptySet
  <2> QED
    BY <2>2, <2>3
<1>3. ASSUME NEW k \in S, NEW l \in S, k < l
      PROVE  Cardinality(upTo(k)) < Cardinality(upTo(l))
  <2>1. upTo(k) \in SUBSET upTo(l) /\ l \in upTo(l) /\ l \notin upTo(k)
    <3>1. \A j \in S : j \in Nat
      OBVIOUS
    <3>2. \A j \in S : j <= k => j <= l
      BY <1>3, <3>1
    <3>3. l <= l /\ ~(l <= k)
      BY <1>3, <3>1
    <3> QED
      BY <3>2, <3>3, Zenon
  <2> HIDE DEF upTo
  <2>2. Cardinality(upTo(k)) <= Cardinality(upTo(l)) /\ Cardinality(upTo(k)) # Cardinality(upTo(l))
    BY <1>2, <2>1, FS_Subset
  <2> QED
    BY <1>2, <2>2
<1> HIDE DEF upTo
<1>4. \A k : Rank(S, k) = Cardinality(upTo(k))
  BY DEF Rank, upTo
<1>5. \A i \in 1..Cardinality(S) : \E k \in S : Cardinality(upTo(k)) = i
  <2> DEFINE c == Cardinality(S)
             f == [k \in S |-> Cardinality(upTo(k))]
  <2>1. \A k, l \in S : k # l => Cardinality(upTo(k)) # Cardinality(upTo(l))
    <3> TAKE k, l \in S
    <3>1. k \in Nat /\ l \in Nat
      OBVIOUS
    <3> QED
      BY <1>2, <1>3, <3>1
  <2>2. f \in Injection(S, 1..c)
    <3>1. f \in [S -> 1..c]
      BY <1>1, <1>2
    <3> QED
      BY <2>1, <3>1 DEF Injection, IsInjective
  <2>3. IsFiniteSet(1..c) /\ Cardinality(1..c) = c
    BY <1>1, FS_Interval
  <2>4. f \in Surjection(S, 1..c)
    <3> HIDE DEF f, c
    <3>1. Cardinality(S) = Cardinality(1..c) <=> f \in Surjection(S, 1..c)
      BY <2>2, <2>3, FS_Injection
    <3> QED
      BY <2>3, <3>1 DEF c
  <2> QED
    BY <2>4 DEF Surjection
<1>6. \A k \in S : Cardinality(upTo(k)) \in 1..Cardinality(S)
  BY <1>1, <1>2
<1> QED
  BY <1>1, <1>3, <1>4, <1>5, <1>6

\* Without has the kept tokens, and what it has is a sequence.
LEMMA WithoutTokens ==
  ASSUME NEW S, NEW s \in Seq(S), NEW D
  PROVE  Without(s, D) \in Seq(S) /\ Tokens(Without(s, D)) = Tokens(s) \ D
<1> DEFINE kept == {k \in 1..Len(s) : s[k] \notin D}
           c == Cardinality(kept)
           pick(i) == CHOOSE k \in kept : Rank(kept, k) = i
<1>1. Len(s) \in Nat /\ DOMAIN s = 1..Len(s) /\ \A k \in 1..Len(s) : s[k] \in S
  OBVIOUS
<1>2. Without(s, D) = [i \in 1..c |-> s[pick(i)]]
  BY DEF Without
<1>3. kept \in SUBSET (1..Len(s)) /\ \A k \in kept : s[k] \notin D
  OBVIOUS
<1>4. \A k \in 1..Len(s) : s[k] \notin D => k \in kept
  OBVIOUS
<1> HIDE DEF kept
<1>5. /\ c \in Nat
      /\ \A k \in kept : Rank(kept, k) \in 1..c
      /\ \A k, l \in kept : k < l => Rank(kept, k) < Rank(kept, l)
      /\ \A i \in 1..c : \E k \in kept : Rank(kept, k) = i
  BY <1>1, <1>3, Ranks
<1> HIDE DEF c
<1>6. \A i \in 1..c : pick(i) \in kept /\ Rank(kept, pick(i)) = i
  BY <1>5, Zenon
<1>7. \A k \in kept : pick(Rank(kept, k)) = k
  <2> TAKE k \in kept
  <2> DEFINE l == pick(Rank(kept, k))
  <2>1. l \in kept /\ Rank(kept, l) = Rank(kept, k)
    BY <1>5, <1>6
  <2> HIDE DEF l
  <2>2. k \in Nat /\ l \in Nat
    BY <1>1, <1>3, <2>1
  <2>3. Rank(kept, l) \in Nat /\ ~(Rank(kept, l) < Rank(kept, k)) /\ ~(Rank(kept, k) < Rank(kept, l))
    BY <1>5, <2>1
  <2>4. ~(k < l) /\ ~(l < k)
    BY <1>5, <2>1, <2>3
  <2>5. l = k
    BY <2>2, <2>4
  <2> QED
    BY <2>5 DEF l
<1> HIDE DEF pick
<1> DEFINE w == [i \in 1..c |-> s[pick(i)]]
<1>8. w \in Seq(S) /\ Len(w) = c
  <2>1. w \in [1..c -> S]
    BY <1>1, <1>3, <1>6
  <2>2. DOMAIN w = 1..c
    OBVIOUS
  <2> HIDE DEF w
  <2>3. w \in Seq(S)
    BY <1>5, <2>1, SeqDef
  <2> QED
    BY <1>5, <2>2, <2>3, LenProperties
<1>9. Tokens(w) = {s[pick(i)] : i \in 1..c}
  BY DEF Tokens
<1>10. Tokens(w) = {s[k] : k \in kept}
  BY <1>5, <1>6, <1>7, <1>9
<1>11. Tokens(s) \ D = {s[k] : k \in kept}
  BY <1>1, <1>3, <1>4 DEF Tokens
<1> QED
  BY <1>2, <1>8, <1>10, <1>11

\* A sequence q spreads by e over s in its order, on exactly the places of the
\* tokens not in D.
Embeds(e, q, s, D) ==
  /\ e \in [1..Len(q) -> 1..Len(s)]
  /\ \A i, j \in 1..Len(q) : i < j => e[i] < e[j]
  /\ \A i \in 1..Len(q) : s[e[i]] = q[i] /\ q[i] \notin D
  /\ \A k \in 1..Len(s) : s[k] \notin D => \E i \in 1..Len(q) : k = e[i]

\* Such a sequence is what is left without the tokens of D.
LEMMA WithoutIs ==
  ASSUME NEW S, NEW s \in Seq(S), NEW q \in Seq(S), NEW D, NEW e, Embeds(e, q, s, D)
  PROVE  Without(s, D) = q
<1> SUFFICES ASSUME e \in [1..Len(q) -> 1..Len(s)],
                    \A i, j \in 1..Len(q) : i < j => e[i] < e[j],
                    \A i \in 1..Len(q) : s[e[i]] = q[i] /\ q[i] \notin D,
                    \A k \in 1..Len(s) : s[k] \notin D => \E i \in 1..Len(q) : k = e[i]
             PROVE  Without(s, D) = q
  BY DEF Embeds
<1> DEFINE kept == {k \in 1..Len(s) : s[k] \notin D}
           n == Len(q)
           pick(i) == CHOOSE k \in kept : Rank(kept, k) = i
<1>1. Len(s) \in Nat /\ n \in Nat /\ q = [i \in 1..n |-> q[i]]
  OBVIOUS
<1>2. Without(s, D) = [i \in 1..Cardinality(kept) |-> s[pick(i)]]
  BY DEF Without
<1>3. /\ \A i \in 1..n : e[i] \in kept
      /\ \A k \in kept : \E i \in 1..n : k = e[i]
      /\ kept \in SUBSET (1..Len(s))
  OBVIOUS
<1> HIDE DEF kept
<1>4. \A i, j \in 1..n : i <= j <=> e[i] <= e[j]
  <2> TAKE i, j \in 1..n
  <2>1. i \in Nat /\ j \in Nat /\ e[i] \in Nat /\ e[j] \in Nat
    BY <1>1
  <2>2. (i < j => e[i] < e[j]) /\ (j < i => e[j] < e[i]) /\ (i = j => e[i] = e[j])
    OBVIOUS
  <2> QED
    BY <2>1, <2>2
<1>5. ASSUME NEW i \in 0..n PROVE Cardinality({k \in kept : \E j \in 1..i : k = e[j]}) = i
  <2> DEFINE T == {k \in kept : \E j \in 1..i : k = e[j]}
             f == [j \in 1..i |-> e[j]]
  <2>1. i \in Nat /\ \A j \in 1..i : j \in 1..n
    BY <1>1
  <2>2. f \in [1..i -> T]
    BY <1>3, <2>1
  <2>3. \A j, m \in 1..i : f[j] = f[m] => j = m
    <3> TAKE j, m \in 1..i
    <3>1. f[j] = e[j] /\ f[m] = e[m] /\ j \in Nat /\ m \in Nat /\ e[j] \in Nat /\ e[m] \in Nat
      BY <1>1, <2>1
    <3>2. (j <= m <=> e[j] <= e[m]) /\ (m <= j <=> e[m] <= e[j])
      BY <1>4, <2>1
    <3> QED
      BY <3>1, <3>2
  <2>4. \A k \in T : \E j \in 1..i : f[j] = k
    OBVIOUS
  <2> HIDE DEF f, T
  <2>5. f \in Bijection(1..i, T)
    BY <2>2, <2>3, <2>4 DEF Bijection, Injection, Surjection, IsInjective
  <2> QED
    BY <2>1, <2>5, FS_CountingElements DEF ExistsBijection, T
<1>6. Cardinality(kept) = n
  <2>1. kept = {k \in kept : \E j \in 1..n : k = e[j]} /\ n \in 0..n
    BY <1>1, <1>3
  <2> QED
    BY <1>5, <2>1
<1>7. ASSUME NEW i \in 1..n PROVE Rank(kept, e[i]) = i
  <2>1. {k \in kept : k <= e[i]} = {k \in kept : \E j \in 1..i : k = e[j]}
    <3>1. ASSUME NEW k \in kept PROVE k <= e[i] <=> \E j \in 1..i : k = e[j]
      <4>1. PICK j \in 1..n : k = e[j]
        BY <1>3
      <4>2. k <= e[i] <=> j <= i
        BY <1>4, <4>1
      <4>3. k <= e[i] => j \in 1..i
        BY <1>1, <4>2
      <4>4. \A m \in 1..i : m \in 1..n /\ m <= i
        BY <1>1
      <4>5. \A m \in 1..i : e[m] <= e[i]
        BY <1>4, <4>4
      <4> QED
        BY <4>1, <4>3, <4>5
    <3> QED
      BY <3>1
  <2>2. i \in 0..n
    BY <1>1
  <2> QED
    BY <1>5, <2>1, <2>2 DEF Rank
<1>8. ASSUME NEW i \in 1..n PROVE pick(i) = e[i]
  <2>1. \A k \in kept : Rank(kept, k) = i => k = e[i]
    BY <1>3, <1>7
  <2>2. e[i] \in kept /\ Rank(kept, e[i]) = i
    BY <1>3, <1>7
  <2> QED
    BY <2>1, <2>2, Zenon
<1> HIDE DEF pick
<1>9. [i \in 1..Cardinality(kept) |-> s[pick(i)]] = [i \in 1..n |-> q[i]]
  BY <1>6, <1>8
<1> QED
  BY <1>1, <1>2, <1>9

\* A product grows with its second factor.
LEMMA ProductGrows ==
  ASSUME NEW w \in Nat, NEW a \in Nat, NEW b \in Nat
  PROVE  /\ w * a \in Nat
         /\ a <= b => w * a <= w * b
         /\ w * (a + 1) = w * a + w
         /\ w * 0 = 0
<1>1. w * a \in Nat /\ w * (a + 1) = w * a + w /\ w * 0 = 0
  OBVIOUS
<1>2. ASSUME a <= b PROVE w * a <= w * b
  <2>1. b - a \in Nat /\ w * (b - a) \in Nat
    BY <1>2
  <2>2. w * b = w * a + w * (b - a)
    OBVIOUS
  <2> QED
    BY <1>1, <2>1, <2>2
<1> QED
  BY <1>1, <1>2

\* Places of the tokens when fields are inserted: they keep their order, and
\* between two neighbours there is room for the fields or none.
LEMMA Places ==
  ASSUME NEW f, Len(f) \in Nat, NEW n \in Nat, NEW P \in SUBSET (1..n)
  PROVE  /\ \A i \in Nat : At(f, P, i) \in Nat /\ i <= At(f, P, i)
         /\ \A i \in Nat : i \notin P => At(f, P, i + 1) = At(f, P, i) + 1
         /\ \A i \in P : At(f, P, i + 1) = At(f, P, i) + 1 + Len(f)
         /\ \A i, j \in Nat : i < j => At(f, P, i) < At(f, P, j)
         /\ At(f, P, 0) = 0 /\ At(f, P, 1) = 1
<1> DEFINE below(i) == {p \in P : p < i}
           w == Len(f)
<1>1. IsFiniteSet(P) /\ \A p \in P : p \in Nat /\ p >= 1
  <2>1. IsFiniteSet(1..n)
    BY FS_Interval
  <2>2. IsFiniteSet(P)
    BY <2>1, FS_Subset
  <2> QED
    BY <2>2
<1>2. \A i : At(f, P, i) = i + w * Cardinality(below(i))
  BY DEF At
<1>3. ASSUME NEW i \in Nat
      PROVE  IsFiniteSet(below(i)) /\ Cardinality(below(i)) \in Nat
  <2>1. below(i) \in SUBSET P
    OBVIOUS
  <2> HIDE DEF below
  <2> QED
    BY <1>1, <2>1, FS_Subset, FS_CardinalityType
<1>4. ASSUME NEW i \in Nat
      PROVE  Cardinality(below(i + 1)) = Cardinality(below(i)) + (IF i \in P THEN 1 ELSE 0)
  <2>1. \A p \in P : p < i + 1 <=> p < i \/ p = i
    BY <1>1
  <2>2. CASE i \in P
    <3>1. below(i + 1) = below(i) \cup {i} /\ i \notin below(i)
      <4>1. ~(i < i)
        OBVIOUS
      <4> QED
        BY <2>1, <2>2, <4>1, Zenon
    <3> HIDE DEF below
    <3> QED
      BY <1>3, <2>2, <3>1, FS_AddElement
  <2>3. CASE i \notin P
    <3>1. below(i + 1) = below(i)
      BY <2>1, <2>3
    <3> HIDE DEF below
    <3> QED
      BY <1>3, <2>3, <3>1
  <2> QED
    BY <2>2, <2>3
<1>5. ASSUME NEW i \in Nat, NEW j \in Nat, i < j
      PROVE  Cardinality(below(i)) <= Cardinality(below(j))
  <2>1. \A p \in P : p < i => p < j
    BY <1>1, <1>5
  <2>2. below(i) \in SUBSET below(j)
    BY <2>1, Zenon
  <2> HIDE DEF below
  <2> QED
    BY <1>3, <2>2, FS_Subset
<1>6. below(0) = {} /\ below(1) = {}
  <2>1. \A p \in P : ~(p < 0) /\ ~(p < 1)
    BY <1>1
  <2> QED
    BY <2>1, Zenon
<1>7. Cardinality(below(0)) = 0 /\ Cardinality(below(1)) = 0
  BY <1>6, FS_EmptySet
<1> HIDE DEF below
<1>8. w \in Nat
  OBVIOUS
<1> HIDE DEF w
<1> DEFINE gap(i) == w * Cardinality(below(i))
<1>9. /\ \A i \in Nat : gap(i) \in Nat
      /\ \A i, j \in Nat : i < j => gap(i) <= gap(j)
      /\ \A i \in Nat : i \notin P => gap(i + 1) = gap(i)
      /\ \A i \in P : gap(i + 1) = gap(i) + w
      /\ gap(0) = 0 /\ gap(1) = 0
  <2>1. \A i \in Nat : gap(i) \in Nat
    BY <1>3, <1>8, ProductGrows
  <2>2. \A i, j \in Nat : i < j => gap(i) <= gap(j)
    BY <1>3, <1>5, <1>8, ProductGrows
  <2>3. \A i \in Nat : i \notin P => gap(i + 1) = gap(i)
    BY <1>3, <1>4
  <2>4. \A i \in P : gap(i + 1) = gap(i) + w
    <3> TAKE i \in P
    <3>1. i \in Nat /\ Cardinality(below(i + 1)) = Cardinality(below(i)) + 1
      BY <1>1, <1>4
    <3> QED
      BY <1>3, <1>8, <3>1, ProductGrows
  <2>5. gap(0) = 0 /\ gap(1) = 0
    BY <1>7, <1>8, ProductGrows
  <2> QED
    BY <2>1, <2>2, <2>3, <2>4, <2>5
<1>10. \A i : At(f, P, i) = i + gap(i)
  BY <1>2
<1> HIDE DEF gap
<1>11. \A i \in Nat : At(f, P, i) \in Nat /\ i <= At(f, P, i)
  <2> TAKE i \in Nat
  <2>1. gap(i) \in Nat /\ At(f, P, i) = i + gap(i)
    BY <1>9, <1>10
  <2> QED
    BY <2>1
<1>12. \A i \in Nat : i \notin P => At(f, P, i + 1) = At(f, P, i) + 1
  BY <1>9, <1>10
<1>13. \A i \in P : At(f, P, i + 1) = At(f, P, i) + 1 + w
  <2> TAKE i \in P
  <2>1. i \in Nat /\ gap(i) \in Nat /\ gap(i + 1) = gap(i) + w
    BY <1>1, <1>9
  <2>2. At(f, P, i) = i + gap(i) /\ At(f, P, i + 1) = (i + 1) + gap(i + 1)
    BY <1>10
  <2> QED
    BY <1>8, <2>1, <2>2
<1>14. \A i, j \in Nat : i < j => At(f, P, i) < At(f, P, j)
  <2> TAKE i, j \in Nat
  <2>1. gap(i) \in Nat /\ gap(j) \in Nat /\ (i < j => gap(i) <= gap(j))
    BY <1>9
  <2> QED
    BY <1>10, <2>1
<1>15. At(f, P, 0) = 0 /\ At(f, P, 1) = 1
  BY <1>9, <1>10
<1> QED
  BY <1>11, <1>12, <1>13, <1>14, <1>15 DEF w

\* What InsertAfter returns: every token at its place, the fields after those of
\* the places, and nothing else.
LEMMA Inserted ==
  ASSUME NEW S, NEW q \in Seq(S), NEW f \in Seq(S), NEW P \in SUBSET (1..Len(q))
  PROVE  LET sent == InsertAfter(q, P, f)
         IN  /\ sent \in Seq(S) /\ Len(sent) = At(f, P, Len(q) + 1) - 1
             /\ \A i \in 1..Len(q) : At(f, P, i) \in 1..Len(sent) /\ sent[At(f, P, i)] = q[i]
             /\ \A i \in P, r \in 1..Len(f) :
                  At(f, P, i) + r \in 1..Len(sent) /\ sent[At(f, P, i) + r] = f[r]
             /\ \A k \in 1..Len(sent) : \E i \in 1..Len(q) :
                  k = At(f, P, i) \/ (i \in P /\ \E r \in 1..Len(f) : k = At(f, P, i) + r)
<1> DEFINE n == Len(q)
           w == Len(f)
           at(i) == At(f, P, i)
           source(k) == Max({j \in 1..n : at(j) <= k})
           sent == InsertAfter(q, P, f)
           last == at(n + 1) - 1
<1>1. n \in Nat /\ w \in Nat /\ P \in SUBSET (1..n)
  OBVIOUS
<1>2. /\ \A i \in Nat : at(i) \in Nat /\ i <= at(i)
      /\ \A i \in Nat : i \notin P => at(i + 1) = at(i) + 1
      /\ \A i \in P : at(i + 1) = at(i) + 1 + w
      /\ \A i, j \in Nat : i < j => at(i) < at(j)
      /\ at(1) = 1
  BY <1>1, Places
<1> HIDE DEF at
<1>3. sent = [k \in 1..last |-> IF k = at(source(k)) THEN q[source(k)] ELSE f[k - at(source(k))]]
  BY Zenon DEF InsertAfter, at
<1> HIDE DEF n, w
<1>4. last \in Nat
  BY <1>1, <1>2
<1>5. ASSUME NEW i \in 1..n, NEW k \in Nat, at(i) <= k, k < at(i + 1)
      PROVE  k \in 1..last /\ source(k) = i
  <2>1. i \in Nat /\ i + 1 <= n + 1 /\ i + 1 \in Nat /\ n + 1 \in Nat
    BY <1>1
  <2>2. at(i + 1) <= at(n + 1)
    <3>1. at(i + 1) \in Nat /\ (i + 1 < n + 1 => at(i + 1) < at(n + 1))
      BY <1>2, <2>1
    <3>2. at(n + 1) \in Nat
      BY <1>2, <2>1
    <3>3. i + 1 = n + 1 \/ i + 1 < n + 1
      BY <2>1
    <3> QED
      BY <3>1, <3>2, <3>3
  <2>3. k \in 1..last
    <3>1. i \in Nat /\ i >= 1
      BY <1>1
    <3>2. at(i) \in Nat /\ at(i + 1) \in Nat /\ at(n + 1) \in Nat /\ i <= at(i)
      BY <1>2, <2>1
    <3> HIDE DEF at
    <3> QED
      BY <1>5, <2>2, <3>1, <3>2
  <2> DEFINE J == {j \in 1..n : at(j) <= k}
  <2>4. i \in J /\ J \in SUBSET Nat /\ \A j \in J : j <= n
    BY <1>1, <1>5
  <2>5. \A j \in J : j <= i
    <3> TAKE j \in J
    <3>1. j \in Nat /\ at(j) < at(i + 1) /\ at(j) \in Nat /\ at(i + 1) \in Nat
      BY <1>2, <1>5, <2>1
    <3>2. ~(i + 1 < j) /\ i + 1 # j
      <4>1. i + 1 < j => at(i + 1) < at(j)
        BY <1>2, <2>1, <3>1
      <4> QED
        BY <3>1, <4>1
    <3> QED
      BY <2>1, <3>1, <3>2
  <2> HIDE DEF J
  <2>6. Max(J) \in J /\ \A j \in J : j <= Max(J)
    BY <1>1, <2>4, MaxIsGreatest
  <2>7. Max(J) = i
    <3>1. Max(J) <= i /\ i <= Max(J) /\ Max(J) \in Nat
      BY <2>4, <2>5, <2>6
    <3> QED
      BY <2>1, <3>1
  <2> QED
    BY <2>3, <2>7 DEF J
<1>6. ASSUME NEW k \in 1..last
      PROVE  \E i \in 1..n : at(i) <= k /\ k < at(i + 1)
  <2> DEFINE U == {j \in Nat : k < at(j + 1)}
  <2>1. n \in U
    BY <1>1, <1>2, <1>4
  <2>2. PICK i \in U : \A j \in U : i <= j
    BY <2>1, LeastNatural
  <2>3. i # 0
    BY <1>2, <2>2
  <2>4. i \in Nat /\ i - 1 \in Nat /\ i - 1 \notin U /\ i <= n
    BY <2>1, <2>2, <2>3
  <2>5. at(i) <= k
    <3>1. ~(k < at((i - 1) + 1)) /\ (i - 1) + 1 = i /\ at(i) \in Nat
      BY <1>2, <2>4
    <3> QED
      BY <1>4, <3>1
  <2> QED
    BY <1>1, <2>2, <2>3, <2>4, <2>5
<1> HIDE DEF source
<1>7. ASSUME NEW i \in 1..n
      PROVE  at(i) \in 1..last /\ sent[at(i)] = q[i]
  <2>1. i \in Nat /\ at(i) \in Nat /\ at(i) < at(i + 1)
    BY <1>1, <1>2
  <2>2. at(i) \in 1..last /\ source(at(i)) = i
    BY <1>5, <2>1
  <2> QED
    BY <1>3, <2>2
<1>8. ASSUME NEW i \in P, NEW r \in 1..w
      PROVE  at(i) + r \in 1..last /\ sent[at(i) + r] = f[r]
  <2>1. i \in 1..n /\ i \in Nat /\ at(i) \in Nat /\ at(i + 1) = at(i) + 1 + w
    BY <1>1, <1>2
  <2>2. r \in Nat /\ at(i) + r \in Nat /\ at(i) <= at(i) + r /\ at(i) + r < at(i + 1)
    BY <1>1, <2>1
  <2>3. at(i) + r \in 1..last /\ source(at(i) + r) = i
    BY <1>5, <2>1, <2>2
  <2>4. at(i) + r # at(i) /\ (at(i) + r) - at(i) = r
    BY <1>1, <2>1
  <2> QED
    BY <1>3, <2>3, <2>4
<1>9. ASSUME NEW k \in 1..last
      PROVE  \E i \in 1..n : k = at(i) \/ (i \in P /\ \E r \in 1..w : k = at(i) + r)
  <2>1. PICK i \in 1..n : at(i) <= k /\ k < at(i + 1)
    BY <1>6
  <2>2. i \in Nat /\ at(i) \in Nat /\ (i \notin P => at(i + 1) = at(i) + 1)
    <3>1. i \in Nat
      BY <1>1
    <3> QED
      BY <1>2, <3>1
  <2>3. CASE k = at(i)
    BY <2>3
  <2>4. CASE k # at(i)
    <3>1. k \in Nat /\ k >= at(i) + 1
      BY <1>4, <2>1, <2>2, <2>4
    <3>2. i \in P
      BY <2>1, <2>2, <3>1
    <3>3. at(i + 1) = at(i) + 1 + w
      BY <1>2, <3>2
    <3>4. k - at(i) \in 1..w /\ k = at(i) + (k - at(i))
      BY <1>1, <2>1, <2>2, <3>1, <3>3
    <3> QED
      BY <3>2, <3>4
  <2> QED
    BY <2>3, <2>4
<1>10. \A k \in 1..last : sent[k] \in S
  <2> TAKE k \in 1..last
  <2>1. PICK i \in 1..n : k = at(i) \/ (i \in P /\ \E r \in 1..w : k = at(i) + r)
    BY <1>9
  <2>2. q[i] \in S /\ \A r \in 1..w : f[r] \in S
    BY DEF n, w
  <2> QED
    BY <1>7, <1>8, <2>1, <2>2
<1>11. DOMAIN sent = 1..last
  BY <1>3
<1>12. sent \in Seq(S)
  <2>1. sent = [k \in 1..last |-> sent[k]]
    BY <1>3
  <2> HIDE DEF sent
  <2>2. sent \in [1..last -> S]
    BY <1>10, <2>1
  <2> QED
    BY <1>4, <2>2, SeqDef
<1> HIDE DEF sent
<1>13. Len(sent) = last
  BY <1>4, <1>11, <1>12, LenProperties
<1> QED
  BY <1>7, <1>8, <1>9, <1>12, <1>13 DEF at, sent, n, w

\* The tokens of the query are found again, in their order, among the fields.
Movement(q, P, f, sent) ==
  /\ Len(sent) \in Nat /\ Len(q) \in Nat /\ Len(f) \in Nat
  /\ \A j \in Nat : At(f, P, j) \in Nat /\ j <= At(f, P, j)
  /\ \A j, k \in Nat : /\ j < k <=> At(f, P, j) < At(f, P, k)
                       /\ At(f, P, j) = At(f, P, k) => j = k
  /\ At(f, P, 0) = 0 /\ At(f, P, 1) = 1
  /\ \A j \in Nat : j \notin P => At(f, P, j + 1) = At(f, P, j) + 1
  /\ \A j \in P : At(f, P, j + 1) = At(f, P, j) + 1 + Len(f)
  /\ \A j \in 1..Len(q) :
       j \in Nat /\ j >= 1 /\ At(f, P, j) \in 1..Len(sent) /\ sent[At(f, P, j)] = q[j]
  /\ \A j \in P, r \in 1..Len(f) :
       At(f, P, j) + r \in 1..Len(sent) /\ sent[At(f, P, j) + r] = f[r]
  /\ \A k \in 1..Len(sent) : \E j \in 1..Len(q) :
       k = At(f, P, j) \/ (j \in P /\ \E r \in 1..Len(f) : k = At(f, P, j) + r)
  /\ \A k \in 1..Len(sent) : sent[k] \notin Tokens(f) => \E j \in 1..Len(q) : k = At(f, P, j)

\* InsertAfter moves the tokens so, and adds the fields after the places.
LEMMA TokensMoved ==
  ASSUME NEW S, NEW q \in Seq(S), NEW f \in Seq(S), NEW P \in SUBSET (1..Len(q))
  PROVE  InsertAfter(q, P, f) \in Seq(S) /\ Movement(q, P, f, InsertAfter(q, P, f))
<1> DEFINE sent == InsertAfter(q, P, f)
           at(j) == At(f, P, j)
<1>1. /\ sent \in Seq(S)
      /\ \A j \in 1..Len(q) : At(f, P, j) \in 1..Len(sent) /\ sent[At(f, P, j)] = q[j]
      /\ \A j \in P, r \in 1..Len(f) :
           At(f, P, j) + r \in 1..Len(sent) /\ sent[At(f, P, j) + r] = f[r]
      /\ \A k \in 1..Len(sent) : \E j \in 1..Len(q) :
           k = At(f, P, j) \/ (j \in P /\ \E r \in 1..Len(f) : k = At(f, P, j) + r)
  BY Inserted, SMTT(30)
<1>2. Len(q) \in Nat /\ Len(f) \in Nat /\ \A j \in 1..Len(q) : j \in Nat /\ j >= 1
  OBVIOUS
<1>3. /\ \A j \in Nat : at(j) \in Nat /\ j <= at(j)
      /\ \A j, k \in Nat : j < k => at(j) < at(k)
      /\ at(0) = 0 /\ at(1) = 1
      /\ \A j \in Nat : j \notin P => at(j + 1) = at(j) + 1
      /\ \A j \in P : at(j + 1) = at(j) + 1 + Len(f)
  BY <1>2, Places
<1>4. \A r \in 1..Len(f) : f[r] \in Tokens(f)
  BY DEF Tokens
<1> HIDE DEF sent, at
<1>5. Len(sent) \in Nat
  BY <1>1
<1>6. ASSUME NEW j \in Nat, NEW k \in Nat
      PROVE  (j < k <=> at(j) < at(k)) /\ (at(j) = at(k) => j = k)
  <2>1. at(j) \in Nat /\ at(k) \in Nat /\ (j < k => at(j) < at(k)) /\ (k < j => at(k) < at(j))
    BY <1>3
  <2> QED
    BY <2>1
<1>7. \A k \in 1..Len(sent) : sent[k] \notin Tokens(f) => \E j \in 1..Len(q) : k = at(j)
  BY <1>1, <1>4 DEF at
<1>8. Movement(q, P, f, sent)
  BY <1>1, <1>2, <1>3, <1>5, <1>6, <1>7 DEF at, Movement
<1> QED
  BY <1>1, <1>8 DEF sent

\* Nothing is inserted at no place, and no field changes nothing.
LEMMA InsertNothing ==
  ASSUME NEW S, NEW q \in Seq(S), NEW f \in Seq(S), NEW P \in SUBSET (1..Len(q)),
         P = {} \/ Len(f) = 0
  PROVE  InsertAfter(q, P, f) = q
<1> DEFINE sent == InsertAfter(q, P, f)
<1>1. ASSUME NEW i \in Nat PROVE At(f, P, i) = i
  <2> DEFINE below == {p \in P : p < i}
  <2>1. At(f, P, i) = i + Len(f) * Cardinality(below)
    BY DEF At
  <2>2. IsFiniteSet(below) /\ Cardinality(below) \in Nat
    <3>1. Len(q) \in Nat /\ \A p \in below : p \in P
      OBVIOUS
    <3> HIDE DEF below
    <3>2. IsFiniteSet(1..Len(q))
      BY <3>1, FS_Interval
    <3> QED
      BY <3>1, <3>2, FS_Subset, FS_CardinalityType
  <2>3. P = {} => below = {}
    OBVIOUS
  <2> HIDE DEF below
  <2>4. Len(f) \in Nat
    OBVIOUS
  <2>5. P = {} => Cardinality(below) = 0
    BY <2>3, FS_EmptySet
  <2>6. Len(f) * Cardinality(below) = 0
    BY <2>2, <2>4, <2>5
  <2> QED
    BY <2>1, <2>6
<1>2. /\ sent \in Seq(S) /\ Len(sent) = At(f, P, Len(q) + 1) - 1
      /\ \A i \in 1..Len(q) : sent[At(f, P, i)] = q[i]
  BY Inserted
<1> HIDE DEF sent
<1>3. Len(q) \in Nat /\ Len(sent) = Len(q)
  BY <1>1, <1>2
<1>4. \A i \in 1..Len(q) : sent[i] = q[i]
  BY <1>1, <1>2, <1>3
<1>5. sent = q
  BY <1>2, <1>3, <1>4, SeqEqual
<1> QED
  BY <1>5 DEF sent

\* What was inserted can be taken out again.
LEMMA KeptQuery ==
  ASSUME NEW S, NEW q \in Seq(S), NEW f \in Seq(S), NEW P \in SUBSET (1..Len(q)),
         Tokens(f) \cap Tokens(q) = {}
  PROVE  Without(InsertAfter(q, P, f), Tokens(f)) = q
<1> DEFINE sent == InsertAfter(q, P, f)
           e == [i \in 1..Len(q) |-> At(f, P, i)]
           D == Tokens(f)
<1>1. sent \in Seq(S) /\ Movement(q, P, f, sent)
  BY TokensMoved
<1>2. \A i \in 1..Len(q) : q[i] \notin D
  BY DEF Tokens
<1> HIDE DEF sent, D
<1>3. /\ \A j, k \in Nat : j < k <=> At(f, P, j) < At(f, P, k)
      /\ \A j \in 1..Len(q) : j \in Nat /\ At(f, P, j) \in 1..Len(sent) /\ sent[At(f, P, j)] = q[j]
      /\ \A k \in 1..Len(sent) : sent[k] \notin D => \E j \in 1..Len(q) : k = At(f, P, j)
  BY <1>1, Zenon DEF Movement, D
<1>4. e \in [1..Len(q) -> 1..Len(sent)]
  BY <1>3
<1>5. \A i \in 1..Len(q) : e[i] = At(f, P, i)
  OBVIOUS
<1> HIDE DEF e
<1>6. \A i, j \in 1..Len(q) : i < j => e[i] < e[j]
  BY <1>3, <1>5
<1>7. \A i \in 1..Len(q) : sent[e[i]] = q[i] /\ q[i] \notin D
  BY <1>2, <1>3, <1>5
<1>8. \A k \in 1..Len(sent) : sent[k] \notin D => \E i \in 1..Len(q) : k = e[i]
  BY <1>3, <1>5
<1>9. Without(sent, D) = q
  <2>1. Embeds(e, q, sent, D)
    BY <1>4, <1>6, <1>7, <1>8 DEF Embeds
  <2> QED
    BY <1>1, <2>1, WithoutIs
<1> QED
  BY <1>9 DEF sent, D

\* Whichever way it goes, the rewriting inserts the fields after some places.
LEMMA SomeInsertion ==
  ASSUME NEW S, NEW q \in Seq(S), NEW f \in Seq(S), NEW parents
  PROVE  \E P \in SUBSET (1..Len(q)) : InjectFieldsIntoQuery(q, f, parents) = InsertAfter(q, P, f)
<1> DEFINE Goal(new) == \E P \in SUBSET (1..Len(q)) : new = InsertAfter(q, P, f)
<1>1. Goal(q)
  BY InsertNothing
<1>2. Goal(InjectIntoFragment(q, f))
  <2> DEFINE opens == {i \in 1..Len(q) : q[i] = "{" /\ \E j \in 1..(i - 1) : q[j] = FragmentF}
             ends == {j \in 1..Len(q) : opens # {} /\ j > Min(opens) /\ q[j] = "}"
                                        /\ Balanced(q, Min(opens), j)}
  <2>1. InjectIntoFragment(q, f) = IF ends = {} THEN q ELSE InsertAfter(q, {Min(ends) - 1}, f)
    BY DEF InjectIntoFragment
  <2>2. \A i \in opens : i \in 1..Len(q)
    BY Zenon
  <2>3. \A j \in ends : j \in 1..Len(q) /\ opens # {} /\ j > Min(opens)
    BY Zenon
  <2> HIDE DEF opens, ends
  <2>4. Len(q) \in Nat /\ opens \in SUBSET Nat /\ ends \in SUBSET Nat
    BY <2>2, <2>3
  <2>5. CASE ends = {}
    BY <1>1, <2>1, <2>5
  <2>6. CASE ends # {}
    <3>1. Min(ends) \in ends
      BY <2>4, <2>6, MinIsLeast
    <3>2. Min(opens) \in opens
      BY <2>3, <2>4, <3>1, MinIsLeast
    <3>3. Min(ends) - 1 \in 1..Len(q)
      <4>1. Min(opens) \in Nat /\ Min(opens) >= 1 /\ Min(ends) > Min(opens)
        BY <2>2, <2>3, <3>1, <3>2
      <4>2. Min(ends) \in 1..Len(q)
        BY <2>3, <3>1
      <4> QED
        BY <2>4, <4>1, <4>2
    <3> QED
      BY <2>1, <2>6, <3>3
  <2> QED
    BY <2>5, <2>6
<1>3. Goal(InsertAfter(q, InlineOpens(q), f))
  <2>1. InlineOpens(q) \in SUBSET (1..Len(q))
    <3>1. \A j \in InlineOpens(q) : j \in 2..Len(q)
      BY Zenon DEF InlineOpens
    <3> QED
      BY <3>1
  <2> QED
    BY <2>1
<1> DEFINE safe == {n \in NodesAt(q) : FindParentField(q, n) \in parents}
<1>4. Goal(InsertAfter(q, {n + 1 : n \in safe}, f))
  <2>1. \A n \in safe : n \in 1..(Len(q) - 1)
    BY Zenon DEF NodesAt
  <2> HIDE DEF safe
  <2>2. Len(q) \in Nat
    OBVIOUS
  <2>3. \A n \in safe : n + 1 \in 1..Len(q)
    BY <2>1, <2>2
  <2> QED
    BY <2>3
<1>5. \/ InjectFieldsIntoQuery(q, f, parents) = q
      \/ InjectFieldsIntoQuery(q, f, parents) = InjectIntoFragment(q, f)
      \/ InjectFieldsIntoQuery(q, f, parents) = InsertAfter(q, InlineOpens(q), f)
      \/ InjectFieldsIntoQuery(q, f, parents) = InsertAfter(q, {n + 1 : n \in safe}, f)
  BY Zenon DEF InjectFieldsIntoQuery
<1> HIDE DEF safe
<1> QED
  BY <1>1, <1>2, <1>3, <1>4, <1>5

\* The fields a guard may need, and the tokens there are: the backends do not see
\* that these literals are in STRING.
GuardFields == {"author{login}", "authorAssociation", "author{user{login}}"}
Words == STRING \cup GuardFields

\* Sequences of at most two tokens, which the wanted fields are.
LEMMA ShortSequences ==
  ASSUME NEW S, NEW a \in S, NEW b \in S
  PROVE  /\ <<>> \in Seq(S) /\ <<a>> \in Seq(S) /\ <<a, b>> \in Seq(S)
         /\ Tokens(<<>>) = {} /\ Tokens(<<a>>) = {a} /\ Tokens(<<a, b>>) = {a, b}
<1>1. <<>> \in Seq(S) /\ Tokens(<<>>) = {}
  BY DEF Tokens
<1>2. <<a>> \in Seq(S) /\ Tokens(<<a>>) = {a}
  BY DEF Tokens
<1>3. <<a, b>> \in Seq(S) /\ Tokens(<<a, b>>) = {a, b}
  BY DEF Tokens
<1> QED
  BY <1>1, <1>2, <1>3

\* The fields are not structure, and no connection has the name of one.
LEMMA WantedFields ==
  ASSUME NEW tool
  PROVE  LET wanted == FieldsForTool(tool)
         IN  /\ wanted.fields \in Seq(Words) /\ Tokens(wanted.fields) \subseteq GuardFields
             /\ wanted.parents \cap (GuardFields \cup Structure) = {} /\ NoName \notin wanted.parents
<1> DEFINE F == FieldsForTool(tool).fields
           C == FieldsForTool(tool).parents
<1>1. F \in {<<>>, <<"author{login}", "authorAssociation">>, <<"author{user{login}}">>}
  BY DEF FieldsForTool
<1>2. \A g \in GuardFields : g \in Words
  BY DEF Words
<1>3. F \in Seq(Words) /\ Tokens(F) \subseteq GuardFields
  <2>1. ASSUME NEW a \in GuardFields, NEW b \in GuardFields, F \in {<<>>, <<a, b>>, <<a>>}
        PROVE  F \in Seq(Words) /\ Tokens(F) \subseteq GuardFields
    <3>1. /\ <<>> \in Seq(Words) /\ <<a>> \in Seq(Words) /\ <<a, b>> \in Seq(Words)
          /\ Tokens(<<>>) = {} /\ Tokens(<<a>>) = {a} /\ Tokens(<<a, b>>) = {a, b}
      BY <1>2, ShortSequences
    <3> QED
      BY <2>1, <3>1, Zenon
  <2>2. /\ "author{login}" \in GuardFields /\ "authorAssociation" \in GuardFields
        /\ "author{user{login}}" \in GuardFields
    BY DEF GuardFields
  <2> QED
    BY <1>1, <2>1, <2>2, Zenon
<1>4. C \subseteq {"pullRequests", "issues", "comments", "reviews", "search", "history"}
  BY DEF FieldsForTool
<1>5. C \cap (GuardFields \cup Structure) = {}
  BY <1>4 DEF GuardFields, Structure, Args, Spread, Inline, InlineGlued, FragmentF
<1>6. NoName \notin C
  BY <1>4, Zenon DEF NoName
<1> QED
  BY <1>3, <1>5, <1>6

\* To rewrite again what was rewritten changes nothing: its fields are there.
LEMMA RewrittenOnce ==
  ASSUME NEW q \in Seq(Words), NEW tool
  PROVE  LET sent == InjectGuardFields(q, tool)
         IN  sent \in Seq(Words) /\ InjectGuardFields(sent, tool) = sent
<1> DEFINE wanted == FieldsForTool(tool)
           F == wanted.fields
           m == Missing(q, F)
           sent == InjectGuardFields(q, tool)
<1>1. F \in Seq(Words)
  BY WantedFields
<1>2. \A s : InjectGuardFields(s, tool) = InjectFieldsIntoQuery(s, Missing(s, F), wanted.parents)
  BY DEF InjectGuardFields
<1> HIDE DEF F, wanted
<1>3. m \in Seq(Words) /\ Tokens(m) = Tokens(F) \ Tokens(q)
  BY <1>1, WithoutTokens DEF Missing
<1> HIDE DEF m
<1>4. PICK P \in SUBSET (1..Len(q)) : sent = InsertAfter(q, P, m)
  <2>1. sent = InjectFieldsIntoQuery(q, m, wanted.parents)
    BY <1>2 DEF m
  <2> HIDE DEF sent
  <2> QED
    BY <1>3, <2>1, SomeInsertion
<1>5. /\ sent \in Seq(Words)
      /\ \A i \in 1..Len(q) : At(m, P, i) \in 1..Len(sent) /\ sent[At(m, P, i)] = q[i]
      /\ \A i \in P, r \in 1..Len(m) :
           At(m, P, i) + r \in 1..Len(sent) /\ sent[At(m, P, i) + r] = m[r]
  <2>1. InsertAfter(q, P, m) \in Seq(Words) /\ Movement(q, P, m, InsertAfter(q, P, m))
    BY <1>3, TokensMoved
  <2> HIDE DEF sent
  <2>2. sent \in Seq(Words) /\ Movement(q, P, m, sent)
    BY <1>4, <2>1
  <2> QED
    BY <2>2, Zenon DEF Movement
<1>6. CASE sent = q
  BY <1>5, <1>6
<1>7. CASE sent # q
  <2>1. P # {}
    BY <1>3, <1>4, <1>7, InsertNothing
  <2> HIDE DEF sent
  <2>2. Tokens(F) \subseteq Tokens(sent)
    <3> SUFFICES ASSUME NEW g \in Tokens(F) PROVE g \in Tokens(sent)
      OBVIOUS
    <3>1. \A s \in Seq(Words) : \A k \in 1..Len(s) : s[k] \in Tokens(s)
      BY DEF Tokens
    <3>2. \A s \in Seq(Words) : \A x \in Tokens(s) : \E k \in 1..Len(s) : x = s[k]
      BY DEF Tokens
    <3>3. CASE g \in Tokens(q)
      <4>1. PICK i \in 1..Len(q) : g = q[i]
        BY <3>2, <3>3
      <4> QED
        BY <1>5, <3>1, <4>1
    <3>4. CASE g \notin Tokens(q)
      <4>1. PICK r \in 1..Len(m) : g = m[r]
        BY <1>3, <3>2, <3>4
      <4>2. PICK i \in P : TRUE
        BY <2>1
      <4> QED
        BY <1>5, <3>1, <4>1, <4>2
    <3> QED
      BY <3>3, <3>4
  <2> DEFINE n == Missing(sent, F)
  <2>3. n \in Seq(Words) /\ Tokens(n) = {}
    BY <1>1, <2>2, WithoutTokens DEF Missing
  <2> HIDE DEF n
  <2>4. Len(n) = 0
    <3>1. Len(n) \in Nat /\ \A k \in 1..Len(n) : n[k] \in Tokens(n)
      BY <2>3 DEF Tokens
    <3>2. Len(n) >= 1 => 1 \in 1..Len(n)
      BY <3>1
    <3> QED
      BY <2>3, <3>1, <3>2
  <2>5. \E Q \in SUBSET (1..Len(sent)) :
          InjectFieldsIntoQuery(sent, n, wanted.parents) = InsertAfter(sent, Q, n)
    BY <1>5, <2>3, SomeInsertion
  <2>6. InjectFieldsIntoQuery(sent, n, wanted.parents) = sent
    BY <1>5, <2>3, <2>4, <2>5, InsertNothing
  <2> QED
    BY <1>2, <1>5, <2>6 DEF n, sent
<1> QED
  BY <1>6, <1>7

-----------------------------------------------------------------------------
(* Braces: the block found walking back is the block that ends last.       *)

\* How many of a token there are up to a place.
UpTo(q, i, token) == Count(q, 1, i, token)
Depth(q, i) == UpTo(q, i, "{") - UpTo(q, i, "}")

\* Counts over a stretch are differences of counts from the start.
LEMMA Counts ==
  ASSUME NEW q, NEW token
  PROVE  /\ \A a, b \in Int : Count(q, a, b, token) \in Nat
         /\ \A a, b \in Nat : a <= b => Count(q, a + 1, b, token) = UpTo(q, b, token) - UpTo(q, a, token)
         /\ \A i \in Nat : UpTo(q, i + 1, token)
                             = IF q[i + 1] = token THEN UpTo(q, i, token) + 1 ELSE UpTo(q, i, token)
<1> DEFINE at(a, b) == {i \in a..b : q[i] = token}
<1>1. \A a, b : Count(q, a, b, token) = Cardinality(at(a, b))
  BY DEF Count
<1>2. ASSUME NEW a \in Int, NEW b \in Int
      PROVE  IsFiniteSet(at(a, b)) /\ Cardinality(at(a, b)) \in Nat
  <2>1. IsFiniteSet(a..b) /\ at(a, b) \in SUBSET (a..b)
    BY FS_Interval
  <2> HIDE DEF at
  <2> QED
    BY <2>1, FS_Subset, FS_CardinalityType
<1>3. ASSUME NEW a \in Nat, NEW b \in Nat, a <= b
      PROVE  Cardinality(at(a + 1, b)) = Cardinality(at(1, b)) - Cardinality(at(1, a))
  <2>1. \A i \in Int : (i \in 1..b <=> i \in 1..a \/ i \in (a + 1)..b) /\ ~(i \in 1..a /\ i \in (a + 1)..b)
    BY <1>3
  <2>2. at(1, b) = at(1, a) \cup at(a + 1, b) /\ at(1, a) \cap at(a + 1, b) = {}
    BY <2>1
  <2>3. a + 1 \in Int /\ a \in Int /\ b \in Int /\ 1 \in Int
    OBVIOUS
  <2>4. /\ IsFiniteSet(at(1, a)) /\ Cardinality(at(1, a)) \in Nat
        /\ IsFiniteSet(at(a + 1, b)) /\ Cardinality(at(a + 1, b)) \in Nat
    BY <1>2, <2>3
  <2> HIDE DEF at
  <2>5. Cardinality(at(1, b)) = Cardinality(at(1, a)) + Cardinality(at(a + 1, b))
                                  - Cardinality(at(1, a) \cap at(a + 1, b))
    BY <2>2, <2>4, FS_Union
  <2>6. Cardinality(at(1, a) \cap at(a + 1, b)) = 0
    BY <2>2, FS_EmptySet
  <2> QED
    BY <2>4, <2>5, <2>6
<1>4. ASSUME NEW i \in Nat
      PROVE  Cardinality(at(1, i + 1))
               = IF q[i + 1] = token THEN Cardinality(at(1, i)) + 1 ELSE Cardinality(at(1, i))
  <2>1. \A j \in Int : j \in 1..(i + 1) <=> j \in 1..i \/ j = i + 1
    OBVIOUS
  <2>2. i + 1 \notin 1..i /\ i + 1 \in Int
    OBVIOUS
  <2>3. IsFiniteSet(at(1, i)) /\ Cardinality(at(1, i)) \in Nat
    BY <1>2
  <2>4. CASE q[i + 1] = token
    <3>1. at(1, i + 1) = at(1, i) \cup {i + 1} /\ i + 1 \notin at(1, i)
      BY <2>1, <2>2, <2>4
    <3> HIDE DEF at
    <3> QED
      BY <2>3, <2>4, <3>1, FS_AddElement
  <2>5. CASE q[i + 1] # token
    <3>1. at(1, i + 1) = at(1, i)
      BY <2>1, <2>2, <2>5
    <3> HIDE DEF at
    <3> QED
      BY <2>5, <3>1
  <2> QED
    BY <2>4, <2>5
<1>5. \A i : UpTo(q, i, token) = Cardinality(at(1, i))
  BY DEF UpTo, Count
<1> HIDE DEF at
<1>6. \A a, b \in Int : Count(q, a, b, token) \in Nat
  BY <1>1, <1>2
<1>7. \A a, b \in Nat : a <= b => Count(q, a + 1, b, token) = UpTo(q, b, token) - UpTo(q, a, token)
  BY <1>1, <1>3, <1>5
<1>8. \A i \in Nat : UpTo(q, i + 1, token)
                        = IF q[i + 1] = token THEN UpTo(q, i, token) + 1 ELSE UpTo(q, i, token)
  BY <1>4, <1>5
<1> QED
  BY <1>6, <1>7, <1>8

\* Depth rises by one at an opening brace and falls by one at a closing one, and
\* a stretch is balanced when it is as deep at its end as before its start.
LEMMA Depths ==
  ASSUME NEW q
  PROVE  /\ \A i \in Nat : Depth(q, i) \in Int
         /\ \A i \in Nat : /\ q[i + 1] = "{" => Depth(q, i + 1) = Depth(q, i) + 1
                           /\ q[i + 1] = "}" => Depth(q, i + 1) = Depth(q, i) - 1
                           /\ q[i + 1] \notin {"{", "}"} => Depth(q, i + 1) = Depth(q, i)
         /\ \A a, b \in Nat : a <= b => (Balanced(q, a + 1, b) <=> Depth(q, b) = Depth(q, a))
<1> DEFINE open(i) == UpTo(q, i, "{")
           close(i) == UpTo(q, i, "}")
<1>1. /\ \A i \in Nat : open(i) \in Nat /\ close(i) \in Nat
      /\ \A i \in Nat : open(i + 1) = IF q[i + 1] = "{" THEN open(i) + 1 ELSE open(i)
      /\ \A i \in Nat : close(i + 1) = IF q[i + 1] = "}" THEN close(i) + 1 ELSE close(i)
  <2>1. ASSUME NEW token, NEW i \in Nat PROVE UpTo(q, i, token) \in Nat
    BY Counts DEF UpTo
  <2>2. \A i \in Nat : open(i) \in Nat /\ close(i) \in Nat
    BY <2>1
  <2>3. \A i \in Nat : open(i + 1) = IF q[i + 1] = "{" THEN open(i) + 1 ELSE open(i)
    BY Counts
  <2>4. \A i \in Nat : close(i + 1) = IF q[i + 1] = "}" THEN close(i) + 1 ELSE close(i)
    BY Counts
  <2> QED
    BY <2>2, <2>3, <2>4
<1>2. \A a, b \in Nat : a <= b => /\ Count(q, a + 1, b, "{") = open(b) - open(a)
                                  /\ Count(q, a + 1, b, "}") = close(b) - close(a)
  BY Counts
<1>3. \A i : Depth(q, i) = open(i) - close(i)
  BY DEF Depth
<1> HIDE DEF open, close
<1>4. ASSUME NEW i \in Nat PROVE Depth(q, i) \in Int
  <2>1. open(i) \in Nat /\ close(i) \in Nat
    BY <1>1
  <2> QED
    BY <1>3, <2>1
<1>5. ASSUME NEW i \in Nat
      PROVE  /\ q[i + 1] = "{" => Depth(q, i + 1) = Depth(q, i) + 1
             /\ q[i + 1] = "}" => Depth(q, i + 1) = Depth(q, i) - 1
             /\ q[i + 1] \notin {"{", "}"} => Depth(q, i + 1) = Depth(q, i)
  <2>1. /\ open(i) \in Nat /\ close(i) \in Nat
        /\ open(i + 1) = IF q[i + 1] = "{" THEN open(i) + 1 ELSE open(i)
        /\ close(i + 1) = IF q[i + 1] = "}" THEN close(i) + 1 ELSE close(i)
    BY <1>1
  <2>2. Depth(q, i) = open(i) - close(i) /\ Depth(q, i + 1) = open(i + 1) - close(i + 1)
    BY <1>3
  <2>3. /\ q[i + 1] = "{" => open(i + 1) = open(i) + 1 /\ close(i + 1) = close(i)
        /\ q[i + 1] = "}" => open(i + 1) = open(i) /\ close(i + 1) = close(i) + 1
        /\ q[i + 1] \notin {"{", "}"} => open(i + 1) = open(i) /\ close(i + 1) = close(i)
    BY <2>1
  <2>4. open(i) \in Nat /\ close(i) \in Nat
    BY <1>1
  <2>5. /\ open(i + 1) = open(i) + 1 /\ close(i + 1) = close(i) =>
             Depth(q, i + 1) = Depth(q, i) + 1
        /\ open(i + 1) = open(i) /\ close(i + 1) = close(i) + 1 =>
             Depth(q, i + 1) = Depth(q, i) - 1
        /\ open(i + 1) = open(i) /\ close(i + 1) = close(i) =>
             Depth(q, i + 1) = Depth(q, i)
    BY <2>2, <2>4
  <2> QED
    BY <2>3, <2>5, Zenon
<1>6. ASSUME NEW a \in Nat, NEW b \in Nat, a <= b
      PROVE  Balanced(q, a + 1, b) <=> Depth(q, b) = Depth(q, a)
  <2>1. open(a) \in Nat /\ open(b) \in Nat /\ close(a) \in Nat /\ close(b) \in Nat
    BY <1>1
  <2>2. Balanced(q, a + 1, b) <=> open(b) - open(a) = close(b) - close(a)
    BY <1>2, <1>6 DEF Balanced
  <2> QED
    BY <1>3, <2>1, <2>2
<1> QED
  BY <1>4, <1>5, <1>6

\* Between a shallow place and a deep one there is an opening brace at each depth.
LEMMA LastOpening ==
  ASSUME NEW q, NEW a \in Nat, NEW b \in Nat, NEW v \in Int,
         a <= b, Depth(q, a) < v, v <= Depth(q, b)
  PROVE  \E k \in Nat : a < k /\ k <= b /\ q[k] = "{" /\ Depth(q, k) = v
<1> DEFINE D(i) == Depth(q, i)
           low == {i \in a..b : D(i) < v}
<1>1. /\ \A i \in Nat : D(i) \in Int
      /\ \A i \in Nat : q[i + 1] = "}" => D(i + 1) = D(i) - 1
      /\ \A i \in Nat : q[i + 1] = "{" => D(i + 1) = D(i) + 1
      /\ \A i \in Nat : q[i + 1] \notin {"{", "}"} => D(i + 1) = D(i)
  BY Depths
<1>2. D(a) < v /\ v <= D(b)
  OBVIOUS
<1> HIDE DEF D
<1>3. PICK i \in low : \A m \in low : m <= i
  <2>1. a \in low /\ low \in SUBSET Nat /\ \A m \in low : m <= b
    BY <1>2
  <2> HIDE DEF low
  <2> QED
    BY <2>1, MaxIsGreatest
<1>4. i \in Nat /\ i >= a /\ i <= b /\ D(i) < v
  OBVIOUS
<1>5. D(i) \in Int /\ D(b) \in Int
  BY <1>1, <1>4
<1>6. i \in Nat /\ i >= a /\ i <= b /\ D(i) < v /\ D(i) \in Int
  BY <1>4, <1>5
<1>7. i # b
  BY <1>2, <1>5, <1>6
<1>8. ASSUME NEW m \in (i + 1)..b PROVE v <= D(m)
  <2>1. m \in Nat /\ m \in a..b /\ ~(m <= i)
    BY <1>6
  <2>2. ~(D(m) < v)
    BY <1>3, <2>1
  <2>3. D(m) \in Int
    BY <1>1, <2>1
  <2> QED
    BY <2>2, <2>3
<1>9. i + 1 \in Nat /\ a < i + 1 /\ i + 1 <= b /\ v <= D(i + 1) /\ D(i + 1) \in Int
  <2>1. i + 1 \in (i + 1)..b /\ i + 1 \in Nat /\ a < i + 1 /\ i + 1 <= b
    BY <1>6, <1>7
  <2> QED
    BY <1>1, <1>8, <2>1
<1>10. D(i + 1) # D(i) /\ D(i + 1) # D(i) - 1
  BY <1>6, <1>9
<1>11. q[i + 1] = "{"
  <2>1. q[i + 1] \in {"{", "}"} /\ q[i + 1] # "}"
    BY <1>1, <1>6, <1>10, Zenon
  <2> QED
    BY <2>1
<1>12. D(i + 1) = v
  <2>1. D(i + 1) = D(i) + 1
    BY <1>1, <1>6, <1>11, Zenon
  <2> QED
    BY <1>6, <1>9, <2>1
<1> QED
  BY <1>9, <1>11, <1>12 DEF D

\* Between a deep place and a shallow one there is a closing brace at each depth.
LEMMA FirstClosing ==
  ASSUME NEW q, NEW a \in Nat, NEW b \in Nat, NEW v \in Int,
         a <= b, v < Depth(q, a), Depth(q, b) <= v
  PROVE  \E j \in Nat : a < j /\ j <= b /\ q[j] = "}" /\ Depth(q, j) = v
<1> DEFINE D(i) == Depth(q, i)
           low == {i \in a..b : D(i) <= v}
<1>1. /\ \A i \in Nat : D(i) \in Int
      /\ \A i \in Nat : q[i + 1] = "}" => D(i + 1) = D(i) - 1
      /\ \A i \in Nat : q[i + 1] = "{" => D(i + 1) = D(i) + 1
      /\ \A i \in Nat : q[i + 1] \notin {"{", "}"} => D(i + 1) = D(i)
  BY Depths
<1>2. v < D(a) /\ D(b) <= v
  OBVIOUS
<1> HIDE DEF D
<1>3. PICK j \in low : \A m \in low : j <= m
  <2>1. b \in low /\ low \in SUBSET Nat
    BY <1>2
  <2> HIDE DEF low
  <2> QED
    BY <2>1, LeastNatural
<1>4. j \in Nat /\ j >= a /\ j <= b /\ D(j) <= v
  OBVIOUS
<1>5. D(j) \in Int /\ D(a) \in Int
  BY <1>1, <1>4
<1>6. j # a
  BY <1>2, <1>4, <1>5
<1> DEFINE i == j - 1
<1>7. i \in Nat /\ i + 1 = j /\ i \in a..b /\ ~(j <= i)
  BY <1>4, <1>6
<1>8. v < D(i) /\ D(i) \in Int
  <2>1. i \notin low
    BY <1>3, <1>7
  <2>2. D(i) \in Int
    BY <1>1, <1>7
  <2>3. ~(D(i) <= v)
    BY <1>7, <2>1
  <2> QED
    BY <2>2, <2>3
<1>9. D(j) # D(i) /\ D(j) # D(i) + 1
  BY <1>4, <1>5, <1>8
<1> HIDE DEF i
<1>10. q[j] = "}"
  <2>1. q[j] \in {"{", "}"} /\ q[j] # "{"
    BY <1>1, <1>7, <1>9, Zenon
  <2> QED
    BY <2>1
<1>11. D(j) = v
  <2>1. D(j) = D(i) - 1
    BY <1>1, <1>7, <1>10, Zenon
  <2> QED
    BY <1>4, <1>5, <1>8, <2>1
<1>12. a < j /\ j <= b /\ j \in Nat
  BY <1>4, <1>6
<1> QED
  BY <1>10, <1>11, <1>12 DEF D

\* findParentField, walking back, finds the brace of the innermost block, as it is
\* found from where blocks end.
LEMMA SameBlock ==
  ASSUME NEW S, NEW q \in Seq(S), Closed(q), NEW n \in 1..Len(q)
  PROVE  Brace(q, n) = BlockOf(q, n)
<1> DEFINE D(i) == Depth(q, i)
           E == {k \in 1..(n - 1) : Encloses(q, k, n)}
           C == {o \in 1..(n - 1) : q[o] = "{" /\ n <= Min(Ends(q, o))}
<1>1. /\ \A i \in Nat : D(i) \in Int
      /\ \A i \in Nat : q[i + 1] = "{" => D(i + 1) = D(i) + 1
      /\ \A a, b \in Nat : a <= b => (Balanced(q, a + 1, b) <=> D(b) = D(a))
  BY Depths
<1>2. n \in Nat /\ n >= 1 /\ n - 1 \in Nat /\ Len(q) \in Nat /\ n <= Len(q)
  OBVIOUS
<1>3. ASSUME NEW k \in 1..(n - 1) PROVE Encloses(q, k, n) <=> q[k] = "{" /\ D(n - 1) = D(k)
  <2>1. k \in Nat /\ k <= n - 1
    BY <1>2
  <2> QED
    BY <1>1, <1>2, <2>1 DEF Encloses
<1>4. ASSUME NEW o \in 1..(n - 1), q[o] = "{"
      PROVE  /\ o - 1 \in Nat /\ o - 1 <= n - 1 /\ (o - 1) + 1 = o
             /\ D(o - 1) \in Int /\ D(o) \in Int /\ D(o - 1) < D(o)
             /\ \A v \in Int : v <= D(o - 1) \/ D(o - 1) < v
             /\ \A v \in Int : v < D(o) => v <= D(o - 1)
  <2>1. o - 1 \in Nat /\ (o - 1) + 1 = o /\ o \in Nat /\ o - 1 <= n - 1
    BY <1>2
  <2>2. D(o) = D(o - 1) + 1 /\ D(o - 1) \in Int /\ D(o) \in Int
    BY <1>1, <1>4, <2>1
  <2> HIDE DEF D
  <2> QED
    BY <2>1, <2>2
<1>5. ASSUME NEW o \in 1..(n - 1), q[o] = "{"
       PROVE  /\ Min(Ends(q, o)) \in (o + 1)..Len(q) /\ D(Min(Ends(q, o))) = D(o - 1)
              /\ \A j \in (o + 1)..Len(q) : q[j] = "}" /\ D(j) = D(o - 1) => Min(Ends(q, o)) <= j
  <2>1. o - 1 \in Nat /\ (o - 1) + 1 = o /\ o \in Nat /\ o \in 1..Len(q)
    BY <1>2
  <2>2. ASSUME NEW j \in (o + 1)..Len(q)
        PROVE  Balanced(q, o, j) <=> D(j) = D(o - 1)
    <3>1. j \in Nat /\ o - 1 <= j
      BY <1>2, <2>1
    <3>2. Balanced(q, (o - 1) + 1, j) <=> D(j) = D(o - 1)
      BY <1>1, <2>1, <3>1
    <3> QED
      BY <2>1, <3>2
  <2> HIDE DEF D
  <2>3. \A j : j \in Ends(q, o) <=> j \in (o + 1)..Len(q) /\ q[j] = "}" /\ D(j) = D(o - 1)
    BY <2>2, Zenon DEF Ends
  <2>4. Ends(q, o) # {}
    BY <1>5, <2>1 DEF Closed
  <2>5. Ends(q, o) \in SUBSET Nat
    <3>1. \A j \in (o + 1)..Len(q) : j \in Nat
      BY <2>1
    <3> QED
      BY <2>3, <3>1
  <2>6. Min(Ends(q, o)) \in Ends(q, o) /\ \A j \in Ends(q, o) : Min(Ends(q, o)) <= j
    BY <2>4, <2>5, MinIsLeast
  <2> QED
    BY <2>3, <2>6, Zenon
<1>6. \A k : k \in E <=> k \in 1..(n - 1) /\ q[k] = "{" /\ D(n - 1) = D(k)
  BY <1>3, Zenon
<1>7. \A o : o \in C <=> o \in 1..(n - 1) /\ q[o] = "{" /\ n <= Min(Ends(q, o))
  BY Zenon
<1>8. Brace(q, n) = Max({0} \cup E) /\ BlockOf(q, n) = Max({0} \cup C)
  BY Zenon DEF Brace, BlockOf
<1>9. \A a, b \in Nat, v \in Int : a <= b /\ D(a) < v /\ v <= D(b) =>
         \E k \in Nat : a < k /\ k <= b /\ q[k] = "{" /\ D(k) = v
  BY LastOpening, ZenonT(30)
<1>10. \A a, b \in Nat, v \in Int : a <= b /\ v < D(a) /\ D(b) <= v =>
         \E j \in Nat : a < j /\ j <= b /\ q[j] = "}" /\ D(j) = v
  BY FirstClosing, ZenonT(30)
<1>11. \A i \in 1..(n - 1) : i \in Nat /\ i >= 1 /\ i <= n - 1 /\ i \in 1..Len(q)
  BY <1>2
<1> HIDE DEF D, E, C
<1>12. \A i \in 1..(n - 1) : D(i) \in Int
  BY <1>1, <1>11
<1>13. ASSUME NEW k \in E, \A l \in E : l <= k PROVE k \in C
  <2>1. k \in 1..(n - 1) /\ q[k] = "{" /\ D(n - 1) = D(k)
    BY <1>6
  <2>2. D(k) \in Int /\ D(k - 1) < D(k)
    BY <1>4, <2>1
  <2> DEFINE j == Min(Ends(q, k))
  <2>3. j \in (k + 1)..Len(q) /\ D(j) = D(k - 1)
    BY <1>5, <2>1
  <2> HIDE DEF j
  <2>4. k \in 1..(n - 1) /\ j \in (k + 1)..Len(q)
    BY <2>1, <2>3
  <2>5. k \in Nat /\ j \in Nat /\ k < j
    BY <1>2, <2>4
  <2>6. ASSUME j <= n - 1 PROVE FALSE
    <3>1. D(j) < D(k)
      BY <2>2, <2>3
    <3>2. D(n - 1) = D(k) /\ D(k) \in Int
      BY <2>1, <2>2
    <3>3. D(k) <= D(n - 1)
      BY <3>2
    <3>4. PICK l \in Nat : j < l /\ l <= n - 1 /\ q[l] = "{" /\ D(l) = D(k)
      <4>1. j \in Nat /\ n - 1 \in Nat /\ D(k) \in Int /\ j <= n - 1
        BY <1>2, <2>5, <2>6, <3>2
      <4> QED
        BY <1>9, <3>1, <3>3, <4>1, Zenon
    <3>5. l \in 1..(n - 1) /\ ~(l <= k)
      <4>1. l \in Nat /\ j < l /\ l <= n - 1
        BY <3>4
      <4> QED
        BY <1>2, <2>5, <4>1
    <3>6. l \in E
      BY <1>6, <2>1, <3>4, <3>5
    <3> QED
      BY <1>13, <3>5, <3>6
  <2>7. n <= j
    BY <1>2, <2>5, <2>6
  <2> QED
    BY <1>7, <2>1, <2>7 DEF j
<1>14. ASSUME NEW o \in C PROVE \E k \in E : o <= k
  <2>1. o \in 1..(n - 1) /\ q[o] = "{" /\ n <= Min(Ends(q, o))
    BY <1>7
  <2>2. /\ o - 1 \in Nat /\ o - 1 <= n - 1 /\ (o - 1) + 1 = o
        /\ D(o - 1) \in Int /\ D(o) \in Int /\ D(o - 1) < D(o)
    BY <1>4, <2>1
  <2> DEFINE j == Min(Ends(q, o))
  <2>3. /\ j \in (o + 1)..Len(q)
        /\ \A i \in (o + 1)..Len(q) : q[i] = "}" /\ D(i) = D(o - 1) => j <= i
    BY <1>5, <2>1
  <2>4. n <= j
    BY <2>1
  <2> HIDE DEF j
  <2>5. o \in 1..(n - 1) /\ j \in (o + 1)..Len(q)
    BY <2>1, <2>3
  <2>6. o \in Nat /\ j \in Nat /\ o <= n - 1
    BY <1>2, <2>5
  <2>7. D(n - 1) \in Int
    BY <1>1, <1>2
  <2>8. ASSUME D(n - 1) <= D(o - 1) PROVE FALSE
    <3>1. D(o - 1) < D(o) /\ D(o - 1) \in Int
      BY <2>2
    <3>2. PICK i \in Nat : o < i /\ i <= n - 1 /\ q[i] = "}" /\ D(i) = D(o - 1)
      BY <1>2, <1>10, <2>6, <2>8, <3>1, Zenon
    <3>3. i \in (o + 1)..Len(q) /\ i \in Nat /\ ~(j <= i)
      <4>1. i \in Nat /\ o < i /\ i <= n - 1
        BY <3>2
      <4> QED
        BY <1>2, <2>4, <2>6, <4>1
    <3> QED
      BY <2>3, <3>2, <3>3
  <2>9. D(o - 1) < D(n - 1) /\ D(n - 1) <= D(n - 1)
    BY <2>2, <2>7, <2>8
  <2>10. o - 1 \in Nat /\ o - 1 <= n - 1 /\ (o - 1) + 1 = o
    BY <2>2
  <2>11. PICK k \in Nat : o - 1 < k /\ k <= n - 1 /\ q[k] = "{" /\ D(k) = D(n - 1)
    <3>1. o - 1 \in Nat /\ n - 1 \in Nat /\ D(n - 1) \in Int /\ o - 1 <= n - 1
      BY <1>2, <2>7, <2>10
    <3> QED
      BY <1>9, <2>9, <3>1, ZenonT(30)
  <2>12. k \in 1..(n - 1) /\ o <= k
    <3>1. o - 1 < k /\ k <= n - 1
      BY <2>11
    <3> QED
      BY <1>2, <2>5, <3>1
  <2>13. k \in E
    BY <1>6, <2>11, <2>12
  <2> QED
    BY <2>12, <2>13
<1>15. /\ \A k \in E : k \in 1..(n - 1)
      /\ \A o \in C : o \in 1..(n - 1)
  BY <1>6, <1>7, Zenon
<1> DEFINE e == Max({0} \cup E)
           c == Max({0} \cup C)
<1>16. /\ e \in {0} \cup E /\ \A k \in {0} \cup E : k <= e
      /\ c \in {0} \cup C /\ \A o \in {0} \cup C : o <= c
  <2>1. /\ {0} \cup E \in SUBSET Nat /\ \A k \in {0} \cup E : k <= n
        /\ {0} \cup C \in SUBSET Nat /\ \A o \in {0} \cup C : o <= n
    BY <1>2, <1>15
  <2>2. e \in {0} \cup E /\ \A k \in {0} \cup E : k <= e
    BY <1>2, <2>1, MaxIsGreatest
  <2>3. c \in {0} \cup C /\ \A k \in {0} \cup C : k <= c
    BY <1>2, <2>1, MaxIsGreatest
  <2> QED
    BY <2>2, <2>3
<1> HIDE DEF e, c
<1>17. e \in Nat /\ c \in Nat
  BY <1>2, <1>15, <1>16
<1>18. e <= c
  <2>1. CASE e = 0
    BY <1>17, <2>1
  <2>2. CASE e \in E
    BY <1>13, <1>16, <2>2
  <2> QED
    BY <1>16, <2>1, <2>2
<1>19. c <= e
  <2>1. CASE c = 0
    BY <1>17, <2>1
  <2>2. CASE c \in C
    <3>1. PICK k \in E : c <= k
      BY <1>14, <2>2
    <3>2. k <= e /\ k \in Nat
      BY <1>2, <1>15, <1>16
    <3> QED
      BY <1>17, <3>1, <3>2
  <2> QED
    BY <1>16, <2>1, <2>2
<1>20. e = c
  BY <1>17, <1>18, <1>19
<1> QED
  BY <1>8, <1>20 DEF e, c

\* Counts are kept when the fields inserted are other tokens.
LEMMA CountsMoved ==
  ASSUME NEW S, NEW q \in Seq(S), NEW f \in Seq(S), NEW P \in SUBSET (1..Len(q)),
         NEW token, token \notin Tokens(f), NEW i \in 1..Len(q)
  PROVE  LET sent == InsertAfter(q, P, f)
         IN  /\ UpTo(sent, At(f, P, i) - 1, token) = UpTo(q, i - 1, token)
             /\ UpTo(sent, At(f, P, i), token) = UpTo(q, i, token)
<1> DEFINE sent == InsertAfter(q, P, f)
           at(j) == At(f, P, j)
<1>1. Movement(q, P, f, sent)
  BY TokensMoved
<1>2. /\ \A j \in Nat : at(j) \in Nat /\ j <= at(j)
      /\ \A j, k \in Nat : /\ j < k <=> at(j) < at(k)
                           /\ at(j) = at(k) => j = k
      /\ \A j \in 1..Len(q) : j \in Nat /\ j >= 1 /\ at(j) \in 1..Len(sent) /\ sent[at(j)] = q[j]
      /\ \A k \in 1..Len(sent) : sent[k] \notin Tokens(f) => \E j \in 1..Len(q) : k = at(j)
      /\ Len(q) \in Nat /\ Len(sent) \in Nat
  BY <1>1, Zenon DEF Movement
<1>3. \A s, j : UpTo(s, j, token) = Cardinality({k \in 1..j : s[k] = token})
  BY DEF UpTo, Count
<1>4. \A s : \A j \in Nat : UpTo(s, j + 1, token)
                              = IF s[j + 1] = token THEN UpTo(s, j, token) + 1 ELSE UpTo(s, j, token)
  BY Counts
<1> HIDE DEF sent, at
<1> DEFINE here == {j \in 1..(i - 1) : q[j] = token}
           there == {k \in 1..(at(i) - 1) : sent[k] = token}
           e == [j \in here |-> at(j)]
<1>5. /\ i \in Nat /\ i - 1 \in Nat /\ (i - 1) + 1 = i
      /\ \A j \in 1..(i - 1) : j \in 1..Len(q) /\ j \in Nat /\ j < i
  BY <1>2
<1>6. at(i) \in Nat /\ at(i) - 1 \in Nat /\ (at(i) - 1) + 1 = at(i) /\ at(i) <= Len(sent)
  <2>1. at(i) \in 1..Len(sent)
    BY <1>2, Zenon
  <2>2. Len(sent) \in Nat
    BY <1>2, Zenon
  <2> QED
    BY <2>1, <2>2
<1>7. \A j : j \in here <=> j \in 1..(i - 1) /\ q[j] = token
  OBVIOUS
<1>8. \A k : k \in there <=> k \in 1..(at(i) - 1) /\ sent[k] = token
  OBVIOUS
<1>9. IsFiniteSet(here)
  <2>1. IsFiniteSet(1..(i - 1)) /\ here \in SUBSET (1..(i - 1))
    BY <1>5, FS_Interval
  <2> HIDE DEF here
  <2> QED
    BY <2>1, FS_Subset
<1> HIDE DEF here, there
<1>10. ASSUME NEW j \in here PROVE at(j) \in there
  <2>1. j \in 1..Len(q) /\ j \in Nat /\ j < i /\ q[j] = token
    BY <1>5, <1>7
  <2>2. at(j) \in 1..Len(sent) /\ sent[at(j)] = token
    BY <1>2, <2>1
  <2>3. at(j) < at(i)
    BY <1>2, <1>5, <2>1
  <2>4. at(j) \in 1..(at(i) - 1)
    BY <1>6, <2>2, <2>3
  <2> QED
    BY <1>8, <2>2, <2>4
<1>11. ASSUME NEW k \in there PROVE \E j \in here : k = at(j)
  <2>1. k \in 1..(at(i) - 1) /\ sent[k] = token
    BY <1>8
  <2>2. k \in 1..Len(sent) /\ k < at(i)
    <3>1. Len(sent) \in Nat
      BY <1>2, Zenon
    <3> QED
      BY <1>6, <2>1, <3>1
  <2>3. PICK j \in 1..Len(q) : k = at(j)
    BY <1>2, <2>1, <2>2, Zenon
  <2>4. j \in Nat /\ j >= 1 /\ q[j] = token
    BY <1>2, <2>1, <2>3
  <2>5. j < i
    BY <1>2, <1>5, <2>2, <2>3, <2>4
  <2>6. j \in 1..(i - 1)
    BY <1>5, <2>4, <2>5
  <2> QED
    BY <1>7, <2>3, <2>4, <2>6
<1>12. \A j, k \in here : at(j) = at(k) => j = k
  BY <1>2, <1>5, <1>7
<1>13. ExistsBijection(here, there)
  <2>1. e \in [here -> there]
    BY <1>10
  <2>2. \A j \in here : e[j] = at(j)
    OBVIOUS
  <2> HIDE DEF e
  <2>3. e \in Bijection(here, there)
    BY <1>11, <1>12, <2>1, <2>2 DEF Bijection, Injection, Surjection, IsInjective
  <2> QED
    BY <2>3 DEF ExistsBijection
<1>14. Cardinality(there) = Cardinality(here)
  BY <1>9, <1>13, FS_Bijection
<1>15. UpTo(sent, at(i) - 1, token) = UpTo(q, i - 1, token)
  BY <1>3, <1>14 DEF here, there
<1>16. UpTo(sent, at(i), token) = UpTo(q, i, token)
  <2>1. sent[at(i)] = q[i]
    BY <1>2
  <2>2. UpTo(sent, (at(i) - 1) + 1, token)
          = IF sent[(at(i) - 1) + 1] = token THEN UpTo(sent, at(i) - 1, token) + 1
                                             ELSE UpTo(sent, at(i) - 1, token)
    BY <1>4, <1>6
  <2>3. UpTo(q, (i - 1) + 1, token)
          = IF q[(i - 1) + 1] = token THEN UpTo(q, i - 1, token) + 1 ELSE UpTo(q, i - 1, token)
    BY <1>4, <1>5
  <2> QED
    BY <1>5, <1>6, <1>15, <2>1, <2>2, <2>3
<1> QED
  BY <1>15, <1>16 DEF sent, at

\* The tokens that open and close blocks.
Braces == {"{", "}"}

\* What lies between two tokens of the query is as balanced as it was.
LEMMA EnclosesMoved ==
  ASSUME NEW S, NEW q \in Seq(S), NEW f \in Seq(S), NEW P \in SUBSET (1..Len(q)),
         Tokens(f) \cap Braces = {}
  PROVE  LET sent == InsertAfter(q, P, f)
         IN  /\ \A i \in 1..Len(q) : /\ Depth(sent, At(f, P, i) - 1) = Depth(q, i - 1)
                                     /\ Depth(sent, At(f, P, i)) = Depth(q, i)
             /\ \A k, n \in 1..Len(q) : k < n =>
                  (Encloses(sent, At(f, P, k), At(f, P, n)) <=> Encloses(q, k, n))
<1> DEFINE sent == InsertAfter(q, P, f)
           at(j) == At(f, P, j)
<1>1. ASSUME NEW i \in 1..Len(q)
      PROVE  Depth(sent, at(i) - 1) = Depth(q, i - 1) /\ Depth(sent, at(i)) = Depth(q, i)
  <2>1. \A token : token \notin Tokens(f) =>
          /\ UpTo(sent, at(i) - 1, token) = UpTo(q, i - 1, token)
          /\ UpTo(sent, at(i), token) = UpTo(q, i, token)
    BY CountsMoved
  <2>2. "{" \notin Tokens(f) /\ "}" \notin Tokens(f)
    BY Zenon DEF Braces
  <2> HIDE DEF sent, at
  <2>3. /\ UpTo(sent, at(i) - 1, "{") = UpTo(q, i - 1, "{") /\ UpTo(sent, at(i), "{") = UpTo(q, i, "{")
        /\ UpTo(sent, at(i) - 1, "}") = UpTo(q, i - 1, "}") /\ UpTo(sent, at(i), "}") = UpTo(q, i, "}")
    BY <2>1, <2>2, Zenon
  <2> QED
    BY <2>3, Zenon DEF Depth
<1>2. Movement(q, P, f, sent)
  BY TokensMoved
<1>3. \A i \in 1..Len(q) : i \in Nat /\ sent[at(i)] = q[i]
  BY <1>2, Zenon DEF Movement
<1>4. /\ \A j \in Nat : at(j) \in Nat
      /\ \A j, k \in Nat : j < k <=> at(j) < at(k)
  BY <1>2, Zenon DEF Movement
<1>5. \A s : \A a, b \in Nat : a <= b => (Balanced(s, a + 1, b) <=> Depth(s, b) = Depth(s, a))
  BY Depths
<1> HIDE DEF sent, at
<1>6. ASSUME NEW k \in 1..Len(q), NEW n \in 1..Len(q), k < n
      PROVE  Encloses(sent, at(k), at(n)) <=> Encloses(q, k, n)
  <2>1. k \in Nat /\ n \in Nat /\ n - 1 \in Nat /\ k <= n - 1
    <3>1. k \in Nat /\ n \in Nat /\ k < n
      BY <1>3, <1>6
    <3> QED
      BY <3>1
  <2>2. at(k) \in Nat /\ at(n) \in Nat /\ at(k) < at(n)
    BY <1>4, <1>6, <2>1
  <2>3. at(n) - 1 \in Nat /\ at(k) <= at(n) - 1
    BY <2>2
  <2>4. Balanced(q, k + 1, n - 1) <=> Depth(q, n - 1) = Depth(q, k)
    BY <1>5, <2>1
  <2>5. Balanced(sent, at(k) + 1, at(n) - 1) <=> Depth(sent, at(n) - 1) = Depth(sent, at(k))
    BY <1>5, <2>2, <2>3
  <2>6. Depth(sent, at(n) - 1) = Depth(q, n - 1) /\ Depth(sent, at(k)) = Depth(q, k)
    BY <1>1
  <2> QED
    BY <1>3, <2>4, <2>5, <2>6 DEF Encloses
<1> QED
  BY <1>1, <1>6 DEF sent, at

\* The brace found for a token of the query is the one found before, moved.
LEMMA BraceMoved ==
  ASSUME NEW S, NEW q \in Seq(S), NEW f \in Seq(S), NEW P \in SUBSET (1..Len(q)),
         Tokens(f) \cap Braces = {}, NEW n \in 1..Len(q)
  PROVE  /\ Brace(q, n) \in 0..(n - 1)
         /\ Brace(InsertAfter(q, P, f), At(f, P, n)) = At(f, P, Brace(q, n))
<1> DEFINE sent == InsertAfter(q, P, f)
           at(j) == At(f, P, j)
           here == {0} \cup {k \in 1..(n - 1) : Encloses(q, k, n)}
           there == {0} \cup {k \in 1..(at(n) - 1) : Encloses(sent, k, at(n))}
<1>1. Movement(q, P, f, sent)
  BY TokensMoved
<1>2. /\ \A j \in Nat : at(j) \in Nat
      /\ \A j, k \in Nat : j < k <=> at(j) < at(k)
      /\ at(0) = 0 /\ Len(q) \in Nat /\ Len(sent) \in Nat
      /\ \A j \in 1..Len(q) : j \in Nat /\ j >= 1 /\ at(j) \in 1..Len(sent)
      /\ \A k \in 1..Len(sent) : sent[k] \notin Tokens(f) => \E j \in 1..Len(q) : k = at(j)
  BY <1>1, Zenon DEF Movement
<1>3. "{" \notin Tokens(f)
  BY Zenon DEF Braces
<1>4. \A k, m \in 1..Len(q) : k < m => (Encloses(sent, at(k), at(m)) <=> Encloses(q, k, m))
  BY EnclosesMoved
<1>5. Brace(q, n) = Max(here) /\ Brace(sent, at(n)) = Max(there)
  BY DEF Brace
<1>6. n \in Nat /\ n >= 1 /\ n <= Len(q)
  OBVIOUS
<1> HIDE DEF sent, at
<1>7. \A k : k \in here <=> k = 0 \/ (k \in 1..(n - 1) /\ Encloses(q, k, n))
  OBVIOUS
<1>8. \A k : k \in there <=> k = 0 \/ (k \in 1..(at(n) - 1) /\ Encloses(sent, k, at(n)))
  OBVIOUS
<1> HIDE DEF here, there
<1>9. \A k \in 1..(n - 1) : k \in Nat /\ k >= 1 /\ k < n /\ k \in 1..Len(q)
  BY <1>2, <1>6
<1>10. here \in SUBSET Nat /\ (\A k \in here : k <= n) /\ here # {}
  BY <1>6, <1>7, <1>9
<1>11. Max(here) \in here /\ \A k \in here : k <= Max(here)
  BY <1>6, <1>10, MaxIsGreatest
<1> DEFINE b == Max(here)
<1>12. b \in Nat /\ b \in here /\ \A k \in here : k \in Nat /\ k <= b
  BY <1>10, <1>11
<1> HIDE DEF b
<1>13. at(n) \in Nat /\ at(n) <= Len(sent)
  <2>1. at(n) \in 1..Len(sent)
    BY <1>2
  <2> QED
    BY <1>2, <1>6, <2>1
<1>14. \A k \in 1..(at(n) - 1) : k \in Nat /\ k < at(n) /\ k \in 1..Len(sent)
  <2>1. Len(sent) \in Nat
    BY <1>2, Zenon
  <2> QED
    BY <1>13, <2>1
<1>15. ASSUME NEW k \in here PROVE at(k) \in there
  <2>1. CASE k = 0
    BY <1>2, <1>8, <2>1
  <2>2. CASE k \in 1..(n - 1) /\ Encloses(q, k, n)
    <3>1. k \in Nat /\ k < n /\ k \in 1..Len(q)
      BY <1>9, <2>2
    <3>2. at(k) \in 1..Len(sent) /\ at(k) < at(n)
      BY <1>2, <1>6, <3>1
    <3>3. at(k) \in 1..(at(n) - 1)
      BY <1>13, <3>2
    <3>4. Encloses(sent, at(k), at(n))
      BY <1>4, <2>2, <3>1
    <3> QED
      BY <1>8, <3>3, <3>4
  <2> QED
    BY <1>7, <2>1, <2>2
<1>16. ASSUME NEW m \in there PROVE \E k \in here : m = at(k)
  <2>1. CASE m = 0
    BY <1>2, <1>7, <2>1
  <2>2. CASE m \in 1..(at(n) - 1) /\ Encloses(sent, m, at(n))
    <3>1. m \in 1..Len(sent) /\ m < at(n)
      BY <1>14, <2>2
    <3>2. sent[m] = "{"
      BY <2>2, Zenon DEF Encloses
    <3>3. PICK k \in 1..Len(q) : m = at(k)
      BY <1>2, <1>3, <3>1, <3>2, Zenon
    <3>4. k \in Nat /\ k >= 1
      BY <1>2
    <3>5. k < n
      BY <1>2, <1>6, <3>1, <3>3, <3>4
    <3>6. Encloses(q, k, n)
      BY <1>4, <2>2, <3>3, <3>5
    <3>7. k \in 1..(n - 1)
      BY <1>6, <3>4, <3>5
    <3> QED
      BY <1>7, <3>3, <3>6, <3>7
  <2> QED
    BY <1>8, <2>1, <2>2
<1>17. there \in SUBSET Nat
  BY <1>8, <1>14
<1>18. at(b) \in there /\ \A m \in there : m <= at(b)
  <2>1. at(b) \in there /\ at(b) \in Nat
    BY <1>12, <1>15, <1>17
  <2>2. ASSUME NEW m \in there PROVE m <= at(b)
    <3>1. PICK k \in here : m = at(k)
      BY <1>16
    <3>2. k \in Nat /\ at(k) \in Nat /\ k <= b /\ (k < b => at(k) < at(b))
      BY <1>2, <1>12
    <3>3. k = b \/ k < b
      BY <1>12, <3>2
    <3> QED
      BY <2>1, <3>1, <3>2, <3>3
  <2> QED
    BY <2>1, <2>2
<1>19. Max(there) = at(b)
  BY <1>17, <1>18, MaxIs
<1>20. b \in 0..(n - 1)
  BY <1>6, <1>7, <1>9, <1>12
<1> QED
  BY <1>5, <1>19, <1>20 DEF at, sent, b

\* Blocks that are closed stay closed.
LEMMA ClosedMoved ==
  ASSUME NEW S, NEW q \in Seq(S), NEW f \in Seq(S), NEW P \in SUBSET (1..Len(q)),
         Tokens(f) \cap Braces = {}, Closed(q)
  PROVE  Closed(InsertAfter(q, P, f))
<1> DEFINE sent == InsertAfter(q, P, f)
           at(j) == At(f, P, j)
<1>1. /\ Len(sent) \in Nat /\ Len(q) \in Nat
      /\ \A j \in Nat : at(j) \in Nat /\ j <= at(j)
      /\ \A j, k \in Nat : j < k <=> at(j) < at(k)
      /\ \A j \in 1..Len(q) :
           j \in Nat /\ j >= 1 /\ at(j) \in 1..Len(sent) /\ sent[at(j)] = q[j]
      /\ \A k \in 1..Len(sent) : sent[k] \notin Tokens(f) => \E j \in 1..Len(q) : k = at(j)
  <2>1. Movement(q, P, f, sent)
    BY TokensMoved
  <2> QED
    BY <2>1, Zenon DEF Movement
<1>2. \A i \in 1..Len(q) : Depth(sent, at(i) - 1) = Depth(q, i - 1) /\ Depth(sent, at(i)) = Depth(q, i)
  BY EnclosesMoved
<1>3. \A s : \A a, b \in Nat : a <= b => (Balanced(s, a + 1, b) <=> Depth(s, b) = Depth(s, a))
  BY Depths
<1>4. "{" \notin Tokens(f)
  BY Zenon DEF Braces
<1> HIDE DEF sent, at
<1>5. ASSUME NEW o \in 1..Len(q), NEW j \in (o + 1)..Len(q)
      PROVE  /\ j \in 1..Len(q) /\ at(j) \in (at(o) + 1)..Len(sent)
             /\ Balanced(q, o, j) <=> Balanced(sent, at(o), at(j))
  <2>1. o \in Nat /\ o >= 1 /\ j \in Nat /\ o < j /\ j \in 1..Len(q)
    BY <1>1
  <2>2. /\ o - 1 \in Nat /\ (o - 1) + 1 = o /\ o - 1 <= j
        /\ at(o) \in Nat /\ at(j) \in Nat /\ o <= at(o) /\ at(o) < at(j)
    BY <1>1, <2>1
  <2>3. at(o) - 1 \in Nat /\ (at(o) - 1) + 1 = at(o) /\ at(o) - 1 <= at(j)
    BY <2>1, <2>2
  <2>4. Balanced(q, (o - 1) + 1, j) <=> Depth(q, j) = Depth(q, o - 1)
    BY <1>3, <2>1, <2>2
  <2>5. Balanced(sent, (at(o) - 1) + 1, at(j)) <=> Depth(sent, at(j)) = Depth(sent, at(o) - 1)
    BY <1>3, <2>2, <2>3
  <2>6. Balanced(q, o, j) <=> Balanced(sent, at(o), at(j))
    BY <1>2, <2>1, <2>2, <2>3, <2>4, <2>5
  <2>7. at(j) \in (at(o) + 1)..Len(sent)
    <3>1. at(j) \in 1..Len(sent) /\ Len(sent) \in Nat
      BY <1>1, <2>1
    <3> QED
      BY <2>2, <3>1
  <2> QED
    BY <2>1, <2>6, <2>7
<1>6. ASSUME NEW m \in 1..Len(sent), sent[m] = "{" PROVE Ends(sent, m) # {}
  <2>1. PICK o \in 1..Len(q) : m = at(o)
    BY <1>1, <1>4, <1>6, Zenon
  <2>2. q[o] = "{"
    BY <1>1, <1>6, <2>1, Zenon
  <2>3. PICK j \in Ends(q, o) : TRUE
    BY <2>2, Zenon DEF Closed
  <2>4. j \in (o + 1)..Len(q) /\ q[j] = "}" /\ Balanced(q, o, j)
    BY <2>3, Zenon DEF Ends
  <2>5. /\ j \in 1..Len(q) /\ at(j) \in (at(o) + 1)..Len(sent)
        /\ Balanced(sent, at(o), at(j))
    BY <1>5, <2>4, Zenon
  <2>6. sent[at(j)] = "}"
    BY <1>1, <2>4, <2>5, Zenon
  <2>7. at(j) \in Ends(sent, m)
    BY <2>1, <2>5, <2>6, Zenon DEF Ends
  <2> QED
    BY <2>7
<1> QED
  BY <1>6, Zenon DEF Closed, sent

\* Where blocks open.
Opens(q) == {i \in 1..Len(q) : q[i] = "{"}

\* A field is in the block whose brace it was put after.
LEMMA FieldsBlock ==
  ASSUME NEW S, NEW q \in Seq(S), NEW f \in Seq(S), NEW P \in SUBSET (1..Len(q)),
         Tokens(f) \cap Braces = {}, Closed(q), P \subseteq Opens(q),
         NEW p \in P, NEW r \in 1..Len(f)
  PROVE  BlockOf(InsertAfter(q, P, f), At(f, P, p) + r) = At(f, P, p)
<1> DEFINE sent == InsertAfter(q, P, f)
           b == At(f, P, p)
           n == b + r
           E == {0} \cup {k \in 1..(n - 1) : Encloses(sent, k, n)}
<1>1. /\ sent \in Seq(S) /\ Len(sent) \in Nat /\ Len(q) \in Nat /\ Len(f) \in Nat
      /\ \A j \in Nat : At(f, P, j) \in Nat
      /\ \A j \in 1..Len(q) : At(f, P, j) \in 1..Len(sent) /\ sent[At(f, P, j)] = q[j]
      /\ \A j \in P, m \in 1..Len(f) :
           At(f, P, j) + m \in 1..Len(sent) /\ sent[At(f, P, j) + m] = f[m]
  <2>1. sent \in Seq(S) /\ Movement(q, P, f, sent)
    BY TokensMoved
  <2> HIDE DEF sent, b
  <2> QED
    BY <2>1, Zenon DEF Movement
<1>2. b \in 1..Len(sent) /\ n \in 1..Len(sent) /\ sent[b] = q[p] /\ p \in 1..Len(q)
  BY <1>1
<1>3. sent[b] = "{"
  BY <1>2, Zenon DEF Opens
<1>4. \A m \in 1..Len(f) : sent[b + m] = f[m]
  BY <1>1
<1>5. Closed(sent)
  BY ClosedMoved
<1>6. Brace(sent, n) = BlockOf(sent, n)
  <2>1. sent \in Seq(S) /\ n \in 1..Len(sent)
    BY <1>1, <1>2
  <2> HIDE DEF sent, n
  <2> QED
    BY <1>5, <2>1, SameBlock
<1>7. \A m \in 1..Len(f) : f[m] # "{" /\ f[m] # "}"
  <2>1. \A m \in 1..Len(f) : f[m] \in Tokens(f)
    BY DEF Tokens
  <2> QED
    BY <2>1, Zenon DEF Braces
<1>8. r \in Nat /\ r >= 1 /\ r <= Len(f) /\ Len(f) \in Nat
  BY <1>1
<1>9. b \in Nat /\ b >= 1
  BY <1>1, <1>2
<1>10. Brace(sent, n) = Max(E)
  BY Zenon DEF Brace
<1> HIDE DEF sent, b
<1>11. ASSUME NEW k \in (b + 1)..(n - 1) PROVE sent[k] # "{" /\ sent[k] # "}"
  <2>1. k - b \in 1..Len(f) /\ k = b + (k - b)
    BY <1>8, <1>9
  <2> QED
    BY <1>4, <1>7, <2>1, Zenon
<1>12. Encloses(sent, b, n)
  <2>1. {k \in (b + 1)..(n - 1) : sent[k] = "{"} = {}
    BY <1>11, Zenon
  <2>2. {k \in (b + 1)..(n - 1) : sent[k] = "}"} = {}
    BY <1>11, Zenon
  <2> QED
    BY <1>3, <2>1, <2>2, Zenon DEF Encloses, Balanced, Count
<1>13. \A k : k \in E <=> k = 0 \/ (k \in 1..(n - 1) /\ Encloses(sent, k, n))
  BY Zenon
<1>14. n \in Nat /\ n - 1 \in Nat /\ b \in 1..(n - 1)
  BY <1>8, <1>9
<1>15. \A k \in 1..(n - 1) : k \in Nat /\ (k <= b \/ k \in (b + 1)..(n - 1))
  BY <1>9, <1>14
<1> HIDE DEF n, E
<1>16. E \in SUBSET Nat /\ b \in E
  BY <1>12, <1>13, <1>14, <1>15
<1>17. ASSUME NEW k \in E PROVE k <= b
  <2>1. CASE k = 0
    BY <1>9, <2>1
  <2>2. CASE k \in 1..(n - 1) /\ Encloses(sent, k, n)
    <3>1. sent[k] = "{"
      BY <2>2, Zenon DEF Encloses
    <3> QED
      BY <1>11, <1>15, <2>2, <3>1, Zenon
  <2> QED
    BY <1>13, <2>1, <2>2
<1>18. Max(E) = b
  BY <1>16, <1>17, MaxIs
<1> QED
  BY <1>6, <1>10, <1>18 DEF sent, n, b

\* What no field is called.
Reserved == Structure \cup {"nodes"}

\* The literals the proofs need to tell apart.
LEMMA ReservedTokens ==
  /\ "{" \in Reserved /\ "}" \in Reserved /\ "nodes" \in Reserved /\ Braces \subseteq Reserved
  /\ "{" \in Structure /\ Args \in Structure /\ Structure \subseteq Reserved
  /\ "{" # Args /\ "{" # "nodes"
<1>1. Structure \subseteq Reserved /\ "nodes" \in Reserved
  BY Zenon DEF Reserved
<1>2. "{" \in Structure /\ "}" \in Structure /\ Args \in Structure
  BY Zenon DEF Structure
<1>3. Braces \subseteq Structure
  BY <1>2, Zenon DEF Braces
<1>4. "{" # Args /\ "{" # "nodes"
  BY DEF Args
<1> QED
  BY <1>1, <1>2, <1>3, <1>4, Zenon

\* The nodes blocks of the new query are those of the old one, moved.
LEMMA NodesMoved ==
  ASSUME NEW S, NEW q \in Seq(S), NEW f \in Seq(S), NEW P \in SUBSET (1..Len(q)),
         Tokens(f) \cap Reserved = {}, P \subseteq Opens(q)
  PROVE  /\ \A n \in NodesAt(q) : /\ n \in 1..Len(q) /\ n + 1 \in 1..Len(q)
                                  /\ At(f, P, n) \in NodesAt(InsertAfter(q, P, f))
                                  /\ At(f, P, n) + 1 = At(f, P, n + 1)
         /\ \A m \in NodesAt(InsertAfter(q, P, f)) : \E n \in NodesAt(q) : m = At(f, P, n)
<1> DEFINE sent == InsertAfter(q, P, f)
           at(j) == At(f, P, j)
<1>1. Len(q) \in Nat /\ Len(f) \in Nat
  OBVIOUS
<1>2. /\ Len(sent) \in Nat /\ Len(q) \in Nat
      /\ \A j \in Nat : at(j) \in Nat /\ j <= at(j)
      /\ \A j, k \in Nat : at(j) = at(k) => j = k
      /\ \A j \in 1..Len(q) :
           j \in Nat /\ j >= 1 /\ at(j) \in 1..Len(sent) /\ sent[at(j)] = q[j]
      /\ \A k \in 1..Len(sent) : sent[k] \notin Tokens(f) => \E j \in 1..Len(q) : k = at(j)
  <2>1. Movement(q, P, f, sent)
    BY TokensMoved
  <2> HIDE DEF sent
  <2> QED
    BY <2>1, Zenon DEF Movement
<1>3. \A j \in Nat : j \notin P => at(j + 1) = at(j) + 1
  BY <1>1, Places
<1>4. "{" \notin Tokens(f) /\ "nodes" \notin Tokens(f) /\ "{" # "nodes"
  BY ReservedTokens, Zenon
<1>5. \A j \in P : q[j] = "{"
  BY Zenon DEF Opens
<1> HIDE DEF sent, at
<1>6. ASSUME NEW n \in NodesAt(q)
      PROVE  /\ n \in 1..Len(q) /\ n + 1 \in 1..Len(q)
             /\ at(n) \in NodesAt(sent) /\ at(n) + 1 = at(n + 1)
  <2>1. q[n] = "nodes" /\ q[n + 1] = "{"
    BY Zenon DEF NodesAt
  <2>2. n \in 1..(Len(q) - 1)
    BY Zenon DEF NodesAt
  <2>3. n \in 1..Len(q) /\ n + 1 \in 1..Len(q) /\ n \in Nat /\ n + 1 \in Nat
    <3>1. Len(q) \in Nat
      BY <1>1
    <3> HIDE DEF NodesAt
    <3> QED
      BY <2>2, <3>1
  <2>4. n \notin P
    BY <1>4, <1>5, <2>1, Zenon
  <2>5. at(n) + 1 = at(n + 1)
    BY <1>3, <2>3, <2>4
  <2>6. at(n) \in 1..(Len(sent) - 1)
    <3>1. at(n) \in 1..Len(sent) /\ at(n + 1) \in 1..Len(sent)
      BY <1>2, <2>3
    <3> QED
      BY <1>2, <2>5, <3>1
  <2>7. sent[at(n)] = "nodes" /\ sent[at(n) + 1] = "{"
    BY <1>2, <2>1, <2>3, <2>5
  <2> QED
    BY <2>3, <2>5, <2>6, <2>7, Zenon DEF NodesAt
<1>7. ASSUME NEW m \in NodesAt(sent) PROVE \E n \in NodesAt(q) : m = at(n)
  <2>1. sent[m] = "nodes" /\ sent[m + 1] = "{"
    BY Zenon DEF NodesAt
  <2>2. m \in 1..(Len(sent) - 1)
    BY Zenon DEF NodesAt
  <2>3. m \in 1..Len(sent) /\ m + 1 \in 1..Len(sent)
    BY <1>2, <2>2
  <2>4. PICK n \in 1..Len(q) : m = at(n)
    BY <1>2, <1>4, <2>1, <2>3, Zenon
  <2>5. PICK k \in 1..Len(q) : m + 1 = at(k)
    BY <1>2, <1>4, <2>1, <2>3, Zenon
  <2>6. q[n] = "nodes" /\ q[k] = "{"
    BY <1>2, <2>1, <2>4, <2>5, Zenon
  <2>7. n \notin P
    BY <1>4, <1>5, <2>6, Zenon
  <2>8. k = n + 1
    <3>1. n \in Nat /\ n + 1 \in Nat /\ k \in Nat
      BY <1>2
    <3>2. at(n + 1) = at(k)
      BY <1>3, <2>4, <2>5, <2>7, <3>1
    <3> QED
      BY <1>2, <3>1, <3>2
  <2>9. n \in 1..(Len(q) - 1)
    BY <1>2, <2>8
  <2>10. n \in NodesAt(q)
    BY <2>6, <2>8, <2>9, Zenon DEF NodesAt
  <2> QED
    BY <2>4, <2>10
<1> QED
  BY <1>6, <1>7 DEF sent, at

\* What is in front of a token: what was, or the last field put there.
Precedes(q, P, f, sent, i) ==
  LET x == At(f, P, i) - 1
  IN  /\ x \in Nat /\ x >= 1 /\ i - 1 \in 1..Len(q)
      /\ i - 1 \notin P => x = At(f, P, i - 1) /\ sent[x] = q[i - 1]
      /\ i - 1 \in P => /\ q[i - 1] \in Structure /\ q[i - 1] # Args
                        /\ sent[x] \in Tokens(f) \cup Structure /\ sent[x] # Args

\* That holds of every token but the first.
LEMMA TokenBefore ==
  ASSUME NEW S, NEW q \in Seq(S), NEW f \in Seq(S), NEW P \in SUBSET (1..Len(q)),
         Tokens(f) \cap Reserved = {}, P \subseteq Opens(q), NEW i \in 2..Len(q)
  PROVE  Precedes(q, P, f, InsertAfter(q, P, f), i)
<1> DEFINE sent == InsertAfter(q, P, f)
           at(j) == At(f, P, j)
           h == i - 1
           x == at(i) - 1
<1>1. Movement(q, P, f, sent)
  BY TokensMoved
<1>2. Len(q) \in Nat /\ Len(f) \in Nat
  OBVIOUS
<1>3. /\ \A j \in Nat : at(j) \in Nat /\ j <= at(j)
      /\ \A j \in 1..Len(q) :
           j \in Nat /\ j >= 1 /\ at(j) \in 1..Len(sent) /\ sent[at(j)] = q[j]
  BY <1>1, Zenon DEF Movement
<1>4. /\ \A j \in Nat : j \notin P => at(j + 1) = at(j) + 1
      /\ \A j \in P : at(j + 1) = at(j) + 1 + Len(f)
      /\ \A j \in P, r \in 1..Len(f) : sent[at(j) + r] = f[r]
  BY <1>1, Zenon DEF Movement
<1>5. \A j \in P : q[j] \in Structure /\ q[j] # Args
  BY ReservedTokens, Zenon DEF Opens
<1>6. \A r \in 1..Len(f) : f[r] \in Tokens(f)
  BY DEF Tokens
<1>7. Args \notin Tokens(f)
  BY ReservedTokens, Zenon
<1> HIDE DEF sent, at
<1>8. h \in Nat /\ h >= 1 /\ h + 1 = i /\ h \in 1..Len(q) /\ i \in Nat
  BY <1>2
<1> HIDE DEF h
<1>9. at(h) \in Nat /\ at(h) >= 1 /\ at(i) = at(h + 1) /\ at(i) \in Nat
  <2>1. at(h) \in Nat /\ h <= at(h)
    BY <1>3, <1>8
  <2>2. at(i) \in Nat
    BY <1>3, <1>8
  <2>3. at(h) >= 1
    BY <1>8, <2>1
  <2> QED
    BY <1>8, <2>1, <2>2, <2>3
<1>10. CASE h \notin P
  <2>1. at(i) = at(h) + 1
    BY <1>4, <1>8, <1>9, <1>10
  <2>2. x = at(h)
    BY <1>9, <2>1
  <2> HIDE DEF x
  <2>3. sent[x] = q[h]
    BY <1>3, <1>8, <2>2
  <2> QED
    BY <1>8, <1>9, <1>10, <2>2, <2>3 DEF h, x, at, sent, Precedes
<1>11. CASE h \in P
  <2>1. at(i) = at(h) + 1 + Len(f)
    BY <1>4, <1>9, <1>11
  <2>2. x = at(h) + Len(f) /\ x \in Nat /\ x >= 1
    BY <1>2, <1>9, <2>1
  <2> HIDE DEF x
  <2>3. CASE Len(f) = 0
    <3>1. x = at(h)
      BY <1>9, <2>2, <2>3
    <3>2. sent[x] = q[h]
      BY <1>3, <1>8, <3>1
    <3> QED
      BY <1>5, <1>8, <1>11, <2>2, <3>2 DEF h, x, at, sent, Precedes
  <2>4. CASE Len(f) # 0
    <3>1. Len(f) \in 1..Len(f)
      BY <1>2, <2>4
    <3>2. sent[x] = f[Len(f)]
      BY <1>4, <1>11, <2>2, <3>1
    <3>3. sent[x] \in Tokens(f) /\ sent[x] # Args
      BY <1>6, <1>7, <3>1, <3>2
    <3> QED
      BY <1>5, <1>8, <1>11, <2>2, <3>3 DEF h, x, at, sent, Precedes
  <2> QED
    BY <2>3, <2>4
<1> QED
  BY <1>10, <1>11

\* When the name in front of a brace is one of some names that are not structure.
LEMMA NameIn ==
  ASSUME NEW q, NEW b \in Nat, NEW C, C \cap Structure = {}, NoName \notin C
  PROVE  NameBefore(q, b) \in C <=> \/ b >= 2 /\ q[b - 1] # Args /\ q[b - 1] \in C
                                    \/ b >= 3 /\ q[b - 1] = Args /\ q[b - 2] \in C
<1>1. CASE b > 1 /\ q[b - 1] = Args
  <2>1. NameBefore(q, b) = IF b - 2 < 1 \/ q[b - 2] \in Structure THEN NoName ELSE q[b - 2]
    BY <1>1, Zenon DEF NameBefore
  <2>2. NameBefore(q, b) \in C <=> ~(b - 2 < 1) /\ q[b - 2] \in C
    BY <2>1, Zenon
  <2>3. ~(b - 2 < 1) <=> b >= 3
    OBVIOUS
  <2> QED
    BY <1>1, <2>2, <2>3, Zenon
<1>2. CASE ~(b > 1 /\ q[b - 1] = Args)
  <2>1. NameBefore(q, b) = IF b - 1 < 1 \/ q[b - 1] \in Structure THEN NoName ELSE q[b - 1]
    BY <1>2, Zenon DEF NameBefore
  <2>2. NameBefore(q, b) \in C <=> ~(b - 1 < 1) /\ q[b - 1] \in C
    BY <2>1, Zenon
  <2>3. (~(b - 1 < 1) <=> b >= 2) /\ (b > 1 <=> b >= 2) /\ (b >= 3 => b >= 2)
    OBVIOUS
  <2> QED
    BY <1>2, <2>2, <2>3, Zenon
<1> QED
  BY <1>1, <1>2, Zenon

\* No field comes between a brace and the name of the connection it belongs to.
LEMMA NameMoved ==
  ASSUME NEW S, NEW q \in Seq(S), NEW f \in Seq(S), NEW P \in SUBSET (1..Len(q)),
         Tokens(f) \cap Reserved = {}, P \subseteq Opens(q),
         NEW C, C \cap (Tokens(f) \cup Structure) = {}, NoName \notin C, NEW b \in 0..Len(q)
  PROVE  NameBefore(InsertAfter(q, P, f), At(f, P, b)) \in C <=> NameBefore(q, b) \in C
<1> DEFINE sent == InsertAfter(q, P, f)
           at(j) == At(f, P, j)
<1> SUFFICES NameBefore(sent, at(b)) \in C <=> NameBefore(q, b) \in C
  OBVIOUS
<1>1. Movement(q, P, f, sent)
  BY TokensMoved
<1>2. /\ \A j \in Nat : at(j) \in Nat
      /\ at(0) = 0 /\ at(1) = 1 /\ Len(q) \in Nat
  BY <1>1, Zenon DEF Movement
<1>3. b \in Nat /\ at(b) \in Nat
  BY <1>2
<1>4. C \cap Structure = {} /\ C \cap Tokens(f) = {}
  OBVIOUS
<1>5. NameBefore(q, b) \in C <=> \/ b >= 2 /\ q[b - 1] # Args /\ q[b - 1] \in C
                                 \/ b >= 3 /\ q[b - 1] = Args /\ q[b - 2] \in C
  BY <1>3, <1>4, NameIn
<1>6. NameBefore(sent, at(b)) \in C <=>
         \/ at(b) >= 2 /\ sent[at(b) - 1] # Args /\ sent[at(b) - 1] \in C
         \/ at(b) >= 3 /\ sent[at(b) - 1] = Args /\ sent[at(b) - 2] \in C
  BY <1>3, <1>4, NameIn
<1>7. \A x : x \in Structure \/ x \in Tokens(f) => x \notin C
  OBVIOUS
<1>8. ASSUME NEW i \in 2..Len(q)
      PROVE  /\ at(i) - 1 \in Nat /\ at(i) - 1 >= 1
             /\ i - 1 \notin P => at(i) - 1 = at(i - 1) /\ sent[at(i) - 1] = q[i - 1]
             /\ i - 1 \in P => /\ q[i - 1] \notin C /\ q[i - 1] # Args
                               /\ sent[at(i) - 1] \notin C /\ sent[at(i) - 1] # Args
  <2>1. /\ at(i) - 1 \in Nat /\ at(i) - 1 >= 1 /\ i - 1 \in 1..Len(q)
        /\ i - 1 \notin P => at(i) - 1 = at(i - 1) /\ sent[at(i) - 1] = q[i - 1]
        /\ i - 1 \in P => /\ q[i - 1] \in Structure /\ q[i - 1] # Args
                          /\ sent[at(i) - 1] \in Tokens(f) \cup Structure
                          /\ sent[at(i) - 1] # Args
    <3>1. Precedes(q, P, f, sent, i)
      BY TokenBefore
    <3> QED
      BY <3>1, Zenon DEF Precedes
  <2> HIDE DEF sent, at
  <2> QED
    BY <1>7, <2>1
<1> HIDE DEF sent, at
<1>9. CASE b \in {0, 1}
  BY <1>2, <1>5, <1>6, <1>9
<1>10. CASE b >= 2
  <2>1. b \in 2..Len(q) /\ b - 1 \in Nat /\ b - 1 >= 1
    BY <1>2, <1>3, <1>10
  <2>2. /\ at(b) - 1 \in Nat /\ at(b) - 1 >= 1
        /\ b - 1 \notin P => at(b) - 1 = at(b - 1) /\ sent[at(b) - 1] = q[b - 1]
        /\ b - 1 \in P => /\ q[b - 1] \notin C /\ q[b - 1] # Args
                          /\ sent[at(b) - 1] \notin C /\ sent[at(b) - 1] # Args
    BY <1>8, <2>1
  <2>3. at(b) >= 2
    BY <1>3, <2>2
  <2>4. CASE b - 1 \in P
    BY <1>5, <1>6, <2>2, <2>4, Zenon
  <2>5. CASE b - 1 \notin P /\ q[b - 1] # Args
    BY <1>5, <1>6, <1>10, <2>2, <2>3, <2>5, Zenon
  <2>6. CASE b - 1 \notin P /\ q[b - 1] = Args
    <3>1. at(b) - 1 = at(b - 1) /\ sent[at(b) - 1] = Args
      BY <2>2, <2>6, Zenon
    <3>2. NameBefore(q, b) \in C <=> b >= 3 /\ q[b - 2] \in C
      BY <1>5, <2>6, Zenon
    <3>3. NameBefore(sent, at(b)) \in C <=> at(b) >= 3 /\ sent[at(b) - 2] \in C
      BY <1>6, <3>1, Zenon
    <3>4. CASE b = 2
      <4>1. b - 1 = 1
        BY <3>4
      <4>2. at(b) - 1 = 1
        BY <1>2, <3>1, <4>1
      <4>3. ~(b >= 3) /\ ~(at(b) >= 3)
        BY <1>3, <3>4, <4>2
      <4> QED
        BY <3>2, <3>3, <4>3, Zenon
    <3>5. CASE b # 2
      <4>1. b - 1 \in 2..Len(q) /\ b >= 3 /\ (b - 1) - 1 = b - 2
        BY <1>3, <1>10, <2>1, <3>5
      <4>2. /\ at(b - 1) - 1 \in Nat /\ at(b - 1) - 1 >= 1
            /\ b - 2 \notin P => sent[at(b - 1) - 1] = q[b - 2]
            /\ b - 2 \in P => q[b - 2] \notin C /\ sent[at(b - 1) - 1] \notin C
        BY <1>8, <4>1
      <4>3. at(b - 1) - 1 = at(b) - 2 /\ at(b) >= 3
        <5>1. at(b - 1) \in Nat
          BY <1>2, <2>1
        <5> QED
          BY <1>3, <3>1, <4>2, <5>1
      <4>4. sent[at(b) - 2] \in C <=> q[b - 2] \in C
        BY <4>2, <4>3, Zenon
      <4> QED
        BY <3>2, <3>3, <4>1, <4>3, <4>4, Zenon
    <3> QED
      BY <3>4, <3>5
  <2> QED
    BY <2>4, <2>5, <2>6
<1>11. b \in {0, 1} \/ b >= 2
  BY <1>3
<1> QED
  BY <1>9, <1>10, <1>11

\* The nodes of the connections of some names.
SafeNodes(q, C) == {n \in NodesAt(q) : FindParentField(q, n) \in C}
AfterSafeNodes(q, C) == {n + 1 : n \in SafeNodes(q, C)}

\* Fields are inserted after braces only, those of the nodes of safe connections.
LEMMA SafePlaces ==
  ASSUME NEW S, NEW q \in Seq(S), NEW C
  PROVE  /\ AfterSafeNodes(q, C) \in SUBSET (1..Len(q)) /\ AfterSafeNodes(q, C) \subseteq Opens(q)
         /\ \A n \in NodesAt(q) : n + 1 \in AfterSafeNodes(q, C) <=> FindParentField(q, n) \in C
<1>1. \A n \in NodesAt(q) : n \in 1..(Len(q) - 1)
  BY Zenon DEF NodesAt
<1>2. \A n \in NodesAt(q) : q[n + 1] = "{"
  BY Zenon DEF NodesAt
<1>3. \A n \in SafeNodes(q, C) : n \in NodesAt(q)
  BY Zenon DEF SafeNodes
<1>4. Len(q) \in Nat
  OBVIOUS
<1>5. \A n \in NodesAt(q) : n + 1 \in 1..Len(q) /\ n \in Nat
  BY <1>1, <1>4
<1>6. AfterSafeNodes(q, C) \in SUBSET (1..Len(q))
  <2>1. \A p \in AfterSafeNodes(q, C) : p \in 1..Len(q)
    BY <1>3, <1>5, Zenon DEF AfterSafeNodes
  <2> QED
    BY <2>1
<1>7. \A p \in AfterSafeNodes(q, C) : p \in Opens(q)
  BY <1>2, <1>3, <1>5, Zenon DEF AfterSafeNodes, Opens
<1>8. ASSUME NEW n \in NodesAt(q)
      PROVE  n + 1 \in AfterSafeNodes(q, C) <=> FindParentField(q, n) \in C
  <2>1. \A k \in NodesAt(q) : k + 1 = n + 1 => k = n
    BY <1>5
  <2>2. n + 1 \in AfterSafeNodes(q, C) <=> n \in SafeNodes(q, C)
    BY <1>3, <2>1, Zenon DEF AfterSafeNodes
  <2> QED
    BY <2>2, Zenon DEF SafeNodes
<1> QED
  BY <1>6, <1>7, <1>8

\* Without fragments the fields go after the braces of the safe nodes.
LEMMA WithoutFragments ==
  ASSUME NEW S, NEW q \in Seq(S), NEW f, NEW C, Tokens(q) \cap {Spread, Inline, InlineGlued} = {}
  PROVE  InjectFieldsIntoQuery(q, f, C) = InsertAfter(q, AfterSafeNodes(q, C), f)
<1>1. Len(q) \in Nat /\ \A i \in 1..Len(q) : q[i] \in Tokens(q)
  BY DEF Tokens
<1>2. \A i \in 1..Len(q) : q[i] # Spread /\ q[i] # Inline /\ q[i] # InlineGlued
  BY <1>1
<1>3. \A i \in NodesAt(q) : ~(i + 2 <= Len(q) /\ q[i + 2] \in {Spread, InlineGlued})
  <2> TAKE i \in NodesAt(q)
  <2>1. i \in 1..(Len(q) - 1)
    BY Zenon DEF NodesAt
  <2>2. i + 2 <= Len(q) => i + 2 \in 1..Len(q)
    BY <1>1, <2>1
  <2> QED
    BY <1>2, <2>2, Zenon
<1>4. \A j \in 2..Len(q) : q[j - 1] \notin {Inline, InlineGlued}
  <2> TAKE j \in 2..Len(q)
  <2>1. j - 1 \in 1..Len(q)
    BY <1>1
  <2> QED
    BY <1>2, <2>1, Zenon
<1>5. {i \in NodesAt(q) : i + 2 <= Len(q) /\ q[i + 2] \in {Spread, InlineGlued}} = {}
  BY <1>3, Zenon
<1>6. ~InlineInNodes(q)
  <2>1. \A j : j \notin InlineOpens(q)
    BY <1>4, Zenon DEF InlineOpens
  <2> QED
    BY <2>1, Zenon DEF InlineInNodes
<1> QED
  BY <1>5, <1>6, Zenon DEF InjectFieldsIntoQuery, AfterSafeNodes, SafeNodes

\* The fields are in the nodes of the safe connections, all of them, and nowhere else.
LEMMA FieldsPlaced ==
  ASSUME NEW S, NEW q \in Seq(S), NEW f \in Seq(S), NEW C,
         Tokens(f) \cap Reserved = {}, Tokens(f) \cap Tokens(q) = {},
         C \cap (Tokens(f) \cup Structure) = {}, NoName \notin C, Closed(q),
         NEW m \in NodesAt(InsertAfter(q, AfterSafeNodes(q, C), f))
  PROVE  LET sent == InsertAfter(q, AfterSafeNodes(q, C), f)
             there == {j \in 1..Len(sent) : sent[j] \in Tokens(f) /\ BlockOf(sent, j) = m + 1}
         IN  {sent[k] : k \in there}
               = IF NameBefore(sent, BlockOf(sent, m)) \in C THEN Tokens(f) ELSE {}
<1> DEFINE P == AfterSafeNodes(q, C)
           sent == InsertAfter(q, P, f)
           at(j) == At(f, P, j)
           there == {j \in 1..Len(sent) : sent[j] \in Tokens(f) /\ BlockOf(sent, j) = m + 1}
<1> SUFFICES {sent[k] : k \in there}
               = IF NameBefore(sent, BlockOf(sent, m)) \in C THEN Tokens(f) ELSE {}
  OBVIOUS
<1>1. P \in SUBSET (1..Len(q)) /\ P \subseteq Opens(q)
  BY SafePlaces
<1>2. \A n \in NodesAt(q) : n + 1 \in P <=> FindParentField(q, n) \in C
  BY SafePlaces
<1>3. Tokens(f) \cap Braces = {}
  BY ReservedTokens
<1> HIDE DEF P
<1>4. sent \in Seq(S) /\ Movement(q, P, f, sent)
  BY <1>1, TokensMoved
<1>5. Closed(sent)
  BY <1>1, <1>3, ClosedMoved
<1>6. /\ Len(sent) \in Nat /\ Len(q) \in Nat
      /\ \A j \in Nat : at(j) \in Nat
      /\ \A j, k \in Nat : at(j) = at(k) => j = k
      /\ \A j \in 1..Len(q) : j \in Nat /\ at(j) \in 1..Len(sent) /\ sent[at(j)] = q[j]
      /\ \A j \in P, r \in 1..Len(f) : at(j) + r \in 1..Len(sent) /\ sent[at(j) + r] = f[r]
      /\ \A k \in 1..Len(sent) : \E j \in 1..Len(q) :
           k = at(j) \/ (j \in P /\ \E r \in 1..Len(f) : k = at(j) + r)
  BY <1>4, Zenon DEF Movement
<1>7. /\ \A i \in NodesAt(q) : /\ i \in 1..Len(q) /\ i + 1 \in 1..Len(q)
                               /\ at(i) \in NodesAt(sent) /\ at(i) + 1 = at(i + 1)
      /\ \A k \in NodesAt(sent) : \E i \in NodesAt(q) : k = at(i)
  BY <1>1, NodesMoved
<1>8. m \in NodesAt(sent)
  BY DEF P
<1>9. PICK n \in NodesAt(q) : m = at(n)
  BY <1>7, <1>8, Zenon
<1>10. n \in 1..Len(q) /\ n + 1 \in 1..Len(q) /\ at(n) + 1 = at(n + 1)
  BY <1>7, Zenon
<1>11. /\ Brace(q, n) \in 0..(n - 1)
      /\ Brace(sent, at(n)) = at(Brace(q, n))
  <2>1. ASSUME NEW k \in 1..Len(q)
        PROVE  /\ Brace(q, k) \in 0..(k - 1)
               /\ Brace(InsertAfter(q, P, f), At(f, P, k)) = At(f, P, Brace(q, k))
    BY <1>1, <1>3, BraceMoved
  <2> QED
    BY <1>10, <2>1, Zenon
<1>12. Brace(q, n) \in 0..Len(q)
  BY <1>6, <1>10, <1>11
<1>13. NameBefore(sent, at(Brace(q, n))) \in C <=> NameBefore(q, Brace(q, n)) \in C
  BY <1>1, <1>12, NameMoved
<1>14. \A p \in P, r \in 1..Len(f) : BlockOf(sent, at(p) + r) = at(p)
  BY <1>1, <1>3, FieldsBlock
<1>15. /\ \A i \in 1..Len(q) : q[i] \notin Tokens(f)
       /\ \A r \in 1..Len(f) : f[r] \in Tokens(f)
       /\ \A x \in Tokens(f) : \E r \in 1..Len(f) : x = f[r]
  BY DEF Tokens
<1> HIDE DEF sent, at
<1>16. BlockOf(sent, m) = at(Brace(q, n))
  <2>1. at(n) \in 1..Len(sent)
    BY <1>6, <1>10
  <2>2. Brace(sent, at(n)) = BlockOf(sent, at(n))
    BY <1>4, <1>5, <2>1, SameBlock
  <2> QED
    BY <1>9, <1>11, <2>2
<1>17. NameBefore(sent, BlockOf(sent, m)) \in C <=> n + 1 \in P
  BY <1>2, <1>13, <1>16, Zenon DEF FindParentField
<1>18. m + 1 = at(n + 1)
  BY <1>9, <1>10
<1>19. \A j : j \in there <=> j \in 1..Len(sent) /\ sent[j] \in Tokens(f) /\ BlockOf(sent, j) = m + 1
  BY Zenon
<1> HIDE DEF there
<1>20. \A k \in there : sent[k] \in Tokens(f)
  BY <1>19
<1>21. ASSUME NEW j \in there PROVE n + 1 \in P
  <2>1. j \in 1..Len(sent) /\ sent[j] \in Tokens(f) /\ BlockOf(sent, j) = m + 1
    BY <1>19
  <2>2. PICK i \in 1..Len(q) : j = at(i) \/ (i \in P /\ \E r \in 1..Len(f) : j = at(i) + r)
    BY <1>6, <2>1, Zenon
  <2>3. j # at(i)
    BY <1>6, <1>15, <2>1
  <2>4. PICK r \in 1..Len(f) : i \in P /\ j = at(i) + r
    BY <2>2, <2>3
  <2>5. at(i) = at(n + 1)
    BY <1>14, <1>18, <2>1, <2>4
  <2>6. i = n + 1
    BY <1>6, <1>10, <2>5
  <2> QED
    BY <2>4, <2>6
<1>22. ASSUME n + 1 \in P, NEW x \in Tokens(f) PROVE \E k \in there : x = sent[k]
  <2>1. PICK r \in 1..Len(f) : x = f[r]
    BY <1>15
  <2>2. at(n + 1) + r \in 1..Len(sent) /\ sent[at(n + 1) + r] = f[r]
    BY <1>6, <1>22
  <2>3. BlockOf(sent, at(n + 1) + r) = m + 1
    BY <1>14, <1>18, <1>22
  <2>4. at(n + 1) + r \in there
    BY <1>15, <1>19, <2>2, <2>3
  <2> QED
    BY <2>1, <2>2, <2>4
<1>23. CASE n + 1 \in P
  <2>1. {sent[k] : k \in there} = Tokens(f)
    BY <1>20, <1>22, <1>23, Zenon
  <2> QED
    BY <1>17, <1>23, <2>1
<1>24. CASE n + 1 \notin P
  <2>1. {sent[k] : k \in there} = {}
    BY <1>21, <1>24, Zenon
  <2> QED
    BY <1>17, <1>24, <2>1
<1> QED
  BY <1>23, <1>24

\* What was sent on is the query rewritten.
GraphqlInv ==
  /\ rewrite.query \in Seq(Words)
  /\ rewrite.sent = InjectGuardFields(rewrite.query, rewrite.tool)

\* At the start nothing is asked, and the rewriting of nothing is nothing.
LEMMA GraphqlInvInit == GraphqlInit => GraphqlInv
<1> SUFFICES ASSUME GraphqlInit PROVE GraphqlInv
  OBVIOUS
<1>1. rewrite.query = <<>> /\ rewrite.sent = <<>>
  BY DEF GraphqlInit
<1> DEFINE wanted == FieldsForTool(rewrite.tool)
           m == Missing(<<>>, wanted.fields)
<1>2. wanted.fields \in Seq(Words)
  BY WantedFields
<1>3. <<>> \in Seq(Words) /\ Len(<<>>) = 0
  OBVIOUS
<1>4. InjectGuardFields(<<>>, rewrite.tool) = InjectFieldsIntoQuery(<<>>, m, wanted.parents)
  BY Zenon DEF InjectGuardFields
<1> HIDE DEF wanted
<1>5. m \in Seq(Words)
  BY <1>2, WithoutTokens DEF Missing
<1> HIDE DEF m
<1>6. PICK P \in SUBSET (1..Len(<<>>)) :
        InjectFieldsIntoQuery(<<>>, m, wanted.parents) = InsertAfter(<<>>, P, m)
  BY <1>3, <1>5, SomeInsertion
<1>7. P = {}
  BY <1>3
<1>8. InsertAfter(<<>>, P, m) = <<>>
  BY <1>3, <1>5, <1>7, InsertNothing
<1> QED
  BY <1>1, <1>3, <1>4, <1>6, <1>8 DEF GraphqlInv

\* A request is sent on as InjectGuardFields returns it.
LEMMA GraphqlInvNext == GraphqlInv /\ [GraphqlNext]_graphqlVars => GraphqlInv'
<1> SUFFICES ASSUME GraphqlInv, [GraphqlNext]_graphqlVars PROVE GraphqlInv'
  OBVIOUS
<1>1. CASE UNCHANGED graphqlVars
  BY <1>1 DEF graphqlVars, GraphqlInv
<1>2. ASSUME NEW q \in Queries, NEW tool \in ReadTools, Rewrite(q, tool) PROVE GraphqlInv'
  <2>1. STRING \subseteq Words
    BY DEF Words
  <2>2. q \in Seq(STRING)
    BY QueriesAssumption
  <2>3. q \in Seq(Words)
    BY <2>1, <2>2, SeqMonotonic
  <2>4. rewrite' = [tool |-> tool, query |-> q, sent |-> InjectGuardFields(q, tool)]
    BY <1>2 DEF Rewrite
  <2> QED
    BY <2>3, <2>4 DEF GraphqlInv
<1> QED
  BY <1>1, <1>2 DEF GraphqlNext

\* No field to add is a brace, a fragment or nodes.
LEMMA GuardFieldsNotReserved == GuardFields \cap Reserved = {}
  BY DEF GuardFields, Reserved, Structure, Args, Spread, Inline, InlineGlued, FragmentF

\* What InjectGuardFields returns is the query with the fields where they belong.
LEMMA InvImpliesKept == GraphqlInv => InjectionKeepsQuery
<1> SUFFICES ASSUME GraphqlInv PROVE InjectionKeepsQuery
  OBVIOUS
<1> DEFINE q == rewrite.query
           sent == rewrite.sent
           tool == rewrite.tool
           wanted == FieldsForTool(tool)
           F == wanted.fields
           C == wanted.parents
           m == Missing(q, F)
           added == Tokens(m)
<1>1. q \in Seq(Words) /\ sent = InjectGuardFields(q, tool)
  BY DEF GraphqlInv
<1>2. /\ F \in Seq(Words) /\ Tokens(F) \subseteq GuardFields
      /\ C \cap (GuardFields \cup Structure) = {} /\ NoName \notin C
  BY WantedFields
<1>3. InjectGuardFields(q, tool) = InjectFieldsIntoQuery(q, m, C)
  BY Zenon DEF InjectGuardFields
<1>4. InjectGuardFields(q, tool) \in Seq(Words)
      /\ InjectGuardFields(InjectGuardFields(q, tool), tool) = InjectGuardFields(q, tool)
  BY <1>1, RewrittenOnce
<1> SUFFICES /\ Without(sent, added) = q
             /\ InjectGuardFields(sent, tool) = sent
             /\ Closed(q) /\ Tokens(q) \cap {Spread, Inline, InlineGlued} = {} =>
                  \A n \in NodesAt(sent) :
                    {sent[k] : k \in {j \in 1..Len(sent) : sent[j] \in added
                                                           /\ BlockOf(sent, j) = n + 1}}
                      = IF NameBefore(sent, BlockOf(sent, n)) \in C THEN added ELSE {}
  BY Zenon DEF InjectionKeepsQuery
<1> HIDE DEF q, sent, tool, F, C
<1>5. m \in Seq(Words) /\ added = Tokens(F) \ Tokens(q)
  BY <1>2, WithoutTokens DEF Missing
<1> HIDE DEF m
<1>6. sent = InjectFieldsIntoQuery(q, m, C)
  BY <1>1, <1>3
<1>7. added \cap Tokens(q) = {}
  BY <1>5
<1>8. Tokens(m) \cap Reserved = {} /\ C \cap (Tokens(m) \cup Structure) = {}
  <2>1. \A x \in Tokens(m) : x \in GuardFields
    BY <1>2, <1>5
  <2> QED
    BY <1>2, <2>1, GuardFieldsNotReserved
<1>9. Without(sent, added) = q
  <2>1. PICK P \in SUBSET (1..Len(q)) : sent = InsertAfter(q, P, m)
    BY <1>1, <1>5, <1>6, SomeInsertion
  <2>2. Tokens(m) \cap Tokens(q) = {}
    BY <1>7
  <2> QED
    BY <1>1, <1>5, <2>1, <2>2, KeptQuery
<1>10. InjectGuardFields(sent, tool) = sent
  BY <1>1, <1>4
<1>11. ASSUME Closed(q), Tokens(q) \cap {Spread, Inline, InlineGlued} = {}, NEW n \in NodesAt(sent)
       PROVE  {sent[k] : k \in {j \in 1..Len(sent) : sent[j] \in added /\ BlockOf(sent, j) = n + 1}}
                = IF NameBefore(sent, BlockOf(sent, n)) \in C THEN added ELSE {}
  <2>1. sent = InsertAfter(q, AfterSafeNodes(q, C), m)
    BY <1>1, <1>6, <1>11, WithoutFragments
  <2>2. Tokens(m) \cap Tokens(q) = {}
    BY <1>7
  <2>3. n \in NodesAt(InsertAfter(q, AfterSafeNodes(q, C), m))
    BY <1>11, <2>1
  <2> DEFINE new == InsertAfter(q, AfterSafeNodes(q, C), m)
  <2>4. {new[k] : k \in {j \in 1..Len(new) : new[j] \in Tokens(m) /\ BlockOf(new, j) = n + 1}}
          = IF NameBefore(new, BlockOf(new, n)) \in C THEN Tokens(m) ELSE {}
    BY <1>1, <1>2, <1>5, <1>8, <1>11, <2>2, <2>3, FieldsPlaced
  <2> QED
    BY <2>1, <2>4
<1> QED
  BY <1>9, <1>10, <1>11

\* For queries of any length and any nesting: what the proxy sends on is the
\* client's query with fields added, is not changed by another rewriting, and,
\* without fragments and if its braces are closed, has the fields in the nodes
\* of the connections that have them and nowhere else (InjectGuardFields,
\* injectFieldsIntoQuery, findParentField).
THEOREM InjectionKeepsQueryHolds == GraphqlSpec => []InjectionKeepsQuery
  BY GraphqlInvInit, GraphqlInvNext, InvImpliesKept, PTL DEF GraphqlSpec
=============================================================================
