------------------------ MODULE GuardPipeline_proofs ------------------------
(***************************************************************************)
(* Proofs about the information-flow pipeline, for any agents, calls, tags *)
(* and guard answers.                                                      *)
(*                                                                         *)
(* KnowledgeCovered and OnlyClearedSinks are not inductive: what a call    *)
(* will deliver or expose was decided by a check in an earlier phase,      *)
(* against labels that other calls have changed since.  CallInv records,   *)
(* phase by phase, what that check established and why it still holds:     *)
(* secrecy labels only grow (Monotone).                             *)
(***************************************************************************)
EXTENDS GuardPipeline, TLAPS

\* Accumulation (if any) of the read has reached the agent's secrecy label.
Accounted(c) == req[c].mode # "propagate" \/ pc[c] \in {"accumulateIntegrity", "deliver"}

Cleared(c, sec) == Covers(secrecy[req[c].agent], sec)

CallInv(c) ==
  /\ req[c].knew \subseteq knows[req[c].agent]
  /\ pc[c] = "backend" /\ req[c].op # "read" =>
       \A d \in req[c].knew : Covers(req[c].res.sec, d.sec)
  /\ req[c].op = "write" => accessible[c] = {} /\ pc[c] # "filter"
  /\ Accounted(c) /\ c \notin unlabelled => \A i \in accessible[c] : Cleared(c, i.sec)
  /\ (/\ Accounted(c) /\ pc[c] # "coarse" /\ req[c].op # "write"
      /\ c \notin bypassed
      /\ req[c].mode = "propagate" => c \in unlabelled) => Cleared(c, req[c].res.sec)

CallsInv == \A c \in Calls : IF pc[c] = "idle" THEN accessible[c] = {} ELSE CallInv(c)

IInv == TypeOK /\ KnowledgeCovered /\ OnlyClearedSinks /\ CallsInv

-----------------------------------------------------------------------------
\* A label that covers some tags still does when it grows.
LEMMA CoversMonotone ==
  ASSUME NEW A, NEW B, NEW x, Covers(A, x), A \subseteq B
  PROVE  Covers(B, x)
  BY DEF Covers

\* Data an agent is cleared for may go wherever the agent's label may go.
LEMMA CoversTransitive ==
  ASSUME NEW A, NEW B, NEW x, Covers(A, x), Covers(B, A)
  PROVE  Covers(B, x)
  BY DEF Covers

LEMMA TypeInit == Init => TypeOK
  BY NoCallAssumption DEF Init, TypeOK, Phases

\* Every step keeps the variables typed.
LEMMA TypeNext == TypeOK /\ [Next]_vars => TypeOK'
<1> SUFFICES ASSUME TypeOK, [Next]_vars PROVE TypeOK'
  OBVIOUS
<1> USE LabelsAssumption, ResponsesAssumption
    DEF TypeOK, Phases, agentVars, filterVars, ghostVars, Goto
<1>1. ASSUME NEW a \in Agents, LabelAgent(a) PROVE TypeOK'
  BY <1>1 DEF LabelAgent, GrantedSecrecy
<1>2. ASSUME NEW c \in Calls, Begin(c) PROVE TypeOK'
  BY <1>2 DEF Begin, Requests
<1>3. ASSUME NEW c \in Calls, CoarseDenied(c) PROVE TypeOK'
  BY <1>3 DEF CoarseDenied, Return
<1>4. ASSUME NEW c \in Calls, CoarsePassed(c) PROVE TypeOK'
  BY <1>4 DEF CoarsePassed
<1>5. ASSUME NEW c \in Calls, Backend(c) PROVE TypeOK'
  <2>1. exposed' \subseteq GuardLabels \X GuardLabels
    BY <1>5 DEF Backend, Requests
  <2>2. CASE Return(c)
    BY <1>5, <2>1, <2>2 DEF Backend, Return
  <2>3. CASE Goto(c, "labelResponse") /\ UNCHANGED <<req, bypassed, unlabelled, filterVars>>
    BY <1>5, <2>1, <2>3 DEF Backend
  <2>4. QED BY <1>5, <2>2, <2>3 DEF Backend
<1>6. ASSUME NEW c \in Calls, LabelResponseFails(c) PROVE TypeOK'
  BY <1>6 DEF LabelResponseFails, Return
<1>7. ASSUME NEW c \in Calls, LabelResponseNil(c) PROVE TypeOK'
  BY <1>7 DEF LabelResponseNil
<1>8. ASSUME NEW c \in Calls, LabelResponseItems(c) PROVE TypeOK'
  BY <1>8 DEF LabelResponseItems
<1>9. ASSUME NEW c \in Calls, FilterItem(c) PROVE TypeOK'
  BY <1>9 DEF FilterItem
<1>10. ASSUME NEW c \in Calls, FilterRefuses(c) PROVE TypeOK'
  BY <1>10 DEF FilterRefuses, Return
<1>11. ASSUME NEW c \in Calls, FilterPasses(c) PROVE TypeOK'
  BY <1>11 DEF FilterPasses
<1>12. ASSUME NEW c \in Calls, SkipAccumulation(c) PROVE TypeOK'
  BY <1>12 DEF SkipAccumulation
<1>13. ASSUME NEW c \in Calls, AccumulateSecrecy(c) PROVE TypeOK'
  <2>1. req[c] \in Requests /\ ReadLabels(c).sec \subseteq Tags
    BY <1>13 DEF AccumulateSecrecy, ReadLabels, Overall, Requests
  <2> QED BY <1>13, <2>1 DEF AccumulateSecrecy, AccumulatedSecrecy, Requests
<1>14. ASSUME NEW c \in Calls, AccumulateIntegrity(c) PROVE TypeOK'
  BY <1>14 DEF AccumulateIntegrity, Requests
<1>15. ASSUME NEW c \in Calls, Deliver(c) PROVE TypeOK'
  <2>1. req[c] \in Requests /\ Delivered(c) \subseteq GuardLabels
    BY <1>15 DEF Deliver, Delivered, Secret, Requests
  <2> QED BY <1>15, <2>1 DEF Deliver, Return, Requests
<1>16. ASSUME NEW c \in Calls, ConvertFails(c) PROVE TypeOK'
  BY <1>16 DEF ConvertFails, Return
<1>17. ASSUME NEW c \in Calls, CircuitRejects(c) PROVE TypeOK'
  BY <1>17 DEF CircuitRejects, Return
<1>18. ASSUME NEW c \in Calls, ConvertItemsFails(c) PROVE TypeOK'
  BY <1>18 DEF ConvertItemsFails, Return
<1>19. CASE UNCHANGED vars
  BY <1>19 DEF vars
<1> QED
  BY <1>1, <1>2, <1>3, <1>4, <1>5, <1>6, <1>7, <1>8, <1>9, <1>10, <1>11, <1>12,
     <1>13, <1>14, <1>15, <1>16, <1>17, <1>18, <1>19 DEF Next, CallStep

\* The variables keep their types.
THEOREM TypeCorrect == Spec => []TypeOK
  BY TypeInit, TypeNext, PTL DEF Spec

-----------------------------------------------------------------------------
Grows == \A a \in Agents : secrecy[a] \subseteq secrecy'[a] /\ knows[a] \subseteq knows'[a]

\* No step takes a secrecy tag, or what it knows, away from an agent.
LEMMA Monotone == TypeOK /\ [Next]_vars => Grows
<1> SUFFICES ASSUME TypeOK, [Next]_vars PROVE Grows
  OBVIOUS
<1> USE DEF Grows, TypeOK, agentVars, ghostVars
<1>1. ASSUME NEW a \in Agents, LabelAgent(a) PROVE Grows
  BY <1>1 DEF LabelAgent, GrantedSecrecy
<1>2. ASSUME NEW c \in Calls, AccumulateSecrecy(c) PROVE Grows
  BY <1>2 DEF AccumulateSecrecy, AccumulatedSecrecy, Requests
<1>3. ASSUME NEW c \in Calls, Deliver(c) PROVE Grows
  BY <1>3 DEF Deliver, Requests
<1>4. ASSUME NEW c \in Calls, CallStep(c), ~AccumulateSecrecy(c), ~Deliver(c) PROVE Grows
  BY <1>4 DEF CallStep, Begin, CoarseDenied, CoarsePassed, Backend,
       LabelResponseFails, LabelResponseNil, LabelResponseItems, FilterItem,
       FilterRefuses, FilterPasses, SkipAccumulation, AccumulateIntegrity, ConvertFails,
       CircuitRejects, ConvertItemsFails
<1>5. CASE UNCHANGED vars
  BY <1>5 DEF vars
<1> QED BY <1>1, <1>2, <1>3, <1>4, <1>5 DEF Next

\* What c's own variables say, unchanged by a step of anyone else.
SameCall(c) ==
  /\ pc'[c] = pc[c] /\ req'[c] = req[c] /\ accessible'[c] = accessible[c]
  /\ (c \in bypassed') <=> (c \in bypassed)
  /\ (c \in unlabelled') <=> (c \in unlabelled)

\* A call's invariant survives whatever the others do, as secrecy only grows.
LEMMA Frame ==
  ASSUME TypeOK, Grows, NEW c \in Calls, pc[c] # "idle", CallInv(c), SameCall(c)
  PROVE  CallInv(c)'
<1> USE DEF SameCall, TypeOK
<1>1. req[c].agent \in Agents
  BY DEF Requests
<1>2. ASSUME NEW x, Cleared(c, x) PROVE Covers(secrecy'[req[c].agent], x)
  BY <1>1, <1>2, CoversMonotone DEF Cleared, Grows
<1>3. knows[req[c].agent] \subseteq knows'[req[c].agent]
  BY <1>1 DEF Grows
<1> QED BY <1>2, <1>3 DEF CallInv, Cleared, Accounted

\* Only c moves: the others keep their invariant, so c's own is what is left to show.
LEMMA OthersFramed ==
  ASSUME TypeOK, Grows, CallsInv, NEW c \in Calls,
         \A d \in Calls \ {c} : SameCall(d),
         pc'[c] = "idle" => accessible'[c] = {},
         pc'[c] # "idle" => CallInv(c)'
  PROVE  CallsInv'
<1> SUFFICES ASSUME NEW d \in Calls
             PROVE  IF pc'[d] = "idle" THEN accessible'[d] = {} ELSE CallInv(d)'
  BY DEF CallsInv
<1>1. CASE d = c
  BY <1>1
<1>2. CASE d # c
  BY <1>2, Frame DEF CallsInv, SameCall
<1> QED BY <1>1, <1>2

\* In each phase, a step of c establishes what its next phase relies on.
LEMMA OwnStep ==
  ASSUME TypeOK, KnowledgeCovered, CallsInv, Grows, NEW c \in Calls, CallStep(c)
  PROVE  /\ pc'[c] = "idle" => accessible'[c] = {}
         /\ pc'[c] # "idle" => CallInv(c)'
<1> USE DEF TypeOK, agentVars, filterVars, ghostVars, Goto
<1> DEFINE Goal == /\ pc'[c] = "idle" => accessible'[c] = {}
                   /\ pc'[c] # "idle" => CallInv(c)'
<1>1. pc[c] # "idle" => CallInv(c) /\ req[c] \in Requests
  BY DEF CallsInv
<1>2. ASSUME NEW a \in Agents, NEW x, Covers(secrecy[a], x) PROVE Covers(secrecy'[a], x)
  BY <1>2, CoversMonotone DEF Grows
<1>3. ASSUME Return(c) PROVE Goal
  BY <1>3 DEF Return
<1>4. CASE Begin(c)
  <2>1. PICK a \in Agents, m \in CallModes, o \in CallOps, r \in GuardLabels :
          req' = [req EXCEPT ![c] = [agent |-> a, mode |-> m, op |-> o, res |-> r,
                                     knew |-> knows[a]]]
    BY <1>4 DEF Begin
  <2>2. /\ req'[c].agent = a /\ req'[c].knew = knows[a] /\ pc'[c] = "coarse"
        /\ accessible'[c] = {}
    BY <1>4, <2>1 DEF Begin, CallsInv
  <2> QED BY <1>4, <2>2 DEF CallInv, Begin
<1>5. CASE CoarseDenied(c)
  BY <1>3, <1>5 DEF CoarseDenied
<1>6. CASE CoarsePassed(c)
  <2>1. CallInv(c) /\ req[c] \in Requests /\ pc[c] = "coarse" /\ pc'[c] = "backend"
    BY <1>1, <1>6 DEF CoarsePassed
  <2>2. req[c].op # "read" =>
          \A d \in req[c].knew : Covers(req[c].res.sec, d.sec)
    <3>1. req[c].op # "read" => CanWrite(Agent(req[c].agent), req[c].res)
      BY <1>6, <2>1, ModesAssumption
         DEF CoarsePassed, Outcome, CoarseOutcome, IsAllowed, Requests, Operations
    <3>2. \A d \in req[c].knew : Covers(secrecy[req[c].agent], d.sec)
      BY <2>1 DEF CallInv, KnowledgeCovered, Requests
    <3> QED BY <2>1, <3>1, <3>2, CoversTransitive DEF CanWrite, SecrecyFlows, Agent
  <2>3. c \notin bypassed' /\ req[c].op # "write" /\ req[c].mode # "propagate" =>
          Cleared(c, req[c].res.sec)
    BY <1>6, <2>1, ModesAssumption
       DEF CoarsePassed, Outcome, CoarseOutcome, IsAllowed, CanRead, SecrecyFlows,
           Agent, Cleared, Requests, Operations
  <2> QED BY <1>6, <2>1, <2>2, <2>3 DEF CoarsePassed, CallInv, Cleared, Accounted
<1>7. CASE Backend(c)
  <2>1. CASE Return(c)
    BY <1>3, <2>1
  <2>2. CASE Goto(c, "labelResponse") /\ UNCHANGED <<req, bypassed, unlabelled, filterVars>>
    BY <1>1, <1>7, <2>2 DEF Backend, CallInv, Cleared, Accounted
  <2> QED BY <1>7, <2>1, <2>2 DEF Backend
<1>8. CASE LabelResponseFails(c)
  BY <1>3, <1>8 DEF LabelResponseFails
<1>9. CASE LabelResponseNil(c)
  BY <1>1, <1>9 DEF LabelResponseNil, CallInv, Cleared, Accounted
<1>10. CASE LabelResponseItems(c)
  BY <1>1, <1>10 DEF LabelResponseItems, CallInv, Cleared, Accounted, ShouldCallLabelResponse
<1>11. CASE FilterItem(c)
  <2>1. req[c].op # "write" /\ CallInv(c) /\ req[c] \in Requests
    BY <1>1, <1>11 DEF FilterItem, CallInv
  <2>2. \A i \in GuardLabels :
          ItemAllowed(c, i) /\ req[c].mode # "propagate" => Cleared(c, i.sec)
    BY <2>1, ModesAssumption
       DEF ItemAllowed, IsAllowed, CanRead, SecrecyFlows, Agent, Cleared, Requests, Operations
  <2>3. \A i \in accessible'[c] :
          i \in accessible[c] \/ (i \in GuardLabels /\ ItemAllowed(c, i))
    BY <1>11 DEF FilterItem
  <2> QED BY <1>11, <2>1, <2>2, <2>3 DEF FilterItem, CallInv, Cleared, Accounted
<1>12. CASE FilterRefuses(c)
  BY <1>3, <1>12 DEF FilterRefuses
<1>13. CASE FilterPasses(c)
  BY <1>1, <1>13 DEF FilterPasses, CallInv, Cleared, Accounted
<1>14. CASE SkipAccumulation(c)
  BY <1>1, <1>14 DEF SkipAccumulation, CallInv, Cleared, Accounted, ShouldAccumulateReadLabels
<1>15. CASE AccumulateSecrecy(c)
  <2>1. CallInv(c) /\ req[c] \in Requests /\ pc'[c] = "accumulateIntegrity"
    BY <1>1, <1>15 DEF AccumulateSecrecy
  <2>2. ReadLabels(c).sec \subseteq secrecy'[req[c].agent]
    BY <1>15, <2>1 DEF AccumulateSecrecy, AccumulatedSecrecy, Requests
  <2>3. c \notin unlabelled => \A i \in accessible[c] : i.sec \subseteq ReadLabels(c).sec
    BY DEF ReadLabels, Overall
  <2>4. c \in unlabelled => req[c].res.sec \subseteq ReadLabels(c).sec
    BY DEF ReadLabels
  <2>5. c \notin unlabelled => \A i \in accessible[c] : Covers(secrecy'[req[c].agent], i.sec)
    BY <2>2, <2>3 DEF Covers
  <2>6. c \in unlabelled => Covers(secrecy'[req[c].agent], req[c].res.sec)
    BY <2>2, <2>4 DEF Covers
  <2>7. req[c].mode = "propagate"
    BY <1>15 DEF AccumulateSecrecy, ShouldAccumulateReadLabels
  <2> QED BY <1>15, <2>1, <2>5, <2>6, <2>7 DEF AccumulateSecrecy, CallInv, Cleared
<1>16. CASE AccumulateIntegrity(c)
  BY <1>1, <1>16 DEF AccumulateIntegrity, CallInv, Cleared, Accounted
<1>17. CASE Deliver(c)
  BY <1>3, <1>17 DEF Deliver
<1>18. CASE ConvertFails(c)
  BY <1>3, <1>18 DEF ConvertFails
<1>19. CASE CircuitRejects(c) \/ ConvertItemsFails(c)
  BY <1>3, <1>19 DEF CircuitRejects, ConvertItemsFails
<1> QED
  BY <1>4, <1>5, <1>6, <1>7, <1>8, <1>9, <1>10, <1>11, <1>12, <1>13, <1>14, <1>15,
     <1>16, <1>17, <1>18, <1>19 DEF CallStep

\* Every step keeps what the earlier phases of each call established.
LEMMA CallsInvStep == TypeOK /\ KnowledgeCovered /\ CallsInv /\ [Next]_vars => CallsInv'
<1> SUFFICES ASSUME TypeOK, KnowledgeCovered, CallsInv, [Next]_vars PROVE CallsInv'
  OBVIOUS
<1>1. Grows
  BY Monotone
<1>2. CASE \A d \in Calls : SameCall(d)
  BY <1>1, <1>2, Frame DEF CallsInv, SameCall
<1>3. ASSUME NEW a \in Agents, LabelAgent(a) PROVE \A d \in Calls : SameCall(d)
  BY <1>3 DEF LabelAgent, SameCall, filterVars
<1>4. CASE UNCHANGED vars
  BY <1>2, <1>4 DEF vars, SameCall, filterVars
<1>5. ASSUME NEW c \in Calls, CallStep(c) PROVE CallsInv'
  <2>1. \A d \in Calls \ {c} : SameCall(d)
    BY <1>5 DEF SameCall, TypeOK, filterVars, Goto, Return, CallStep, Begin, CoarseDenied,
         CoarsePassed, Backend, LabelResponseFails, LabelResponseNil, LabelResponseItems,
         FilterItem, FilterRefuses, FilterPasses, SkipAccumulation, AccumulateSecrecy,
         AccumulateIntegrity, Deliver, ConvertFails,
       CircuitRejects, ConvertItemsFails
  <2> QED BY <1>1, <1>5, <2>1, OwnStep, OthersFramed
<1> QED BY <1>2, <1>3, <1>4, <1>5 DEF Next

\* What is delivered is covered at that moment, and stays so.
LEMMA KnowledgeStep ==
  TypeOK /\ KnowledgeCovered /\ CallsInv /\ [Next]_vars => KnowledgeCovered'
<1> SUFFICES ASSUME TypeOK, KnowledgeCovered, CallsInv, [Next]_vars PROVE KnowledgeCovered'
  OBVIOUS
<1>1. Grows
  BY Monotone
<1>2. \A a \in Agents : \A d \in knows[a] : Covers(secrecy'[a], d.sec)
  BY <1>1, CoversMonotone DEF Grows, KnowledgeCovered
<1>3. CASE UNCHANGED knows
  BY <1>2, <1>3 DEF KnowledgeCovered
<1>4. ASSUME NEW c \in Calls, Deliver(c) PROVE KnowledgeCovered'
  <2>1. /\ CallInv(c) /\ req[c] \in Requests /\ pc[c] = "deliver"
        /\ secrecy' = secrecy
    BY <1>4 DEF Deliver, CallsInv, TypeOK, agentVars
  <2>2. CASE NeverChecked(c)
    BY <1>3, <1>4, <2>2 DEF Deliver
  <2>3. CASE ~NeverChecked(c)
    <3>1. knows' = [knows EXCEPT ![req[c].agent] = @ \cup Delivered(c)]
      BY <1>4, <2>3 DEF Deliver
    <3>2. \A d \in Delivered(c) : Cleared(c, d.sec)
      BY <2>1, <2>3
         DEF Delivered, Secret, NeverChecked, CallInv, Accounted, Cleared, Requests
    <3>3. \A d \in Delivered(c) : Covers(secrecy'[req[c].agent], d.sec)
      BY <2>1, <3>2 DEF Cleared
    <3> QED BY <1>2, <3>1, <3>3 DEF KnowledgeCovered, TypeOK
  <2> QED BY <2>2, <2>3
<1>5. ASSUME NEW c \in Calls, CallStep(c), ~Deliver(c) PROVE UNCHANGED knows
  BY <1>5 DEF ghostVars, CallStep, Begin, CoarseDenied, CoarsePassed, Backend,
       LabelResponseFails, LabelResponseNil, LabelResponseItems, FilterItem, FilterRefuses,
       FilterPasses, SkipAccumulation, AccumulateSecrecy, AccumulateIntegrity, ConvertFails,
       CircuitRejects, ConvertItemsFails
<1>6. ASSUME NEW a \in Agents, LabelAgent(a) PROVE UNCHANGED knows
  BY <1>6 DEF LabelAgent, ghostVars
<1>7. CASE UNCHANGED vars
  BY <1>3, <1>7 DEF vars, ghostVars
<1> QED BY <1>3, <1>4, <1>5, <1>6, <1>7 DEF Next

\* A write exposes what its coarse check cleared.
LEMMA SinksStep == TypeOK /\ OnlyClearedSinks /\ CallsInv /\ [Next]_vars => OnlyClearedSinks'
<1> SUFFICES ASSUME TypeOK, OnlyClearedSinks, CallsInv, [Next]_vars PROVE OnlyClearedSinks'
  OBVIOUS
<1>1. CASE UNCHANGED exposed
  BY <1>1 DEF OnlyClearedSinks
<1>2. ASSUME NEW c \in Calls, Backend(c) PROVE OnlyClearedSinks'
  <2>1. CallInv(c) /\ pc[c] = "backend"
    BY <1>2 DEF Backend, CallsInv
  <2>2. CASE req[c].op = "read"
    BY <1>1, <1>2, <2>2 DEF Backend
  <2>3. CASE req[c].op # "read"
    <3>1. exposed' = exposed \cup {<<d, req[c].res>> : d \in req[c].knew}
      BY <1>2, <2>3 DEF Backend
    <3> QED BY <2>1, <2>3, <3>1 DEF OnlyClearedSinks, CallInv
  <2> QED BY <2>2, <2>3
<1>3. ASSUME NEW c \in Calls, CallStep(c), ~Backend(c) PROVE UNCHANGED exposed
  BY <1>3 DEF ghostVars, CallStep, Begin, CoarseDenied, CoarsePassed, Deliver,
       LabelResponseFails, LabelResponseNil, LabelResponseItems, FilterItem, FilterRefuses,
       FilterPasses, SkipAccumulation, AccumulateSecrecy, AccumulateIntegrity, ConvertFails,
       CircuitRejects, ConvertItemsFails
<1>4. ASSUME NEW a \in Agents, LabelAgent(a) PROVE UNCHANGED exposed
  BY <1>4 DEF LabelAgent, ghostVars
<1>5. CASE UNCHANGED vars
  BY <1>1, <1>5 DEF vars, ghostVars
<1> QED BY <1>1, <1>2, <1>3, <1>4, <1>5 DEF Next

\* The invariant that is inductive: what each phase established still holds.
THEOREM Inductive == Spec => []IInv
<1>1. Init => IInv
  BY TypeInit DEF Init, IInv, KnowledgeCovered, OnlyClearedSinks, CallsInv
<1>2. IInv /\ [Next]_vars => IInv'
  BY TypeNext, CallsInvStep, KnowledgeStep, SinksStep DEF IInv
<1> QED BY <1>1, <1>2, PTL DEF Spec

\* An agent is cleared, now and ever after, for all the data a checked call gave it.
THEOREM KnowledgeIsCovered == Spec => []KnowledgeCovered
<1>1. IInv => KnowledgeCovered
  BY DEF IInv
<1> QED BY Inductive, <1>1, PTL

\* A write reaches only sinks that may hold all its agent knew when it asked.
THEOREM SinksAreCleared == Spec => []OnlyClearedSinks
<1>1. IInv => OnlyClearedSinks
  BY DEF IInv
<1> QED BY Inductive, <1>1, PTL

-----------------------------------------------------------------------------
(* The pipeline implements the abstract reference monitor.  Four actions   *)
(* map to a step of it, all the others to a stutter.                       *)

LEMMA RefineInit == Init => Monitor!Init
  BY DEF Init, Monitor!Init

\* Granting and accumulating raise the clearance.
LEMMA RefineRaise ==
  ASSUME TypeOK, NEW a \in Agents, NEW S \in SUBSET Tags,
         secrecy' = [secrecy EXCEPT ![a] = secrecy[a] \cup S],
         UNCHANGED <<knows, exposed>>
  PROVE  Monitor!Next
<1>1. Monitor!Raise(a)
  BY DEF Monitor!Raise
<1> QED BY <1>1 DEF Monitor!Next

LEMMA RefineStep == IInv /\ [Next]_vars => [Monitor!Next]_Monitor!mvars
<1> SUFFICES ASSUME IInv, [Next]_vars PROVE [Monitor!Next]_Monitor!mvars
  OBVIOUS
<1> USE DEF IInv
<1>1. CASE UNCHANGED <<secrecy, knows, exposed>>
  BY <1>1 DEF Monitor!mvars
<1>2. ASSUME NEW a \in Agents, LabelAgent(a) PROVE Monitor!Next
  <2>1. PICK l \in AgentGrants : secrecy' = [secrecy EXCEPT ![a] = secrecy[a] \cup l.sec]
    BY <1>2 DEF LabelAgent, GrantedSecrecy
  <2>2. l.sec \in SUBSET Tags
    BY LabelsAssumption
  <2> QED BY <1>2, <2>1, <2>2, RefineRaise DEF LabelAgent, ghostVars
<1>3. ASSUME NEW c \in Calls, AccumulateSecrecy(c) PROVE Monitor!Next
  <2>1. req[c] \in Requests
    BY <1>3 DEF AccumulateSecrecy, TypeOK
  <2>2. ReadLabels(c).sec \in SUBSET Tags
    BY <2>1, LabelsAssumption DEF ReadLabels, Overall, Requests, TypeOK
  <2> QED BY <1>3, <2>1, <2>2, RefineRaise
          DEF AccumulateSecrecy, AccumulatedSecrecy, ghostVars, Requests
<1>4. ASSUME NEW c \in Calls, Deliver(c), ~NeverChecked(c) PROVE Monitor!Next
  <2> DEFINE a == req[c].agent
  <2>1. a \in Agents /\ Delivered(c) \in SUBSET GuardLabels
    BY <1>4 DEF Deliver, TypeOK, Delivered, Secret, Requests
  <2>2. knows' = [knows EXCEPT ![a] = @ \cup Delivered(c)] /\ UNCHANGED <<secrecy, exposed>>
    BY <1>4 DEF Deliver, agentVars
  <2>3. \A d \in Delivered(c) : Monitor!Covers(secrecy[a], d.sec)
    <3>1. KnowledgeCovered'
      BY KnowledgeStep
    <3> QED BY <2>1, <2>2, <3>1 DEF KnowledgeCovered, Covers, Monitor!Covers, TypeOK
  <2>4. Monitor!Learn(a)
    BY <2>1, <2>2, <2>3 DEF Monitor!Learn
  <2> QED BY <2>1, <2>4 DEF Monitor!Next
<1>5. ASSUME NEW c \in Calls, Backend(c), req[c].op # "read" PROVE Monitor!Next
  <2> DEFINE a == req[c].agent
             K == req[c].knew
             sink == req[c].res
  <2>1. /\ a \in Agents /\ sink \in GuardLabels /\ K \in SUBSET knows[a]
        /\ \A d \in K : Monitor!Covers(sink.sec, d.sec)
    BY <1>5 DEF Backend, TypeOK, CallsInv, CallInv, Requests, Covers, Monitor!Covers
  <2>2. exposed' = exposed \cup {<<d, sink>> : d \in K} /\ UNCHANGED <<secrecy, knows>>
    BY <1>5 DEF Backend, agentVars
  <2>3. Monitor!Write(a)
    BY <2>1, <2>2 DEF Monitor!Write
  <2> QED BY <2>1, <2>3 DEF Monitor!Next
<1>6. ASSUME NEW c \in Calls, CallStep(c),
             ~AccumulateSecrecy(c),
             ~(Deliver(c) /\ ~NeverChecked(c)),
             ~(Backend(c) /\ req[c].op # "read")
      PROVE  UNCHANGED <<secrecy, knows, exposed>>
  BY <1>6 DEF agentVars, ghostVars, CallStep, Begin, CoarseDenied, CoarsePassed, Backend,
       LabelResponseFails, LabelResponseNil, LabelResponseItems, FilterItem, FilterRefuses,
       FilterPasses, SkipAccumulation, AccumulateIntegrity, Deliver, ConvertFails,
       CircuitRejects, ConvertItemsFails
<1>7. CASE UNCHANGED vars
  BY <1>1, <1>7 DEF vars, agentVars, ghostVars
<1> QED BY <1>1, <1>2, <1>3, <1>4, <1>5, <1>6, <1>7 DEF Next

\* Whatever the phases, modes and interleavings, the pipeline only ever raises an
\* agent's clearance, gives it what it is cleared for, and writes what its sink may hold.
THEOREM PipelineIsMonitor == Spec => MonitorSpec
  BY Inductive, RefineInit, RefineStep, PTL DEF Spec, MonitorSpec, Monitor!Spec

-----------------------------------------------------------------------------
\* Items are filtered in phase 5 only, and a strict call does not get past it with one.
Whole(c) ==
  \/ filtered[c] = {} \/ pc[c] = "filter"
  \/ pc[c] \in {"accumulate", "accumulateIntegrity", "deliver"} /\ req[c].mode # "strict"

AllWhole == \A c \in Calls : Whole(c)

LEMMA WholeStep == TypeOK /\ AllWhole /\ [Next]_vars => AllWhole'
<1> SUFFICES ASSUME TypeOK, AllWhole, [Next]_vars, NEW c \in Calls
             PROVE  Whole(c)'
  BY DEF AllWhole
<1> USE DEF AllWhole
<1> USE DEF TypeOK, Whole, Goto, filterVars
<1>1. CASE pc'[c] = pc[c] /\ req'[c] = req[c] /\ filtered'[c] = filtered[c]
  BY <1>1
<1>2. CASE Begin(c) \/ CoarsePassed(c) \/ LabelResponseNil(c) \/ LabelResponseItems(c)
  BY <1>2 DEF Begin, CoarsePassed, LabelResponseNil, LabelResponseItems
<1>3. CASE FilterItem(c)
  BY <1>3 DEF FilterItem
<1>4. CASE FilterPasses(c)
  BY <1>4 DEF FilterPasses, Blocked, ShouldBlockFilteredResponse
<1>5. CASE SkipAccumulation(c) \/ AccumulateSecrecy(c) \/ AccumulateIntegrity(c)
  BY <1>5 DEF SkipAccumulation, AccumulateSecrecy, AccumulateIntegrity
<1>6. CASE \/ CoarseDenied(c) \/ CircuitRejects(c) \/ LabelResponseFails(c)
           \/ FilterRefuses(c) \/ ConvertItemsFails(c) \/ Deliver(c) \/ ConvertFails(c)
  BY <1>6 DEF CoarseDenied, CircuitRejects, LabelResponseFails, FilterRefuses,
       ConvertItemsFails, Deliver, ConvertFails, Return
<1>7. CASE Backend(c)
  BY <1>7 DEF Backend, Return
<1>8. ASSUME NEW d \in Calls \ {c}, CallStep(d)
      PROVE  pc'[c] = pc[c] /\ req'[c] = req[c] /\ filtered'[c] = filtered[c]
  BY <1>8 DEF Return, CallStep, Begin, CoarseDenied, CoarsePassed, Backend,
       LabelResponseFails, LabelResponseNil, LabelResponseItems, FilterItem, FilterRefuses,
       FilterPasses, SkipAccumulation, AccumulateSecrecy, AccumulateIntegrity, Deliver,
       ConvertFails, CircuitRejects, ConvertItemsFails
<1>9. ASSUME NEW a \in Agents, LabelAgent(a)
      PROVE  pc'[c] = pc[c] /\ req'[c] = req[c] /\ filtered'[c] = filtered[c]
  BY <1>9 DEF LabelAgent
<1>10. CASE UNCHANGED vars
  BY <1>1, <1>10 DEF vars
<1> QED
  BY <1>1, <1>2, <1>3, <1>4, <1>5, <1>6, <1>7, <1>8, <1>9, <1>10 DEF Next, CallStep

\* A strict response is delivered whole or not at all.
THEOREM StrictIsAllOrNothing == Spec => []StrictAllOrNothing
<1>1. Init => AllWhole
  BY DEF Init, AllWhole, Whole
<1>2. AllWhole => StrictAllOrNothing
  BY DEF AllWhole, Whole, StrictAllOrNothing
<1> QED BY <1>1, <1>2, WholeStep, TypeCorrect, PTL DEF Spec
=============================================================================
