--------------------------- MODULE GuardPipeline ---------------------------
(***************************************************************************)
(* The information-flow pipeline of a guarded tool call, phases 0 to 6:    *)
(* internal/guard/pipeline.go and callBackendTool in                       *)
(* internal/server/unified.go.  Calls of one agent run concurrently.  The  *)
(* agent's labels are shared and live: every check reads them as they are  *)
(* at that moment, no lock spans two phases.                               *)
(*                                                                         *)
(* The guard is outside this repository's Go code (a WASM module): its     *)
(* answers are chosen freely from GuardLabels and Responses.               *)
(***************************************************************************)
EXTENDS Difc, Naturals, FiniteSets

CONSTANTS Tags,        \* secrecy and integrity tags
          Agents,      \* sessions: the agent ID is the session ID
          Calls,       \* handler goroutines
          GuardLabels, \* label pairs a guard gives to resources and items
          Responses,   \* the collections a backend may answer with
          AgentGrants, \* label pairs label_agent may grant
          CallModes,   \* the modes and operations of interest
          CallOps,
          NoCall,      \* the request of a goroutine that handles no call
          MaxGrants    \* bound: label_agent runs per agent

ASSUME ModesAssumption == CallModes \subseteq Modes /\ CallOps \subseteq Operations
ASSUME LabelsAssumption ==
  GuardLabels \cup AgentGrants \subseteq [sec : SUBSET Tags, int : SUBSET Tags]
ASSUME NoCallAssumption == NoCall \notin
  [agent : Agents, mode : CallModes, op : CallOps, res : GuardLabels, knew : SUBSET GuardLabels]
ASSUME ResponsesAssumption == Responses \subseteq SUBSET GuardLabels

VARIABLES secrecy, integrity, \* AgentLabels, per agent
          grants,             \* how often label_agent ran for the agent
          pc,                 \* the phase each call is about to run
          req,                \* what its phases 0 and 1 fixed
          bypassed,           \* calls whose coarse check was denied and bypassed
          unlabelled,         \* calls whose labeledData is nil
          todo, accessible, filtered, \* FilterCollection's progress
          \* Ghosts: labels of the secret data an agent was given with and
          \* without any check, and of those each executed write may carry.
          knows, unchecked, exposed

agentVars == <<secrecy, integrity, grants>>
filterVars == <<todo, accessible, filtered>>
ghostVars == <<knows, unchecked, exposed>>
vars == <<agentVars, pc, req, bypassed, unlabelled, filterVars, ghostVars>>

Phases == {"idle", "coarse", "backend", "labelResponse", "filter",
           "accumulate", "accumulateIntegrity", "deliver"}

Requests == [agent : Agents, mode : CallModes, op : CallOps, res : GuardLabels,
             knew : SUBSET GuardLabels]

TypeOK ==
  /\ secrecy \in [Agents -> SUBSET Tags]
  /\ integrity \in [Agents -> SUBSET Tags]
  /\ grants \in [Agents -> Nat]
  /\ pc \in [Calls -> Phases]
  /\ req \in [Calls -> Requests \cup {NoCall}]
  /\ \A c \in Calls : pc[c] # "idle" => req[c] \in Requests
  /\ bypassed \subseteq Calls /\ unlabelled \subseteq Calls
  /\ todo \in [Calls -> SUBSET GuardLabels]
  /\ accessible \in [Calls -> SUBSET GuardLabels]
  /\ filtered \in [Calls -> SUBSET GuardLabels]
  /\ knows \in [Agents -> SUBSET GuardLabels]
  /\ unchecked \in [Agents -> SUBSET GuardLabels]
  /\ exposed \subseteq GuardLabels \X GuardLabels

Init ==
  /\ secrecy = [a \in Agents |-> {}]
  /\ integrity = [a \in Agents |-> {}]
  /\ grants = [a \in Agents |-> 0]
  /\ pc = [c \in Calls |-> "idle"]
  /\ req = [c \in Calls |-> NoCall]
  /\ bypassed = {} /\ unlabelled = {}
  /\ todo = [c \in Calls |-> {}]
  /\ accessible = [c \in Calls |-> {}]
  /\ filtered = [c \in Calls |-> {}]
  /\ knows = [a \in Agents |-> {}]
  /\ unchecked = [a \in Agents |-> {}]
  /\ exposed = {}

Agent(a) == [sec |-> secrecy[a], int |-> integrity[a]]
Goto(c, phase) == pc' = [pc EXCEPT ![c] = phase]

\* The handler of c returns.
Return(c) ==
  /\ Goto(c, "idle")
  /\ req' = [req EXCEPT ![c] = NoCall]
  /\ bypassed' = bypassed \ {c}
  /\ unlabelled' = unlabelled \ {c}
  /\ todo' = [todo EXCEPT ![c] = {}]
  /\ accessible' = [accessible EXCEPT ![c] = {}]
  /\ filtered' = [filtered EXCEPT ![c] = {}]

-----------------------------------------------------------------------------
GrantedSecrecy_Replace(old, granted) == granted
GrantedSecrecy(old, granted) == old \cup granted

\* The first call of a session to a server runs label_agent, whose tags are
\* added to those the agent has.
LabelAgent(a) ==
  /\ grants[a] < MaxGrants
  /\ grants' = [grants EXCEPT ![a] = @ + 1]
  /\ \E l \in AgentGrants :
       /\ secrecy' = [secrecy EXCEPT ![a] = GrantedSecrecy(@, l.sec)]
       /\ integrity' = [integrity EXCEPT ![a] = @ \cup l.int]
  /\ UNCHANGED <<pc, req, bypassed, unlabelled, filterVars, ghostVars>>

\* Phases 0 and 1: the agent, and the guard's labels and operation.  The
\* arguments of the call were fixed before: they carry what the agent knows now.
\* A guard that fails here ends the call before anything changed.
Begin(c) ==
  /\ pc[c] = "idle"
  /\ \E a \in Agents, m \in CallModes, o \in CallOps, r \in GuardLabels :
       req' = [req EXCEPT ![c] = [agent |-> a, mode |-> m, op |-> o, res |-> r,
                                  knew |-> knows[a]]]
  /\ Goto(c, "coarse")
  /\ UNCHANGED <<agentVars, bypassed, unlabelled, filterVars, ghostVars>>

Outcome(c) == CoarseOutcome(req[c].mode, Agent(req[c].agent), req[c].res, req[c].op)

\* Phase 2.
CoarseDenied(c) ==
  /\ pc[c] = "coarse"
  /\ Outcome(c) = "denied"
  /\ Return(c)
  /\ UNCHANGED <<agentVars, ghostVars>>

CoarsePassed(c) ==
  /\ pc[c] = "coarse"
  /\ Outcome(c) # "denied"
  /\ bypassed' = IF Outcome(c) = "bypass" THEN bypassed \cup {c} ELSE bypassed
  /\ Goto(c, "backend")
  /\ UNCHANGED <<agentVars, req, unlabelled, filterVars, ghostVars>>

\* Phase 3.  The circuit breaker rejects the call before it reaches the backend.
CircuitRejects(c) ==
  /\ pc[c] = "backend"
  /\ Return(c)
  /\ UNCHANGED <<agentVars, ghostVars>>

\* Whether or not the answer is a transport or a rate-limit error (then
\* the handler returns), what the arguments carry has reached the backend.
Backend(c) ==
  /\ pc[c] = "backend"
  /\ exposed' = IF req[c].op = "read" THEN exposed
                ELSE exposed \cup {<<d, req[c].res>> : d \in req[c].knew}
  /\ \/ Goto(c, "labelResponse") /\ UNCHANGED <<req, bypassed, unlabelled, filterVars>>
     \/ Return(c)
  /\ UNCHANGED <<agentVars, knows, unchecked>>

\* Phase 4.  The guard may fail, give no labels, or label the items.
LabelResponseFails(c) ==
  /\ pc[c] = "labelResponse"
  /\ ShouldCallLabelResponse(req[c].op, req[c].mode)
  /\ Return(c)
  /\ UNCHANGED <<agentVars, ghostVars>>

LabelResponseNil(c) ==
  /\ pc[c] = "labelResponse"
  /\ unlabelled' = unlabelled \cup {c}
  /\ Goto(c, "accumulate")
  /\ UNCHANGED <<agentVars, req, bypassed, filterVars, ghostVars>>

LabelResponseItems(c) ==
  /\ pc[c] = "labelResponse"
  /\ ShouldCallLabelResponse(req[c].op, req[c].mode)
  /\ \E items \in Responses : todo' = [todo EXCEPT ![c] = items]
  /\ Goto(c, "filter")
  /\ UNCHANGED <<agentVars, req, bypassed, unlabelled, accessible, filtered, ghostVars>>

ItemAllowed(c, i) == IsAllowed(req[c].mode, Agent(req[c].agent), i, req[c].op)

\* Phase 5: one item at a time, each against the labels of that moment.
FilterItem(c) ==
  /\ pc[c] = "filter"
  /\ \E i \in todo[c] :
       /\ todo' = [todo EXCEPT ![c] = @ \ {i}]
       /\ IF ItemAllowed(c, i)
            THEN accessible' = [accessible EXCEPT ![c] = @ \cup {i}] /\ UNCHANGED filtered
            ELSE filtered' = [filtered EXCEPT ![c] = @ \cup {i}] /\ UNCHANGED accessible
  /\ UNCHANGED <<agentVars, pc, req, bypassed, unlabelled, ghostVars>>

Blocked_NeverStrict(c) == FALSE
Blocked(c) == ShouldBlockFilteredResponse(req[c].mode, filtered[c])

\* Strict mode blocks the response; a singular read tool reports its one
\* filtered item as an error.
FilterRefuses(c) ==
  /\ pc[c] = "filter" /\ todo[c] = {}
  /\ Blocked(c) \/ (accessible[c] = {} /\ Cardinality(filtered[c]) = 1)
  /\ Return(c)
  /\ UNCHANGED <<agentVars, ghostVars>>

\* Rebuilding the response from the accessible items fails.
ConvertItemsFails(c) ==
  /\ pc[c] = "filter" /\ todo[c] = {}
  /\ ~Blocked(c)
  /\ Return(c)
  /\ UNCHANGED <<agentVars, ghostVars>>

FilterPasses(c) ==
  /\ pc[c] = "filter" /\ todo[c] = {}
  /\ ~Blocked(c)
  /\ Goto(c, "accumulate")
  /\ UNCHANGED <<agentVars, req, bypassed, unlabelled, filterVars, ghostVars>>

\* labeledData.Overall() aggregates all the items, filtered ones included.
ReadLabels(c) ==
  IF c \in unlabelled THEN req[c].res ELSE Overall(accessible[c] \cup filtered[c])

AccumulatedSecrecy_Dropped(c) == secrecy[req[c].agent]
AccumulatedSecrecy(c) == secrecy[req[c].agent] \cup ReadLabels(c).sec

\* Phase 6: secrecy first, then integrity; checks of other calls do not take
\* the agent's lock and can fall in between.
SkipAccumulation(c) ==
  /\ pc[c] = "accumulate"
  /\ ~ShouldAccumulateReadLabels(req[c].op, req[c].mode)
  /\ Goto(c, "deliver")
  /\ UNCHANGED <<agentVars, req, bypassed, unlabelled, filterVars, ghostVars>>

AccumulateSecrecy(c) ==
  /\ pc[c] = "accumulate"
  /\ ShouldAccumulateReadLabels(req[c].op, req[c].mode)
  /\ secrecy' = [secrecy EXCEPT ![req[c].agent] = AccumulatedSecrecy(c)]
  /\ Goto(c, "accumulateIntegrity")
  /\ UNCHANGED <<integrity, grants, req, bypassed, unlabelled, filterVars, ghostVars>>

AccumulateIntegrity(c) ==
  /\ pc[c] = "accumulateIntegrity"
  /\ integrity' = [integrity EXCEPT ![req[c].agent] = @ \cap ReadLabels(c).int]
  /\ Goto(c, "deliver")
  /\ UNCHANGED <<secrecy, grants, req, bypassed, unlabelled, filterVars, ghostVars>>

\* The data the handler returns: the accessible items, or, without labels, the
\* backend's answer, which then has the labels of the resource.  The answer to
\* a pure write is no data.  Only secret data is worth recording.
Secret(labels) == {l \in labels : l.sec # {}}

Delivered(c) ==
  Secret(IF c \notin unlabelled THEN accessible[c]
         ELSE IF req[c].op = "write" THEN {} ELSE {req[c].res})

\* Nobody checked the answer: the coarse check was bypassed, and nothing filtered it.
NeverChecked(c) == c \in unlabelled /\ c \in bypassed

Deliver(c) ==
  /\ pc[c] = "deliver"
  /\ LET a == req[c].agent IN
       IF NeverChecked(c)
         THEN /\ unchecked' = [unchecked EXCEPT ![a] = @ \cup Delivered(c)]
              /\ UNCHANGED knows
         ELSE /\ knows' = [knows EXCEPT ![a] = @ \cup Delivered(c)]
              /\ UNCHANGED unchecked
  /\ Return(c)
  /\ UNCHANGED <<agentVars, exposed>>

\* ConvertToCallToolResult fails after the labels were accumulated.
ConvertFails(c) ==
  /\ pc[c] = "deliver"
  /\ Return(c)
  /\ UNCHANGED <<agentVars, ghostVars>>

-----------------------------------------------------------------------------
CallStep(c) ==
  \/ Begin(c) \/ CoarseDenied(c) \/ CoarsePassed(c)
  \/ CircuitRejects(c) \/ Backend(c)
  \/ LabelResponseFails(c) \/ LabelResponseNil(c) \/ LabelResponseItems(c)
  \/ FilterItem(c) \/ FilterRefuses(c) \/ ConvertItemsFails(c) \/ FilterPasses(c)
  \/ SkipAccumulation(c) \/ AccumulateSecrecy(c) \/ AccumulateIntegrity(c)
  \/ Deliver(c) \/ ConvertFails(c)

Next == (\E a \in Agents : LabelAgent(a)) \/ (\E c \in Calls : CallStep(c))

Spec == Init /\ [][Next]_vars

-----------------------------------------------------------------------------
(* Properties.                                                             *)

\* Data the monitor let through is data its agent is cleared for, now and
\* ever after: no later step of any call takes a secrecy tag away.
KnowledgeCovered ==
  \A a \in Agents : \A d \in knows[a] : Covers(secrecy[a], d.sec)

\* A write carries to a sink only data the sink may hold, although the check of
\* the write and the reads that taught the agent ran in other calls.
OnlyClearedSinks == \A e \in exposed : Covers(e[2].sec, e[1].sec)

\* Strict mode delivers a labelled response whole or not at all, however the
\* agent's labels changed while its items were checked.
StrictAllOrNothing ==
  \A c \in Calls : pc[c] = "deliver" /\ req[c].mode = "strict" => filtered[c] = {}

\* The pipeline implements the abstract reference monitor.
Monitor == INSTANCE ReferenceMonitor WITH clearance <- secrecy
MonitorSpec == Monitor!Spec

\* "If the guard returns nil for labeledData, the reference monitor will use
\* the resource labels from LabelResource for the entire response"
\* (guard.go:44-45): so nothing is handed out without some check.
NothingUnchecked == \A a \in Agents : unchecked[a] = {}

=============================================================================
