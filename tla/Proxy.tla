------------------------------- MODULE Proxy -------------------------------
(***************************************************************************)
(* The filtering proxy for the GitHub API: internal/proxy (proxy.go,       *)
(* handler.go, response_transform.go).  It runs the phases of the          *)
(* pipeline on requests that read, for one agent that all clients share,   *)
(* and recovers from failures in its own way.  The guard's and GitHub's    *)
(* answers are chosen freely.                                              *)
(***************************************************************************)
EXTENDS Difc, Naturals

CONSTANTS Clients,        \* requests under way at a time
          ProxyLabels,    \* label pairs the guard gives to resources and items
          ProxyResponses, \* collections
          ProxyGrants,    \* labels label_agent may grant
          ProxyModes,     \* modes configured, or set by the guard's answer
          ProxyOps        \* operations the guard may name

ASSUME ProxyAssumption ==
  /\ ProxyModes \subseteq Modes /\ ProxyOps \subseteq Operations
  /\ ProxyResponses \subseteq SUBSET ProxyLabels
  /\ \A l \in ProxyLabels : l = [sec |-> l.sec, int |-> l.int]

VARIABLES proxy,     \* phase, mode and guardInitialized
          psec, pint,\* the labels of the agent "proxy"
          ask,       \* of each client its request
          told,      \* history: labels of what replies carried because a check
                     \* let it through,
          slipped    \* and what they carried without one: a "whole" answer that
                     \* was passed on unchecked, "items" that failed theirs

history == <<told, slipped>>
proxyVars == <<proxy, psec, pint, ask, history>>

NoRequest == [pc |-> "idle", op |-> "read", res |-> NoLabels, routed |-> FALSE, allowed |-> FALSE,
              labelled |-> FALSE, todo |-> {}, accessible |-> {}, filtered |-> {}]

ProxyInit ==
  /\ proxy \in [phase : {"new"}, mode : ProxyModes, ready : {FALSE}]
  /\ psec = {} /\ pint = {}
  /\ ask = [c \in Clients |-> NoRequest]
  /\ told = {} /\ slipped = {}

-----------------------------------------------------------------------------
(* New: the guard is loaded; a policy, if there is one, is parsed and given *)
(* to label_agent, whose answer has labels and perhaps a mode.             *)

NewFails ==
  /\ proxy.phase = "new"
  /\ proxy' = [proxy EXCEPT !.phase = "down"]
  /\ UNCHANGED <<psec, pint, ask, history>>

NewWithoutPolicy ==
  /\ proxy.phase = "new"
  /\ proxy' = [proxy EXCEPT !.phase = "up"]
  /\ UNCHANGED <<psec, pint, ask, history>>

InitGuardPolicy ==
  /\ proxy.phase = "new"
  /\ \E mode \in ProxyModes : proxy' = [phase |-> "up", mode |-> mode, ready |-> TRUE]
  /\ \E grant \in ProxyGrants : psec' = grant.sec /\ pint' = grant.int
  /\ UNCHANGED <<ask, history>>

-----------------------------------------------------------------------------
Step(c, changed) == ask' = [ask EXCEPT ![c] = changed]
Move(c, pc) == Step(c, [ask[c] EXCEPT !.pc = pc])
Reply(c) == Step(c, NoRequest)
Agent == [sec |-> psec, int |-> pint]

\* Health, reflect, an unknown GraphQL query and an unreadable body are
\* answered here; metadata, introspection and whatever does not read go
\* through as they are; a path no route matches is sent on unlabelled.
Receive(c) ==
  /\ proxy.phase = "up" /\ ask[c].pc = "idle"
  /\ \E pc \in {"passthrough", "unrecognized", "label"} : Move(c, pc)
  /\ UNCHANGED <<proxy, psec, pint, history>>

Passthrough(c) ==
  /\ ask[c].pc = "passthrough"
  /\ Reply(c)
  /\ UNCHANGED <<proxy, psec, pint, history>>

\* Its answer, if any comes, has the labels of a resource without any.
Unrecognized(c) ==
  /\ ask[c].pc = "unrecognized"
  /\ Reply(c) \/ Step(c, [NoRequest EXCEPT !.pc = "accumulate", !.allowed = TRUE])
  /\ UNCHANGED <<proxy, psec, pint, history>>

\* Phases 0 to 2.  Without a guard policy: 503.  A label_resource that fails is
\* answered 502, a denied write 403.
LabelResource(c) ==
  /\ ask[c].pc = "label"
  /\ \/ Reply(c)
     \/ /\ proxy.ready
        /\ \E op \in ProxyOps, res \in ProxyLabels :
             LET outcome == CoarseOutcome(proxy.mode, Agent, res, op)
             IN /\ outcome # "denied"
                /\ Step(c, [NoRequest EXCEPT !.pc = "forward", !.op = op, !.res = res,
                                             !.routed = TRUE, !.allowed = outcome = "allowed"])
  /\ UNCHANGED <<proxy, psec, pint, history>>

\* The whole answer, on behalf of the coarse check that let the resource
\* through.  Propagate mode lets every read through, so its check says nothing;
\* nor does one on what the agent may write.
PassOn(c) ==
  IF proxy.mode = "propagate" \/ ask[c].op = "write"
    THEN slipped' = slipped \cup {"whole"} /\ UNCHANGED told
    ELSE told' = told \cup {ask[c].res} /\ UNCHANGED slipped

\* No answer: 502.
ForwardFails(c) == ask[c].pc = "forward" /\ Reply(c) /\ UNCHANGED <<proxy, psec, pint, history>>

\* A status of 300 and up, and what is not JSON, is passed on, also when the
\* coarse check was bypassed for the filtering that now does not come.
ForwardAsIs(c) ==
  /\ ask[c].pc = "forward"
  /\ IF ask[c].allowed
       THEN PassOn(c)
       ELSE slipped' = slipped \cup {"whole"} /\ UNCHANGED told
  /\ Reply(c)
  /\ UNCHANGED <<proxy, psec, pint>>

ForwardJson(c) ==
  /\ ask[c].pc = "forward"
  /\ Move(c, "labelResponse")
  /\ UNCHANGED <<proxy, psec, pint, history>>

Forward(c) == ForwardFails(c) \/ ForwardAsIs(c) \/ ForwardJson(c)

\* A definition named X_Bug is X with one plausible bug; no specification uses it.
MayFallBack_Always(c) == TRUE
\* Without labels of the items the coarse check decides.
MayFallBack(c) == ask[c].allowed

\* Phase 4 fails: the original body, or an empty one.  Phase 6 is skipped.
LabelResponseFails(c) ==
  /\ ask[c].pc = "labelResponse"
  /\ ShouldCallLabelResponse(ask[c].op, proxy.mode)
  /\ IF MayFallBack(c) THEN PassOn(c) ELSE UNCHANGED history
  /\ Reply(c)
  /\ UNCHANGED <<proxy, psec, pint>>

\* No fine-grained labels: the same, but Phase 6 runs on the resource's labels.
LabelResponseNil(c) ==
  /\ ask[c].pc = "labelResponse"
  /\ IF MayFallBack(c) THEN Move(c, "accumulate") ELSE Reply(c)
  /\ UNCHANGED <<proxy, psec, pint, history>>

LabelResponseItems(c) ==
  /\ ask[c].pc = "labelResponse"
  /\ ShouldCallLabelResponse(ask[c].op, proxy.mode)
  /\ \E items \in ProxyResponses :
       Step(c, [ask[c] EXCEPT !.pc = "filter", !.labelled = TRUE, !.todo = items])
  /\ UNCHANGED <<proxy, psec, pint, history>>

\* Phase 5, an item at a time.
FilterItem(c) ==
  /\ ask[c].pc = "filter"
  /\ \E i \in ask[c].todo :
       IF IsAllowed(proxy.mode, Agent, i, ask[c].op)
         THEN Step(c, [ask[c] EXCEPT !.todo = @ \ {i}, !.accessible = @ \cup {i}])
         ELSE Step(c, [ask[c] EXCEPT !.todo = @ \ {i}, !.filtered = @ \cup {i}])
  /\ UNCHANGED <<proxy, psec, pint, history>>

\* Strict mode blocks; items that cannot be put together leave an empty reply.
FilterRefuses(c) ==
  /\ ask[c].pc = "filter" /\ ask[c].todo = {}
  /\ Reply(c)
  /\ UNCHANGED <<proxy, psec, pint, history>>

FilterPasses(c) ==
  /\ ask[c].pc = "filter" /\ ask[c].todo = {}
  /\ ~ShouldBlockFilteredResponse(proxy.mode, ask[c].filtered)
  /\ Move(c, "accumulate")
  /\ UNCHANGED <<proxy, psec, pint, history>>

-----------------------------------------------------------------------------
\* Phase 6, on all items, filtered ones included.
ReadLabels(c) ==
  IF ask[c].labelled THEN Overall(ask[c].accessible \cup ask[c].filtered) ELSE ask[c].res

SkipAccumulation(c) ==
  /\ ask[c].pc = "accumulate"
  /\ ~ShouldAccumulateReadLabels(ask[c].op, proxy.mode)
  /\ Move(c, "reply")
  /\ UNCHANGED <<proxy, psec, pint, history>>

Raised_Replaced(old, read) == read
Raised(old, read) == old \cup read

AccumulateSecrecy(c) ==
  /\ ask[c].pc = "accumulate"
  /\ ShouldAccumulateReadLabels(ask[c].op, proxy.mode)
  /\ psec' = Raised(psec, ReadLabels(c).sec)
  /\ Move(c, "accumulateIntegrity")
  /\ UNCHANGED <<proxy, pint, history>>

AccumulateIntegrity(c) ==
  /\ ask[c].pc = "accumulateIntegrity"
  /\ pint' = pint \cap ReadLabels(c).int
  /\ Move(c, "reply")
  /\ UNCHANGED <<proxy, psec, history>>

\* The labels of a reply that somebody labelled: of each item, or in propagate
\* mode, which accumulates Overall, of all items together.
Labels(c) ==
  IF ask[c].labelled
    THEN IF proxy.mode = "propagate" THEN {ReadLabels(c)} ELSE ask[c].accessible
    ELSE IF ask[c].op = "write" \/ ~ask[c].routed THEN {} ELSE {ask[c].res}

\* The accessible items are put back in the answer's shape: an array, a single
\* object, a search or a GraphQL envelope.  The shape may still hold filtered
\* ones: an object with a total_count gets the accessible ones under items or
\* repositories and keeps its other keys, GraphQL data gets them in its first
\* collection and keeps the others.  A GraphQL answer without a collection
\* becomes null, an answer that cannot be written an error.
Respond(c) ==
  /\ ask[c].pc = "reply"
  /\ \/ UNCHANGED history
     \/ /\ told' = told \cup Labels(c)
        /\ \/ slipped' = slipped \cup {x \in {"whole"} : ask[c].op = "write"}
           \/ ask[c].filtered # {} /\ slipped' = slipped \cup {"items"}
  /\ Reply(c)
  /\ UNCHANGED <<proxy, psec, pint>>

ProxyStep(c) ==
  \/ Receive(c) \/ Passthrough(c) \/ Unrecognized(c) \/ LabelResource(c)
  \/ Forward(c)
  \/ LabelResponseFails(c) \/ LabelResponseNil(c) \/ LabelResponseItems(c)
  \/ FilterItem(c) \/ FilterRefuses(c) \/ FilterPasses(c)
  \/ SkipAccumulation(c) \/ AccumulateSecrecy(c) \/ AccumulateIntegrity(c) \/ Respond(c)

ProxyNext == NewFails \/ NewWithoutPolicy \/ InitGuardPolicy \/ \E c \in Clients : ProxyStep(c)

ProxySpec == ProxyInit /\ [][ProxyNext]_proxyVars

-----------------------------------------------------------------------------
(* Properties.                                                             *)

\* What replies carried because a check let it through, to whichever client, is
\* what the agent they share may read, then and ever after: also when the guard
\* failed or gave no labels, and whatever other clients read in between; and in
\* strict mode no item that failed its check was in a reply.  What a check does
\* not stop (handleWithDIFC): the answer to a bypassed read that is not JSON or
\* not a success, the one to a write, one that the guard failed to label in
\* propagate mode, and in the other modes filtered items that the answer's shape
\* still holds.
RepliesReadable ==
  /\ \A d \in told : CanRead(Agent, d)
  /\ proxy.mode = "strict" => "items" \notin slipped

\* Refuted: "filter: Removes filtered items, returns remaining (default)"
\* (docs/PROXY_MODE.md:233).
FilteredRemoved == "items" \notin slipped

ProxyTags == UNION {l.sec : l \in ProxyLabels \cup ProxyGrants}
ProxyLattice == [sec : SUBSET ProxyTags, int : SUBSET UNION {l.int : l \in ProxyLabels}]

\* As far as its checks let data through, the proxy implements the abstract
\* reference monitor for the one agent its clients share; what it passes on
\* without one (RepliesReadable) is not the monitor's.  Requests that write pass
\* through it unmodified (ServeHTTP), so it promises nothing about sinks.
ProxyMonitor == INSTANCE ReferenceMonitor WITH
  Tags <- ProxyTags, Agents <- {"proxy"}, GuardLabels <- ProxyLattice,
  clearance <- [a \in {"proxy"} |-> psec], knows <- [a \in {"proxy"} |-> told], exposed <- {}
ReadsAreMonitored == ProxyMonitor!Spec
=============================================================================
