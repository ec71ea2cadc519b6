-------------------------------- MODULE Difc --------------------------------
(***************************************************************************)
(* The label algebra and the decisions of the reference monitor:           *)
(* internal/difc (labels, flow checks, evaluator, pipeline decisions).     *)
(* A label pair is a record [sec |-> set of tags, int |-> set of tags]; an *)
(* item of a response is represented by its label pair.                    *)
(***************************************************************************)

CONSTANT Wildcard   \* WildcardTag, "*"

Modes == {"strict", "filter", "propagate"}
Operations == {"read", "write", "read-write"}

NoLabels == [sec |-> {}, int |-> {}]   \* NewLabeledResource

-----------------------------------------------------------------------------
\* The wildcard on the superset side accepts every tag.
Covers(sup, sub) == Wildcard \in sup \/ sub \subseteq sup

\* Secrecy flows to a superset, integrity to a subset.
SecrecyFlows(src, target) == Covers(target, src)
IntegrityFlows(src, target) == Covers(src, target)

CanRead(agent, resource) ==
  /\ IntegrityFlows(resource.int, agent.int)
  /\ SecrecyFlows(resource.sec, agent.sec)

\* A definition named X_Bug is what X would be with one plausible bug; no
\* specification uses it.
CanWrite_IntegrityOnly(agent, resource) == IntegrityFlows(agent.int, resource.int)

CanWrite(agent, resource) ==
  /\ IntegrityFlows(agent.int, resource.int)
  /\ SecrecyFlows(agent.sec, resource.sec)

\* Evaluator.Evaluate(...).IsAllowed(): in propagate mode a read always is.
IsAllowed(mode, agent, resource, op) ==
  /\ op \in {"read", "read-write"} => mode = "propagate" \/ CanRead(agent, resource)
  /\ op \in {"write", "read-write"} => CanWrite(agent, resource)

CoarseOutcome(mode, agent, resource, op) ==
  IF IsAllowed(mode, agent, resource, op) THEN "allowed"
  ELSE IF op = "read" THEN "bypass" ELSE "denied"

ShouldCallLabelResponse(op, mode) ==
  op # "write" /\ (op = "read-write" => mode # "strict")

ShouldBlockFilteredResponse(mode, filtered) == mode = "strict" /\ filtered # {}

ShouldAccumulateReadLabels(op, mode) == op # "write" /\ mode = "propagate"

Overall_NotUnited(items) == [sec |-> {i.sec : i \in items}, int |-> {i.int : i \in items}]

\* CollectionLabeledData.Overall: both kinds of tags are united over the items.
Overall(items) == [sec |-> UNION {i.sec : i \in items}, int |-> UNION {i.int : i \in items}]
=============================================================================
