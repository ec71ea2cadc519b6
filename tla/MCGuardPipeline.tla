-------------------------- MODULE MCGuardPipeline --------------------------
(* One session over one secrecy and one integrity tag.                     *)
EXTENDS GuardPipeline, TLC

CONSTANTS star, secretTag, trustTag, a1, c1, c2

MCTags == {star, secretTag, trustTag}
public == [sec |-> {}, int |-> {trustTag}]    \* trusted and public
private == [sec |-> {secretTag}, int |-> {trustTag}]  \* trusted and private
untrusted == [sec |-> {}, int |-> {}]  \* public and untrusted
shady == [sec |-> {secretTag}, int |-> {}]     \* private and untrusted
sink == [sec |-> {star}, int |-> {}]   \* a write sink that accepts all

\* Secrecy only: an open resource or sink, and a secret one.
FlowLabels == {untrusted, shady}
FlowResponses == {{shady}, {untrusted, shady}}
FlowGrants == {shady}

\* Both dimensions and the wildcard.
AllLabels == {public, private, untrusted, sink}
AllResponses == {R \in SUBSET {public, private, untrusted} : Cardinality(R) <= 2}
AllGrants == {public, private}

OneCall == {c1}
MCCalls == {c1, c2}
CallSymmetry == Permutations(MCCalls)

\* "For each item in the response, the Reference Monitor ... sets the agent's
\* integrity label to the intersection of the agent's current integrity label
\* and the item's" (docs/GUARD_RESPONSE_LABELING.md:71): phase 6 leaves the
\* agent no integrity that an item it was given lacks.
LowestCommonIntegrity ==
  [][\A c \in Calls :
       pc[c] = "accumulateIntegrity" /\ pc'[c] = "deliver" /\ c \notin unlabelled
         => \A i \in accessible[c] : integrity'[req[c].agent] \subseteq i.int]_vars
=============================================================================
