-------------------------- MODULE ReferenceMonitor --------------------------
(***************************************************************************)
(* What the information-flow monitor promises, with no phases, modes or    *)
(* calls: an agent learns only what its clearance covers, clearance is     *)
(* never taken back, and what an agent learned reaches only sinks that may *)
(* hold it.                                                                *)
(***************************************************************************)
EXTENDS Difc

CONSTANTS Tags, Agents, GuardLabels

VARIABLES clearance, \* the secrecy tags of each agent
          knows,     \* labels of the data each agent was given
          exposed    \* pairs of data labels and the sink the data may have reached

mvars == <<clearance, knows, exposed>>

Init ==
  /\ clearance = [a \in Agents |-> {}]
  /\ knows = [a \in Agents |-> {}]
  /\ exposed = {}

Raise(a) ==
  /\ \E s \in SUBSET Tags : clearance' = [clearance EXCEPT ![a] = @ \cup s]
  /\ UNCHANGED <<knows, exposed>>

Learn(a) ==
  /\ \E D \in SUBSET GuardLabels :
       /\ \A d \in D : Covers(clearance[a], d.sec)
       /\ knows' = [knows EXCEPT ![a] = @ \cup D]
  /\ UNCHANGED <<clearance, exposed>>

Write(a) ==
  /\ \E K \in SUBSET knows[a], sink \in GuardLabels :
       /\ \A d \in K : Covers(sink.sec, d.sec)
       /\ exposed' = exposed \cup {<<d, sink>> : d \in K}
  /\ UNCHANGED <<clearance, knows>>

Next == \E a \in Agents : Raise(a) \/ Learn(a) \/ Write(a)

Spec == Init /\ [][Next]_mvars
=============================================================================
