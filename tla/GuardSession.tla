---------------------------- MODULE GuardSession ----------------------------
(***************************************************************************)
(* Session state of one guarded server: when label_agent runs, and the     *)
(* per-session budget of tool calls.  requireSession and sysInitHandler    *)
(* (internal/server/session.go, system_tools.go), ensureGuardInitialized   *)
(* (guard_init.go) and enforceToolCallLimit (unified.go).                  *)
(*                                                                         *)
(* A GuardSessionState is an object that calls keep a pointer to after     *)
(* sessionMu is released.  Objects are numbered in the order they are      *)
(* installed, and a pointer is the number of an object.                    *)
(***************************************************************************)
EXTENDS Naturals

CONSTANTS Sessions,  \* session IDs
          Tools,
          Calls,     \* handler goroutines
          Limit,     \* tool-call-limits of the policy; 0 or absent: unlimited
          MaxCalls,  \* bound: tool calls, and so state objects, in a behaviour
          MaxInits   \* bound: sys___init calls in a behaviour

ASSUME LimitAssumption == Limit \in [Tools -> Nat]
ASSUME BoundsAssumption == MaxCalls \in Nat /\ MaxInits \in Nat

VARIABLES sessions,   \* IDs that have a Session
          guardInit,  \* per session: its GuardSessionState, Nil at first
          made,       \* objects made so far: 1..made
          counts,     \* ToolCallCounts of each object
          pc, req,    \* per call: where it is, and its session and tool
          charged,    \* per call: the state enforceToolCallLimit fetched
          \* Ghosts: the objects made for each session, its label_agent runs and
          \* sys___init runs, calls begun, and calls let through to the backend.
          objects, labelled, inits, begun, admitted

sessionVars == <<sessions, guardInit, objects, made, inits>>
vars == <<sessionVars, counts, pc, req, charged, labelled, begun, admitted>>

Nil == 0
States == 1..MaxCalls

Places == {"idle", "ensure", "labelling", "install", "limit", "charge", "admitted", "refused"}

TypeOK ==
  /\ sessions \subseteq Sessions
  /\ made \in States \cup {Nil}
  /\ counts \in [States -> [Tools -> Nat]]
  /\ objects \in [Sessions -> SUBSET States]
  /\ guardInit \in [Sessions -> States \cup {Nil}]
  /\ charged \in [Calls -> States \cup {Nil}]
  /\ pc \in [Calls -> Places]
  /\ req \in [Calls -> [session : Sessions, tool : Tools]]
  /\ labelled \in [Sessions -> Nat]
  /\ inits \in [Sessions -> Nat]
  /\ begun \in Nat
  /\ admitted \in [Sessions -> [Tools -> Nat]]

Init ==
  /\ sessions = {}
  /\ guardInit = [s \in Sessions |-> Nil]
  /\ made = 0
  /\ counts = [x \in States |-> [t \in Tools |-> 0]]
  /\ objects = [s \in Sessions |-> {}]
  /\ charged = [c \in Calls |-> Nil]
  /\ pc = [c \in Calls |-> "idle"]
  /\ req \in [Calls -> [session : Sessions, tool : Tools]]
  /\ labelled = [s \in Sessions |-> 0]
  /\ inits = [s \in Sessions |-> 0]
  /\ begun = 0
  /\ admitted = [s \in Sessions |-> [t \in Tools |-> 0]]

Session(c) == req[c].session
Goto(c, place) == pc' = [pc EXCEPT ![c] = place]

-----------------------------------------------------------------------------
\* A tool call comes in; requireSession creates its session if there is none.
Arrive(c) ==
  /\ pc[c] \in {"idle", "admitted", "refused"}
  /\ begun < MaxCalls
  /\ begun' = begun + 1
  /\ \E s \in Sessions, t \in Tools :
       /\ req' = [req EXCEPT ![c] = [session |-> s, tool |-> t]]
       /\ sessions' = sessions \cup {s}
  /\ Goto(c, "ensure")
  /\ UNCHANGED <<guardInit, objects, made, inits, counts, charged, labelled, admitted>>

\* ensureGuardInitialized, under the read lock.  The policy does not change
\* while the gateway runs, so a cached state always has the right hash.
CacheHit(c) ==
  /\ pc[c] = "ensure"
  /\ guardInit[Session(c)] # Nil
  /\ Goto(c, "limit")
  /\ UNCHANGED <<sessionVars, counts, req, charged, labelled, begun, admitted>>

CacheMiss(c) ==
  /\ pc[c] = "ensure"
  /\ guardInit[Session(c)] = Nil
  /\ Goto(c, "labelling")
  /\ UNCHANGED <<sessionVars, counts, req, charged, labelled, begun, admitted>>

\* label_agent runs with no lock held.
LabelAgentFails(c) ==
  /\ pc[c] = "labelling"
  /\ Goto(c, "idle")
  /\ UNCHANGED <<sessionVars, counts, req, charged, labelled, begun, admitted>>

LabelAgentApplied(c) ==
  /\ pc[c] = "labelling"
  /\ labelled' = [labelled EXCEPT ![Session(c)] = @ + 1]
  /\ Goto(c, "install")
  /\ UNCHANGED <<sessionVars, counts, req, charged, begun, admitted>>

\* Under the write lock: a new state, that has counted nothing, replaces
\* whatever the session has by now.
Install(c) ==
  /\ pc[c] = "install"
  /\ made < MaxCalls
  /\ made' = made + 1
  /\ sessions' = sessions \cup {Session(c)}
  /\ objects' = [objects EXCEPT ![Session(c)] = @ \cup {made'}]
  /\ guardInit' = [guardInit EXCEPT ![Session(c)] = made']
  /\ Goto(c, "limit")
  /\ UNCHANGED <<inits, counts, req, charged, labelled, begun, admitted>>

\* enforceToolCallLimit: the state is fetched under the read lock...
FetchState(c) ==
  /\ pc[c] = "limit"
  /\ charged' = [charged EXCEPT ![c] = guardInit[Session(c)]]
  /\ Goto(c, "charge")
  /\ UNCHANGED <<sessionVars, counts, req, labelled, begun, admitted>>

\* ...and charged under its own lock.
Unlimited(c) == charged[c] = Nil \/ Limit[req[c].tool] = 0

Exhausted_OffByOne(n, t) == n > Limit[t]
Exhausted(n, t) == n >= Limit[t]

Charged_AllTools(x, t) == [u \in Tools |-> counts[x][u] + 1]
Charged_NilMap(x, t) == [u \in {t} |-> 1]
Charged(x, t) == [counts[x] EXCEPT ![t] = @ + 1]

OneMore(c) == [admitted[Session(c)] EXCEPT ![req[c].tool] = @ + 1]

Admit(c) ==
  /\ admitted' = [admitted EXCEPT ![Session(c)] = OneMore(c)]
  /\ Goto(c, "admitted")

AdmitUnlimited(c) ==
  /\ pc[c] = "charge"
  /\ Unlimited(c)
  /\ Admit(c)
  /\ UNCHANGED <<sessionVars, counts, req, charged, labelled, begun>>

AdmitCharged(c) ==
  /\ pc[c] = "charge"
  /\ ~Unlimited(c)
  /\ ~Exhausted(counts[charged[c]][req[c].tool], req[c].tool)
  /\ counts' = [counts EXCEPT ![charged[c]] = Charged(charged[c], req[c].tool)]
  /\ Admit(c)
  /\ UNCHANGED <<sessionVars, req, charged, labelled, begun>>

Refuse(c) ==
  /\ pc[c] = "charge"
  /\ ~Unlimited(c)
  /\ Exhausted(counts[charged[c]][req[c].tool], req[c].tool)
  /\ Goto(c, "refused")
  /\ UNCHANGED <<sessionVars, counts, req, charged, labelled, begun, admitted>>

\* sys___init creates or replaces the session, its guard state included.
SysInit(s) ==
  /\ inits[s] < MaxInits
  /\ inits' = [inits EXCEPT ![s] = @ + 1]
  /\ sessions' = sessions \cup {s}
  /\ guardInit' = [guardInit EXCEPT ![s] = Nil]
  /\ UNCHANGED <<objects, made, counts, pc, req, charged, labelled, begun, admitted>>

Done ==
  /\ begun = MaxCalls
  /\ \A c \in Calls : pc[c] \in {"idle", "admitted", "refused"}
  /\ UNCHANGED vars

CallStep(c) ==
  \/ Arrive(c) \/ CacheHit(c) \/ CacheMiss(c)
  \/ LabelAgentFails(c) \/ LabelAgentApplied(c) \/ Install(c)
  \/ FetchState(c) \/ AdmitUnlimited(c) \/ AdmitCharged(c) \/ Refuse(c)

Next == (\E c \in Calls : CallStep(c)) \/ (\E s \in Sessions : SysInit(s)) \/ Done

Spec == Init /\ [][Next]_vars

-----------------------------------------------------------------------------
(* Properties.                                                             *)

Limited == {t \in Tools : Limit[t] # 0}

\* A call is refused only after its session had the whole budget of its tool:
\* no call of another session, of another tool, or charged twice, eats into it.
NoEarlyRefusal ==
  \A c \in Calls : pc[c] = "refused" => admitted[Session(c)][req[c].tool] >= Limit[req[c].tool]

\* A session whose guard was initialised once, and that sys___init did not
\* replace, gets no more than its budget, however its calls interleave.
BudgetOfOneInit ==
  \A s \in Sessions : labelled[s] <= 1 /\ inits[s] = 0 =>
    \A t \in Limited : admitted[s][t] <= Limit[t]

\* "Positive values hard-limit that tool for the session" (README.md:155).
BudgetPerSession == \A s \in Sessions : \A t \in Limited : admitted[s][t] <= Limit[t]

=============================================================================
