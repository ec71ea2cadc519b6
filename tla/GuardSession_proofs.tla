------------------------ MODULE GuardSession_proofs ------------------------
(***************************************************************************)
(* Proofs about the per-session budget of tool calls, for any sessions,    *)
(* tools, limits and concurrent calls.                                     *)
(*                                                                         *)
(* A call charges the state object it fetched, which may no longer be the  *)
(* one its session has.  Ledger says what every object, current or not,    *)
(* guarantees; Once says why a session that was initialised once has one.  *)
(***************************************************************************)
EXTENDS GuardSession, TLAPS

\* Every object counts calls of its own session only, and none beyond the limit.
Ledger ==
  /\ \A s \in Sessions : \A x \in objects[s] : x <= made
  /\ \A s, r \in Sessions : s # r => objects[s] \cap objects[r] = {}
  /\ \A x \in States, t \in Tools : x > made => counts[x][t] = 0
  /\ \A s \in Sessions : guardInit[s] # Nil => guardInit[s] \in objects[s]
  /\ \A c \in Calls : pc[c] = "charge" /\ charged[c] # Nil => charged[c] \in objects[Session(c)]
  /\ \A s \in Sessions : \A x \in objects[s], t \in Tools : counts[x][t] <= admitted[s][t]
  /\ \A x \in States, t \in Limited : counts[x][t] <= Limit[t]

Installing(s) == {c \in Calls : pc[c] = "install" /\ Session(c) = s}

\* The one label_agent run of s is not over, or about to be installed, or installed.
Once(s) ==
  /\ labelled[s] = 0 => objects[s] = {} /\ Installing(s) = {}
  /\ \A x, y \in objects[s] : x = y
  /\ \A c, d \in Installing(s) : c = d
  /\ objects[s] # {} => Installing(s) = {}
  /\ \A c \in Calls : pc[c] = "limit" /\ Session(c) = s => guardInit[s] # Nil
  /\ \A c \in Calls : pc[c] = "charge" /\ Session(c) = s => charged[c] # Nil
  /\ \A t \in Limited :
       /\ objects[s] = {} => admitted[s][t] = 0
       /\ \A x \in objects[s] : admitted[s][t] = counts[x][t]

Onces == \A s \in Sessions : labelled[s] <= 1 /\ inits[s] = 0 => Once(s)

IInv == TypeOK /\ Ledger /\ NoEarlyRefusal /\ Onces

-----------------------------------------------------------------------------
LEMMA TypeInit == Init => TypeOK
  BY LimitAssumption, BoundsAssumption DEF Init, TypeOK, Nil, States, Places

LEMMA TypeNext == TypeOK /\ [Next]_vars => TypeOK'
<1> SUFFICES ASSUME TypeOK, [Next]_vars PROVE TypeOK'
  OBVIOUS
<1> USE BoundsAssumption DEF TypeOK, Nil, States, Places, Session, Goto, sessionVars
<1>1. ASSUME NEW c \in Calls, Admit(c) PROVE admitted' \in [Sessions -> [Tools -> Nat]]
  <2>1. OneMore(c) \in [Tools -> Nat]
    BY DEF OneMore
  <2> QED BY <1>1, <2>1 DEF Admit
<1>2. ASSUME NEW c \in Calls, Arrive(c) PROVE TypeOK'
  <2>1. PICK s \in Sessions, t \in Tools :
          /\ req' = [req EXCEPT ![c] = [session |-> s, tool |-> t]]
          /\ sessions' = sessions \cup {s}
    BY <1>2 DEF Arrive
  <2>2. req' \in [Calls -> [session : Sessions, tool : Tools]] /\ sessions' \subseteq Sessions
    BY <2>1
  <2>3. pc' \in [Calls -> Places] /\ begun' \in Nat
    BY <1>2 DEF Arrive
  <2> QED BY <1>2, <2>2, <2>3 DEF Arrive
<1>3. ASSUME NEW c \in Calls, CacheHit(c) \/ CacheMiss(c) \/ LabelAgentFails(c) PROVE TypeOK'
  BY <1>3 DEF CacheHit, CacheMiss, LabelAgentFails
<1>4. ASSUME NEW c \in Calls, LabelAgentApplied(c) PROVE TypeOK'
  <2>1. labelled' \in [Sessions -> Nat] /\ pc' \in [Calls -> Places]
    BY <1>4 DEF LabelAgentApplied
  <2> QED BY <1>4, <2>1 DEF LabelAgentApplied
<1>5. ASSUME NEW c \in Calls, Install(c) PROVE TypeOK'
  <2>1. made' \in States
    BY <1>5 DEF Install
  <2>2. /\ objects' \in [Sessions -> SUBSET States]
        /\ guardInit' \in [Sessions -> States \cup {Nil}]
        /\ sessions' \subseteq Sessions
    BY <1>5, <2>1 DEF Install
  <2> QED BY <1>5, <2>1, <2>2 DEF Install
<1>6. ASSUME NEW c \in Calls, FetchState(c) PROVE TypeOK'
  BY <1>6 DEF FetchState
<1>7. ASSUME NEW c \in Calls, AdmitUnlimited(c) PROVE TypeOK'
  BY <1>1, <1>7 DEF AdmitUnlimited, Admit
<1>8. ASSUME NEW c \in Calls, AdmitCharged(c) PROVE TypeOK'
  <2>1. charged[c] \in States
    BY <1>8 DEF AdmitCharged, Unlimited
  <2>2. Charged(charged[c], req[c].tool) \in [Tools -> Nat]
    BY <2>1 DEF Charged
  <2>3. counts' \in [States -> [Tools -> Nat]]
    BY <1>8, <2>1, <2>2 DEF AdmitCharged
  <2> QED BY <1>1, <1>8, <2>3 DEF AdmitCharged, Admit
<1>9. ASSUME NEW c \in Calls, Refuse(c) PROVE TypeOK'
  BY <1>9 DEF Refuse
<1>10. ASSUME NEW s \in Sessions, SysInit(s) PROVE TypeOK'
  BY <1>10 DEF SysInit
<1>11. CASE UNCHANGED vars
  BY <1>11 DEF vars
<1> QED
  BY <1>2, <1>3, <1>4, <1>5, <1>6, <1>7, <1>8, <1>9, <1>10, <1>11
     DEF Next, CallStep, Done

\* The variables keep their types.
THEOREM TypeCorrect == Spec => []TypeOK
  BY TypeInit, TypeNext, PTL DEF Spec

-----------------------------------------------------------------------------
\* What the budget depends on, unchanged by a step that neither installs,
\* fetches, admits nor replaces a session.
SameLedger ==
  /\ UNCHANGED <<guardInit, objects, made, counts, charged, admitted>>
  /\ \A c \in Calls : pc'[c] \in {"charge", "limit", "refused"} =>
       /\ req'[c] = req[c]
       /\ pc'[c] = "charge" => pc[c] = "charge"

LEMMA Quiet ==
  ASSUME TypeOK, NEW c \in Calls,
         \/ Arrive(c) \/ CacheHit(c) \/ CacheMiss(c) \/ LabelAgentFails(c)
         \/ LabelAgentApplied(c) \/ Refuse(c)
  PROVE  SameLedger
  BY DEF TypeOK, SameLedger, sessionVars, Goto, Arrive, CacheHit, CacheMiss, LabelAgentFails,
     LabelAgentApplied, Refuse

LEMMA LedgerNext == TypeOK /\ Ledger /\ [Next]_vars => Ledger'
<1> SUFFICES ASSUME TypeOK, Ledger, [Next]_vars PROVE Ledger'
  OBVIOUS
<1> USE LimitAssumption, BoundsAssumption DEF Nil, States, Session, Goto, sessionVars
<1>1. CASE SameLedger
  BY <1>1 DEF SameLedger, Ledger
<1>2. ASSUME NEW c \in Calls, Install(c) PROVE Ledger'
  <2>1. made' = made + 1 /\ made' \in States /\ UNCHANGED <<counts, charged, admitted, req>>
    BY <1>2 DEF Install, TypeOK
  <2>2. \A s \in Sessions :
          /\ objects[s] \subseteq objects'[s]
          /\ s = Session(c) => made' \in objects'[s]
          /\ \A x \in objects'[s] : x \in objects[s] \/ (s = Session(c) /\ x = made')
    BY <1>2 DEF Install, TypeOK
  <2>3. \A s \in Sessions :
          guardInit'[s] = IF s = Session(c) THEN made' ELSE guardInit[s]
    BY <1>2 DEF Install, TypeOK
  <2>4. \A d \in Calls : pc'[d] = "charge" => pc[d] = "charge"
    BY <1>2 DEF Install, TypeOK
  <2>5. /\ made \in Nat /\ made + 1 \in Nat /\ States \subseteq Nat
        /\ \A s \in Sessions : objects[s] \subseteq States
        /\ \A s \in Sessions, t \in Tools : admitted[s][t] \in Nat
    BY DEF TypeOK
  <2>6. /\ \A s \in Sessions : \A x \in objects[s] : x <= made
        /\ \A s, r \in Sessions : s # r => objects[s] \cap objects[r] = {}
        /\ \A x \in States, t \in Tools : x > made => counts[x][t] = 0
        /\ \A s \in Sessions : guardInit[s] # Nil => guardInit[s] \in objects[s]
        /\ \A d \in Calls : pc[d] = "charge" /\ charged[d] # Nil => charged[d] \in objects[Session(d)]
        /\ \A s \in Sessions : \A x \in objects[s], t \in Tools : counts[x][t] <= admitted[s][t]
    BY DEF Ledger
  <2>7. \A s \in Sessions : made + 1 \notin objects[s]
    BY <2>5, <2>6
  <2>8. \A s \in Sessions : \A x \in objects'[s] : x <= made'
    BY <2>1, <2>2, <2>5, <2>6
  <2>9. \A s, r \in Sessions : s # r => objects'[s] \cap objects'[r] = {}
    BY <2>1, <2>2, <2>6, <2>7
  <2>10. \A s \in Sessions : \A x \in objects'[s], t \in Tools : counts[x][t] <= admitted[s][t]
    <3>1. \A t \in Tools : counts[made'][t] = 0
      BY <2>1, <2>5, <2>6
    <3> QED BY <2>2, <2>5, <2>6, <3>1
  <2>11. \A s \in Sessions : guardInit'[s] # Nil => guardInit'[s] \in objects'[s]
    BY <2>2, <2>3, <2>6
  <2>12. \A d \in Calls : pc'[d] = "charge" /\ charged[d] # Nil => charged[d] \in objects'[Session(d)]
    <3>1. \A d \in Calls : Session(d) \in Sessions
      BY DEF TypeOK
    <3> QED BY <2>2, <2>4, <2>6, <3>1
  <2>13. \A x \in States, t \in Tools : x > made' => counts[x][t] = 0
    BY <2>1, <2>5, <2>6
  <2> QED BY <2>1, <2>8, <2>9, <2>10, <2>11, <2>12, <2>13 DEF Ledger
<1>3. ASSUME NEW c \in Calls, FetchState(c) PROVE Ledger'
  BY <1>3 DEF FetchState, Ledger, TypeOK
<1>4. ASSUME NEW c \in Calls, Admit(c), UNCHANGED req
      PROVE  \A s \in Sessions, t \in Tools :
               /\ admitted[s][t] <= admitted'[s][t]
               /\ s = Session(c) /\ t = req[c].tool => admitted'[s][t] = admitted[s][t] + 1
  BY <1>4 DEF Admit, OneMore, TypeOK
<1>5. ASSUME NEW c \in Calls, AdmitUnlimited(c) PROVE Ledger'
  <2>1. /\ UNCHANGED <<guardInit, objects, made, counts, charged, req>>
        /\ \A d \in Calls : pc'[d] = "charge" => pc[d] = "charge"
    BY <1>5 DEF AdmitUnlimited, Admit, TypeOK
  <2>2. \A s \in Sessions : \A x \in objects[s], t \in Tools : counts[x][t] <= admitted'[s][t]
    <3> SUFFICES ASSUME NEW s \in Sessions, NEW x \in objects[s], NEW t \in Tools
                 PROVE  counts[x][t] <= admitted'[s][t]
      OBVIOUS
    <3>1. admitted[s][t] <= admitted'[s][t] /\ counts[x][t] <= admitted[s][t]
      BY <1>4, <1>5, <2>1 DEF AdmitUnlimited, Ledger
    <3>2. counts[x][t] \in Nat /\ admitted[s][t] \in Nat /\ admitted'[s][t] \in Nat
      BY <1>5, TypeNext DEF TypeOK
    <3> QED BY <3>1, <3>2
  <2> QED BY <2>1, <2>2 DEF Ledger
<1>6. ASSUME NEW c \in Calls, AdmitCharged(c) PROVE Ledger'
  <2> DEFINE x0 == charged[c]
             t0 == req[c].tool
  <2>1. /\ UNCHANGED <<guardInit, objects, made, charged, req>>
        /\ \A d \in Calls : pc'[d] = "charge" => pc[d] = "charge"
        /\ x0 \in States /\ x0 \in objects[Session(c)] /\ t0 \in Tools /\ Session(c) \in Sessions
        /\ counts[x0][t0] < Limit[t0]
    BY <1>6 DEF AdmitCharged, Admit, TypeOK, Unlimited, Exhausted, Ledger
  <2>2. \A x \in States, t \in Tools :
          counts'[x][t] = IF x = x0 /\ t = t0 THEN counts[x][t] + 1 ELSE counts[x][t]
    BY <1>6, <2>1 DEF AdmitCharged, Charged, TypeOK
  <2>3. \A s \in Sessions, t \in Tools :
          /\ admitted[s][t] <= admitted'[s][t]
          /\ s = Session(c) /\ t = t0 => admitted'[s][t] = admitted[s][t] + 1
    BY <1>4, <1>6, <2>1 DEF AdmitCharged
  <2>4. \A s \in Sessions : \A x \in objects[s], t \in Tools : counts'[x][t] <= admitted'[s][t]
    <3> SUFFICES ASSUME NEW s \in Sessions, NEW x \in objects[s], NEW t \in Tools
                 PROVE  counts'[x][t] <= admitted'[s][t]
      OBVIOUS
    <3>1. x \in States /\ counts[x][t] \in Nat /\ admitted[s][t] \in Nat /\ admitted'[s][t] \in Nat
      BY TypeNext DEF TypeOK
    <3>2. counts[x][t] <= admitted[s][t]
      BY DEF Ledger
    <3>3. x = x0 => s = Session(c)
      BY <2>1 DEF Ledger
    <3> QED BY <2>2, <2>3, <3>1, <3>2, <3>3
  <2>5. \A x \in States, t \in Tools : counts[x][t] \in Nat /\ Limit[t] \in Nat
    BY DEF TypeOK
  <2>6. \A x \in States, t \in Limited : counts'[x][t] <= Limit[t]
    <3>1. \A x \in States, t \in Limited : t \in Tools /\ counts[x][t] <= Limit[t]
      BY DEF Ledger, Limited
    <3> QED BY <2>1, <2>2, <2>5, <3>1
  <2>7. \A x \in States, t \in Tools : x > made => counts'[x][t] = 0
    <3>1. x0 <= made /\ x0 \in Nat /\ made \in Nat
      BY <2>1 DEF Ledger, TypeOK
    <3>2. \A x \in States, t \in Tools : x > made => counts[x][t] = 0
      BY DEF Ledger
    <3> QED BY <2>2, <3>1, <3>2
  <2> QED BY <2>1, <2>4, <2>6, <2>7 DEF Ledger
<1>7. ASSUME NEW s \in Sessions, SysInit(s) PROVE Ledger'
  BY <1>7 DEF SysInit, Ledger, TypeOK
<1>8. CASE UNCHANGED vars
  BY <1>1, <1>8 DEF vars, SameLedger
<1> QED
  BY <1>1, <1>2, <1>3, <1>5, <1>6, <1>7, <1>8, Quiet DEF Next, CallStep, Done

\* What was admitted stays admitted, and one call more is when a call is admitted.
LEMMA AdmittedGrows ==
  ASSUME TypeOK, [Next]_vars, NEW s \in Sessions, NEW t \in Tools
  PROVE  admitted[s][t] <= admitted'[s][t] /\ admitted[s][t] \in Nat /\ admitted'[s][t] \in Nat
<1>1. admitted[s][t] \in Nat /\ admitted'[s][t] \in Nat
  BY TypeNext DEF TypeOK
<1>2. CASE UNCHANGED admitted
  BY <1>1, <1>2
<1>3. ASSUME NEW c \in Calls, AdmitUnlimited(c) \/ AdmitCharged(c)
      PROVE  admitted[s][t] <= admitted'[s][t]
  <2>1. \A u \in Tools : OneMore(c)[u] = IF u = req[c].tool THEN admitted[Session(c)][u] + 1
                                                           ELSE admitted[Session(c)][u]
    BY DEF OneMore, TypeOK, Session
  <2>2. admitted' = [admitted EXCEPT ![Session(c)] = OneMore(c)]
    BY <1>3 DEF AdmitUnlimited, AdmitCharged, Admit
  <2>3. admitted'[s][t] = IF s = Session(c) THEN OneMore(c)[t] ELSE admitted[s][t]
    BY <2>2 DEF TypeOK
  <2> QED BY <1>1, <2>1, <2>3
<1>4. ASSUME NEW c \in Calls, CallStep(c), ~AdmitUnlimited(c), ~AdmitCharged(c)
      PROVE  UNCHANGED admitted
  BY <1>4 DEF CallStep, Arrive, CacheHit, CacheMiss, LabelAgentFails, LabelAgentApplied, Install,
       FetchState, Refuse
<1>5. ASSUME NEW r \in Sessions, SysInit(r) PROVE UNCHANGED admitted
  BY <1>5 DEF SysInit
<1>6. CASE UNCHANGED vars
  BY <1>2, <1>6 DEF vars
<1> QED BY <1>1, <1>2, <1>3, <1>4, <1>5, <1>6 DEF Next, Done

\* A refused call found its session's object full: all it counts was admitted.
LEMMA RefusalNext == TypeOK /\ Ledger /\ NoEarlyRefusal /\ [Next]_vars => NoEarlyRefusal'
<1> SUFFICES ASSUME TypeOK, Ledger, NoEarlyRefusal, [Next]_vars, NEW d \in Calls,
                    pc'[d] = "refused"
             PROVE  admitted'[req'[d].session][req'[d].tool] >= Limit[req'[d].tool]
  BY DEF NoEarlyRefusal, Session
<1>1. \A s \in Sessions, t \in Tools :
        /\ admitted[s][t] <= admitted'[s][t] /\ Limit[t] \in Nat
        /\ admitted[s][t] \in Nat /\ admitted'[s][t] \in Nat
  BY AdmittedGrows, LimitAssumption
<1>2. ASSUME Refuse(d)
      PROVE  admitted[req[d].session][req[d].tool] >= Limit[req[d].tool] /\ req' = req
  <2> DEFINE x == charged[d]
             t == req[d].tool
  <2>1. /\ x \in objects[Session(d)] /\ x \in States /\ t \in Tools /\ Session(d) \in Sessions
        /\ counts[x][t] >= Limit[t] /\ req' = req
    BY <1>2 DEF Refuse, Unlimited, Exhausted, Ledger, TypeOK, Session
  <2>2. counts[x][t] <= admitted[Session(d)][t] /\ counts[x][t] \in Nat
    BY <2>1 DEF Ledger, TypeOK
  <2> QED BY <1>1, <2>1, <2>2 DEF Session
<1>3. ASSUME pc[d] = "refused", req'[d] = req[d]
      PROVE  admitted[req[d].session][req[d].tool] >= Limit[req[d].tool] /\ req'[d] = req[d]
  BY <1>3 DEF NoEarlyRefusal, Session
<1>4. Refuse(d) \/ (pc[d] = "refused" /\ req'[d] = req[d])
  <2>1. ASSUME NEW c \in Calls, CallStep(c)
        PROVE  Refuse(d) \/ (pc[d] = "refused" /\ req'[d] = req[d])
    BY <2>1 DEF TypeOK, Goto, Admit, CallStep, Arrive, CacheHit, CacheMiss, LabelAgentFails,
         LabelAgentApplied, Install, FetchState, AdmitUnlimited, AdmitCharged, Refuse
  <2>2. ASSUME NEW r \in Sessions, SysInit(r) PROVE pc[d] = "refused" /\ req'[d] = req[d]
    BY <2>2 DEF SysInit
  <2>3. CASE UNCHANGED vars
    BY <2>3 DEF vars
  <2> QED BY <2>1, <2>2, <2>3 DEF Next, Done
<1>5. req[d].session \in Sessions /\ req[d].tool \in Tools
  BY DEF TypeOK
<1> QED BY <1>1, <1>2, <1>3, <1>4, <1>5

-----------------------------------------------------------------------------
\* The counters of Once, unchanged.
SameCounts(s) ==
  /\ objects'[s] = objects[s] /\ labelled'[s] = labelled[s] /\ guardInit'[s] = guardInit[s]
  /\ \A x \in objects[s], t \in Limited : counts'[x][t] = counts[x][t]
  /\ \A t \in Limited : admitted'[s][t] = admitted[s][t]

LEMMA OnceNext ==
  ASSUME TypeOK, Ledger, Onces, [Next]_vars, NEW s \in Sessions,
         labelled'[s] <= 1, inits'[s] = 0
  PROVE  Once(s)'
<1> USE DEF Session, Goto, sessionVars, Nil
<1>1. labelled[s] <= labelled'[s] /\ labelled[s] \in Nat /\ inits[s] <= inits'[s] /\ inits[s] \in Nat
  <2>1. ASSUME NEW c \in Calls, CallStep(c)
        PROVE  inits' = inits /\ labelled[s] <= labelled'[s]
    <3>1. CASE LabelAgentApplied(c)
      BY <3>1 DEF LabelAgentApplied, TypeOK
    <3>2. CASE ~LabelAgentApplied(c)
      BY <2>1, <3>2 DEF CallStep, Arrive, CacheHit, CacheMiss, LabelAgentFails, Install, FetchState,
           AdmitUnlimited, AdmitCharged, Refuse, TypeOK
    <3> QED BY <3>1, <3>2
  <2>2. ASSUME NEW r \in Sessions, SysInit(r)
        PROVE  inits[s] <= inits'[s] /\ labelled[s] <= labelled'[s]
    BY <2>2 DEF SysInit, TypeOK
  <2>3. CASE UNCHANGED vars
    BY <2>3 DEF vars, TypeOK
  <2> QED BY <2>1, <2>2, <2>3 DEF Next, Done, TypeOK
<1>2. labelled[s] <= 1 /\ inits[s] = 0 /\ Once(s)
  <2>1. labelled'[s] \in Nat /\ inits'[s] \in Nat
    BY TypeNext DEF TypeOK
  <2> QED BY <1>1, <2>1 DEF Onces
\* Nobody enters or leaves the phases Once speaks of.
<1>3. ASSUME SameCounts(s), \A d \in Calls :
               /\ pc'[d] \in {"install", "limit", "charge"} => pc'[d] = pc[d]
               /\ pc'[d] \in {"install", "limit", "charge"} => req'[d] = req[d]
               /\ pc'[d] = "charge" => charged'[d] = charged[d]
      PROVE  Once(s)'
  BY <1>2, <1>3 DEF SameCounts, Once, Installing
<1>4. ASSUME NEW c \in Calls,
             Arrive(c) \/ CacheMiss(c) \/ LabelAgentFails(c) \/ Refuse(c)
      PROVE  Once(s)'
  BY <1>3, <1>4 DEF SameCounts, TypeOK, Arrive, CacheMiss, LabelAgentFails, Refuse
<1>5. ASSUME NEW c \in Calls, CacheHit(c) PROVE Once(s)'
  BY <1>2, <1>5 DEF CacheHit, Once, Installing, TypeOK
<1>6. ASSUME NEW c \in Calls, LabelAgentApplied(c) PROVE Once(s)'
  <2>1. CASE Session(c) = s
    <3>1. labelled'[s] = labelled[s] + 1
      BY <1>6, <2>1 DEF LabelAgentApplied, TypeOK
    <3>2. objects[s] = {} /\ Installing(s) = {} /\ labelled'[s] # 0
      BY <1>1, <1>2, <3>1 DEF Once
    <3>3. /\ UNCHANGED <<objects, counts, admitted, guardInit, charged, req>>
          /\ \A d \in Calls : d # c => pc'[d] = pc[d]
          /\ pc'[c] = "install"
      BY <1>6 DEF LabelAgentApplied, TypeOK
    <3>4. \A d \in Installing(s)' : d = c
      BY <3>2, <3>3 DEF Installing
    <3> QED BY <1>2, <3>2, <3>3, <3>4 DEF Once
  <2>2. CASE Session(c) # s
    <3>1. /\ UNCHANGED <<objects, counts, admitted, guardInit, charged, req>>
          /\ \A d \in Calls : d # c => pc'[d] = pc[d]
          /\ pc'[c] = "install" /\ labelled'[s] = labelled[s]
      BY <1>6, <2>2 DEF LabelAgentApplied, TypeOK
    <3>2. Installing(s)' = Installing(s)
      BY <1>6, <2>2, <3>1 DEF Installing, LabelAgentApplied
    <3> QED BY <1>2, <2>2, <3>1, <3>2 DEF Once
  <2> QED BY <2>1, <2>2
<1>7. ASSUME NEW c \in Calls, Install(c) PROVE Once(s)'
  <2>1. /\ UNCHANGED <<counts, admitted, charged, req, labelled>>
        /\ \A d \in Calls : d # c => pc'[d] = pc[d]
        /\ pc[c] = "install" /\ pc'[c] = "limit"
        /\ made' = made + 1 /\ made' \in States /\ made' # 0
    BY <1>7, BoundsAssumption DEF Install, TypeOK, States
  <2>2. CASE Session(c) = s
    <3>1. c \in Installing(s)
      BY <2>1, <2>2 DEF Installing
    <3>2. objects[s] = {} /\ labelled[s] # 0 /\ \A d \in Installing(s) : d = c
      BY <1>2, <3>1 DEF Once
    <3>3. Installing(s)' = {}
      BY <2>1, <3>2 DEF Installing
    <3>4. objects'[s] = {made'} /\ guardInit'[s] = made'
      BY <1>7, <2>2, <3>2 DEF Install, TypeOK
    <3>5. \A t \in Limited : admitted[s][t] = 0 /\ counts[made'][t] = 0
      BY <1>2, <2>1, <3>2 DEF Once, Ledger, Limited, TypeOK
    <3> QED BY <1>2, <2>1, <3>2, <3>3, <3>4, <3>5 DEF Once
  <2>3. CASE Session(c) # s
    <3>1. objects'[s] = objects[s] /\ guardInit'[s] = guardInit[s]
      BY <1>7, <2>3 DEF Install, TypeOK
    <3>2. Installing(s)' = Installing(s)
      BY <2>1, <2>3 DEF Installing
    <3> QED BY <1>2, <2>1, <2>3, <3>1, <3>2 DEF Once
  <2> QED BY <2>2, <2>3
<1>8. ASSUME NEW c \in Calls, FetchState(c) PROVE Once(s)'
  BY <1>2, <1>8 DEF FetchState, Once, Installing, TypeOK
<1>9. ASSUME NEW c \in Calls, Admit(c), Session(c) \in Sessions, req[c].tool \in Tools
      PROVE  \A t \in Tools : admitted'[s][t] =
               IF s = Session(c) /\ t = req[c].tool THEN admitted[s][t] + 1 ELSE admitted[s][t]
  <2>1. \A u \in Tools : OneMore(c)[u] = IF u = req[c].tool THEN admitted[Session(c)][u] + 1
                                                           ELSE admitted[Session(c)][u]
    BY DEF OneMore, TypeOK
  <2>2. admitted'[s] = IF s = Session(c) THEN OneMore(c) ELSE admitted[s]
    BY <1>9 DEF Admit, TypeOK
  <2> QED BY <2>1, <2>2
<1>10. ASSUME NEW c \in Calls, AdmitUnlimited(c) PROVE Once(s)'
  <2>1. /\ UNCHANGED <<objects, counts, guardInit, charged, req, labelled>>
        /\ \A d \in Calls : d # c => pc'[d] = pc[d]
        /\ pc[c] = "charge" /\ pc'[c] = "admitted" /\ Admit(c)
        /\ Session(c) \in Sessions /\ req[c].tool \in Tools
    BY <1>10 DEF AdmitUnlimited, Admit, TypeOK
  <2>2. Session(c) = s => req[c].tool \notin Limited
    BY <1>2, <1>10, <2>1 DEF AdmitUnlimited, Unlimited, Once, Limited
  <2>3. \A t \in Limited : admitted'[s][t] = admitted[s][t]
    BY <1>9, <2>1, <2>2 DEF Limited
  <2> QED BY <1>3, <2>1, <2>3 DEF SameCounts
<1>11. ASSUME NEW c \in Calls, AdmitCharged(c) PROVE Once(s)'
  <2> DEFINE x0 == charged[c]
             t0 == req[c].tool
  <2>1. /\ UNCHANGED <<objects, guardInit, charged, req, labelled>>
        /\ \A d \in Calls : d # c => pc'[d] = pc[d]
        /\ pc[c] = "charge" /\ pc'[c] = "admitted" /\ Admit(c)
        /\ Session(c) \in Sessions /\ t0 \in Tools
        /\ x0 \in States /\ x0 \in objects[Session(c)]
    BY <1>11 DEF AdmitCharged, Admit, Unlimited, TypeOK, Ledger
  <2>2. \A x \in States, t \in Tools :
          counts'[x][t] = IF x = x0 /\ t = t0 THEN counts[x][t] + 1 ELSE counts[x][t]
    BY <1>11, <2>1 DEF AdmitCharged, Charged, TypeOK
  <2>3. objects[s] \subseteq States /\ Limited \subseteq Tools
    BY DEF TypeOK, Limited
  <2>4. CASE Session(c) = s
    <3>1. \A x \in objects[s] : x = x0
      BY <1>2, <2>1, <2>4 DEF Once
    <3>2. \A x \in objects[s], t \in Limited : admitted'[s][t] = counts'[x][t]
      <4>1. \A x \in objects[s], t \in Limited : admitted[s][t] = counts[x][t]
        BY <1>2 DEF Once
      <4>2. \A t \in Limited : admitted'[s][t] = IF t = t0 THEN admitted[s][t] + 1 ELSE admitted[s][t]
        BY <1>9, <2>1, <2>3, <2>4
      <4>3. \A x \in objects[s], t \in Limited :
              counts'[x][t] = IF t = t0 THEN counts[x][t] + 1 ELSE counts[x][t]
        BY <2>2, <2>3, <3>1
      <4> QED BY <4>1, <4>2, <4>3
    <3>3. objects[s] # {} /\ Installing(s)' = Installing(s)
      BY <2>1, <2>4 DEF Installing
    <3> QED BY <1>2, <2>1, <3>2, <3>3 DEF Once
  <2>5. CASE Session(c) # s
    <3>1. x0 \notin objects[s]
      BY <2>1, <2>5 DEF Ledger
    <3>2. \A x \in objects[s], t \in Limited : counts'[x][t] = counts[x][t]
      BY <2>2, <2>3, <3>1
    <3>3. \A t \in Limited : admitted'[s][t] = admitted[s][t]
      BY <1>9, <2>1, <2>3, <2>5
    <3> QED BY <1>3, <2>1, <3>2, <3>3 DEF SameCounts
  <2> QED BY <2>4, <2>5
<1>12. ASSUME NEW r \in Sessions, SysInit(r) PROVE Once(s)'
  <2>1. r # s
    BY <1>2, <1>12 DEF SysInit, TypeOK
  <2> QED BY <1>3, <1>12, <2>1 DEF SysInit, SameCounts, TypeOK
<1>13. CASE UNCHANGED vars
  BY <1>3, <1>13 DEF vars, SameCounts
<1> QED
  BY <1>4, <1>5, <1>6, <1>7, <1>8, <1>10, <1>11, <1>12, <1>13 DEF Next, CallStep, Done

\* The invariant that is inductive.
THEOREM Inductive == Spec => []IInv
<1>1. Init => IInv
  <2>1. Init => Ledger
    BY LimitAssumption DEF Init, Ledger, Nil, Limited, States
  <2>2. Init => Onces
    BY DEF Init, Onces, Once, Installing, Limited, Nil
  <2> QED BY TypeInit, <2>1, <2>2 DEF Init, IInv, NoEarlyRefusal
<1>2. IInv /\ [Next]_vars => IInv'
  <2>1. TypeOK /\ Ledger /\ Onces /\ [Next]_vars => Onces'
    BY OnceNext DEF Onces
  <2> QED BY TypeNext, LedgerNext, RefusalNext, <2>1 DEF IInv
<1> QED BY <1>1, <1>2, PTL DEF Spec

\* No call is refused before its session had the whole budget of its tool.
THEOREM RefusalsAreDue == Spec => []NoEarlyRefusal
<1>1. IInv => NoEarlyRefusal
  BY DEF IInv
<1> QED BY Inductive, <1>1, PTL

\* A session initialised once, and never replaced, stays within its budget.
THEOREM BudgetHolds == Spec => []BudgetOfOneInit
<1>1. IInv => BudgetOfOneInit
  <2> SUFFICES ASSUME IInv, NEW s \in Sessions, labelled[s] <= 1, inits[s] = 0, NEW t \in Limited
               PROVE  admitted[s][t] <= Limit[t]
    BY DEF BudgetOfOneInit
  <2>1. Once(s) /\ t \in Tools
    BY DEF IInv, Onces, Limited
  <2>2. CASE objects[s] = {}
    BY <2>1, <2>2, LimitAssumption DEF Once
  <2>3. CASE objects[s] # {}
    BY <2>1, <2>3 DEF Once, IInv, Ledger, TypeOK
  <2> QED BY <2>2, <2>3
<1> QED BY Inductive, <1>1, PTL
=============================================================================
