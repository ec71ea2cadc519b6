--------------------------- MODULE Guards_proofs ----------------------------
(***************************************************************************)
(* Proofs about guards and the configuration that names them: the instance *)
(* behind its lock (WasmGuard), the choice of guards and of their policies *)
(* (GuardPolicy) and the two formats a configuration is read from          *)
(* (Config), for any callers, servers, valid policies and sources.         *)
(*                                                                         *)
(* What label_agent is given was resolved when the server was registered,  *)
(* before it is asked for: OverriddenInv says that whatever resolves for a *)
(* registered server is public already, although the registrations of      *)
(* others rewrite the configuration in between.  ConfigInv says of each    *)
(* loader what it has checked and built so far; what both formats agree on *)
(* then follows from their conversions alone, field by field.              *)
(***************************************************************************)
EXTENDS WasmGuard, GuardPolicy, Config, TLAPS

-----------------------------------------------------------------------------
(* A guard instance (WasmGuard).                                           *)

WasmType ==
  /\ wlock \in Callers \cup {Nobody}
  /\ failed \in BOOLEAN /\ trapped \in BOOLEAN /\ allocator \in BOOLEAN
  /\ module \in {"open", "closed"}
  /\ at \in [Callers -> Places]
  /\ last \in Outcomes
  /\ count \in Nat /\ sent \in Nat

Inside == Entered \cup {"dealloc", "free"}

\* Whoever is inside the guard holds its mutex, and the backend is that caller's.
LockInv == \A c \in Callers : at[c] \in Inside => wlock = c /\ backend = c

\* What was sent is within the budget and was counted; between calls nothing is.
SentInv ==
  /\ sent <= count /\ sent <= MaxBackend
  /\ wlock = Nobody => sent = 0

\* After a trap the guard is marked, or its caller is on the way to mark it,
\* and a marked guard has nobody inside.
TrapInv ==
  /\ trapped => failed \/ \E c \in Callers : at[c] \in {"dealloc", "free"} /\ IsWasmTrap(last)
  /\ failed => \A c \in Callers : at[c] \notin Inside

WasmInv == WasmType /\ LockInv /\ SentInv /\ TrapInv

\* A fresh instance is open and idle.
LEMMA WasmInvInit == WasmInit => WasmInv
<1> SUFFICES ASSUME WasmInit PROVE WasmInv
  OBVIOUS
<1> USE WasmAssumption DEF WasmInit
<1>1. WasmType
  BY DEF WasmType, Places, Outcomes
<1>2. LockInv /\ SentInv
  BY DEF LockInv, SentInv, Inside, Entered
<1>3. TrapInv
  BY DEF TrapInv, Inside, Entered
<1> QED
  BY <1>1, <1>2, <1>3 DEF WasmInv

\* What the steps of an attempt have in common: the caller stays inside.
LEMMA AttemptStep ==
  ASSUME WasmInv, NEW c \in Callers, at[c] \in Entered,
         UNCHANGED <<wlock, failed, allocator, backend, count, sent>>,
         module' \in {"open", "closed"},
         \/ \E o \in Outcomes : EndAttempt(c, o)
         \/ \E p \in Entered :
              at' = [at EXCEPT ![c] = p] /\ UNCHANGED <<last, trapped>>
  PROVE  WasmInv'
<1> USE WasmAssumption
    DEF WasmInv, WasmType, LockInv, SentInv, TrapInv, Inside, Entered, Places, Outcomes
<1>1. ~failed /\ ~trapped /\ wlock = c
  OBVIOUS
<1>2. ASSUME NEW o \in Outcomes, EndAttempt(c, o) PROVE WasmInv'
  <2>1. at'[c] \in {"dealloc", "free"} /\ last' = o /\ trapped' = (o \in {"fault", "exit1"})
    BY <1>1, <1>2 DEF EndAttempt
  <2>2. at' \in [Callers -> Places] /\ \A d \in Callers \ {c} : at'[d] = at[d]
    BY <1>2 DEF EndAttempt
  <2>3. trapped' => at'[c] \in {"dealloc", "free"} /\ IsWasmTrap(last)'
    BY <2>1 DEF IsWasmTrap
  <2> QED
    BY <1>1, <2>1, <2>2, <2>3
<1>3. ASSUME NEW p \in Entered, at' = [at EXCEPT ![c] = p], UNCHANGED <<last, trapped>>
      PROVE  WasmInv'
  BY <1>1, <1>3
<1> QED
  BY <1>2, <1>3

\* Every step of a caller, and the closing of the guard, keeps the invariant.
LEMMA WasmInvNext == WasmInv /\ [WasmNext]_wvars => WasmInv'
<1> SUFFICES ASSUME WasmInv, [WasmNext]_wvars PROVE WasmInv'
  OBVIOUS
<1> USE WasmAssumption DEF Entered
<1>1. Faults \subseteq Outcomes /\ {"result", "tooSmall", "error", "exit1"} \subseteq Outcomes
  BY DEF Faults, Outcomes
<1>2. ASSUME NEW c \in Callers, Request(c) PROVE WasmInv'
  BY <1>2 DEF Request, WasmInv, WasmType, LockInv, SentInv, TrapInv, Inside, Places, IsWasmTrap
<1>3. ASSUME NEW c \in Callers, Enter(c) PROVE WasmInv'
  BY <1>3
  DEF Enter, MutexFree, WasmInv, WasmType, LockInv, SentInv, TrapInv, Inside, Places, IsWasmTrap
<1>4. ASSUME NEW c \in Callers, AllocFails(c) PROVE WasmInv'
  BY <1>1, <1>4, AttemptStep DEF AllocFails, WasmInv, WasmType, Inside
<1>5. ASSUME NEW c \in Callers, AllocInput(c) \/ AllocOutput(c) PROVE WasmInv'
  BY <1>5, AttemptStep DEF AllocInput, AllocOutput, WasmInv, WasmType, Inside
<1>6. ASSUME NEW c \in Callers, UseDirectMemory(c) PROVE WasmInv'
  BY <1>1, <1>6, AttemptStep DEF UseDirectMemory, WasmInv, WasmType, Inside
<1>7. ASSUME NEW c \in Callers, CallBackend(c) PROVE WasmInv'
  <2>1. wlock # Nobody
    BY <1>7 DEF CallBackend, WasmInv, LockInv, Inside
  <2> QED
    BY <1>7, <2>1 DEF CallBackend, WasmInv, WasmType, LockInv, SentInv, TrapInv, IsWasmTrap
<1>8. ASSUME NEW c \in Callers, Returns(c) PROVE WasmInv'
  BY <1>1, <1>8, AttemptStep DEF Returns, WasmInv, WasmType, Inside
<1>9. ASSUME NEW c \in Callers, Cancelled(c) PROVE WasmInv'
  BY <1>1, <1>9, AttemptStep DEF Cancelled, WasmInv, WasmType, Inside
<1>10. ASSUME NEW c \in Callers, Free(c) PROVE WasmInv'
  <2> USE DEF WasmInv, WasmType, LockInv, SentInv, TrapInv, Inside, Places, Outcomes
  <2>1. at[c] = "free" /\ wlock = c /\ ~failed /\ \A d \in Callers \ {c} : at[d] \notin Inside
    BY <1>10 DEF Free
  <2>2. failed' = IsWasmTrap(last) /\ UNCHANGED <<allocator, module, backend, trapped>>
    BY <1>10, <2>1 DEF Free, IsWasmTrap
  <2>3. CASE Leave(c)
    <3>1. trapped => failed'
      BY <2>1, <2>2
    <3>2. failed' \in BOOLEAN
      BY <2>2 DEF IsWasmTrap
    <3> QED
      BY <2>1, <2>2, <2>3, <3>1, <3>2 DEF Leave
  <2>4. CASE /\ last = "tooSmall" /\ last' = "none" /\ count' = count
             /\ at' = [at EXCEPT ![c] = "alloc"] /\ UNCHANGED <<wlock, sent>>
    <3>1. ~IsWasmTrap(last)
      BY <2>4 DEF IsWasmTrap
    <3>2. ~trapped /\ ~failed'
      BY <2>1, <2>2, <3>1
    <3>3. at'[c] = "alloc" /\ \A d \in Callers \ {c} : at'[d] = at[d]
      BY <2>4
    <3>4. WasmType'
      BY <2>1, <2>2, <2>4 DEF IsWasmTrap
    <3>5. LockInv' /\ SentInv'
      BY <2>1, <2>2, <2>4, <3>3
    <3>6. TrapInv'
      BY <2>2, <3>2
    <3> QED
      BY <3>4, <3>5, <3>6
  <2> QED
    BY <1>10, <2>3, <2>4 DEF Free, CountOnRetry
<1>11. ASSUME NEW c \in Callers, Dealloc(c) PROVE WasmInv'
  BY <1>11 DEF Dealloc, WasmInv, WasmType, LockInv, SentInv, TrapInv, Inside, Places, IsWasmTrap
<1>12. CASE CloseGuard
  BY <1>12 DEF CloseGuard, WasmInv, WasmType, LockInv, SentInv, TrapInv, IsWasmTrap
<1>13. CASE UNCHANGED wvars
  BY <1>13 DEF wvars, WasmInv, WasmType, LockInv, SentInv, TrapInv, IsWasmTrap
<1> QED
  BY <1>2, <1>3, <1>4, <1>5, <1>6, <1>7, <1>8, <1>9, <1>10, <1>11, <1>12, <1>13
  DEF WasmNext

\* The invariant of a guard instance.
LEMMA WasmInvariant == WasmSpec => []WasmInv
  BY WasmInvInit, WasmInvNext, PTL DEF WasmSpec

\* BackendCallsConfined: a guest reaches the backend of the request that runs
\* it, and no more often than its budget, however often the buffer has to grow
\* (hostCallBackend, callWasmGuardFunction).
THEOREM BackendCallsStayIn == WasmSpec => []BackendCallsConfined
<1>1. WasmInv => BackendCallsConfined
  BY DEF WasmInv, LockInv, SentInv, BackendCallsConfined, Inside, Entered
<1> QED
  BY <1>1, WasmInvariant, PTL

\* PoisonedStaysOut: once an attempt has trapped, or its request was cut off
\* inside the guard, no call enters it again (isWasmTrap, the failed mark); a
\* trap in dealloc alone is not among them.
THEOREM TrappedGuardsRest == WasmSpec => []PoisonedStaysOut
<1>1. ASSUME WasmInv, trapped, NEW c \in Callers PROVE at[c] \notin Entered
  <2>1. CASE failed
    BY <1>1, <2>1 DEF WasmInv, TrapInv, Inside
  <2>2. CASE ~failed
    <3>1. PICK d \in Callers : at[d] \in {"dealloc", "free"}
      BY <1>1, <2>2 DEF WasmInv, TrapInv
    <3>2. at[c] \in Entered => c = d
      BY <1>1, <3>1 DEF WasmInv, LockInv, Inside
    <3> QED
      BY <3>1, <3>2 DEF Entered
  <2> QED
    BY <2>1, <2>2
<1>2. WasmInv => PoisonedStaysOut
  BY <1>1 DEF PoisonedStaysOut
<1> QED
  BY <1>2, WasmInvariant, PTL

-----------------------------------------------------------------------------
(* Guards and policies (GuardPolicy).                                      *)

GuardRecords == [kind : {"unregistered", "wasm", "noop", "write-sink"},
                 visibility : {"", "public", "internal", "private"}]

PolicyType ==
  /\ global \in ValidPolicies \cup {NoPolicy}
  /\ raw \in [Servers -> PolicyMaps \cup {NoPolicy}]
  /\ own \in [Servers -> ValidPolicies \cup {NoPolicy, BadPolicy}]
  /\ guards \in [Servers -> GuardRecords]
  /\ reached \in [Servers -> ValidPolicies \cup {NoPolicy, BadPolicy}]

\* Some policy is configured, and if it opens repositories, then public ones.
PublicOnly(p) == p # NoPolicy /\ (IsAllowOnly(p) => p.repos = "public")

\* A server that is registered has been overridden: what resolves for it now is
\* what label_agent will be given.
OverriddenInv ==
  /\ boot = "override" => \A s \in Servers : guards[s] = Unregistered
  /\ boot = "up" => \A s \in Servers : guards[s] # Unregistered
  /\ boot \in {"register", "up"} /\ ForcesPublic =>
       \A s \in Servers : guards[s] # Unregistered => PublicOnly(Resolve(global, raw, s))

PolicyInv == PolicyType /\ OverriddenInv /\ PublicReadsOnly /\ PublicSinksSealed

LEMMA PolicyInvInit == PolicyInit => PolicyInv
<1> SUFFICES ASSUME PolicyInit PROVE PolicyInv
  OBVIOUS
<1>1. RawPolicies \subseteq PolicyMaps \cup {NoPolicy}
  BY PolicyAssumption DEF RawPolicies, PolicyMaps
<1>2. PolicyType
  BY <1>1, PolicyAssumption DEF PolicyInit, PolicyType, GuardRecords, Unregistered
<1>3. OverriddenInv
  BY DEF PolicyInit, OverriddenInv
<1>4. PublicReadsOnly /\ PublicSinksSealed
  BY DEF PolicyInit, PublicReadsOnly, PublicSinksSealed, IsAllowOnly, Unregistered
<1> QED
  BY <1>2, <1>3, <1>4 DEF PolicyInv

\* An override of a valid policy is a valid policy for public repositories.
LEMMA ToPublicIsPublic ==
  ASSUME NEW p \in ValidPolicies
  PROVE  ToPublic(p) \in ValidPolicies /\ PublicOnly(ToPublic(p))
<1>1. p \notin {NoPolicy, BadPolicy}
  BY PolicyAssumption
<1>2. CASE IsAllowOnly(p)
  <2>1. p \in [kind : {"allow-only"}, repos : {"all", "public", "scoped"}, min : Integrities,
               fields : SUBSET PolicyFields]
    BY <1>2 DEF IsAllowOnly, ValidPolicies
  <2>2. ToPublic(p) \in ValidPolicies /\ ToPublic(p).repos = "public"
    BY <1>2, <2>1 DEF ToPublic, ValidPolicies
  <2> QED
    BY <2>2, PolicyAssumption DEF PublicOnly
<1>3. CASE ~IsAllowOnly(p)
  BY <1>1, <1>3 DEF ToPublic, PublicOnly
<1> QED
  BY <1>2, <1>3

\* What a server's map says is a valid policy, none, or one that does not validate.
LEMMA ParsedType ==
  ASSUME NEW r \in PolicyMaps \cup {NoPolicy}
  PROVE  ParseServerGuardPolicy(r) \in ValidPolicies \cup {NoPolicy, BadPolicy}
<1>1. CASE r = NoPolicy
  BY <1>1 DEF ParseServerGuardPolicy
<1>2. CASE r # NoPolicy /\ r.shape \in {"top", "nested"}
  BY <1>2 DEF ParseServerGuardPolicy, PolicyMaps
<1>3. CASE r # NoPolicy /\ r.shape = "legacy"
  <2>1. CASE IsAllowOnly(r.policy)
    <3>1. r.policy \in [kind : {"allow-only"}, repos : {"all", "public", "scoped"},
                        min : Integrities, fields : SUBSET PolicyFields]
      BY <1>3, <2>1 DEF IsAllowOnly, PolicyMaps, ValidPolicies
    <3>2. [r.policy EXCEPT !.fields = {}] \in ValidPolicies
      BY <3>1 DEF ValidPolicies
    <3> QED
      BY <1>3, <2>1, <3>2 DEF ParseServerGuardPolicy
  <2>2. CASE ~IsAllowOnly(r.policy)
    BY <1>3, <2>2 DEF ParseServerGuardPolicy, PolicyMaps
  <2> QED
    BY <2>1, <2>2
<1>4. CASE r # NoPolicy /\ r.shape = "unknown"
  BY <1>4 DEF ParseServerGuardPolicy
<1> QED
  BY <1>1, <1>2, <1>3, <1>4 DEF PolicyMaps, Shapes

LEMMA ResolvedType ==
  ASSUME PolicyType, NEW s \in Servers
  PROVE  Resolve(global, raw, s) \in ValidPolicies \cup {NoPolicy, BadPolicy}
<1>1. ParseServerGuardPolicy(raw[s]) \in ValidPolicies \cup {NoPolicy, BadPolicy}
  BY ParsedType DEF PolicyType
<1> QED
  BY <1>1 DEF PolicyType, Resolve

\* A map at the top level says what its policy says.
LEMMA TopParsed ==
  ASSUME NEW p \in ValidPolicies \cup {BadPolicy}
  PROVE  /\ [shape |-> "top", policy |-> p] \in PolicyMaps
         /\ ParseServerGuardPolicy([shape |-> "top", policy |-> p]) = p
<1>1. [shape |-> "top", policy |-> p] \in PolicyMaps
  BY DEF PolicyMaps, Shapes
<1>2. [shape |-> "top", policy |-> p] # NoPolicy
  BY <1>1, PolicyAssumption
<1> QED
  BY <1>1, <1>2 DEF ParseServerGuardPolicy

LEMMA ServerOverridden ==
  ASSUME PolicyType, NEW s \in Servers
  PROVE  /\ ServerOverride(s) \in PolicyMaps
         /\ PublicOnly(ParseServerGuardPolicy(ServerOverride(s)))
<1> DEFINE parsed == ParseServerGuardPolicy(raw[s])
<1>1. parsed \in ValidPolicies \cup {NoPolicy, BadPolicy}
  BY ParsedType DEF PolicyType
<1>2. PublicOnly(BadPolicy)
  BY PolicyAssumption DEF PublicOnly, IsAllowOnly
<1>3. CASE raw[s] = NoPolicy
  <2>1. MinimalPublic \in ValidPolicies /\ MinimalPublic.repos = "public"
    BY DEF MinimalPublic, AllowOnly, ValidPolicies, Integrities
  <2>2. PublicOnly(MinimalPublic)
    BY <2>1, PolicyAssumption DEF PublicOnly
  <2>3. parsed # BadPolicy
    BY <1>3, PolicyAssumption DEF ParseServerGuardPolicy
  <2>4. ServerOverride(s) = [shape |-> "top", policy |-> MinimalPublic]
    BY <1>3, <2>3 DEF ServerOverride
  <2> QED
    BY <2>1, <2>2, <2>4, TopParsed
<1>4. CASE raw[s] # NoPolicy /\ parsed = BadPolicy
  <2>1. raw[s].shape # "unknown"
    BY <1>4, PolicyAssumption DEF ParseServerGuardPolicy
  <2>2. ServerOverride(s) = raw[s]
    BY <1>4, <2>1 DEF ServerOverride
  <2> QED
    BY <1>2, <1>4, <2>2 DEF PolicyType
<1>5. CASE raw[s] # NoPolicy /\ parsed # BadPolicy /\ raw[s].shape = "unknown"
  <2>1. ServerOverride(s) = [shape |-> "top", policy |-> BadPolicy]
    BY <1>5 DEF ServerOverride
  <2> QED
    BY <1>2, <2>1, TopParsed
<1>6. CASE raw[s] # NoPolicy /\ parsed # BadPolicy /\ raw[s].shape # "unknown"
  <2>1. raw[s] \in PolicyMaps
    BY <1>6 DEF PolicyType
  <2>2. parsed # NoPolicy
    <3>1. raw[s].policy # NoPolicy
      BY <2>1, PolicyAssumption DEF PolicyMaps
    <3>2. CASE raw[s].shape \in {"top", "nested"}
      BY <1>6, <3>1, <3>2 DEF ParseServerGuardPolicy
    <3>3. CASE raw[s].shape = "legacy" /\ ~IsAllowOnly(raw[s].policy)
      BY <1>6, <3>1, <3>3 DEF ParseServerGuardPolicy
    <3>4. CASE raw[s].shape = "legacy" /\ IsAllowOnly(raw[s].policy)
      <4>1. raw[s].policy \in [kind : {"allow-only"}, repos : {"all", "public", "scoped"},
                               min : Integrities, fields : SUBSET PolicyFields]
        BY <2>1, <3>4 DEF IsAllowOnly, PolicyMaps, ValidPolicies
      <4>2. [raw[s].policy EXCEPT !.fields = {}] \in ValidPolicies
        BY <4>1 DEF ValidPolicies
      <4> QED
        BY <1>6, <3>4, <4>2, PolicyAssumption DEF ParseServerGuardPolicy
    <3> QED
      BY <1>6, <2>1, <3>2, <3>3, <3>4 DEF PolicyMaps, Shapes
  <2>3. ServerOverride(s) = [shape |-> "top", policy |-> ToPublic(parsed)]
    BY <1>6 DEF ServerOverride
  <2> QED
    BY <1>1, <1>6, <2>2, <2>3, ToPublicIsPublic, TopParsed
<1> QED
  BY <1>3, <1>4, <1>5, <1>6

\* The registration of a server overrides it, and with a policy for all servers
\* the others too.
LEMMA Registration ==
  ASSUME PolicyType, OverriddenInv, NEW s \in Servers, RegisterGuard(s)
  PROVE  /\ global' \in ValidPolicies \cup {NoPolicy}
         /\ raw' \in [Servers -> PolicyMaps \cup {NoPolicy}]
         /\ ForcesPublic =>
              /\ PublicOnly(Resolve(global', raw', s))
              /\ \A t \in Servers \ {s} :
                   PublicOnly(Resolve(global, raw, t)) => PublicOnly(Resolve(global', raw', t))
<1>1. CASE ~ForcesPublic
  BY <1>1 DEF RegisterGuard, PolicyType
<1>2. CASE ForcesPublic /\ global # NoPolicy
  <2>1. global' = ToPublic(global) /\ raw' = raw
    BY <1>2 DEF RegisterGuard, GlobalOverride
  <2>2. global' \in ValidPolicies /\ PublicOnly(global')
    BY <1>2, <2>1, ToPublicIsPublic DEF PolicyType
  <2> QED
    BY <2>1, <2>2 DEF Resolve, PublicOnly, PolicyType
<1>3. CASE ForcesPublic /\ global = NoPolicy
  <2>1. global' = NoPolicy /\ raw' = [raw EXCEPT ![s] = ServerOverride(s)]
    BY <1>3 DEF RegisterGuard
  <2>2. raw'[s] = ServerOverride(s) /\ \A t \in Servers \ {s} : raw'[t] = raw[t]
    BY <2>1 DEF PolicyType
  <2>3. Resolve(global', raw', s) = ParseServerGuardPolicy(ServerOverride(s))
    BY <2>1, <2>2, ServerOverridden DEF Resolve, PublicOnly
  <2>4. \A t \in Servers \ {s} : Resolve(global', raw', t) = Resolve(global, raw, t)
    BY <1>3, <2>1, <2>2 DEF Resolve
  <2> QED
    BY <2>1, <2>3, <2>4, ServerOverridden DEF PolicyType
<1> QED
  BY <1>1, <1>2, <1>3

LEMMA NoopAndWasm ==
  ASSUME NEW k \in {"wasm", "noop"}
  PROVE  Guard(k) \in GuardRecords /\ Guard(k).kind = k /\ Guard(k) # Unregistered
<1>1. Guard(k) \in GuardRecords /\ Guard(k).kind = k
  BY DEF Guard, GuardRecords
<1>2. Unregistered.kind = "unregistered"
  BY DEF Unregistered
<1> QED
  BY <1>1, <1>2

LEMMA SinkRecord ==
  ASSUME NEW v \in {"", "public", "internal", "private"}
  PROVE  LET g == [kind |-> "write-sink", visibility |-> v]
         IN  g \in GuardRecords /\ g # Unregistered /\ g.visibility = v
<1> DEFINE g == [kind |-> "write-sink", visibility |-> v]
<1>1. g \in GuardRecords /\ g.kind = "write-sink" /\ g.visibility = v
  BY DEF GuardRecords
<1>2. Unregistered.kind = "unregistered"
  BY DEF Unregistered
<1>3. g # Unregistered
  BY <1>1, <1>2
<1> QED
  BY <1>1, <1>3

\* Every guard that is chosen is one of the three kinds, and a sink is sealed if
\* the repository is public.
LEMMA Chosen ==
  ASSUME PolicyType, NEW s \in Servers, NEW file, NEW name
  PROVE  /\ ChosenGuard(s, file, name) \in GuardRecords
         /\ ChosenGuard(s, file, name) # Unregistered
         /\ repo = "public" /\ ChosenGuard(s, file, name).kind = "write-sink" =>
              \/ ChosenGuard(s, file, name).visibility = "public"
              \/ /\ ChosenGuard(s, file, name).visibility = ""
                 /\ s \notin SafeOutputs /\ Exempt(s)
<1> DEFINE p == Resolve(global, raw, s)
<1>1. CASE file # "loads" /\ IsWriteSink(p)
  <2>1. p \in [kind : {"write-sink"}, visibility : {"", "public", "internal", "private"}]
    BY <1>1, ResolvedType DEF IsWriteSink, ValidPolicies
  <2>2. ChosenGuard(s, file, name) = SinkGuard(s, p)
    BY <1>1 DEF ChosenGuard
  <2>3. DefaultVisibility(s, p.visibility) \in {"", "public", "internal", "private"}
    BY <2>1 DEF DefaultVisibility
  <2>4. repo = "public" /\ DefaultVisibility(s, p.visibility) = "" =>
          s \notin SafeOutputs /\ Exempt(s)
    BY DEF DefaultVisibility
  <2> DEFINE v == Verified(DefaultVisibility(s, p.visibility))
  <2>5. v \in {"", "public", "internal", "private"}
        /\ (repo = "public" => v \in {"public", DefaultVisibility(s, p.visibility)}
                               /\ (v # "public" => v = ""))
    BY <2>3 DEF Verified
  <2>6. SinkGuard(s, p) = [kind |-> "write-sink", visibility |-> v]
    BY DEF SinkGuard
  <2> HIDE DEF v
  <2>7. /\ SinkGuard(s, p) \in GuardRecords /\ SinkGuard(s, p) # Unregistered
        /\ SinkGuard(s, p).visibility = v
    BY <2>5, <2>6, SinkRecord
  <2> QED
    BY <2>2, <2>4, <2>5, <2>7
<1>2. CASE ~(file # "loads" /\ IsWriteSink(p))
  <2>1. ChosenGuard(s, file, name) \in {Guard("wasm"), Guard("noop")}
    BY <1>2 DEF ChosenGuard
  <2>2. \A k \in {"wasm", "noop"} : /\ Guard(k) \in GuardRecords /\ Guard(k).kind = k
                                    /\ Guard(k) # Unregistered
    BY NoopAndWasm
  <2> QED
    BY <2>1, <2>2
<1> QED
  BY <1>1, <1>2

LEMMA PolicyInvNext == PolicyInv /\ [PolicyNext]_gpvars => PolicyInv'
<1> SUFFICES ASSUME PolicyInv, [PolicyNext]_gpvars PROVE PolicyInv'
  OBVIOUS
<1> USE DEF PolicyInv
<1>1. CASE ResolveOverride
  <2>1. PolicyType'
    BY <1>1, PolicyAssumption DEF ResolveOverride, PolicyType
  <2>2. OverriddenInv'
    BY <1>1 DEF ResolveOverride, OverriddenInv, ForcesPublic
  <2> QED
    BY <1>1, <2>1, <2>2
    DEF ResolveOverride, PublicReadsOnly, PublicSinksSealed, ForcesPublic, Exempt
<1>2. ASSUME NEW s \in Servers, RegisterGuard(s) PROVE PolicyInv'
  <2>1. PICK file \in Files, name \in Names :
          /\ boot = "register" /\ guards[s] = Unregistered
          /\ \/ boot' = "failed" /\ UNCHANGED guards
             \/ /\ guards' = [guards EXCEPT ![s] =
                      IF /\ ChosenGuard(s, file, name).kind # "noop"
                         /\ Resolve(global', raw', s) = NoPolicy /\ raw'[s] = NoPolicy
                        THEN Guard("noop") ELSE ChosenGuard(s, file, name)]
                /\ UNCHANGED boot
    BY <1>2 DEF RegisterGuard
  <2>2. UNCHANGED <<own, repo, force, exempt, enabled, reached>>
    BY <1>2 DEF RegisterGuard
  <2>3. Guard("noop") \in GuardRecords /\ Guard("noop") # Unregistered
        /\ Guard("noop").kind # "write-sink"
    BY NoopAndWasm
  <2>4. \/ UNCHANGED guards
        \/ \E g \in {Guard("noop"), ChosenGuard(s, file, name)} : guards' = [guards EXCEPT ![s] = g]
    BY <2>1
  <2>5. PolicyType'
    <3>1. guards' \in [Servers -> GuardRecords]
      BY <2>3, <2>4, Chosen DEF PolicyType
    <3> QED
      BY <1>2, <2>2, <3>1, Registration DEF PolicyType
  <2>6. PublicReadsOnly'
    BY <2>2 DEF PublicReadsOnly, ForcesPublic
  <2>7. PublicSinksSealed'
    <3>1. \A t \in Servers \ {s} : guards'[t] = guards[t]
      BY <2>4 DEF PolicyType
    <3>2. guards'[s] \in {guards[s], Guard("noop"), ChosenGuard(s, file, name)}
      BY <2>4 DEF PolicyType
    <3> SUFFICES ASSUME repo = "public", NEW t \in Servers, guards'[t].kind = "write-sink"
                 PROVE  \/ guards'[t].visibility = "public"
                        \/ guards'[t].visibility = "" /\ t \notin SafeOutputs /\ Exempt(t)
      BY <2>2 DEF PublicSinksSealed, Exempt
    <3>3. CASE guards'[t] = guards[t]
      BY <3>3 DEF PublicSinksSealed
    <3>4. CASE t = s /\ guards'[t] = ChosenGuard(s, file, name)
      <4>1. repo = "public" /\ ChosenGuard(s, file, name).kind = "write-sink" =>
              \/ ChosenGuard(s, file, name).visibility = "public"
              \/ /\ ChosenGuard(s, file, name).visibility = ""
                 /\ s \notin SafeOutputs /\ Exempt(s)
        BY Chosen
      <4> QED
        BY <3>4, <4>1, Zenon
    <3> QED
      BY <2>3, <3>1, <3>2, <3>3, <3>4
  <2>8. OverriddenInv'
    <3>1. CASE boot' = "failed"
      BY <3>1 DEF OverriddenInv
    <3>2. CASE boot' = "register"
      <4> SUFFICES ASSUME ForcesPublic, NEW t \in Servers, guards'[t] # Unregistered
                   PROVE  PublicOnly(Resolve(global', raw', t))
        BY <2>2, <3>2 DEF OverriddenInv, ForcesPublic, Resolve
      <4>1. t # s => guards'[t] = guards[t]
        BY <2>4 DEF PolicyType
      <4> QED
        BY <1>2, <2>1, <4>1, Registration DEF OverriddenInv
    <3> QED
      BY <2>1, <3>1, <3>2
  <2> QED
    BY <2>5, <2>6, <2>7, <2>8
<1>3. CASE EnableDIFC
  BY <1>3
  DEF EnableDIFC, PolicyType, OverriddenInv, Resolve, PublicReadsOnly, PublicSinksSealed,
      ForcesPublic, Exempt
<1>4. ASSUME NEW s \in Servers, LabelAgent(s) PROVE PolicyInv'
  <2>1. UNCHANGED <<global, raw, own, repo, force, exempt, guards, boot>> /\ boot = "up"
    BY <1>4 DEF LabelAgent
  <2>2. PICK q \in {Resolve(global, raw, s), BadPolicy} : reached' = [reached EXCEPT ![s] = q]
    BY <1>4 DEF LabelAgent
  <2>3. PolicyType'
    BY <2>1, <2>2, ResolvedType DEF PolicyType
  <2>4. ForcesPublic => (IsAllowOnly(q) => q.repos = "public")
    BY <2>1 DEF OverriddenInv, PublicOnly, IsAllowOnly
  <2>5. PublicReadsOnly'
    BY <2>1, <2>2, <2>4 DEF PublicReadsOnly, ForcesPublic, PolicyType
  <2> QED
    BY <2>1, <2>3, <2>5 DEF OverriddenInv, Resolve, PublicSinksSealed, ForcesPublic, Exempt
<1>5. CASE UNCHANGED gpvars
  BY <1>5
  DEF gpvars, PolicyType, OverriddenInv, Resolve, PublicReadsOnly, PublicSinksSealed,
      ForcesPublic, Exempt
<1> QED
  BY <1>1, <1>2, <1>3, <1>4, <1>5 DEF PolicyNext

LEMMA PolicyInvariant == PolicySpec => []PolicyInv
  BY PolicyInvInit, PolicyInvNext, PTL DEF PolicySpec

\* PublicReadsOnly: for any servers and any valid policies, wherever they were
\* written and in whatever shape (overrideToPublicScope, resolveGuardPolicy).
THEOREM PublicScopesHold == PolicySpec => []PublicReadsOnly
  BY PolicyInvariant, PTL DEF PolicyInv

\* PublicSinksSealed: the same of write sinks (registerGuard, and the check of a
\* declared visibility against the repository).
THEOREM SinksAreSealed == PolicySpec => []PublicSinksSealed
  BY PolicyInvariant, PTL DEF PolicyInv

-----------------------------------------------------------------------------
(* The configuration (Config). *)

\* An optional value that is given does not depend on the default.
LEMMA Values ==
  /\ \A o, d, e : o # {} => Value(o, d) = Value(o, e) /\ Value(o, d) \in o
  /\ \A d : Value({}, d) = d
<1>1. ASSUME NEW o, NEW d, NEW e, o # {} PROVE Value(o, d) = Value(o, e) /\ Value(o, d) \in o
  <2>1. PICK v : v \in o
    BY <1>1
  <2>2. (CHOOSE w \in o : TRUE) \in o
    BY <2>1
  <2> QED
    BY <1>1, <2>2 DEF Value
<1>2. \A d : Value({}, d) = d
  BY DEF Value
<1> QED
  BY <1>1, <1>2

\* A gateway section is a record of these fields.
GatewayFields == {"port", "agentID", "startup", "tool", "keepalive", "threshold", "bots", "force",
                  "exempt", "tracing"}
IsGateway(g) == g = [f \in GatewayFields |-> g[f]]

\* What the defaults do to a gateway section, field by field.
LEMMA Defaulted ==
  ASSUME NEW g, IsGateway(g)
  PROVE  LET d == ApplyDefaults(g)
         IN /\ IsGateway(d)
            /\ d.port = OrElse(g.port, DefaultPort)
            /\ d.startup = OrElse(g.startup, DefaultStartupTimeout)
            /\ d.tool = OrElse(g.tool, DefaultToolTimeout)
            /\ d.keepalive = OrElse(g.keepalive, DefaultKeepaliveInterval)
            /\ d.threshold = OrElse(g.threshold, DefaultPayloadSizeThreshold)
            /\ \A f \in GatewayFields \ {"port", "startup", "tool", "keepalive", "threshold"} :
                 d[f] = g[f]
  BY DEF ApplyDefaults, GatewayFields, IsGateway

\* What either format makes of the gateway section, field by field.
LEMMA Sections ==
  ASSUME NEW g
  PROVE  LET t == GatewayConfig(g)
             j == StdinGateway(g)
         IN /\ IsGateway(t)
            /\ IsGateway(j)
            /\ \A f \in GatewayFields \ {"startup", "tool", "keepalive", "threshold"} : j[f] = t[f]
            /\ t.port = Value(g.port, 0)
            /\ t.startup = Value(g.startup, 0) /\ t.tool = Value(g.tool, 0)
            /\ t.keepalive = Value(g.keepalive, 0) /\ t.threshold = Value(g.threshold, 0)
            /\ j.startup = Value(g.startup, DefaultStartupTimeout)
            /\ j.tool = Value(g.tool, ToolTimeoutEnvOrDefault)
            /\ j.keepalive = Value(g.keepalive, DefaultKeepaliveInterval)
            /\ j.threshold = Value(g.threshold, DefaultPayloadSizeThreshold)
  BY DEF GatewayConfig, StdinGateway, GatewayFields, IsGateway

\* It does not matter whether a default is applied early, late or twice.
LEMMA OneDefault ==
  ASSUME NEW o, NEW d, d \in Nat \ {0}
  PROVE  /\ OrElse(OrElse(Value(o, 0), d), d) = OrElse(Value(o, d), d)
         /\ \A n : OrElse(OrElse(n, d), d) # 0 /\ OrElse(n, d) # 0
  BY Values DEF OrElse

\* Both formats end with the same gateway section, but for a tool timeout that only
\* the environment gives.
LEMMA GatewaysAgree ==
  ASSUME NEW g
  PROVE  LET t == ApplyDefaults(ApplyDefaults(GatewayConfig(g)))
             j == ApplyDefaults(StdinGateway(g))
         IN /\ [t EXCEPT !.tool = 0] = [j EXCEPT !.tool = 0]
            /\ g.tool # {} => t.tool = j.tool
<1> DEFINE t0 == GatewayConfig(g)
           t1 == ApplyDefaults(t0)
           t == ApplyDefaults(t1)
           j0 == StdinGateway(g)
           j == ApplyDefaults(j0)
<1>1. IsGateway(t0) /\ IsGateway(j0)
  BY Sections
<1>2. IsGateway(t1)
  BY <1>1, Defaulted
<1>3. IsGateway(t) /\ IsGateway(j)
  BY <1>1, <1>2, Defaulted
<1>4. /\ t1.port = OrElse(t0.port, DefaultPort)
      /\ t1.startup = OrElse(t0.startup, DefaultStartupTimeout)
      /\ t1.tool = OrElse(t0.tool, DefaultToolTimeout)
      /\ t1.keepalive = OrElse(t0.keepalive, DefaultKeepaliveInterval)
      /\ t1.threshold = OrElse(t0.threshold, DefaultPayloadSizeThreshold)
      /\ \A f \in GatewayFields \ {"port", "startup", "tool", "keepalive", "threshold"} :
           t1[f] = t0[f]
  BY <1>1, Defaulted
<1>5. /\ t.port = OrElse(t1.port, DefaultPort)
      /\ t.startup = OrElse(t1.startup, DefaultStartupTimeout)
      /\ t.tool = OrElse(t1.tool, DefaultToolTimeout)
      /\ t.keepalive = OrElse(t1.keepalive, DefaultKeepaliveInterval)
      /\ t.threshold = OrElse(t1.threshold, DefaultPayloadSizeThreshold)
      /\ \A f \in GatewayFields \ {"port", "startup", "tool", "keepalive", "threshold"} :
           t[f] = t1[f]
  BY <1>2, Defaulted
<1>6. /\ j.port = OrElse(j0.port, DefaultPort)
      /\ j.startup = OrElse(j0.startup, DefaultStartupTimeout)
      /\ j.tool = OrElse(j0.tool, DefaultToolTimeout)
      /\ j.keepalive = OrElse(j0.keepalive, DefaultKeepaliveInterval)
      /\ j.threshold = OrElse(j0.threshold, DefaultPayloadSizeThreshold)
      /\ \A f \in GatewayFields \ {"port", "startup", "tool", "keepalive", "threshold"} :
           j[f] = j0[f]
  BY <1>1, Defaulted
<1>7. /\ \A f \in GatewayFields \ {"startup", "tool", "keepalive", "threshold"} : j0[f] = t0[f]
      /\ t0.port = Value(g.port, 0)
      /\ t0.startup = Value(g.startup, 0) /\ t0.tool = Value(g.tool, 0)
      /\ t0.keepalive = Value(g.keepalive, 0) /\ t0.threshold = Value(g.threshold, 0)
      /\ j0.startup = Value(g.startup, DefaultStartupTimeout)
      /\ j0.tool = Value(g.tool, ToolTimeoutEnvOrDefault)
      /\ j0.keepalive = Value(g.keepalive, DefaultKeepaliveInterval)
      /\ j0.threshold = Value(g.threshold, DefaultPayloadSizeThreshold)
  BY Sections
<1> HIDE DEF t0, t1, t, j0, j
<1>8. /\ DefaultPort \in Nat \ {0} /\ DefaultStartupTimeout \in Nat \ {0}
      /\ DefaultToolTimeout \in Nat \ {0} /\ DefaultKeepaliveInterval \in Nat \ {0}
      /\ DefaultPayloadSizeThreshold \in Nat \ {0}
  BY DEF DefaultPort, DefaultStartupTimeout, DefaultToolTimeout, DefaultKeepaliveInterval,
         DefaultPayloadSizeThreshold
<1>9. /\ t.startup = j.startup /\ t.keepalive = j.keepalive /\ t.threshold = j.threshold
  BY <1>4, <1>5, <1>6, <1>7, <1>8, OneDefault
<1>10. t.port = j.port
  BY <1>4, <1>5, <1>6, <1>7, <1>8 DEF OrElse, GatewayFields
<1>11. \A f \in GatewayFields \ {"port", "startup", "tool", "keepalive", "threshold"} : t[f] = j[f]
  BY <1>4, <1>5, <1>6, <1>7
<1>12. g.tool # {} => t.tool = j.tool
  BY <1>4, <1>5, <1>6, <1>7, <1>8, Values DEF OrElse
<1>13. \A f \in GatewayFields : f # "tool" => t[f] = j[f]
  BY <1>9, <1>10, <1>11
<1>14. [t EXCEPT !.tool = 0] = [j EXCEPT !.tool = 0]
  <2>1. /\ [t EXCEPT !.tool = 0] = [f \in GatewayFields |-> IF f = "tool" THEN 0 ELSE t[f]]
        /\ [j EXCEPT !.tool = 0] = [f \in GatewayFields |-> IF f = "tool" THEN 0 ELSE j[f]]
    BY <1>3 DEF IsGateway
  <2> QED
    BY <1>13, <2>1
<1> QED
  BY <1>12, <1>14 DEF t0, t1, t, j0, j

-----------------------------------------------------------------------------
ServerFields == {"type", "image", "env", "auth", "audience", "tools", "guard", "policies",
                 "tool"}

\* Both formats read a server the same, but for the environment.
LEMMA ServersAgree ==
  ASSUME NEW s, ~IsCustom(s), AuthAccepted(s), s.auth = {} => s.audience = {}
  PROVE  [Used(TOMLServer(s)) EXCEPT !.env = {}] =
         [Used(StdinServer(s)) EXCEPT !.env = {}]
<1> DEFINE t == Used(TOMLServer(s))
           j == Used(StdinServer(s))
<1>1. /\ t = [f \in ServerFields |-> t[f]]
      /\ t.type = NormalizeServerType(s.type) /\ t.auth = s.auth
      /\ t.audience = IF s.auth # {} /\ s.audience = {} THEN {"url"} ELSE s.audience
      /\ t.image = (IF s.type = "http" THEN {} ELSE s.container)
      /\ t.tools = s.tools /\ t.guard = s.guard /\ t.policies = s.policies
      /\ t.tool = Value(s.tool, 0)
  BY DEF Used, TOMLServer, ServerFields
<1>2. ~IsStdioServerType("http") /\ IsStdioServerType("stdio")
  BY Zenon DEF IsStdioServerType, Blank
<1>3. CASE s.type = "http"
  <2>1. /\ j = [f \in ServerFields |-> j[f]]
        /\ j.type = NormalizeServerType("http") /\ j.auth = s.auth /\ j.image = {}
        /\ j.audience = IF s.auth # {} /\ s.audience = {} THEN {"url"} ELSE s.audience
        /\ j.tools = s.tools /\ j.guard = s.guard /\ j.policies = s.policies
        /\ j.tool = Value(s.tool, 0)
    BY <1>3 DEF Used, StdinServer, HTTPServer, ServerFields
  <2> QED
    BY <1>1, <1>3, <2>1 DEF ServerFields
<1>4. CASE s.type # "http"
  <2>1. /\ j = [f \in ServerFields |-> j[f]]
        /\ j.type = NormalizeServerType("stdio") /\ j.auth = {} /\ j.audience = {}
        /\ j.image = s.container
        /\ j.tools = s.tools /\ j.guard = s.guard /\ j.policies = s.policies
        /\ j.tool = Value(s.tool, 0)
    BY <1>4 DEF Used, StdinServer, StdioServer, ServerFields
  <2>2. s.auth = {} /\ s.audience = {}
    BY <1>4 DEF AuthAccepted
  <2>3. NormalizeServerType(s.type) = "stdio" /\ NormalizeServerType("stdio") = "stdio"
    BY <1>2, <1>4 DEF IsCustom, NormalizeServerType
  <2> QED
    BY <1>1, <1>4, <2>1, <2>2, <2>3 DEF ServerFields
<1> QED
  BY <1>3, <1>4

-----------------------------------------------------------------------------
Stages == {"reading", "refused", "converting", "fetching", "loaded", "launched"}
Holds(f) == config[f] = {LoadedConfig(f)}

PortGiven == source.gateway.port # {} /\ Within(source.gateway.port, Port)

FileChecked ==
  /\ ValidateTOMLStdioContainerization /\ ValidateGuardPolicies
  /\ \A n \in ServerNames : AuthAccepted(source.servers[n])
  /\ Within(source.gateway.port, Port)

ServerChecked(s) == s.type = "http" => AuthAccepted(s)

TomlBuilt(c) ==
  /\ c = [servers |-> c.servers, gateway |-> c.gateway, guards |-> source.guards]
  /\ DOMAIN c.servers = ServerNames
  /\ \A n \in ServerNames : c.servers[n] = TOMLServer(source.servers[n])

StdinBuilt(c, done) ==
  /\ c = [servers |-> c.servers, gateway |-> c.gateway, guards |-> c.guards]
  /\ DOMAIN c.servers = done
  /\ \A n \in done :
       c.servers[n] = StdinServer(source.servers[n]) /\ ServerChecked(source.servers[n])

FileInv ==
  stage["toml"] \in {"loaded", "launched"} =>
    /\ FileChecked /\ Holds("toml") /\ TomlBuilt(LoadedConfig("toml"))
    /\ LoadedConfig("toml").gateway =
         LET read == ApplyDefaults(GatewayConfig(source.gateway))
         IN IF Launched("toml") THEN ApplyDefaults(read) ELSE read

StdinInv ==
  stage["json"] \in {"converting", "fetching", "loaded", "launched"} =>
    /\ PortGiven /\ Holds("json") /\ left \subseteq ServerNames
    /\ StdinBuilt(LoadedConfig("json"), ServerNames \ left)
    /\ LoadedConfig("json").gateway =
         LET read == StdinGateway(source.gateway)
         IN IF Launched("json") THEN ApplyDefaults(read) ELSE read
    /\ stage["json"] \in {"loaded", "launched"} =>
         left = {} /\ ValidateGuardPolicies /\ LoadedConfig("json").guards = source.guards

\* Each loader's part depends on the source and on its own progress only.
ConfigInv ==
  /\ source \in Sources
  /\ stage \in [Formats -> Stages] /\ config = [f \in Formats |-> config[f]]
  /\ FileInv /\ StdinInv

\* What is held is the one loaded configuration.
LEMMA OneHeld ==
  ASSUME NEW f, NEW c, config[f] = {c}
  PROVE  LoadedConfig(f) = c /\ Holds(f)
  BY DEF LoadedConfig, Holds

\* What a loader reads depends on the source and the environment only.
LEMMA SameReading ==
  ASSUME UNCHANGED <<source, env>>
  PROVE  /\ \A g : GatewayConfig(g)' = GatewayConfig(g) /\ StdinGateway(g)' = StdinGateway(g)
         /\ \A s : StdinServer(s)' = StdinServer(s) /\ (AuthAccepted(s)' <=> AuthAccepted(s))
<1>1. \A v : ExpandVariables(v)' = ExpandVariables(v)
  BY DEF ExpandVariables
<1>2. \A o : Expanded(o)' = Expanded(o)
  BY <1>1 DEF Expanded
<1>3. \A o : Tracing(o)' = Tracing(o)
  BY <1>2 DEF Tracing
<1>4. \A g : GatewayConfig(g)' = GatewayConfig(g)
  BY <1>3 DEF GatewayConfig
<1>5. ToolTimeoutEnvOrDefault' = ToolTimeoutEnvOrDefault
  BY DEF ToolTimeoutEnvOrDefault
<1>6. \A g : StdinGateway(g)' = StdinGateway(g)
  BY <1>4, <1>5 DEF StdinGateway
<1>7. \A s : HTTPServer(s)' = HTTPServer(s) /\ StdioServer(s)' = StdioServer(s)
  BY <1>2 DEF HTTPServer, StdioServer
<1>8. \A s : StdinServer(s)' = StdinServer(s)
  BY <1>7 DEF StdinServer
<1>9. \A s : AuthAccepted(s)' <=> AuthAccepted(s)
  BY DEF AuthAccepted
<1> QED
  BY <1>4, <1>6, <1>8, <1>9

\* And so do the checks it makes.
LEMMA SameChecks ==
  ASSUME UNCHANGED <<source, env>>
  PROVE  /\ FileChecked' <=> FileChecked
         /\ \A s : ServerChecked(s)' <=> ServerChecked(s)
         /\ PortGiven' <=> PortGiven
         /\ ValidateGuardPolicies' <=> ValidateGuardPolicies
         /\ \A c : TomlBuilt(c)' <=> TomlBuilt(c)
         /\ \A c, done : StdinBuilt(c, done)' <=> StdinBuilt(c, done)
<1>1. \A s : ServerChecked(s)' <=> ServerChecked(s)
  BY SameReading DEF ServerChecked
<1>2. ValidateGuardPolicies' <=> ValidateGuardPolicies
  BY DEF ValidateGuardPolicies
<1>3. FileChecked' <=> FileChecked
  BY <1>2, SameReading DEF FileChecked, ValidateTOMLStdioContainerization
<1>4. PortGiven' <=> PortGiven
  BY DEF PortGiven
<1>5. \A c : TomlBuilt(c)' <=> TomlBuilt(c)
  BY DEF TomlBuilt
<1>6. \A c, done : StdinBuilt(c, done)' <=> StdinBuilt(c, done)
  BY <1>1, SameReading DEF StdinBuilt
<1> QED
  BY <1>1, <1>2, <1>3, <1>4, <1>5, <1>6

\* A step of one loader leaves what holds of the other.
LEMMA OtherFile ==
  ASSUME FileInv, UNCHANGED <<source, env>>, stage'["toml"] = stage["toml"],
         config'["toml"] = config["toml"]
  PROVE  FileInv'
<1>1. LoadedConfig("toml")' = LoadedConfig("toml") /\ (Holds("toml")' <=> Holds("toml"))
      /\ (Launched("toml")' <=> Launched("toml"))
  BY DEF LoadedConfig, Holds, Launched
<1> QED
  BY <1>1, SameReading, SameChecks DEF FileInv

\* The same, the other way round.
LEMMA OtherStdin ==
  ASSUME StdinInv, UNCHANGED <<source, env, left>>, stage'["json"] = stage["json"],
         config'["json"] = config["json"]
  PROVE  StdinInv'
<1>1. LoadedConfig("json")' = LoadedConfig("json") /\ (Holds("json")' <=> Holds("json"))
      /\ (Launched("json")' <=> Launched("json"))
  BY DEF LoadedConfig, Holds, Launched
<1> QED
  BY <1>1, SameReading, SameChecks DEF StdinInv

\* Nothing is loaded at the start.
LEMMA ConfigInvInit == ConfigInit => ConfigInv
  BY DEF ConfigInit, ConfigInv, FileInv, StdinInv, Formats, Stages

\* The TOML loader reads, checks and defaults in one step.
LEMMA FileStep == ConfigInv /\ LoadFromFile => ConfigInv'
<1> SUFFICES ASSUME ConfigInv, LoadFromFile PROVE ConfigInv'
  OBVIOUS
<1>1. /\ UNCHANGED <<source, env, left>> /\ stage["toml"] = "reading"
      /\ source \in Sources /\ FileInv /\ StdinInv
      /\ stage \in [Formats -> Stages] /\ config = [f \in Formats |-> config[f]]
  BY DEF LoadFromFile, ConfigInv
<1> DEFINE built == [servers |-> [n \in ServerNames |-> TOMLServer(source.servers[n])],
                    gateway |-> ApplyDefaults(GatewayConfig(source.gateway)),
                    guards |-> source.guards]
<1>2. CASE /\ FileAccepted
           /\ stage' = [stage EXCEPT !["toml"] = "loaded"]
           /\ config' = [config EXCEPT !["toml"] = {built}]
  <2>1. /\ stage' \in [Formats -> Stages] /\ config' = [f \in Formats |-> config'[f]]
        /\ stage'["toml"] = "loaded" /\ stage'["json"] = stage["json"]
        /\ config'["toml"] = {built} /\ config'["json"] = config["json"]
    BY <1>1, <1>2 DEF Formats, Stages
  <2>2. LoadedConfig("toml")' = built /\ Holds("toml")'
    BY <2>1 DEF LoadedConfig, Holds
  <2>3. TomlBuilt(built)
    BY DEF TomlBuilt
  <2>4. FileChecked
    BY <1>2 DEF FileAccepted, FileChecked, ValidateCommonServerFields
  <2>5. ~Launched("toml")'
    BY <2>1 DEF Launched
  <2>6. built.gateway = ApplyDefaults(GatewayConfig(source.gateway))
    OBVIOUS
  <2> HIDE DEF built
  <2>7. FileInv'
    BY <1>1, <2>2, <2>3, <2>4, <2>5, <2>6, SameReading, SameChecks DEF FileInv
  <2>8. StdinInv'
    BY <1>1, <2>1, OtherStdin
  <2> QED
    BY <1>1, <2>1, <2>7, <2>8 DEF ConfigInv
<1>3. CASE stage' = [stage EXCEPT !["toml"] = "refused"] /\ UNCHANGED config
  <2>1. /\ stage' \in [Formats -> Stages]
        /\ stage'["toml"] = "refused" /\ stage'["json"] = stage["json"]
    BY <1>1, <1>3 DEF Formats, Stages
  <2>2. FileInv'
    BY <2>1 DEF FileInv
  <2>3. StdinInv'
    BY <1>1, <1>3, <2>1, OtherStdin
  <2> QED
    BY <1>1, <1>3, <2>1, <2>2, <2>3 DEF ConfigInv
<1> QED
  BY <1>2, <1>3 DEF LoadFromFile

\* What a step of the JSON loader leaves alone.
LEMMA StdinOnly ==
  ASSUME ConfigInv, NEW st, NEW cs, st \in Stages, UNCHANGED <<source, env>>,
         stage' = [stage EXCEPT !["json"] = st],
         config' = [config EXCEPT !["json"] = cs]
  PROVE  /\ source' \in Sources /\ stage' \in [Formats -> Stages]
         /\ config' = [f \in Formats |-> config'[f]] /\ FileInv'
         /\ stage'["json"] = st /\ config'["json"] = cs
<1>1. /\ source \in Sources /\ FileInv
      /\ stage \in [Formats -> Stages] /\ config = [f \in Formats |-> config[f]]
  BY DEF ConfigInv
<1>2. /\ stage' \in [Formats -> Stages] /\ config' = [f \in Formats |-> config'[f]]
      /\ stage'["json"] = st /\ stage'["toml"] = stage["toml"]
      /\ config'["json"] = cs /\ config'["toml"] = config["toml"]
  BY <1>1 DEF Formats
<1> QED
  BY <1>1, <1>2, OtherFile

\* The JSON loader refuses.
LEMMA RejectStep ==
  ASSUME ConfigInv, Reject PROVE ConfigInv'
<1>1. /\ UNCHANGED <<source, env>> /\ stage' = [stage EXCEPT !["json"] = "refused"]
      /\ config' = [config EXCEPT !["json"] = config["json"]]
  BY DEF Reject, ConfigInv
<1>2. "refused" \in Stages
  BY DEF Stages
<1>3. /\ source' \in Sources /\ stage' \in [Formats -> Stages]
      /\ config' = [f \in Formats |-> config'[f]] /\ FileInv' /\ stage'["json"] = "refused"
  BY <1>1, <1>2, StdinOnly
<1>4. StdinInv'
  BY <1>3 DEF StdinInv
<1> QED
  BY <1>3, <1>4 DEF ConfigInv

\* The JSON loader takes one more server.
LEMMA AcceptStep ==
  ASSUME ConfigInv, NEW n \in left, Accept(n), ServerChecked(source.servers[n]),
         stage["json"] \in {"converting", "fetching"}
  PROVE  ConfigInv'
<1> DEFINE s == source.servers[n]
           c == LoadedConfig("json")
           add == [m \in DOMAIN c.servers \cup {n} |->
                     IF m = n THEN StdinServer(s) ELSE c.servers[m]]
           d == [c EXCEPT !.servers = add]
<1>1. CASE ~TwiceExpandable(s)
  BY <1>1, RejectStep DEF Accept
<1>2. CASE TwiceExpandable(s)
  <2>1. /\ UNCHANGED <<source, env>> /\ stage' = [stage EXCEPT !["json"] = "converting"]
        /\ config' = [config EXCEPT !["json"] = {d}] /\ left' = left \ {n}
    BY <1>2 DEF Accept, Converted, LoadedConfig
  <2>2. "converting" \in Stages
    BY DEF Stages
  <2>3. /\ source' \in Sources /\ stage' \in [Formats -> Stages]
        /\ config' = [f \in Formats |-> config'[f]] /\ FileInv'
        /\ stage'["json"] = "converting" /\ config'["json"] = {d}
    BY <2>1, <2>2, StdinOnly
  <2>4. /\ PortGiven /\ left \subseteq ServerNames /\ StdinBuilt(c, ServerNames \ left)
        /\ c.gateway = StdinGateway(source.gateway)
    BY DEF ConfigInv, StdinInv, Launched
  <2>5. LoadedConfig("json")' = d /\ Holds("json")'
    BY <2>3 DEF LoadedConfig, Holds
  <2>6. /\ d = [servers |-> d.servers, gateway |-> d.gateway, guards |-> d.guards]
        /\ d.gateway = c.gateway /\ d.servers = add
    BY <2>4 DEF StdinBuilt
  <2>7. DOMAIN add = ServerNames \ left'
    BY <2>1, <2>4 DEF StdinBuilt
  <2>8. \A m \in ServerNames \ left' :
          add[m] = StdinServer(source.servers[m]) /\ ServerChecked(source.servers[m])
    BY <2>1, <2>4, <2>7 DEF StdinBuilt
  <2>9. StdinBuilt(d, ServerNames \ left')
    BY <2>6, <2>7, <2>8 DEF StdinBuilt
  <2>10. d.gateway = StdinGateway(source.gateway)
    BY <2>4, <2>6
  <2>11. ~Launched("json")'
    BY <2>3 DEF Launched
  <2> HIDE DEF d
  <2>12. StdinInv'
    BY <2>1, <2>3, <2>4, <2>5, <2>9, <2>10, <2>11, SameReading, SameChecks DEF StdinInv
  <2> QED
    BY <2>3, <2>12 DEF ConfigInv
<1> QED
  BY <1>1, <1>2

\* The JSON loader reads its input and checks the gateway section.
LEMMA ReadStep == ConfigInv /\ ReadStdin => ConfigInv'
<1> SUFFICES ASSUME ConfigInv, ReadStdin PROVE ConfigInv'
  OBVIOUS
<1> DEFINE read == [servers |-> <<>>, gateway |-> StdinGateway(source.gateway), guards |-> {}]
<1>1. UNCHANGED <<source, env>>
  BY DEF ReadStdin
<1>2. CASE /\ StdinAccepted
           /\ stage' = [stage EXCEPT !["json"] = "converting"]
           /\ config' = [config EXCEPT !["json"] = {read}]
           /\ left' = ServerNames
  <2>1. "converting" \in Stages
    BY DEF Stages
  <2>2. /\ source' \in Sources /\ stage' \in [Formats -> Stages]
        /\ config' = [f \in Formats |-> config'[f]] /\ FileInv'
        /\ stage'["json"] = "converting" /\ config'["json"] = {read}
    BY <1>1, <1>2, <2>1, StdinOnly
  <2>3. LoadedConfig("json")' = read /\ Holds("json")'
    BY <2>2 DEF LoadedConfig, Holds
  <2>4. DOMAIN read.servers = {}
    OBVIOUS
  <2>5. read.gateway = StdinGateway(source.gateway) /\ StdinBuilt(read, ServerNames \ left')
    BY <1>2, <2>4 DEF StdinBuilt
  <2>6. PortGiven
    BY <1>2 DEF StdinAccepted, ValidateJSONSchema, SchemaAcceptsGateway, PortGiven
  <2>7. ~Launched("json")'
    BY <2>2 DEF Launched
  <2> HIDE DEF read
  <2>8. StdinInv'
    BY <1>1, <1>2, <2>2, <2>3, <2>5, <2>6, <2>7, SameReading, SameChecks DEF StdinInv
  <2> QED
    BY <2>2, <2>8 DEF ConfigInv
<1>3. CASE stage' = [stage EXCEPT !["json"] = "refused"] /\ UNCHANGED <<config, left>>
  <2>1. config' = [config EXCEPT !["json"] = config["json"]] /\ "refused" \in Stages
    BY <1>3 DEF ConfigInv, Stages
  <2>2. /\ source' \in Sources /\ stage' \in [Formats -> Stages]
        /\ config' = [f \in Formats |-> config'[f]] /\ FileInv' /\ stage'["json"] = "refused"
    BY <1>1, <1>3, <2>1, StdinOnly
  <2> QED
    BY <2>2 DEF ConfigInv, StdinInv
<1> QED
  BY <1>2, <1>3 DEF ReadStdin

\* One server is converted, whether its type is known or its schema was fetched.
LEMMA ConvertStep ==
  ASSUME ConfigInv, NEW n \in ServerNames,
         ConvertStandard(n) \/ ConvertCustom(n) \/ FetchSucceeds(n)
  PROVE  ConfigInv'
<1> DEFINE s == source.servers[n]
<1>1. CASE ConvertStandard(n)
  <2>1. ValidateStandardServerConfig(s) => ServerChecked(s)
    BY DEF ValidateStandardServerConfig, ValidateCommonServerFields, ServerChecked
  <2> QED
    BY <1>1, <2>1, AcceptStep, RejectStep DEF ConvertStandard
<1>2. IsCustom(s) => ServerChecked(s)
  <2>1. ~IsStdioServerType("http")
    BY Zenon DEF IsStdioServerType, Blank
  <2> QED
    BY <2>1 DEF IsCustom, NormalizeServerType, ServerChecked
<1>3. CASE FetchSucceeds(n)
  BY <1>2, <1>3, AcceptStep, RejectStep DEF FetchSucceeds
<1>4. CASE ConvertCustom(n)
  <2>1. CASE Accept(n) \/ Reject
    BY <1>2, <1>4, <2>1, AcceptStep, RejectStep DEF ConvertCustom
  <2>2. CASE /\ stage' = [stage EXCEPT !["json"] = "fetching"]
             /\ UNCHANGED <<source, env, config, left>>
    <3>1. config' = [config EXCEPT !["json"] = config["json"]] /\ "fetching" \in Stages
      BY <2>2 DEF ConfigInv, Stages
    <3>2. /\ source' \in Sources /\ stage' \in [Formats -> Stages]
          /\ config' = [f \in Formats |-> config'[f]] /\ FileInv' /\ stage'["json"] = "fetching"
      BY <2>2, <3>1, StdinOnly
    <3>3. stage["json"] = "converting" /\ StdinInv
      BY <1>4 DEF ConvertCustom, ConfigInv
    <3>4. LoadedConfig("json")' = LoadedConfig("json") /\ (Holds("json")' <=> Holds("json"))
      BY <2>2 DEF LoadedConfig, Holds
    <3>5. ~Launched("json") /\ ~Launched("json")'
      BY <3>2, <3>3 DEF Launched
    <3>6. StdinInv'
      BY <2>2, <3>2, <3>3, <3>4, <3>5, SameReading, SameChecks DEF StdinInv
    <3> QED
      BY <3>2, <3>6 DEF ConfigInv
  <2> QED
    BY <1>4, <2>1, <2>2 DEF ConvertCustom
<1> QED
  BY <1>1, <1>3, <1>4

\* The JSON loader has every server and applies the defaults.
LEMMA FinishStep == ConfigInv /\ FinishStdin => ConfigInv'
<1> SUFFICES ASSUME ConfigInv, FinishStdin PROVE ConfigInv'
  OBVIOUS
<1> DEFINE c == LoadedConfig("json")
           d == [c EXCEPT !.guards = source.guards]
           st == IF ValidateGuardPolicies THEN "loaded" ELSE "refused"
<1>1. /\ UNCHANGED <<source, env, left>> /\ left = {} /\ stage["json"] = "converting"
      /\ stage' = [stage EXCEPT !["json"] = st] /\ config' = [config EXCEPT !["json"] = {d}]
  BY DEF FinishStdin, Converted, LoadedConfig
<1>2. st \in Stages
  BY DEF Stages
<1>3. /\ source' \in Sources /\ stage' \in [Formats -> Stages]
      /\ config' = [f \in Formats |-> config'[f]] /\ FileInv'
      /\ stage'["json"] = st /\ config'["json"] = {d}
  BY <1>1, <1>2, StdinOnly
<1>4. /\ PortGiven /\ left \subseteq ServerNames /\ StdinBuilt(c, ServerNames \ left)
      /\ c.gateway = StdinGateway(source.gateway)
  BY <1>1 DEF ConfigInv, StdinInv, Launched
<1>5. LoadedConfig("json")' = d /\ Holds("json")'
  BY <1>3 DEF LoadedConfig, Holds
<1>6. /\ d = [servers |-> d.servers, gateway |-> d.gateway, guards |-> d.guards]
      /\ d.gateway = c.gateway /\ d.servers = c.servers /\ d.guards = source.guards
  BY <1>4 DEF StdinBuilt
<1>7. StdinBuilt(d, ServerNames \ left)
  BY <1>4, <1>6 DEF StdinBuilt
<1>8. ~Launched("json")'
  BY <1>3 DEF Launched
<1> HIDE DEF d
<1>9. StdinInv'
  BY <1>1, <1>3, <1>4, <1>5, <1>6, <1>7, <1>8, SameReading, SameChecks DEF StdinInv
<1> QED
  BY <1>3, <1>9 DEF ConfigInv

\* The launcher applies the defaults once more.
LEMMA LaunchStep == \A f \in Formats : ConfigInv /\ NewLauncher(f) => ConfigInv'
<1> SUFFICES ASSUME NEW f \in Formats, ConfigInv, NewLauncher(f) PROVE ConfigInv'
  OBVIOUS
<1> DEFINE c == LoadedConfig(f)
           d == [c EXCEPT !.gateway = ApplyDefaults(@)]
<1>1. /\ UNCHANGED <<source, env, left>> /\ stage[f] = "loaded"
      /\ stage' = [stage EXCEPT ![f] = "launched"]
      /\ config' = [config EXCEPT ![f] = {[e EXCEPT !.gateway = ApplyDefaults(@)] : e \in config[f]}]
      /\ source \in Sources /\ FileInv /\ StdinInv
      /\ stage \in [Formats -> Stages] /\ config = [g \in Formats |-> config[g]]
  BY DEF NewLauncher, ConfigInv
<1>2. config[f] = {c}
  BY <1>1 DEF FileInv, StdinInv, Formats, Holds
<1>3. /\ stage' \in [Formats -> Stages] /\ config' = [g \in Formats |-> config'[g]]
      /\ stage'[f] = "launched" /\ config'[f] = {d}
      /\ \A g \in Formats \ {f} : stage'[g] = stage[g] /\ config'[g] = config[g]
  BY <1>1, <1>2 DEF Stages
<1>4. LoadedConfig(f)' = d /\ Holds(f)' /\ Launched(f)' /\ ~Launched(f)
  BY <1>1, <1>3 DEF LoadedConfig, Holds, Launched
<1>5. CASE f = "toml"
  <2>1. /\ FileChecked /\ TomlBuilt(c) /\ c.gateway = ApplyDefaults(GatewayConfig(source.gateway))
    BY <1>1, <1>4, <1>5 DEF FileInv
  <2>2. /\ d = [servers |-> c.servers, gateway |-> d.gateway, guards |-> source.guards]
        /\ d.gateway = ApplyDefaults(c.gateway) /\ d.servers = c.servers
    BY <2>1 DEF TomlBuilt
  <2>3. TomlBuilt(d) /\ d.gateway = ApplyDefaults(ApplyDefaults(GatewayConfig(source.gateway)))
    BY <2>1, <2>2 DEF TomlBuilt
  <2> HIDE DEF d
  <2>4. FileInv'
    BY <1>1, <1>4, <1>5, <2>1, <2>3, SameReading, SameChecks DEF FileInv
  <2>5. StdinInv'
    BY <1>1, <1>3, <1>5, OtherStdin DEF Formats
  <2> QED
    BY <1>1, <1>3, <2>4, <2>5 DEF ConfigInv
<1>6. CASE f = "json"
  <2>1. /\ PortGiven /\ left = {} /\ StdinBuilt(c, ServerNames \ left) /\ ValidateGuardPolicies
        /\ c.gateway = StdinGateway(source.gateway) /\ c.guards = source.guards
    BY <1>1, <1>4, <1>6 DEF StdinInv
  <2>2. /\ d = [servers |-> c.servers, gateway |-> d.gateway, guards |-> c.guards]
        /\ d.gateway = ApplyDefaults(c.gateway) /\ d.servers = c.servers /\ d.guards = c.guards
    BY <2>1 DEF StdinBuilt
  <2>3. StdinBuilt(d, ServerNames \ left) /\ d.gateway = ApplyDefaults(StdinGateway(source.gateway))
    BY <2>1, <2>2 DEF StdinBuilt
  <2> HIDE DEF d
  <2>4. StdinInv'
    BY <1>1, <1>3, <1>4, <1>6, <2>1, <2>2, <2>3, SameReading, SameChecks DEF StdinInv
  <2>5. FileInv'
    BY <1>1, <1>3, <1>6, OtherFile DEF Formats
  <2> QED
    BY <1>1, <1>3, <2>4, <2>5 DEF ConfigInv
<1> QED
  BY <1>5, <1>6 DEF Formats

\* A retry of a schema changes nothing that the invariant names.
LEMMA QuietConfigStep ==
  ConfigInv /\ UNCHANGED <<source, env, stage, config, left>> => ConfigInv'
  BY OtherFile, OtherStdin DEF ConfigInv

\* However far a loader has come, what it holds is what its format makes of the
\* servers it has taken, and those have passed the checks it makes (LoadFromFile,
\* convertStdinConfig, applyGatewayDefaults).
THEOREM ConfigSound == ConfigSpec => []ConfigInv
<1>1. ConfigInit => ConfigInv
  BY ConfigInvInit
<1>2. ConfigInv /\ [ConfigNext]_cfvars => ConfigInv'
  <2> SUFFICES ASSUME ConfigInv, [ConfigNext]_cfvars PROVE ConfigInv'
    OBVIOUS
  <2>1. CASE LoadFromFile \/ ReadStdin \/ FinishStdin
    BY <2>1, FileStep, ReadStep, FinishStep
  <2>2. ASSUME NEW n \in ServerNames, ConvertStandard(n) \/ ConvertCustom(n) \/ FetchSucceeds(n)
        PROVE  ConfigInv'
    BY <2>2, ConvertStep
  <2>3. CASE FetchFails
    BY <2>3, RejectStep DEF FetchFails
  <2>4. CASE \E f \in Formats : NewLauncher(f)
    BY <2>4, LaunchStep
  <2>5. CASE FetchAgain \/ UNCHANGED cfvars
    BY <2>5, QuietConfigStep DEF FetchAgain, cfvars
  <2> QED
    BY <2>1, <2>2, <2>3, <2>4, <2>5 DEF ConfigNext
<1> QED
  BY <1>1, <1>2, PTL DEF ConfigSpec

\* FormatsAgree: for any source, a TOML file and a JSON input that say the same and
\* are both accepted give the same gateway section and the same guards, and the
\* same servers, but for custom types and the environment
\* (LoadFromFile, LoadFromStdin).
THEOREM TwoFormatsAgree == ConfigSpec => []FormatsAgree
<1>1. ConfigInv => FormatsAgree
  <2> SUFFICES ASSUME ConfigInv, Launched("toml"), Launched("json") PROVE FormatsAgree
    BY DEF FormatsAgree
  <2> DEFINE t == LoadedConfig("toml")
             j == LoadedConfig("json")
  <2>1. /\ FileChecked /\ TomlBuilt(t)
        /\ t.gateway = ApplyDefaults(ApplyDefaults(GatewayConfig(source.gateway)))
    BY DEF ConfigInv, FileInv, Launched
  <2>2. /\ left = {} /\ StdinBuilt(j, ServerNames \ left) /\ j.guards = source.guards
        /\ j.gateway = ApplyDefaults(StdinGateway(source.gateway))
    BY DEF ConfigInv, StdinInv, Launched
  <2>3. t.guards = j.guards
    BY <2>1, <2>2 DEF TomlBuilt
  <2>4. ASSUME NEW n \in ServerNames, ~IsCustom(source.servers[n])
        PROVE  [Used(t.servers[n]) EXCEPT !.env = {}] =
               [Used(j.servers[n]) EXCEPT !.env = {}]
    <3>1. /\ t.servers[n] = TOMLServer(source.servers[n])
          /\ j.servers[n] = StdinServer(source.servers[n])
      BY <2>1, <2>2 DEF TomlBuilt, StdinBuilt
    <3>2. /\ AuthAccepted(source.servers[n])
          /\ source.servers[n].auth = {} => source.servers[n].audience = {}
      BY <2>1, AuthAssumption DEF FileChecked, ConfigInv
    <3> QED
      BY <2>4, <3>1, <3>2, ServersAgree
  <2>5. /\ [t.gateway EXCEPT !.tool = 0] = [j.gateway EXCEPT !.tool = 0]
        /\ source.gateway.tool # {} => t.gateway.tool = j.gateway.tool
    BY <2>1, <2>2, GatewaysAgree
  <2> HIDE DEF t, j
  <2>6. /\ t.guards = j.guards
        /\ \A n \in ServerNames :
             IsCustom(source.servers[n]) \/
               [Used(t.servers[n]) EXCEPT !.env = {}] = [Used(j.servers[n]) EXCEPT !.env = {}]
        /\ [t.gateway EXCEPT !.tool = 0] = [j.gateway EXCEPT !.tool = 0]
        /\ source.gateway.tool # {} => t.gateway.tool = j.gateway.tool
    BY <2>3, <2>4, <2>5
  <2> QED
    BY <2>6, Zenon DEF FormatsAgree, t, j
<1> QED
  BY <1>1, ConfigSound, PTL
=============================================================================
