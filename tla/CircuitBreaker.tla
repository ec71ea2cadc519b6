--------------------------- MODULE CircuitBreaker ---------------------------
(***************************************************************************)
(* The rate-limit circuit breaker of one backend and the tool calls that   *)
(* consult it: circuitBreaker in internal/server/circuit_breaker.go and    *)
(* phase 3 of callBackendTool in internal/server/unified.go.               *)
(*                                                                         *)
(* Every method of the breaker runs under its mutex, so each is one step.  *)
(* The backend call between Allow and RecordSuccess/RecordRateLimit runs   *)
(* with no lock held: any number of other calls, and any amount of time,   *)
(* can pass in between, and the answer is applied to whatever state the    *)
(* breaker is then in.                                                     *)
(***************************************************************************)
EXTENDS Naturals

CONSTANTS Calls,      \* handler goroutines that call one backend
          Threshold,  \* consecutive rate-limit errors that open the circuit
          Cooldown,   \* how long the circuit stays open by default
          MaxTime,    \* bound: the clock stops here
          MaxReset    \* bound: how far ahead the backend puts its reset time

\* newCircuitBreaker replaces a threshold or cooldown <= 0 by the defaults.
ASSUME ThresholdAssumption == Threshold \in Nat \ {0}
ASSUME CooldownAssumption == Cooldown \in Nat \ {0}
ASSUME TimeAssumption == MaxTime \in Nat \ {0} /\ MaxReset \in Nat

CLOSED == "CLOSED"
OPEN == "OPEN"
HALFOPEN == "HALF-OPEN"

ZeroTime == 0   \* time.Time{}: "unknown"; the clock starts at 1

VARIABLES state,              \* CLOSED, OPEN or HALFOPEN
          consecutiveErrors,
          openedAt,
          resetAt,
          probeInFlight,
          now,                \* nowFunc()
          call                \* where each call is: see CallPlaces

vars == <<state, consecutiveErrors, openedAt, resetAt, probeInFlight, now, call>>
breaker == <<state, consecutiveErrors, openedAt, resetAt, probeInFlight>>

\* "probe" is a call that Allow let through on OPEN -> HALF-OPEN, "admitted"
\* any other call it let through, "lost" a probe that ended in a transport
\* error and so recorded nothing.
CallPlaces == {"idle", "admitted", "probe", "lost"}

Busy(c) == call[c] \in {"admitted", "probe"}

TypeOK ==
  /\ state \in {CLOSED, OPEN, HALFOPEN}
  /\ consecutiveErrors \in Nat
  /\ openedAt \in Nat
  /\ resetAt \in Nat
  /\ probeInFlight \in BOOLEAN
  /\ now \in Nat \ {0}
  /\ call \in [Calls -> CallPlaces]

Init ==
  /\ state = CLOSED
  /\ consecutiveErrors = 0
  /\ openedAt = ZeroTime
  /\ resetAt = ZeroTime
  /\ probeInFlight = FALSE
  /\ now = 1
  /\ call = [c \in Calls |-> "idle"]

-----------------------------------------------------------------------------
\* Definitions named X_Bug are what X would be with one plausible bug; no
\* specification uses them.
OpenUntil_StaleReset == IF resetAt # ZeroTime THEN resetAt ELSE openedAt + Cooldown

\* The instant after which an open circuit lets a probe through.
OpenUntil ==
  IF resetAt # ZeroTime /\ resetAt > openedAt THEN resetAt ELSE openedAt + Cooldown

AllowClosed(c) ==
  /\ call[c] \in {"idle", "lost"}
  /\ state = CLOSED
  /\ call' = [call EXCEPT ![c] = "admitted"]
  /\ UNCHANGED <<breaker, now>>

AllowProbe(c) ==
  /\ call[c] \in {"idle", "lost"}
  /\ state = OPEN
  /\ now > OpenUntil
  /\ state' = HALFOPEN
  /\ probeInFlight' = TRUE
  /\ call' = [call EXCEPT ![c] = "probe"]
  /\ UNCHANGED <<consecutiveErrors, openedAt, resetAt, now>>

\* Rejected: the window is not over.
RejectOpen(c) ==
  /\ call[c] \in {"idle", "lost"}
  /\ state = OPEN
  /\ ~(now > OpenUntil)
  /\ UNCHANGED vars

HalfOpenAdmits_NoProbeCheck == TRUE

\* Rejected while a probe is in flight; otherwise the branch the code calls
\* defensive lets the call through.
HalfOpenAdmits == ~probeInFlight

AllowHalfOpen(c) ==
  /\ call[c] \in {"idle", "lost"}
  /\ state = HALFOPEN
  /\ call' = IF HalfOpenAdmits THEN [call EXCEPT ![c] = "admitted"] ELSE call
  /\ UNCHANGED <<breaker, now>>

StateAfterSuccess_KeepHalfOpen == IF state = HALFOPEN THEN HALFOPEN ELSE CLOSED
StateAfterSuccess == CLOSED

ErrorsAfterSuccess_Decay == consecutiveErrors - 1
ErrorsAfterSuccess == 0

\* A result that is no rate-limit error, whoever asked for it and whenever.
RecordSuccess(c) ==
  /\ Busy(c)
  /\ consecutiveErrors' = ErrorsAfterSuccess
  /\ probeInFlight' = FALSE
  /\ state' = StateAfterSuccess
  /\ resetAt' = IF state = HALFOPEN THEN ZeroTime ELSE resetAt
  /\ call' = [call EXCEPT ![c] = "idle"]
  /\ UNCHANGED <<openedAt, now>>

Opens_OffByOne == \/ state = CLOSED /\ consecutiveErrors + 1 > Threshold
                  \/ state = HALFOPEN
Opens_NoThreshold == state # OPEN

\* Closed opens at the threshold; half-open re-opens at once; open stays open.
Opens == \/ state = CLOSED /\ consecutiveErrors + 1 >= Threshold
         \/ state = HALFOPEN

\* The reset time read from the error text: absent, or later than now.
ResetTimes == {ZeroTime} \cup {now + d : d \in 1..MaxReset}

RecordRateLimit(c) ==
  /\ Busy(c)
  /\ consecutiveErrors' = consecutiveErrors + 1
  /\ probeInFlight' = FALSE
  /\ \E at \in ResetTimes : resetAt' = IF at # ZeroTime THEN at ELSE resetAt
  /\ state' = IF Opens THEN OPEN ELSE state
  /\ openedAt' = IF Opens THEN now ELSE openedAt
  /\ call' = [call EXCEPT ![c] = "idle"]
  /\ UNCHANGED now

\* executeBackendToolCall failed: the handler returns without telling the breaker.
TransportError(c) ==
  /\ Busy(c)
  /\ call' = [call EXCEPT ![c] = IF call[c] = "probe" THEN "lost" ELSE "idle"]
  /\ UNCHANGED <<breaker, now>>

Tick ==
  /\ now < MaxTime
  /\ now' = now + 1
  /\ UNCHANGED <<breaker, call>>

Allow(c) == AllowClosed(c) \/ AllowProbe(c) \/ RejectOpen(c) \/ AllowHalfOpen(c)
Return(c) == RecordSuccess(c) \/ RecordRateLimit(c) \/ TransportError(c)

Next == Tick \/ \E c \in Calls : Allow(c) \/ Return(c)

Spec == Init /\ [][Next]_vars

\* Every call returns: its context carries the tool timeout.
Fairness == \A c \in Calls : WF_vars(Return(c))
FairSpec == Spec /\ Fairness

-----------------------------------------------------------------------------
(* Properties.                                                             *)

\* The breaker's fields agree, whatever stale answers arrive: a probe is
\* marked in flight exactly in HALF-OPEN (so the branch of Allow that lets
\* calls through in HALF-OPEN is dead code), a closed circuit is below the
\* threshold, and a tripped one has not forgotten the errors that tripped it.
HalfOpenMeansProbe == (probeInFlight = TRUE) <=> (state = HALFOPEN)
ClosedBelowThreshold == state = CLOSED => consecutiveErrors < Threshold
TrippedAtThreshold == state # CLOSED => consecutiveErrors >= Threshold
BreakerInv == HalfOpenMeansProbe /\ ClosedBelowThreshold /\ TrippedAtThreshold

Admitted == {c \in Calls : Busy(c)}

\* "Only one probe is allowed; further requests are blocked until the probe
\* resolves" (Allow): until an answer moves the breaker out of HALF-OPEN no
\* call joins the ones already at the backend.
OneProbePerHalfOpen ==
  [][state = HALFOPEN => Admitted' \subseteq Admitted]_vars

\* A call gets past an open circuit only after the announced reset time, or
\* after the cooldown when the remembered reset time is not later than the
\* opening: a reset time left over from an earlier episode never lets a call
\* through early.
WindowRespected ==
  [][(state = OPEN /\ ~(Admitted' \subseteq Admitted)) =>
       \/ resetAt > openedAt /\ now > resetAt
       \/ resetAt <= openedAt /\ now > openedAt + Cooldown]_vars

\* The circuit trips, or stays tripped with a new opening time, only when a
\* rate-limited answer is recorded: time and transport errors never open it.
OnlyRateLimitsOpen ==
  [][(state # OPEN /\ state' = OPEN) =>
       consecutiveErrors' = consecutiveErrors + 1 /\ consecutiveErrors' >= Threshold]_vars

\* A HALF-OPEN circuit does not stay so for ever, unless its probe ended in a
\* transport error (see HalfOpenHasProbe for that case).
ProbeResolves ==
  state = HALFOPEN ~> (state # HALFOPEN \/ \E c \in Calls : call[c] = "lost")

\* "further requests are blocked until the probe resolves"
\* (circuit_breaker.go:142): requests are blocked only while a probe is out.
HalfOpenHasProbe ==
  state = HALFOPEN /\ probeInFlight => \E c \in Calls : call[c] = "probe"

=============================================================================
