--------------------------- MODULE Process_proofs ---------------------------
(***************************************************************************)
(* Proofs about the gateway process: its life (Lifecycle), the             *)
(* registration of the backends' tools at its start (ToolRegistry) and the *)
(* circuit breakers that guard its calls (CircuitBreaker), for any         *)
(* handlers, backends, listings and thresholds.                            *)
(*                                                                         *)
(* A backend's tools enter the registry one by one while others are being  *)
(* registered.  RegistryInv therefore speaks of positions: a backend is    *)
(* past the ones it no longer has to register, those are offered with a    *)
(* handler, and the one at hand is in the registry and may still lack its  *)
(* own.                                                                    *)
(***************************************************************************)
EXTENDS Lifecycle, ToolRegistry, CircuitBreaker, TLAPS

-----------------------------------------------------------------------------
(* The life of the process (Lifecycle). *)

Starting == {"env", "loggers", "cache", "config", "tracing", "server"}
WithServer == {"watch", "listen", "serving", "draining"}
Listening == {"serving", "draining", "unwind", "exited"}

LifeType ==
  /\ main \in Starting \cup WithServer \cup Listening
  /\ opened \subseteq {"loggers", "cache", "tracing", "server", "parts"}
  /\ failed \in BOOLEAN /\ watching \in BOOLEAN /\ cancelled \in BOOLEAN
  /\ isShutdown \in BOOLEAN /\ accepting \in BOOLEAN
  /\ once \in {"new", "running", "done"}
  /\ onceOwner \in Actors \cup {NoOne}
  /\ handler \in [All -> {"none", "gate", "handling", "initiate", "respond", "done"}]
  /\ drain \in [Closers -> {"none", "begin", "wait", "exit", "ended"}]
  /\ timedOut \subseteq Closers \cup {"main"}

\* The gateway is marked from the moment somebody enters the Once.
ShutInv == isShutdown = (once # "new")

\* Whoever can ask for a shutdown needs the server, and run() keeps it for as
\* long as it may be asked.
ServerInv ==
  /\ main \in WithServer => "server" \in opened
  /\ "parts" \in opened => failed
  /\ once = "running" /\ onceOwner = "main" => main = "unwind"
  /\ "server" \in opened \/ once = "done" \/
       (once = "new" /\ ~watching /\ ~accepting /\ \A r \in All : handler[r] = "none")

\* A drain begins after the listener has closed for good, so what it has seen
\* end stays ended.
DrainInv ==
  /\ accepting => main = "serving"
  /\ \A r \in All : handler[r] # "none" => main \in Listening
  /\ \A c \in Closers :
       /\ drain[c] # "none" => handler[c] = "done"
       /\ drain[c] \in {"wait", "exit"} => ~accepting
       /\ drain[c] = "exit" => Active = {} \/ c \in timedOut

\* A /close that owns the Once is still inside its call of InitiateShutdown.
OnceInv == once = "running" /\ onceOwner \in Closers => handler[onceOwner] = "initiate"

LifeInv == LifeType /\ ShutInv /\ ServerInv /\ OnceInv /\ DrainInv /\ ExitIsClean

LEMMA LifeInvInit == LifeInit => LifeInv
  BY DisjointAssumption
  DEF LifeInit, LifeInv, LifeType, ShutInv, ServerInv, OnceInv, DrainInv, ExitIsClean, Starting,
      WithServer, Listening, All

LEMMA LifeTypeNext == LifeType /\ [LifeNext]_lifeVars => LifeType'
<1> SUFFICES ASSUME LifeType, [LifeNext]_lifeVars PROVE LifeType'
  OBVIOUS
<1> USE DEF LifeType, Starting, WithServer, Listening, serverVars, Cancel
<1>1. CASE Startup
  BY <1>1
  DEF Startup, LoadEnvironment, InitLoggers, SetupCache, LoadConfiguration, SetupTracing,
      CreateServer, StartWatcher, Listen, Stage, StageFails
<1>2. CASE BeginShutdown \/ EndShutdown \/ Exit
  BY <1>2 DEF BeginShutdown, EndShutdown, Exit, Released
<1>3. CASE Signal \/ ServeFails
  BY <1>3 DEF Signal, ServeFails
<1>4. ASSUME NEW a \in Actors, MarkShutdown(a) PROVE LifeType'
  BY <1>4 DEF MarkShutdown, Marked
<1>5. ASSUME NEW a \in Actors, TearDown(a) \/ ShutdownWasDone(a) PROVE LifeType'
  <2>1. /\ handler' \in [All -> {"none", "gate", "handling", "initiate", "respond", "done"}]
        /\ watching' \in BOOLEAN /\ opened' \subseteq {"loggers", "cache", "tracing", "server", "parts"}
    BY <1>5 DEF TearDown, ShutdownWasDone, AfterOnce
  <2> QED
    BY <1>5, <2>1 DEF TearDown, ShutdownWasDone
<1>6. ASSUME NEW c \in Closers, CloseStep(c) PROVE LifeType'
  <2>1. c \in All
    BY DEF All
  <2>2. CASE RespondClosed(c)
    BY <2>1, <2>2 DEF RespondClosed
  <2>3. CASE BeginDrain(c)
    BY <2>3 DEF BeginDrain, StopsListening
  <2>4. CASE EndDrain(c)
    BY <2>4 DEF EndDrain
  <2>5. CASE CallExit(c)
    BY <2>5 DEF CallExit
  <2> QED
    BY <1>6, <2>2, <2>3, <2>4, <2>5 DEF CloseStep
<1>7. ASSUME NEW r \in All, Arrive(r) \/ GateStep(r) \/ Finish(r) PROVE LifeType'
  <2>1. handler' \in [All -> {"none", "gate", "handling", "initiate", "respond", "done"}]
    <3>1. CASE \E p \in {"gate", "handling", "initiate", "done"} :
                 handler' = [handler EXCEPT ![r] = p]
      BY <3>1
    <3> QED
      BY <1>7, <3>1 DEF Arrive, GateStep, TurnAway, Admit, Finish
  <2>2. /\ UNCHANGED <<main, opened, failed, watching, cancelled>>
        /\ UNCHANGED <<serverVars, accepting, drain, timedOut>>
    BY <1>7 DEF Arrive, GateStep, TurnAway, Admit, Finish
  <2> QED
    BY <2>1, <2>2
<1>8. CASE UNCHANGED lifeVars
  BY <1>8 DEF lifeVars
<1> QED
  BY <1>1, <1>2, <1>3, <1>4, <1>5, <1>6, <1>7, <1>8 DEF LifeNext, MainStep, OnceStep, All

LEMMA ShutInvNext == ShutInv /\ [LifeNext]_lifeVars => ShutInv'
<1> SUFFICES ASSUME ShutInv, [LifeNext]_lifeVars PROVE ShutInv'
  OBVIOUS
<1>1. CASE UNCHANGED <<isShutdown, once>>
  BY <1>1 DEF ShutInv
<1>2. ASSUME NEW a \in Actors, MarkShutdown(a) PROVE ShutInv'
  BY <1>2 DEF MarkShutdown, Marked, ShutInv
<1>3. ASSUME NEW a \in Actors, TearDown(a) PROVE ShutInv'
  BY <1>3 DEF TearDown, ShutInv
<1>4. ASSUME NEW a \in Actors, ShutdownWasDone(a) PROVE ShutInv'
  BY <1>1, <1>4 DEF ShutdownWasDone, serverVars
<1>5. CASE \/ MainStep \/ Signal \/ ServeFails
           \/ \E c \in Closers : CloseStep(c)
           \/ \E r \in All : Arrive(r) \/ GateStep(r) \/ Finish(r)
           \/ UNCHANGED lifeVars
  <2>1. UNCHANGED serverVars
    BY <1>5
    DEF MainStep, Startup, LoadEnvironment, InitLoggers, SetupCache, LoadConfiguration,
        SetupTracing, CreateServer, StartWatcher, Listen, Stage, StageFails, BeginShutdown,
        EndShutdown, Exit, Signal, ServeFails, CloseStep, RespondClosed, BeginDrain, EndDrain,
        CallExit, Arrive, GateStep, TurnAway, Admit, Finish, lifeVars
  <2> QED
    BY <1>1, <2>1 DEF serverVars
<1> QED
  BY <1>2, <1>3, <1>4, <1>5 DEF LifeNext, OnceStep, All

LEMMA ServerInvNext ==
  LifeType /\ DrainInv /\ ServerInv /\ [LifeNext]_lifeVars => ServerInv'
<1> SUFFICES ASSUME LifeType, DrainInv, ServerInv, [LifeNext]_lifeVars PROVE ServerInv'
  OBVIOUS
<1> USE DisjointAssumption
    DEF LifeType, ServerInv, Starting, WithServer, Listening, serverVars
<1>1. CASE \/ LoadEnvironment \/ InitLoggers \/ SetupCache \/ LoadConfiguration
           \/ SetupTracing \/ CreateServer
  BY <1>1
  DEF LoadEnvironment, InitLoggers, SetupCache, LoadConfiguration, SetupTracing,
      CreateServer, Stage, StageFails
<1>2. CASE StartWatcher \/ Listen
  BY <1>2 DEF StartWatcher, Listen, StageFails
<1>3. CASE BeginShutdown \/ EndShutdown \/ Exit
  BY <1>3 DEF BeginShutdown, EndShutdown, Exit, Released
<1>4. CASE Signal \/ ServeFails
  BY <1>4 DEF Signal, ServeFails
<1>5. ASSUME NEW a \in Actors, MarkShutdown(a) PROVE ServerInv'
  <2>1. "server" \in opened
    BY <1>5 DEF MarkShutdown, Asks, All
  <2>2. a = "main" => main = "unwind"
    BY <1>5 DEF MarkShutdown, Asks
  <2> QED
    BY <1>5, <2>1, <2>2 DEF MarkShutdown
<1>6. ASSUME NEW a \in Actors, TearDown(a) \/ ShutdownWasDone(a) PROVE ServerInv'
  <2>1. once' = "done" /\ main' = main
    BY <1>6 DEF TearDown, ShutdownWasDone
  <2>2. a = "main" => main = "unwind"
    BY <1>6 DEF TearDown, ShutdownWasDone, Asks
  <2>3. a # "main" => opened' = opened
    BY <1>6 DEF TearDown, ShutdownWasDone, AfterOnce
  <2>4. opened' \subseteq opened /\ failed' = failed
    BY <1>6 DEF TearDown, ShutdownWasDone, AfterOnce
  <2> QED
    BY <2>1, <2>2, <2>3, <2>4
<1>7. ASSUME NEW c \in Closers, CloseStep(c) PROVE ServerInv'
  <2>1. handler[c] # "none"
    BY <1>7 DEF CloseStep, RespondClosed, BeginDrain, EndDrain, CallExit, DrainInv
  <2>2. "server" \in opened \/ once = "done"
    BY <2>1 DEF All
  <2> QED
    BY <1>7, <2>2 DEF CloseStep, RespondClosed, BeginDrain, EndDrain, CallExit
<1>8. ASSUME NEW r \in All, Arrive(r) \/ GateStep(r) \/ Finish(r) PROVE ServerInv'
  <2>1. "server" \in opened \/ once = "done"
    BY <1>8 DEF Arrive, GateStep, TurnAway, Admit, Finish
  <2> QED
    BY <1>8, <2>1 DEF Arrive, GateStep, TurnAway, Admit, Finish
<1>9. CASE UNCHANGED lifeVars
  BY <1>9 DEF lifeVars
<1> QED
  BY <1>1, <1>2, <1>3, <1>4, <1>5, <1>6, <1>7, <1>8, <1>9
  DEF LifeNext, MainStep, Startup, OnceStep, All

LEMMA OnceInvNext == LifeType /\ OnceInv /\ [LifeNext]_lifeVars => OnceInv'
<1> SUFFICES ASSUME LifeType, OnceInv, [LifeNext]_lifeVars,
                    once' = "running", onceOwner' \in Closers
             PROVE  handler'[onceOwner'] = "initiate"
  BY DEF OnceInv
<1> USE DisjointAssumption DEF LifeType, OnceInv, serverVars
<1>1. CASE MainStep \/ Signal \/ ServeFails \/ UNCHANGED lifeVars
  <2>1. UNCHANGED <<serverVars, handler>>
    BY <1>1
    DEF MainStep, Startup, LoadEnvironment, InitLoggers, SetupCache, LoadConfiguration,
        SetupTracing, CreateServer, StartWatcher, Listen, Stage, StageFails, BeginShutdown,
        EndShutdown, Exit, Signal, ServeFails, lifeVars
  <2> QED
    BY <2>1
<1>2. ASSUME NEW a \in Actors, OnceStep(a) PROVE handler'[onceOwner'] = "initiate"
  <2>1. MarkShutdown(a)
    BY <1>2 DEF OnceStep, TearDown, ShutdownWasDone
  <2> QED
    BY <2>1 DEF MarkShutdown, Asks
<1>3. ASSUME NEW c \in Closers, CloseStep(c) PROVE handler'[onceOwner'] = "initiate"
  <2>1. UNCHANGED serverVars /\ handler[onceOwner] = "initiate"
    BY <1>3 DEF CloseStep, RespondClosed, BeginDrain, EndDrain, CallExit
  <2>2. handler' = handler \/ (handler[c] = "respond" /\ handler' = [handler EXCEPT ![c] = "done"])
    BY <1>3 DEF CloseStep, RespondClosed, BeginDrain, EndDrain, CallExit
  <2> QED
    BY <2>1, <2>2 DEF All
<1>4. ASSUME NEW r \in All, Arrive(r) \/ GateStep(r) \/ Finish(r)
      PROVE  handler'[onceOwner'] = "initiate"
  <2>1. UNCHANGED serverVars /\ handler[onceOwner] = "initiate" /\ handler[r] # "initiate"
    BY <1>4 DEF Arrive, GateStep, TurnAway, Admit, Finish
  <2>2. \A q \in All \ {r} : handler'[q] = handler[q]
    BY <1>4 DEF Arrive, GateStep, TurnAway, Admit, Finish
  <2> QED
    BY <2>1, <2>2 DEF All
<1> QED
  BY <1>1, <1>2, <1>3, <1>4 DEF LifeNext, All

\* Handlers end and do not begin again without a listener.
LEMMA ActiveShrinks ==
  ASSUME LifeType,
         \A r \in All : handler'[r] = handler[r] \/ handler[r] \notin {"none", "done"}
  PROVE  Active = {} => Active' = {}
  BY DEF Active

LEMMA DrainInvNext ==
  LifeType /\ OnceInv /\ DrainInv /\ [LifeNext]_lifeVars => DrainInv'
<1> SUFFICES ASSUME LifeType, OnceInv, DrainInv, [LifeNext]_lifeVars PROVE DrainInv'
  OBVIOUS
<1> USE DisjointAssumption DEF LifeType, DrainInv, Starting, WithServer, Listening, serverVars
<1>1. \A c \in Closers : c \in All
  BY DEF All
<1>2. CASE Startup
  <2>1. UNCHANGED <<handler, drain, timedOut>> /\ Active' = Active /\ main \notin Listening
    BY <1>2
    DEF Startup, LoadEnvironment, InitLoggers, SetupCache, LoadConfiguration, SetupTracing,
        CreateServer, StartWatcher, Listen, Stage, StageFails, Active
  <2>2. \A r \in All : handler[r] = "none"
    BY <2>1
  <2>3. \A c \in Closers : drain[c] = "none"
    BY <1>1, <2>2
  <2>4. accepting' => main' = "serving"
    BY <1>2, <2>1
    DEF Startup, LoadEnvironment, InitLoggers, SetupCache, LoadConfiguration, SetupTracing,
        CreateServer, StartWatcher, Listen, Stage, StageFails
  <2> QED
    BY <2>1, <2>2, <2>3, <2>4
<1>3. CASE BeginShutdown \/ EndShutdown \/ Exit
  <2>1. UNCHANGED <<handler, drain>> /\ Active' = Active /\ timedOut \subseteq timedOut'
    BY <1>3 DEF BeginShutdown, EndShutdown, Exit, Active
  <2>2. accepting' \in {accepting, FALSE} /\ main' \in Listening
    BY <1>3 DEF BeginShutdown, EndShutdown, Exit
  <2>3. accepting' => main' = "serving"
    BY <1>3 DEF BeginShutdown, EndShutdown, Exit
  <2>4. \A c \in Closers : c \in timedOut => c \in timedOut'
    BY <2>1
  <2>5. \A c \in Closers :
          /\ drain'[c] # "none" => handler'[c] = "done"
          /\ drain'[c] \in {"wait", "exit"} => ~accepting'
          /\ drain'[c] = "exit" => Active' = {} \/ c \in timedOut'
    BY <2>1, <2>2, <2>4
  <2> QED
    BY <2>1, <2>2, <2>3, <2>5
<1>4. CASE Signal \/ ServeFails
  BY <1>4 DEF Signal, ServeFails, Active
<1>5. ASSUME NEW a \in Actors, MarkShutdown(a) PROVE DrainInv'
  BY <1>5 DEF MarkShutdown, Active
<1>6. ASSUME NEW a \in Actors, TearDown(a) \/ ShutdownWasDone(a) PROVE DrainInv'
  <2>1. UNCHANGED <<main, accepting, drain, timedOut>>
    BY <1>6 DEF TearDown, ShutdownWasDone
  <2>2. a \in Closers => handler[a] = "initiate"
    BY <1>6 DEF TearDown, ShutdownWasDone, Asks, OnceInv
  <2>3. handler' = IF a \in Closers THEN [handler EXCEPT ![a] = "respond"] ELSE handler
    BY <1>6 DEF TearDown, ShutdownWasDone, AfterOnce
  <2>4. Active = {} => Active' = {}
    BY <2>2, <2>3, ActiveShrinks
  <2> QED
    BY <1>1, <2>1, <2>2, <2>3, <2>4
<1>7. ASSUME NEW c \in Closers, CloseStep(c) PROVE DrainInv'
  <2>1. CASE RespondClosed(c)
    <3>1. Active = {} => Active' = {}
      BY <2>1, ActiveShrinks DEF RespondClosed
    <3> QED
      BY <1>1, <2>1, <3>1 DEF RespondClosed
  <2>2. CASE BeginDrain(c)
    BY <2>2 DEF BeginDrain, StopsListening, Active
  <2>3. CASE EndDrain(c)
    <3>1. Active' = Active
      BY <2>3 DEF EndDrain, Active
    <3> QED
      BY <2>3, <3>1 DEF EndDrain
  <2>4. CASE CallExit(c)
    <3>1. Active' = Active
      BY <2>4 DEF CallExit, Active
    <3> QED
      BY <2>4, <3>1 DEF CallExit
  <2> QED
    BY <1>7, <2>1, <2>2, <2>3, <2>4 DEF CloseStep
<1>8. ASSUME NEW r \in All, Arrive(r) PROVE DrainInv'
  <2>1. accepting /\ \A c \in Closers : drain[c] \notin {"wait", "exit"}
    BY <1>8 DEF Arrive
  <2> QED
    BY <1>8, <2>1 DEF Arrive
<1>9. ASSUME NEW r \in All, GateStep(r) \/ Finish(r) PROVE DrainInv'
  <2>1. UNCHANGED <<main, accepting, drain, timedOut>> /\ handler[r] \in {"gate", "handling"}
    BY <1>9 DEF GateStep, TurnAway, Admit, Finish
  <2>2. \A q \in All \ {r} : handler'[q] = handler[q]
    BY <1>9 DEF GateStep, TurnAway, Admit, Finish
  <2>3. Active = {} => Active' = {}
    BY <2>1, <2>2, ActiveShrinks
  <2>4. \A c \in Closers : drain[c] # "none" => c # r
    BY <2>1
  <2> QED
    BY <1>1, <2>1, <2>2, <2>3, <2>4
<1>10. CASE UNCHANGED lifeVars
  BY <1>10 DEF lifeVars, Active
<1> QED
  BY <1>2, <1>3, <1>4, <1>5, <1>6, <1>7, <1>8, <1>9, <1>10
  DEF LifeNext, MainStep, OnceStep, All

LEMMA ExitInvNext ==
  LifeType /\ ServerInv /\ ExitIsClean /\ [LifeNext]_lifeVars => ExitIsClean'
<1> SUFFICES ASSUME LifeType, ServerInv, ExitIsClean, [LifeNext]_lifeVars, main' = "exited"
             PROVE  /\ opened' \subseteq (IF failed' THEN {"loggers", "parts"} ELSE {})
                    /\ once' # "running"
  BY DEF ExitIsClean
<1>1. CASE Exit
  BY <1>1 DEF Exit, Released, serverVars, LifeType, ServerInv
<1>2. CASE UNCHANGED lifeVars
  BY <1>2 DEF lifeVars, serverVars, ExitIsClean
<1>3. CASE Running /\ ~Exit
  <2>1. ~(\/ Startup \/ BeginShutdown \/ EndShutdown)
    BY DEF Startup, LoadEnvironment, InitLoggers, SetupCache, LoadConfiguration, SetupTracing,
           CreateServer, StartWatcher, Listen, Stage, StageFails, BeginShutdown, EndShutdown
  <2>2. ~(Signal \/ ServeFails)
    BY <1>3 DEF Running, Signal, ServeFails
  <2>3. ~(\E a \in Actors : OnceStep(a))
    BY <1>3 DEF Running, OnceStep, MarkShutdown, TearDown, ShutdownWasDone
  <2>4. ~(\E c \in Closers : CloseStep(c))
    BY <1>3 DEF Running, CloseStep, RespondClosed, BeginDrain, EndDrain, CallExit
  <2>5. ~(\E r \in All : Arrive(r) \/ GateStep(r) \/ Finish(r))
    BY <1>3 DEF Running, Arrive, GateStep, TurnAway, Admit, Finish
  <2> QED
    BY <1>2, <1>3, <2>1, <2>2, <2>3, <2>4, <2>5 DEF LifeNext, MainStep, All
<1> QED
  BY <1>1, <1>2, <1>3 DEF LifeNext

LEMMA LifeInvariant == LifeSpec => []LifeInv
<1>1. LifeInv /\ [LifeNext]_lifeVars => LifeInv'
  BY LifeTypeNext, ShutInvNext, ServerInvNext, OnceInvNext, DrainInvNext, ExitInvNext DEF LifeInv
<1> QED
  BY <1>1, LifeInvInit, PTL DEF LifeSpec

\* Type correctness of the life of the process.
THEOREM LifeTypeCorrect == LifeSpec => []LifeType
  BY LifeInvariant, PTL DEF LifeInv

\* ExitIsClean: however the process ends, and wherever its startup fails, the
\* deferred calls leave nothing open but the log files of a failed command and
\* what NewUnified had begun when it failed, and no shutdown is cut off in the
\* middle (run of cmd/root.go).
THEOREM ExitsAreClean == LifeSpec => []ExitIsClean
  BY LifeInvariant, PTL DEF LifeInv

\* NoAdmissionAfterClose: nobody passes the gate once the Once is entered,
\* whichever way led there (rejectIfShutdown, InitiateShutdown).
THEOREM ClosedGatesStayShut == LifeSpec => NoAdmissionAfterClose
<1> DEFINE Shut ==
      (\E r \in All : handler[r] = "gate" /\ handler'[r] \in {"handling", "initiate"})
        => once = "new"
<1>1. ASSUME LifeInv, [LifeNext]_lifeVars PROVE Shut
  <2> SUFFICES ASSUME NEW r \in All, handler[r] = "gate", handler'[r] \in {"handling", "initiate"}
               PROVE  once = "new"
    OBVIOUS
  <2> USE DEF LifeInv, LifeType
  <2>1. ~(\/ MainStep \/ Signal \/ ServeFails \/ UNCHANGED lifeVars)
    BY DEF MainStep, Startup, LoadEnvironment, InitLoggers, SetupCache, LoadConfiguration,
           SetupTracing, CreateServer, StartWatcher, Listen, Stage, StageFails, BeginShutdown,
           EndShutdown, Exit, Signal, ServeFails, lifeVars
  <2>2. ~(\E a \in Actors : OnceStep(a))
    BY <1>1 DEF OnceStep, MarkShutdown, TearDown, ShutdownWasDone, AfterOnce
  <2>3. ~(\E c \in Closers : CloseStep(c))
    BY <1>1 DEF CloseStep, RespondClosed, BeginDrain, EndDrain, CallExit
  <2>4. ~(\E q \in All : Arrive(q) \/ TurnAway(q) \/ Finish(q))
    BY <1>1 DEF Arrive, TurnAway, Finish
  <2>5. PICK q \in All : Admit(q)
    BY <1>1, <2>1, <2>2, <2>3, <2>4 DEF LifeNext, GateStep, All
  <2> QED
    BY <1>1, <2>5 DEF Admit, ShutInv
<1>2. [LifeNext]_lifeVars /\ LifeInv => [Shut]_lifeVars
  BY <1>1
<1> QED
  BY <1>2, LifeInvariant, PTL DEF LifeSpec, NoAdmissionAfterClose

\* CloseDrainsFirst: the context all requests share is cancelled by /close only
\* when no handler runs or the drain has run out of time (handleClose).
THEOREM CloseDrains == LifeSpec => CloseDrainsFirst
<1> DEFINE Drained ==
      \A c \in Closers : drain[c] = "exit" /\ drain'[c] = "ended" /\ ~cancelled
        => Active = {} \/ c \in timedOut
<1>1. LifeInv => Drained
  BY DEF LifeInv, DrainInv
<1>2. [LifeNext]_lifeVars /\ LifeInv => [Drained]_lifeVars
  BY <1>1
<1> QED
  BY <1>2, LifeInvariant, PTL DEF LifeSpec, CloseDrainsFirst

-----------------------------------------------------------------------------
(* The tool registry (ToolRegistry). *)

Pcs == {"todo", "list", "record", "handler", "done", "failed"}

Keeps(s) == Kept(reg[s].list, s)

\* What is known of one backend.
BackendOK(s) ==
  /\ reg[s] \in [pc : Pcs, list : Listings \cup {<<>>}, left : SUBSET Keeps(s),
                 pages : Nat, prompts : BOOLEAN]
  /\ reg[s].pc \notin {"record", "handler"} => reg[s].left = {}
  /\ reg[s].pc \in {"todo", "list", "failed"} => reg[s].list = <<>>

\* The gateway's own tools, registered before any backend is asked.
OwnTools == IF launch.difc THEN SysTools ELSE {}

\* The name that waits for its handler.
Awaited(s, n) ==
  reg[s].pc = "handler" /\ \E i \in reg[s].left : IsNext(s, i) /\ n = Named(s, i)

\* A name comes from the gateway or from a position a backend's list keeps.
NameOK(n) ==
  /\ n \in OwnTools \/ \E s \in Backends : \E i \in Keeps(s) : n = Named(s, i)
  /\ (tools[n] /\ n \in offered \cup OwnTools) \/ \E s \in Backends : Awaited(s, n)

\* What is registered, offered and still to do agree, whatever the backends send
\* and in whatever order they are told apart.
RegisteredInv ==
  /\ reg = [s \in Backends |-> reg[s]] /\ \A s \in Backends : BackendOK(s)
  /\ tools \in [DOMAIN tools -> BOOLEAN]
  /\ OwnTools \subseteq DOMAIN tools
  /\ \A n \in DOMAIN tools : NameOK(n)
  /\ offered \subseteq DOMAIN tools
  /\ \A n \in offered : \E s \in Backends : \E i \in Keeps(s) : n = Named(s, i)
  /\ \A s \in Backends : \A i \in Keeps(s) \ reg[s].left : Named(s, i) \in offered
  /\ \A s \in Backends : \A i \in reg[s].left :
       Awaited(s, Named(s, i)) => Named(s, i) \in DOMAIN tools

\* Serving begins when no backend is being registered, and the routes of a backend
\* are then the tools it keeps.
ServingInv ==
  /\ serving => AllOver(Backends)
  /\ routed = [s \in Backends |-> routed[s]]
  /\ \A s \in Backends : routed[s] # {} => serving /\ routed[s] = Filtered(s)

RegistryInv == RegisteredInv /\ ServingInv

LEMMA NothingKept == \A s : Kept(<<>>, s) = {}
  BY DEF Kept

\* Before any backend is asked only the gateway's own tools are there.
LEMMA RegistryInvInit == RegistryInit => RegistryInv
<1> SUFFICES ASSUME RegistryInit
             PROVE  RegistryInv
  OBVIOUS
<1>1. \A s \in Backends : reg[s] = Untold
  BY DEF RegistryInit
<1>2. ASSUME NEW s \in Backends
      PROVE  BackendOK(s) /\ Keeps(s) = {}
  <2>1. reg[s] = [pc |-> "todo", list |-> <<>>, left |-> {}, pages |-> 0, prompts |-> FALSE]
    BY <1>1 DEF Untold
  <2>2. Keeps(s) = {}
    BY <2>1, NothingKept DEF Keeps
  <2> QED
    BY <2>1, <2>2 DEF BackendOK, Pcs
<1>3. /\ tools \in [DOMAIN tools -> BOOLEAN] /\ DOMAIN tools = OwnTools
      /\ \A n \in DOMAIN tools : tools[n]
  BY DEF RegistryInit, OwnTools
<1>4. \A n \in DOMAIN tools : NameOK(n)
  BY <1>3 DEF NameOK
<1>5. \A s \in Backends : reg[s].left = {}
  BY <1>1 DEF Untold
<1> QED
  BY <1>2, <1>3, <1>4, <1>5 DEF RegistryInit, RegistryInv, RegisteredInv, ServingInv

\* A step of one backend leaves the others as they are.
LEMMA OthersKept ==
  ASSUME RegistryInv, NEW s \in Backends, NEW entry, Set(s, entry),
         UNCHANGED <<launch, allowed>>
  PROVE  /\ reg' = [r \in Backends |-> reg'[r]] /\ reg'[s] = entry
         /\ OwnTools' = OwnTools
         /\ \A r \in Backends \ {s} :
              /\ reg'[r] = reg[r] /\ Keeps(r)' = Keeps(r) /\ BackendOK(r)'
              /\ \A i : Named(r, i)' = Named(r, i)
              /\ \A n : Awaited(r, n)' <=> Awaited(r, n)
              /\ \A i \in reg'[r].left : Awaited(r, Named(r, i))' => Named(r, i)' \in DOMAIN tools
<1>1. /\ reg' = [r \in Backends |-> reg'[r]] /\ reg'[s] = entry
      /\ \A r \in Backends \ {s} : reg'[r] = reg[r]
  BY DEF RegistryInv, RegisteredInv, ServingInv, Set
<1>2. OwnTools' = OwnTools
  BY DEF OwnTools
<1>3. ASSUME NEW r \in Backends \ {s}
      PROVE  /\ Keeps(r)' = Keeps(r) /\ BackendOK(r)'
             /\ \A i : Named(r, i)' = Named(r, i)
             /\ \A n : Awaited(r, n)' <=> Awaited(r, n)
             /\ \A i \in reg'[r].left : Awaited(r, Named(r, i))' => Named(r, i)' \in DOMAIN tools
  <2>1. reg'[r] = reg[r] /\ BackendOK(r)
    BY <1>1 DEF RegistryInv, RegisteredInv, ServingInv
  <2>2. Keeps(r)' = Keeps(r)
    BY <2>1 DEF Keeps, Kept, IsToolAllowed
  <2>3. BackendOK(r)'
    BY <2>1, <2>2 DEF BackendOK
  <2>4. /\ \A i : Named(r, i)' = Named(r, i)
        /\ \A i : IsNext(r, i)' <=> IsNext(r, i)
    BY <2>1 DEF Named, IsNext
  <2>5. \A n : Awaited(r, n)' <=> Awaited(r, n)
    BY <2>1, <2>4 DEF Awaited
  <2>6. \A i \in reg'[r].left : Awaited(r, Named(r, i))' => Named(r, i)' \in DOMAIN tools
    BY <2>1, <2>4 DEF RegistryInv, RegisteredInv, ServingInv, Awaited
  <2> QED
    BY <2>2, <2>3, <2>4, <2>5, <2>6
<1> QED
  BY <1>1, <1>2, <1>3

\* A backend that steps is not over, so nothing is served yet.
LEMMA NotServing ==
  ASSUME RegistryInv, NEW s \in Backends, ~Over(s)
  PROVE  ~serving /\ \A r \in Backends : routed[r] = {}
  BY DEF RegistryInv, RegisteredInv, ServingInv, AllOver

\* A step that registers nothing.
LEMMA QuietStep ==
  ASSUME RegistryInv, NEW s \in Backends, NEW entry, Set(s, entry), ~Over(s),
         UNCHANGED <<launch, allowed, tools, offered, serving, routed>>,
         reg[s].pc # "handler", entry.pc # "handler", BackendOK(s)',
         \A i \in Keeps(s) : i \in Keeps(s)' /\ Named(s, i)' = Named(s, i),
         \A i \in Keeps(s)' : i \in entry.left \/ i \in Keeps(s) \ reg[s].left
  PROVE  RegistryInv'
<1>1. /\ reg' = [r \in Backends |-> reg'[r]] /\ reg'[s] = entry /\ OwnTools' = OwnTools
      /\ \A r \in Backends \ {s} :
           /\ reg'[r] = reg[r] /\ Keeps(r)' = Keeps(r) /\ BackendOK(r)'
           /\ \A i : Named(r, i)' = Named(r, i)
           /\ \A n : Awaited(r, n)' <=> Awaited(r, n)
           /\ \A i \in reg'[r].left : Awaited(r, Named(r, i))' => Named(r, i)' \in DOMAIN tools
  BY OthersKept
<1>2. ~serving /\ \A r \in Backends : routed[r] = {}
  BY NotServing
<1>3. \A r \in Backends : BackendOK(r)'
  BY <1>1
<1>4. ASSUME NEW n, \E r \in Backends : \E i \in Keeps(r) : n = Named(r, i)
      PROVE  \E r \in Backends : \E i \in Keeps(r)' : n = Named(r, i)'
  BY <1>1, <1>4
<1>5. ASSUME NEW n \in DOMAIN tools
      PROVE  NameOK(n)'
  <2>1. NameOK(n)
    BY DEF RegistryInv, RegisteredInv, ServingInv
  <2>2. n \in OwnTools' \/ \E r \in Backends : \E i \in Keeps(r)' : n = Named(r, i)'
    BY <1>1, <1>4, <2>1 DEF NameOK
  <2>3. \A r \in Backends : Awaited(r, n) => Awaited(r, n)'
    BY <1>1 DEF Awaited
  <2> QED
    BY <1>1, <2>1, <2>2, <2>3 DEF NameOK
<1>6. \A n \in offered : \E r \in Backends : \E i \in Keeps(r)' : n = Named(r, i)'
  BY <1>4 DEF RegistryInv, RegisteredInv, ServingInv
<1>7. ASSUME NEW r \in Backends, NEW i \in Keeps(r)' \ reg'[r].left
      PROVE  Named(r, i)' \in offered
  <2>1. CASE r = s
    BY <1>1, <1>7, <2>1 DEF RegistryInv, RegisteredInv, ServingInv
  <2>2. CASE r # s
    BY <1>1, <1>7, <2>2 DEF RegistryInv, RegisteredInv, ServingInv
  <2> QED
    BY <2>1, <2>2
<1>8. \A r \in Backends : \A i \in reg'[r].left :
         Awaited(r, Named(r, i))' => Named(r, i)' \in DOMAIN tools
  BY <1>1 DEF Awaited
<1> QED
  BY <1>1, <1>2, <1>3, <1>5, <1>6, <1>7, <1>8 DEF RegistryInv, RegisteredInv, ServingInv

\* A backend that has sent no list.
NoList(entry) ==
  /\ entry \in [pc : Pcs, list : {<<>>}, left : {{}}, pages : Nat, prompts : BOOLEAN]
  /\ entry.list = <<>> /\ entry.left = {} /\ entry.pc \notin {"record", "handler"}

\* The two states an untold backend can move to.
LEMMA UntoldEdited ==
  \A pc \in {"failed", "list"} :
    NoList([Untold EXCEPT !.pc = pc]) /\ [Untold EXCEPT !.pc = pc].pc = pc
  BY DEF Untold, NoList, Pcs

\* A step from one such state to another.
LEMMA EmptyStep ==
  ASSUME RegistryInv, NEW s \in Backends, NEW entry, Set(s, entry),
         reg[s].pc \in {"todo", "list"}, NoList(entry),
         UNCHANGED <<launch, allowed, tools, offered, serving, routed>>
  PROVE  RegistryInv'
<1>1. reg'[s] = entry /\ BackendOK(s)
  BY DEF RegistryInv, RegisteredInv, ServingInv, Set
<1>2. reg[s].list = <<>> /\ entry.list = <<>>
  BY <1>1 DEF BackendOK, NoList
<1>3. Keeps(s)' = {} /\ Keeps(s) = {}
  <2>1. Keeps(s) = {}
    BY <1>2, NothingKept DEF Keeps
  <2>2. Keeps(s)' = {}
    BY <1>1, <1>2 DEF Keeps, Kept
  <2> QED
    BY <2>1, <2>2
<1>4. BackendOK(s)'
  BY <1>1, <1>3 DEF BackendOK, NoList
<1> QED
  BY <1>3, <1>4, QuietStep DEF Over, NoList

\* Connecting to a backend, or failing to.
LEMMA FetchToolsPreserves ==
  ASSUME RegistryInv, NEW s \in Backends, FetchTools(s)
  PROVE  RegistryInv'
  BY UntoldEdited, EmptyStep DEF FetchTools

\* A page of the listing, the end of the listing or its failure.
LEMMA FetchPagePreserves ==
  ASSUME RegistryInv, NEW s \in Backends, FetchPage(s)
  PROVE  RegistryInv'
<1>1. /\ reg[s].pc = "list"
      /\ UNCHANGED <<launch, allowed, tools, offered, serving, routed>>
  BY DEF FetchPage
<1>2. CASE Set(s, [Untold EXCEPT !.pc = "failed"])
  BY <1>1, <1>2, UntoldEdited, EmptyStep
<1>3. CASE Set(s, [reg[s] EXCEPT !.pages = (@ + 1) % (PaginateAllMaxPages + 1)])
  <2> DEFINE entry == [reg[s] EXCEPT !.pages = (@ + 1) % (PaginateAllMaxPages + 1)]
  <2>1. BackendOK(s)
    BY DEF RegistryInv, RegisteredInv, ServingInv
  <2>2. (reg[s].pages + 1) % (PaginateAllMaxPages + 1) \in Nat
    BY <2>1, PagesAssumption DEF BackendOK
  <2>3. NoList(entry)
    BY <1>1, <2>1, <2>2 DEF BackendOK, NoList
  <2> HIDE DEF entry
  <2> QED
    BY <1>1, <1>3, <2>3, EmptyStep DEF entry
<1>4. CASE \E list \in Listings : Set(s, Listed(list, s))
  <2>1. PICK list \in Listings : Set(s, Listed(list, s))
    BY <1>4
  <2> DEFINE entry == Listed(list, s)
  <2>2. /\ entry \in [pc : {"record"}, list : {list}, left : {Kept(list, s)},
                      pages : {0}, prompts : BOOLEAN]
        /\ entry.pc = "record" /\ entry.list = list /\ entry.left = Kept(list, s)
    BY DEF Listed, Untold
  <2> HIDE DEF entry
  <2>3. reg'[s] = entry /\ BackendOK(s)
    BY <2>1 DEF RegistryInv, RegisteredInv, ServingInv, Set, entry
  <2>4. Keeps(s) = {}
    BY <1>1, <2>3, NothingKept DEF Keeps, BackendOK
  <2>5. Keeps(s)' = Kept(list, s)
    BY <1>1, <2>2, <2>3 DEF Keeps, Kept, IsToolAllowed
  <2>6. BackendOK(s)'
    BY <2>2, <2>3, <2>5 DEF BackendOK, Pcs
  <2>7. Set(s, entry)
    BY <2>1 DEF entry
  <2> QED
    BY <1>1, <2>2, <2>4, <2>5, <2>6, <2>7, QuietStep DEF Over
<1> QED
  BY <1>2, <1>3, <1>4 DEF FetchPage

\* The prompts, registered after the tools.
LEMMA RegisterPromptsPreserves ==
  ASSUME RegistryInv, NEW s \in Backends, RegisterPrompts(s)
  PROVE  RegistryInv'
<1>1. PICK prompts \in BOOLEAN : Set(s, [reg[s] EXCEPT !.pc = "done", !.prompts = prompts])
  BY DEF RegisterPrompts
<1> DEFINE entry == [reg[s] EXCEPT !.pc = "done", !.prompts = prompts]
<1>2. /\ reg[s].pc = "record" /\ reg[s].left = {}
      /\ UNCHANGED <<launch, allowed, tools, offered, serving, routed>>
  BY DEF RegisterPrompts
<1>3. BackendOK(s)
  BY DEF RegistryInv, RegisteredInv, ServingInv
<1>4. /\ entry \in [pc : {"done"}, list : Listings \cup {<<>>}, left : {{}},
                    pages : Nat, prompts : BOOLEAN]
      /\ entry.list = reg[s].list /\ entry.left = {} /\ entry.pc = "done"
  BY <1>2, <1>3 DEF BackendOK
<1> HIDE DEF entry
<1>5. reg'[s] = entry
  BY <1>1 DEF RegistryInv, RegisteredInv, ServingInv, Set, entry
<1>6. Keeps(s)' = Keeps(s) /\ \A i : Named(s, i)' = Named(s, i)
  BY <1>2, <1>4, <1>5 DEF Keeps, Kept, IsToolAllowed, Named
<1>7. BackendOK(s)'
  BY <1>4, <1>5 DEF BackendOK, Pcs
<1>8. Set(s, entry)
  BY <1>1 DEF entry
<1> QED
  BY <1>2, <1>4, <1>6, <1>7, <1>8, QuietStep DEF Over

\* A tool enters the registry without its handler.
LEMMA RecordToolPreserves ==
  ASSUME RegistryInv, NEW s \in Backends, RecordTool(s)
  PROVE  RegistryInv'
<1> DEFINE entry == [reg[s] EXCEPT !.pc = "handler"]
<1>1. PICK i \in reg[s].left :
        /\ IsNext(s, i)
        /\ tools' = [n \in DOMAIN tools \cup {Named(s, i)} |->
                       IF n = Named(s, i) THEN FALSE ELSE tools[n]]
  BY DEF RecordTool
<1>2. /\ reg[s].pc = "record" /\ Set(s, entry)
      /\ UNCHANGED <<launch, allowed, offered, serving, routed>>
  BY DEF RecordTool
<1>3. BackendOK(s)
  BY DEF RegistryInv, RegisteredInv, ServingInv
<1>4. /\ entry \in [pc : {"handler"}, list : Listings \cup {<<>>}, left : SUBSET Keeps(s),
                    pages : Nat, prompts : BOOLEAN]
      /\ entry.list = reg[s].list /\ entry.left = reg[s].left /\ entry.pc = "handler"
  BY <1>2, <1>3 DEF BackendOK
<1> HIDE DEF entry
<1>5. /\ reg' = [r \in Backends |-> reg'[r]] /\ reg'[s] = entry /\ OwnTools' = OwnTools
      /\ \A r \in Backends \ {s} :
           /\ reg'[r] = reg[r] /\ Keeps(r)' = Keeps(r) /\ BackendOK(r)'
           /\ \A j : Named(r, j)' = Named(r, j)
           /\ \A n : Awaited(r, n)' <=> Awaited(r, n)
           /\ \A j \in reg'[r].left : Awaited(r, Named(r, j))' => Named(r, j)' \in DOMAIN tools
  BY <1>2, OthersKept
<1>6. ~serving /\ \A r \in Backends : routed[r] = {}
  BY <1>2, NotServing DEF Over
<1>7. Keeps(s)' = Keeps(s) /\ \A j : Named(s, j)' = Named(s, j)
  BY <1>2, <1>4, <1>5 DEF Keeps, Kept, IsToolAllowed, Named
<1>8. \A r \in Backends : BackendOK(r)'
  BY <1>4, <1>5, <1>7 DEF BackendOK, Pcs
<1>9. Awaited(s, Named(s, i))' /\ i \in Keeps(s)
  BY <1>1, <1>3, <1>4, <1>5, <1>7 DEF Awaited, IsNext, BackendOK
<1>10. DOMAIN tools' = DOMAIN tools \cup {Named(s, i)} /\ tools' \in [DOMAIN tools' -> BOOLEAN]
  BY <1>1 DEF RegistryInv, RegisteredInv, ServingInv
<1>11. ASSUME NEW n \in DOMAIN tools'
       PROVE  NameOK(n)'
  <2>1. CASE n = Named(s, i)
    BY <1>7, <1>9, <2>1 DEF NameOK
  <2>2. CASE n # Named(s, i)
    <3>1. n \in DOMAIN tools /\ tools'[n] = tools[n] /\ NameOK(n)
      BY <1>1, <1>10, <2>2 DEF RegistryInv, RegisteredInv, ServingInv
    <3>2. \A r \in Backends : Awaited(r, n) => Awaited(r, n)'
      BY <1>2, <1>5 DEF Awaited
    <3>3. n \in OwnTools' \/ \E r \in Backends : \E j \in Keeps(r)' : n = Named(r, j)'
      BY <1>5, <1>7, <3>1 DEF NameOK
    <3> QED
      BY <1>2, <1>5, <3>1, <3>2, <3>3 DEF NameOK
  <2> QED
    BY <2>1, <2>2
<1>12. \A n \in offered : \E r \in Backends : \E j \in Keeps(r)' : n = Named(r, j)'
  BY <1>5, <1>7 DEF RegistryInv, RegisteredInv, ServingInv
<1>13. ASSUME NEW r \in Backends, NEW j \in Keeps(r)' \ reg'[r].left
       PROVE  Named(r, j)' \in offered
  BY <1>4, <1>5, <1>7, <1>13 DEF RegistryInv, RegisteredInv, ServingInv
<1>14. ASSUME NEW r \in Backends, NEW j \in reg'[r].left, Awaited(r, Named(r, j))'
       PROVE  Named(r, j)' \in DOMAIN tools'
  <2>1. CASE r = s
    <3>1. PICK k \in reg'[s].left : IsNext(s, k)' /\ Named(s, j)' = Named(s, k)'
      BY <1>14, <2>1 DEF Awaited
    <3>2. k = i
      BY <1>1, <1>3, <1>4, <1>5, <3>1, ListingsAssumption DEF IsNext, BackendOK, Keeps, Kept
    <3> QED
      BY <1>7, <1>10, <2>1, <3>1, <3>2
  <2>2. CASE r # s
    BY <1>5, <1>10, <1>14, <2>2
  <2> QED
    BY <2>1, <2>2
<1> QED
  BY <1>2, <1>5, <1>6, <1>8, <1>10, <1>11, <1>12, <1>13, <1>14
  DEF RegistryInv, RegisteredInv, ServingInv

\* The next tool of a list is one: positions are numbers.
LEMMA NextUnique ==
  ASSUME RegistryInv, NEW s \in Backends, NEW i, NEW k, IsNext(s, i), IsNext(s, k)
  PROVE  i = k
<1>1. BackendOK(s)
  BY DEF RegistryInv, RegisteredInv, ServingInv
<1>2. i \in Nat /\ k \in Nat
  BY <1>1, ListingsAssumption DEF BackendOK, IsNext, Keeps, Kept
<1> QED
  BY <1>2 DEF IsNext

\* The tool that was recorded gets its handler and is offered.
LEMMA SetHandlerPreserves ==
  ASSUME RegistryInv, NEW s \in Backends, SetHandler(s)
  PROVE  RegistryInv'
<1>1. PICK i \in reg[s].left :
        /\ IsNext(s, i)
        /\ tools' = [tools EXCEPT ![Named(s, i)] = TRUE]
        /\ offered' = offered \cup {Named(s, i)}
        /\ Set(s, [reg[s] EXCEPT !.pc = "record", !.left = @ \ {i}])
  BY DEF SetHandler
<1> DEFINE entry == [reg[s] EXCEPT !.pc = "record", !.left = @ \ {i}]
<1>2. reg[s].pc = "handler" /\ UNCHANGED <<launch, allowed, serving, routed>>
  BY DEF SetHandler
<1>3. BackendOK(s)
  BY DEF RegistryInv, RegisteredInv, ServingInv
<1>4. /\ entry \in [pc : {"record"}, list : Listings \cup {<<>>}, left : SUBSET Keeps(s),
                    pages : Nat, prompts : BOOLEAN]
      /\ entry.list = reg[s].list /\ entry.left = reg[s].left \ {i} /\ entry.pc = "record"
  BY <1>2, <1>3 DEF BackendOK
<1>5. Set(s, entry)
  BY <1>1
<1> HIDE DEF entry
<1>6. /\ reg' = [r \in Backends |-> reg'[r]] /\ reg'[s] = entry /\ OwnTools' = OwnTools
      /\ \A r \in Backends \ {s} :
           /\ reg'[r] = reg[r] /\ Keeps(r)' = Keeps(r) /\ BackendOK(r)'
           /\ \A j : Named(r, j)' = Named(r, j)
           /\ \A n : Awaited(r, n)' <=> Awaited(r, n)
           /\ \A j \in reg'[r].left : Awaited(r, Named(r, j))' => Named(r, j)' \in DOMAIN tools
  BY <1>2, <1>5, OthersKept
<1>7. ~serving /\ \A r \in Backends : routed[r] = {}
  BY <1>2, NotServing DEF Over
<1>8. Keeps(s)' = Keeps(s) /\ \A j : Named(s, j)' = Named(s, j)
  BY <1>2, <1>4, <1>6 DEF Keeps, Kept, IsToolAllowed, Named
<1>9. \A r \in Backends : BackendOK(r)'
  BY <1>4, <1>6, <1>8 DEF BackendOK, Pcs
<1>10. Named(s, i) \in DOMAIN tools /\ i \in Keeps(s)
  BY <1>1, <1>2, <1>3 DEF RegistryInv, RegisteredInv, ServingInv, Awaited, BackendOK
<1>11. DOMAIN tools' = DOMAIN tools /\ tools' \in [DOMAIN tools' -> BOOLEAN] /\ tools'[Named(s, i)]
  BY <1>1, <1>10 DEF RegistryInv, RegisteredInv, ServingInv
<1>12. ASSUME NEW n \in DOMAIN tools'
       PROVE  NameOK(n)'
  <2>1. CASE n = Named(s, i)
    <3>1. n \in offered'
      BY <1>1, <2>1
    <3>2. i \in Keeps(s)' /\ n = Named(s, i)'
      BY <1>8, <1>10, <2>1
    <3> QED
      BY <1>11, <2>1, <3>1, <3>2 DEF NameOK
  <2>2. CASE n # Named(s, i)
    <3>1. n \in DOMAIN tools /\ tools'[n] = tools[n] /\ NameOK(n)
      BY <1>1, <1>11, <2>2 DEF RegistryInv, RegisteredInv, ServingInv
    <3>2. \A r \in Backends : Awaited(r, n) => Awaited(r, n)'
      <4>1. ~Awaited(s, n)
        BY <1>1, <2>2, NextUnique DEF Awaited
      <4> QED
        BY <1>6, <4>1
    <3>3. n \in OwnTools' \/ \E r \in Backends : \E j \in Keeps(r)' : n = Named(r, j)'
      BY <1>6, <1>8, <3>1 DEF NameOK
    <3> QED
      BY <1>1, <1>6, <3>1, <3>2, <3>3 DEF NameOK
  <2> QED
    BY <2>1, <2>2
<1>13. \A n \in offered' :
          n \in DOMAIN tools' /\ \E r \in Backends : \E j \in Keeps(r)' : n = Named(r, j)'
  BY <1>1, <1>6, <1>8, <1>10, <1>11 DEF RegistryInv, RegisteredInv, ServingInv
<1>14. ASSUME NEW r \in Backends, NEW j \in Keeps(r)' \ reg'[r].left
       PROVE  Named(r, j)' \in offered'
  <2>1. CASE r = s /\ j = i
    BY <1>1, <1>8, <2>1
  <2>2. CASE r = s /\ j # i
    BY <1>1, <1>4, <1>6, <1>8, <1>14, <2>2 DEF RegistryInv, RegisteredInv, ServingInv
  <2>3. CASE r # s
    BY <1>1, <1>6, <1>14, <2>3 DEF RegistryInv, RegisteredInv, ServingInv
  <2> QED
    BY <2>1, <2>2, <2>3
<1>15. ASSUME NEW r \in Backends, NEW j \in reg'[r].left, Awaited(r, Named(r, j))'
       PROVE  Named(r, j)' \in DOMAIN tools'
  <2>1. r # s
    BY <1>4, <1>6, <1>15 DEF Awaited
  <2> QED
    BY <1>6, <1>11, <1>15, <2>1
<1> QED
  BY <1>2, <1>6, <1>7, <1>9, <1>11, <1>12, <1>13, <1>14, <1>15
  DEF RegistryInv, RegisteredInv, ServingInv

\* What is registered does not depend on what is served.
LEMMA RegisteredStutter ==
  ASSUME RegisteredInv, UNCHANGED <<launch, allowed, reg, tools, offered>>
  PROVE  RegisteredInv'
<1>1. /\ OwnTools' = OwnTools
      /\ \A s : Keeps(s)' = Keeps(s)
      /\ \A s, i : Named(s, i)' = Named(s, i)
      /\ \A s, i : IsNext(s, i)' <=> IsNext(s, i)
  BY DEF OwnTools, Keeps, Kept, IsToolAllowed, Named, IsNext
<1>2. /\ \A s : BackendOK(s)' <=> BackendOK(s)
      /\ \A s, n : Awaited(s, n)' <=> Awaited(s, n)
  BY <1>1 DEF BackendOK, Awaited
<1>3. \A n : NameOK(n)' <=> NameOK(n)
  BY <1>1, <1>2 DEF NameOK
<1> QED
  BY <1>1, <1>2, <1>3 DEF RegisteredInv

\* Every step of the registration keeps the invariant.
LEMMA RegistryInvNext == RegistryInv /\ [RegistryNext]_regVars => RegistryInv'
<1> SUFFICES ASSUME RegistryInv, [RegistryNext]_regVars
             PROVE  RegistryInv'
  OBVIOUS
<1>1. ASSUME NEW s \in Backends, RegisterStep(s)
      PROVE  RegistryInv'
  BY <1>1, FetchToolsPreserves, FetchPagePreserves, RecordToolPreserves,
     SetHandlerPreserves, RegisterPromptsPreserves DEF RegisterStep, Asking
<1>2. CASE StartServing
  <2>1. /\ AllOver(Backends) /\ serving' /\ ~serving
        /\ UNCHANGED <<launch, allowed, reg, tools, offered, routed>>
    BY <1>2 DEF StartServing
  <2>2. AllOver(Backends)'
    BY <2>1 DEF AllOver, Over
  <2>3. routed = [s \in Backends |-> routed[s]] /\ \A s \in Backends : routed[s] = {}
    BY <2>1 DEF RegistryInv, ServingInv
  <2>4. ServingInv'
    BY <2>1, <2>2, <2>3 DEF ServingInv
  <2> QED
    BY <2>1, <2>4, RegisteredStutter DEF RegistryInv
<1>3. ASSUME NEW s \in Backends, CreateFilteredServer(s)
      PROVE  RegistryInv'
  <2>1. /\ serving /\ routed' = [routed EXCEPT ![s] = Filtered(s)]
        /\ UNCHANGED <<launch, allowed, reg, tools, offered, serving>>
    BY <1>3 DEF CreateFilteredServer
  <2>2. \A r \in Backends : Filtered(r)' = Filtered(r)
    BY <2>1 DEF Filtered
  <2>3. /\ routed' = [r \in Backends |-> routed'[r]]
        /\ \A r \in Backends : routed'[r] # {} => routed'[r] = Filtered(r)
    BY <2>1 DEF RegistryInv, ServingInv
  <2>4. AllOver(Backends)'
    BY <2>1 DEF RegistryInv, ServingInv, AllOver, Over
  <2>5. ServingInv'
    BY <2>1, <2>2, <2>3, <2>4 DEF ServingInv
  <2> QED
    BY <2>1, <2>5, RegisteredStutter DEF RegistryInv
<1>4. CASE UNCHANGED regVars
  <2>1. UNCHANGED <<launch, allowed, reg, tools, offered, serving, routed>>
    BY <1>4 DEF regVars
  <2>2. \A r \in Backends : Filtered(r)' = Filtered(r)
    BY <2>1 DEF Filtered
  <2>3. ServingInv'
    BY <2>1, <2>2 DEF RegistryInv, ServingInv, AllOver, Over
  <2> QED
    BY <2>1, <2>3, RegisteredStutter DEF RegistryInv
<1> QED
  BY <1>1, <1>2, <1>3, <1>4 DEF RegistryNext

\* At every step of the registration: a name in the registry is the gateway's own or
\* comes from a tool its backend listed and the configuration allows; every name
\* but the one being recorded has its handler; and what a backend has come past is
\* offered (registerToolsFromBackend, registerToolWithoutValidation).
THEOREM RegistrySound == RegistrySpec => []RegistryInv
  BY RegistryInvInit, RegistryInvNext, PTL DEF RegistrySpec

\* The invariant at the time of serving.
LEMMA RegistryServes == RegistryInv => ServedToolsComplete
<1> SUFFICES ASSUME RegistryInv, serving
             PROVE  ServedToolsComplete
  BY DEF ServedToolsComplete
<1>1. \A s \in Backends : BackendOK(s) /\ reg[s].pc \in {"done", "failed"} /\ reg[s].left = {}
  BY DEF RegistryInv, RegisteredInv, ServingInv, AllOver, Over, BackendOK
<1>2. \A n : n \in ToBeServed <=> \E s \in Backends : \E i \in Keeps(s) : n = Named(s, i)
  <2>1. ASSUME NEW n \in ToBeServed
        PROVE  \E s \in Backends : \E i \in Keeps(s) : n = Named(s, i)
    BY DEF ToBeServed, Keeps
  <2>2. ASSUME NEW s \in Backends, NEW i \in Keeps(s)
        PROVE  Named(s, i) \in ToBeServed
    <3>1. reg[s].pc = "done"
      BY <1>1, NothingKept DEF BackendOK, Keeps
    <3> QED
      BY <3>1 DEF ToBeServed, Keeps
  <2> QED
    BY <2>1, <2>2
<1>3. offered = ToBeServed
  <2>1. \A n \in offered : n \in ToBeServed
    BY <1>2 DEF RegistryInv, RegisteredInv
  <2>2. ASSUME NEW n \in ToBeServed
        PROVE  n \in offered
    BY <1>1, <1>2 DEF RegistryInv, RegisteredInv
  <2> QED
    BY <2>1, <2>2
<1>4. \A n \in DOMAIN tools : tools[n] /\ n \in offered \cup OwnTools
  BY <1>1 DEF RegistryInv, RegisteredInv, NameOK, Awaited
<1>5. DOMAIN tools = ToBeServed \cup OwnTools
  BY <1>3, <1>4 DEF RegistryInv, RegisteredInv
<1>6. \A s \in Backends : Filtered(s) = {n \in DOMAIN tools : n[1] = s}
  BY <1>4 DEF Filtered
<1> QED
  BY <1>3, <1>4, <1>5, <1>6 DEF ServedToolsComplete, RegistryInv, ServingInv, OwnTools

\* ServedToolsComplete: for any backends, any listings in any pages and any allowed
\* sets, every tool that a backend listed and that is allowed is offered with its
\* handler once the gateway serves, and no other (registerAllTools,
\* registerToolsFromBackend, GetToolsForBackend).
THEOREM ServesWhatIsListed == RegistrySpec => []ServedToolsComplete
  BY RegistrySound, RegistryServes, PTL

-----------------------------------------------------------------------------
(* The circuit breaker (CircuitBreaker). *)

\* The invariant in two parts, each inductive on its own: the counters and
\* times, and the probe flag.
Counters ==
  /\ consecutiveErrors \in Nat /\ openedAt \in Nat /\ resetAt \in Nat
  /\ state \in {CLOSED, OPEN, HALFOPEN}
  /\ now \in Nat \ {0}
  /\ call \in [Calls -> CallPlaces]
  /\ ClosedBelowThreshold
  /\ TrippedAtThreshold

Probe == probeInFlight \in BOOLEAN /\ HalfOpenMeansProbe

IInv == Counters /\ Probe

\* The reset time a rate-limit answer leaves behind is an instant.
LEMMA ResetTimesType == now \in Nat => ResetTimes \subseteq Nat
  BY TimeAssumption DEF ResetTimes, ZeroTime

LEMMA InitCounters == Init => Counters
  BY ThresholdAssumption
  DEF Init, Counters, ClosedBelowThreshold, TrippedAtThreshold, CLOSED, OPEN,
      HALFOPEN, ZeroTime, CallPlaces

LEMMA InitProbe == Init => Probe
  BY DEF Init, Probe, HalfOpenMeansProbe, CLOSED, HALFOPEN

\* Every step keeps the counters and times typed, and on their side of the
\* threshold.
LEMMA NextCounters == Counters /\ [Next]_vars => Counters'
<1> SUFFICES ASSUME Counters, [Next]_vars PROVE Counters'
  OBVIOUS
<1> USE ThresholdAssumption
    DEF Counters, ClosedBelowThreshold, TrippedAtThreshold, CLOSED, OPEN,
        HALFOPEN, CallPlaces
<1>1. CASE Tick
  BY <1>1 DEF Tick, breaker
<1>2. ASSUME NEW c \in Calls, AllowClosed(c) PROVE Counters'
  BY <1>2 DEF AllowClosed, breaker
<1>3. ASSUME NEW c \in Calls, AllowProbe(c) PROVE Counters'
  BY <1>3 DEF AllowProbe
<1>4. ASSUME NEW c \in Calls, RejectOpen(c) PROVE Counters'
  BY <1>4 DEF RejectOpen, vars
<1>5. ASSUME NEW c \in Calls, AllowHalfOpen(c) PROVE Counters'
  BY <1>5 DEF AllowHalfOpen, HalfOpenAdmits, breaker
<1>6. ASSUME NEW c \in Calls, RecordSuccess(c) PROVE Counters'
  BY <1>6 DEF RecordSuccess, StateAfterSuccess, ErrorsAfterSuccess, ZeroTime
<1>7. ASSUME NEW c \in Calls, RecordRateLimit(c) PROVE Counters'
  <2>1. PICK at \in ResetTimes : resetAt' = IF at # ZeroTime THEN at ELSE resetAt
    BY <1>7 DEF RecordRateLimit
  <2>2. resetAt' \in Nat
    BY <2>1, ResetTimesType
  <2>3. CASE Opens
    BY <1>7, <2>2, <2>3 DEF RecordRateLimit, Opens
  <2>4. CASE ~Opens
    BY <1>7, <2>2, <2>4 DEF RecordRateLimit, Opens
  <2> QED BY <2>3, <2>4
<1>8. ASSUME NEW c \in Calls, TransportError(c) PROVE Counters'
  BY <1>8 DEF TransportError, breaker
<1>9. CASE UNCHANGED vars
  BY <1>9 DEF vars
<1> QED
  BY <1>1, <1>2, <1>3, <1>4, <1>5, <1>6, <1>7, <1>8, <1>9 DEF Next, Allow, Return

\* Every step keeps the probe flag set exactly in HALF-OPEN.
LEMMA NextProbe == Probe /\ [Next]_vars => Probe'
<1> SUFFICES ASSUME Probe, [Next]_vars PROVE Probe'
  OBVIOUS
<1> USE DEF Probe, HalfOpenMeansProbe, CLOSED, OPEN, HALFOPEN
<1>1. CASE Tick
  BY <1>1 DEF Tick, breaker
<1>2. ASSUME NEW c \in Calls, Allow(c) PROVE Probe'
  BY <1>2 DEF Allow, AllowClosed, AllowProbe, RejectOpen, AllowHalfOpen, breaker, vars
<1>3. ASSUME NEW c \in Calls, Return(c) PROVE Probe'
  BY <1>3 DEF Return, RecordSuccess, StateAfterSuccess, RecordRateLimit, Opens,
              TransportError, breaker
<1>4. CASE UNCHANGED vars
  BY <1>4 DEF vars
<1> QED
  BY <1>1, <1>2, <1>3, <1>4 DEF Next

LEMMA SpecIInv == Spec => []IInv
<1>1. Init => IInv
  BY InitCounters, InitProbe DEF IInv
<1>2. IInv /\ [Next]_vars => IInv'
  BY NextCounters, NextProbe DEF IInv
<1> QED BY <1>1, <1>2, PTL DEF Spec

\* The breaker's variables keep their types.
THEOREM TypeCorrect == Spec => []TypeOK
<1>1. IInv => TypeOK
  BY DEF IInv, Counters, Probe, TypeOK
<1> QED BY <1>1, SpecIInv, PTL

\* Whatever stale answers arrive, a probe is in flight exactly in HALF-OPEN, a
\* closed circuit is below the threshold and a tripped one is at or above it.
THEOREM BreakerConsistent == Spec => []BreakerInv
<1>1. IInv => BreakerInv
  BY DEF IInv, Counters, Probe, BreakerInv
<1> QED BY <1>1, SpecIInv, PTL

\* No call joins the ones at the backend while the circuit is HALF-OPEN.
THEOREM SingleProbe == Spec => OneProbePerHalfOpen
<1>1. IInv /\ [Next]_vars => [state = HALFOPEN => Admitted' \subseteq Admitted]_vars
  <2> SUFFICES ASSUME IInv, Next, state = HALFOPEN, NEW d \in Admitted'
               PROVE d \in Admitted
    BY DEF vars
  <2> USE DEF Admitted, Busy, IInv, Counters, Probe, HalfOpenMeansProbe,
          CLOSED, OPEN, HALFOPEN
  <2>1. CASE Tick
    BY <2>1 DEF Tick
  <2>2. ASSUME NEW c \in Calls, Allow(c) PROVE d \in Admitted
    BY <2>2 DEF Allow, AllowClosed, AllowProbe, RejectOpen, AllowHalfOpen,
                HalfOpenAdmits, vars
  <2>3. ASSUME NEW c \in Calls, Return(c) PROVE d \in Admitted
    BY <2>3 DEF Return, RecordSuccess, RecordRateLimit, TransportError
  <2> QED BY <2>1, <2>2, <2>3 DEF Next
<1> QED BY <1>1, SpecIInv, PTL DEF Spec, OneProbePerHalfOpen

\* A call passes an open circuit only once its window is over.
THEOREM WindowIsRespected == Spec => WindowRespected
<1> DEFINE Passed == \/ resetAt > openedAt /\ now > resetAt
                     \/ resetAt <= openedAt /\ now > openedAt + Cooldown
<1>1. IInv /\ [Next]_vars =>
        [(state = OPEN /\ ~(Admitted' \subseteq Admitted)) => Passed]_vars
  <2> SUFFICES ASSUME IInv, Next, state = OPEN, NEW d \in Admitted', d \notin Admitted
               PROVE Passed
    BY DEF vars
  <2> USE DEF Admitted, Busy, IInv, Counters, CLOSED, OPEN, HALFOPEN
  <2>1. CASE Tick
    BY <2>1 DEF Tick
  <2>2. ASSUME NEW c \in Calls, AllowProbe(c) PROVE Passed
    BY <2>2, CooldownAssumption DEF AllowProbe, OpenUntil, ZeroTime
  <2>3. ASSUME NEW c \in Calls, AllowClosed(c) \/ RejectOpen(c) \/ AllowHalfOpen(c)
        PROVE Passed
    BY <2>3 DEF AllowClosed, RejectOpen, AllowHalfOpen, vars
  <2>4. ASSUME NEW c \in Calls, Return(c) PROVE Passed
    BY <2>4 DEF Return, RecordSuccess, RecordRateLimit, TransportError
  <2> QED BY <2>1, <2>2, <2>3, <2>4 DEF Next, Allow
<1> QED BY <1>1, SpecIInv, PTL DEF Spec, WindowRespected
=============================================================================
