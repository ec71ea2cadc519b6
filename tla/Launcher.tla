------------------------------ MODULE Launcher ------------------------------
(***************************************************************************)
(* The connections of one backend server: the launcher, its session pool   *)
(* and the health monitor (internal/launcher).                             *)
(*                                                                         *)
(* An http server has one connection, which all sessions share; a stdio    *)
(* server has one process per session, and a shared one that tool          *)
(* registration started.  launcher.mu, one lock for all servers, is held   *)
(* for a whole launch, so that a launch is one step.  The initialize of a  *)
(* plain JSON-RPC server has no deadline: `hung' says that a launch, of    *)
(* this server or of another, holds the lock and waits for its answer.     *)
(* The pool has a lock of its own.                                         *)
(***************************************************************************)
EXTENDS Naturals

CONSTANTS Sessions,
          Shared,      \* the key of the shared connection
          Late,        \* in place of a key: connected after its launch was given up
          Handlers,    \* goroutines that make calls
          MaxFailures, \* maxConsecutiveRestartFailures
          MaxConns,    \* bound: connections at a time
          MaxLate      \* bound: abandoned launches at a time

ASSUME KeyAssumption == Shared \notin Sessions /\ Late \notin Sessions \cup {Shared}
ASSUME LauncherBounds == MaxFailures \in Nat /\ MaxConns \in Nat /\ MaxLate \in Nat

VARIABLES kind,       \* of the server: "http" or "stdio"
          cached,     \* l.connections at Shared, the session pool at the sessions
          stale,      \* sessions whose LastUsedAt is past the idle timeout
          serverErr,  \* the server is in l.serverErrors
          started,    \* the server is in l.serverStartTimes
          late,       \* connection goroutines nobody waits for any more
          callPc, session, using,  \* per handler: its place, session and connection
          monitor, failures,   \* the health monitor and consecutiveFailures
          phase, ctxDone,     \* the shutdown, and the end of l.ctx
          hung,       \* launcher.mu is held by a launch that has no answer
          \* The world: connections that are open, the key each was made for.
          \* Ghosts: those Stop forgot, restarts since the last good launch.
          open, owner, dropped, restarts

status == <<serverErr, started>>
conns == <<cached, late, open, owner>>
callVars == <<callPc, session, using>>
monitorVars == <<monitor, failures>>
shutdownVars == <<phase, ctxDone, dropped>>
backendVars == <<kind, status, conns, stale, callVars, monitorVars, shutdownVars, restarts>>
launcherVars == <<backendVars, hung>>

Nil == 0
ConnIDs == 1..MaxConns
PoolKeys == Sessions \cup {Shared}

LauncherTypeOK ==
  /\ kind \in {"http", "stdio"}
  /\ cached \in [PoolKeys -> ConnIDs \cup {Nil}]
  /\ stale \subseteq Sessions
  /\ serverErr \in BOOLEAN /\ started \in BOOLEAN /\ ctxDone \in BOOLEAN /\ hung \in BOOLEAN
  /\ late \in Nat
  /\ callPc \in [Handlers -> {"idle", "get", "launch", "using"}]
  /\ session \in [Handlers -> Sessions]
  /\ using \in [Handlers -> ConnIDs \cup {Nil}]
  /\ monitor \in {"idle", "restart", "relaunch"}
  /\ failures \in 0..MaxFailures
  /\ phase \in {"starting", "up", "stopping", "closed"}
  /\ open \subseteq ConnIDs
  /\ owner \in [ConnIDs -> PoolKeys \cup {Late}]
  /\ dropped \subseteq ConnIDs
  /\ restarts \in Nat

LauncherInit ==
  /\ kind \in {"http", "stdio"}
  /\ cached = [k \in PoolKeys |-> Nil]
  /\ stale = {}
  /\ serverErr = FALSE /\ started = FALSE /\ ctxDone = FALSE /\ hung = FALSE
  /\ late = 0
  /\ callPc = [c \in Handlers |-> "idle"]
  /\ session \in [Handlers -> Sessions]
  /\ using = [c \in Handlers |-> Nil]
  /\ monitor = "idle" /\ failures = 0
  /\ phase = "starting"
  /\ open = {} /\ owner = [x \in ConnIDs |-> Late]
  /\ dropped = {} /\ restarts = 0

-----------------------------------------------------------------------------
(* launcher.mu.  Every look at the configuration, at l.connections and at   *)
(* the state of the server takes it.                                        *)
LockFree == ~hung

\* New processes and requests live in l.ctx.
CanStart_Background == TRUE
CanStart == ~ctxDone

\* executeHTTPRequest on l.ctx, without a timeout: it waits for the answer or
\* for the end of the context, and no longer.
Hangs ==
  /\ LockFree /\ CanStart
  /\ hung' = TRUE
  /\ UNCHANGED backendVars

Answers ==
  /\ hung
  /\ hung' = FALSE
  /\ UNCHANGED backendVars

-----------------------------------------------------------------------------
(* A launch, by whoever holds the lock. *)

\* A number that is nobody's.
Unused ==
  {x \in ConnIDs :
     x \notin open /\ (\A k \in PoolKeys : cached[k] # x) /\ (\A c \in Handlers : using[c] # x)}

Fresh == CHOOSE x \in Unused : TRUE

NewConnection(k) ==
  /\ CanStart
  /\ Unused # {}
  /\ open' = open \cup {Fresh}
  /\ owner' = [owner EXCEPT ![Fresh] = k]

\* recordStart clears the error only when no start is on record.
ErrorAfterStart == started /\ serverErr

LaunchOk(k) ==
  /\ NewConnection(k)
  /\ cached' = [cached EXCEPT ![k] = Fresh]
  /\ stale' = stale \ {k}
  /\ started' = TRUE
  /\ serverErr' = ErrorAfterStart
  /\ restarts' = 0
  /\ UNCHANGED late

LaunchFails ==
  /\ serverErr' = TRUE
  /\ UNCHANGED <<conns, stale, started, restarts>>

\* The goroutine that connects is left behind.
LaunchTimesOut ==
  /\ kind = "stdio"
  /\ late < MaxLate
  /\ late' = late + 1
  /\ serverErr' = TRUE
  /\ UNCHANGED <<cached, open, owner, stale, started, restarts>>

\* ...and what it starts belongs to nobody.
LateConnects ==
  /\ late > 0
  /\ NewConnection(Late)
  /\ late' = late - 1
  /\ UNCHANGED <<cached, stale, status, callVars, monitorVars, shutdownVars, restarts>>

LateFails ==
  /\ late > 0
  /\ late' = late - 1
  /\ UNCHANGED <<cached, open, owner, stale, status, callVars, monitorVars, shutdownVars, restarts>>

\* registerToolsFromBackend, before the gateway serves.
Register ==
  /\ LockFree /\ phase = "starting"
  /\ phase' = "up"
  /\ LaunchOk(Shared) \/ LaunchFails \/ LaunchTimesOut
  /\ UNCHANGED <<callVars, monitorVars, ctxDone, dropped>>

-----------------------------------------------------------------------------
(* A tool call: GetOrLaunchForSession, then the request. *)
Key_PerServer(c) == Shared
Key(c) == IF kind = "http" THEN Shared ELSE session[c]

CallGoto(c, place) == callPc' = [callPc EXCEPT ![c] = place]

CallArrives(c) ==
  /\ callPc[c] = "idle"
  /\ phase = "up"
  /\ \E s \in Sessions : session' = [session EXCEPT ![c] = s]
  /\ CallGoto(c, "get")
  /\ UNCHANGED <<status, conns, stale, using, monitorVars, shutdownVars, restarts>>

\* Get refreshes LastUsedAt.
StaleAfterGet_Kept(k) == stale
StaleAfterGet(k) == stale \ {k}

Take(c) ==
  /\ using' = [using EXCEPT ![c] = cached[Key(c)]]
  /\ stale' = StaleAfterGet(Key(c))
  /\ CallGoto(c, "using")
  /\ UNCHANGED <<status, conns, session, monitorVars, shutdownVars, restarts>>

GetHit(c) ==
  /\ LockFree /\ callPc[c] = "get"
  /\ cached[Key(c)] # Nil
  /\ Take(c)

GetMiss(c) ==
  /\ LockFree /\ callPc[c] = "get"
  /\ cached[Key(c)] = Nil
  /\ CallGoto(c, "launch")
  /\ UNCHANGED <<status, conns, stale, session, using, monitorVars, shutdownVars, restarts>>

\* The second look, with the lock held.
Found_Unchecked(c) == FALSE
Found(c) == cached[Key(c)] # Nil

LaunchFound(c) ==
  /\ LockFree /\ callPc[c] = "launch"
  /\ Found(c)
  /\ Take(c)

CallLaunches(c) ==
  /\ LockFree /\ callPc[c] = "launch"
  /\ ~Found(c)
  /\ LaunchOk(Key(c))
  /\ using' = [using EXCEPT ![c] = Fresh]
  /\ CallGoto(c, "using")
  /\ UNCHANGED <<session, monitorVars, shutdownVars>>

\* RecordError of the pool finds no entry to count in.
CallLaunchFails(c) ==
  /\ LockFree /\ callPc[c] = "launch"
  /\ ~Found(c)
  /\ LaunchFails \/ LaunchTimesOut
  /\ CallGoto(c, "idle")
  /\ UNCHANGED <<session, using, monitorVars, shutdownVars>>

\* The answer, an error, or the tool timeout.
CallFinishes(c) ==
  /\ callPc[c] = "using"
  /\ using' = [using EXCEPT ![c] = Nil]
  /\ CallGoto(c, "idle")
  /\ UNCHANGED <<status, conns, stale, session, monitorVars, shutdownVars, restarts>>

-----------------------------------------------------------------------------
(* The cleanup of the pool. *)
Uses(c, k) == callPc[c] = "using" /\ Key(c) = k

\* The idle timeout passes.  It is six hours, more than a call lasts, so
\* that it is counted from the end of the last call on.
Age(s) ==
  /\ s \notin stale
  /\ cached[s] # Nil
  /\ \A c \in Handlers : ~Uses(c, s)
  /\ stale' = stale \cup {s}
  /\ UNCHANGED <<status, conns, callVars, monitorVars, shutdownVars, restarts>>

Cleanup ==
  LET idle == {s \in stale : cached[s] # Nil} IN
  /\ phase # "closed" /\ ~ctxDone
  /\ idle # {}
  /\ open' = open \ {cached[s] : s \in idle}
  /\ cached' = [k \in PoolKeys |-> IF k \in idle THEN Nil ELSE cached[k]]
  /\ stale' = stale \ idle
  /\ UNCHANGED <<late, owner, status, callVars, monitorVars, shutdownVars, restarts>>

-----------------------------------------------------------------------------
(* The health monitor. *)
ServerRunning == started /\ ~serverErr

MayRestart_OffByOne == failures <= MaxFailures
MayRestart == failures < MaxFailures

MonitorSeesError ==
  /\ LockFree /\ monitor = "idle"
  /\ phase = "up" /\ ~ctxDone
  /\ serverErr
  /\ MayRestart
  /\ monitor' = "restart"
  /\ UNCHANGED <<status, conns, stale, callVars, failures, shutdownVars, restarts>>

MonitorSeesRunning ==
  /\ LockFree /\ monitor = "idle"
  /\ phase = "up" /\ ~ctxDone
  /\ ServerRunning
  /\ failures' = 0
  /\ UNCHANGED <<status, conns, stale, callVars, monitor, shutdownVars, restarts>>

\* clearServerForRestart: the state may not be the one that was read.
ClearStatus_KeepsStart == serverErr' = FALSE /\ UNCHANGED started
ClearStatus_Nothing == UNCHANGED status
ClearStatus == serverErr' = FALSE /\ started' = FALSE

MonitorClears ==
  /\ LockFree /\ monitor = "restart"
  /\ ClearStatus
  /\ open' = open \ {cached[Shared]}
  /\ cached' = [cached EXCEPT ![Shared] = Nil]
  /\ restarts' = restarts + 1
  /\ monitor' = "relaunch"
  /\ UNCHANGED <<late, owner, stale, callVars, failures, shutdownVars>>

MonitorFinds ==
  /\ LockFree /\ monitor = "relaunch"
  /\ cached[Shared] # Nil
  /\ failures' = 0
  /\ monitor' = "idle"
  /\ UNCHANGED <<status, conns, stale, callVars, shutdownVars, restarts>>

MonitorLaunches ==
  /\ LockFree /\ monitor = "relaunch"
  /\ cached[Shared] = Nil
  /\ \/ LaunchOk(Shared) /\ failures' = 0
     \/ (LaunchFails \/ LaunchTimesOut) /\ failures' = failures + 1
  /\ monitor' = "idle"
  /\ UNCHANGED <<callVars, shutdownVars>>

-----------------------------------------------------------------------------
(* Shutdown. *)

\* InitiateShutdown: requests are rejected from here on, and the monitor is told to stop.
BeginClose ==
  /\ phase = "up"
  /\ phase' = "stopping"
  /\ UNCHANGED <<status, conns, stale, callVars, monitorVars, ctxDone, dropped, restarts>>

\* Close, once the monitor has stopped.  The pool forgets its connections.
CloseLauncher ==
  /\ LockFree /\ phase = "stopping"
  /\ monitor = "idle"
  /\ phase' = "closed"
  /\ open' = open \ {cached[Shared]}
  /\ dropped' = dropped \cup {cached[s] : s \in {s \in Sessions : cached[s] # Nil}}
  /\ cached' = [k \in PoolKeys |-> Nil]
  /\ stale' = {}
  /\ UNCHANGED <<late, owner, status, callVars, monitorVars, ctxDone, restarts>>

\* The context of the gateway ends, at a signal or after /close: it takes
\* every process and request with it.
CancelContext ==
  /\ ~ctxDone
  /\ phase # "starting"
  /\ ctxDone' = TRUE
  /\ open' = {}
  /\ UNCHANGED <<cached, late, owner, stale, status, callVars, monitorVars, phase, dropped,
                 restarts>>

-----------------------------------------------------------------------------
LauncherCallStep(c) ==
  \/ GetHit(c)
  \/ GetMiss(c)
  \/ LaunchFound(c)
  \/ CallLaunches(c)
  \/ CallLaunchFails(c)
  \/ CallFinishes(c)

MonitorStep ==
  \/ MonitorSeesError
  \/ MonitorClears
  \/ MonitorFinds
  \/ MonitorLaunches

LockStep == Hangs \/ Answers

LauncherStep ==
  /\ UNCHANGED <<kind, hung>>
  /\ \/ Register
     \/ \E c \in Handlers : CallArrives(c) \/ LauncherCallStep(c)
     \/ \E s \in Sessions : Age(s)
     \/ Cleanup
     \/ MonitorStep
     \/ MonitorSeesRunning
     \/ LateConnects
     \/ LateFails
     \/ BeginClose
     \/ CloseLauncher
     \/ CancelContext

LauncherNext == LockStep \/ LauncherStep

LauncherSpec == LauncherInit /\ [][LauncherNext]_launcherVars

\* The monitor has a ticker, and a Go mutex starves nobody.  Answers need not
\* come, but a closed launcher's context is cancelled.
LauncherFairness ==
  /\ SF_launcherVars(MonitorStep /\ UNCHANGED <<kind, hung>>)
  /\ WF_launcherVars(CancelContext /\ phase = "closed" /\ UNCHANGED <<kind, hung>>)

LauncherFairSpec == LauncherSpec /\ LauncherFairness

-----------------------------------------------------------------------------
(* Properties. *)

\* No connection is lost sight of: one that is open is in the cache under the
\* key it was made for, unless its launch had been given up or Stop forgot it.
\* (launcher.go:194-243, connection_pool.go:128-178.)
NoneLost ==
  \A x \in open :
    \/ owner[x] = Late
    \/ x \in dropped
    \/ cached[owner[x]] = x

\* A call to a stdio server talks to the process of its own session
\* (launcher.go:192-216).
OwnConnection ==
  \A c \in Handlers : kind = "stdio" /\ using[c] # Nil => owner[using[c]] = session[c]

\* A process in use is stopped only by the end of the gateway's context, never
\* by the cleanup, the monitor or Close (connection_pool.go:140-142, 216-245).
NotUnderACall ==
  [][\A c \in Handlers :
       kind = "stdio" /\ using[c] \in open /\ using'[c] = using[c]
         => using[c] \in open' \/ ctxDone']_launcherVars

\* A server that nobody gets to start is restarted so many times and no more
\* (health_monitor.go:13-16), whatever else resets the counter.
RestartsBounded == restarts <= MaxFailures

\* An http server in error has no connection, and one that has a connection is
\* on record as started, until the gateway closes (launcher.go:331-363).
HonestStatus ==
  kind = "http" /\ phase # "closed" =>
    /\ serverErr => cached[Shared] = Nil
    /\ cached[Shared] # Nil => started

\* The monitor clears every error it has restarts left for, unless a launch that
\* is never answered keeps the lock (health_monitor.go:103-133).
Recovers ==
  serverErr ~> (~serverErr \/ failures = MaxFailures \/ phase # "up" \/ ctxDone \/ []hung)

\* Once the launcher is closed everything ends, even what calls in flight start anew.
AllReleased == (phase = "closed") ~> [](open = {})

\* "Close closes all connections" (launcher.go:309), those of the pool too
\* (launcher.go:321, connection_pool.go:202).
StopClosesSessions ==
  [][phase = "stopping" /\ phase' = "closed" =>
       \A k \in PoolKeys : cached[k] \notin open']_launcherVars
=============================================================================
