----------------------------- MODULE Lifecycle -----------------------------
(***************************************************************************)
(* The life of the gateway process: run() of internal/cmd/root.go with the *)
(* startup that may fail at each stage, serveAndWait of cmd/serve.go, the  *)
(* /close endpoint of server/handlers.go, InitiateShutdown of              *)
(* server/unified.go and the gate that turns requests away.  Three ways    *)
(* lead out: a signal, /close, and a listener that fails.  All of them     *)
(* meet in one sync.Once and one cancelled context.                        *)
(***************************************************************************)
EXTENDS Naturals, FiniteSets

CONSTANTS Reqs,     \* MCP requests
          Closers   \* POST /close requests

ASSUME DisjointAssumption ==
  Reqs \cap Closers = {} /\ Closers \cap {"watcher", "main"} = {}

VARIABLES main,      \* where run() is
          opened,    \* the resources it holds
          failed,    \* run() is about to return an error
          watching,  \* the goroutine that waits for ctx.Done
          cancelled, \* ctx is done: every request's context comes from it
          isShutdown, once, onceOwner, \* UnifiedServer's shutdown
          accepting, \* the listener takes connections
          handler,   \* of each request: where its handler is
          drain,     \* the goroutine each /close leaves behind
          timedOut   \* shutdown attempts that gave up waiting for handlers

serverVars == <<isShutdown, once, onceOwner>>
lifeVars == <<main, opened, failed, watching, cancelled, serverVars,
              accepting, handler, drain, timedOut>>

All == Reqs \cup Closers
NoOne == "no one"
Actors == {"watcher", "main"} \cup Closers

LifeInit ==
  /\ main = "env" /\ opened = {} /\ failed = FALSE
  /\ watching = FALSE /\ cancelled = FALSE
  /\ isShutdown = FALSE /\ once = "new" /\ onceOwner = NoOne
  /\ accepting = FALSE
  /\ handler = [r \in All |-> "none"]
  /\ drain = [c \in Closers |-> "none"]
  /\ timedOut = {}

\* What is inside a handler keeps http.Server.Shutdown waiting.
Active == {r \in All : handler[r] \notin {"none", "done"}}

-----------------------------------------------------------------------------
(* Startup.  A stage goes on to the next and may leave a deferred call, or *)
(* it fails and run() returns an error through those already deferred.     *)

Stage(from, to, opens) ==
  /\ main = from
  /\ main' = to /\ opened' = opened \cup opens
  /\ UNCHANGED <<failed, watching, cancelled, serverVars, accepting, handler, drain, timedOut>>

StageFails(from) ==
  /\ main = from
  /\ main' = "unwind" /\ failed' = TRUE
  /\ UNCHANGED <<opened, watching, cancelled, serverVars, accepting, handler, drain, timedOut>>

LoadEnvironment == Stage("env", "loggers", {}) \/ StageFails("env")
InitLoggers == Stage("loggers", "cache", {"loggers"})
SetupCache == Stage("cache", "config", {"cache"}) \/ StageFails("cache")
LoadConfiguration == Stage("config", "tracing", {}) \/ StageFails("config")
\* A provider that cannot be made is replaced by one that does nothing.
SetupTracing == Stage("tracing", "server", {"tracing"})

\* NewUnified registers guards and tools, either of which may fail, and then
\* nobody closes the launcher, the connections and the guards made before.
CreateServer ==
  \/ Stage("server", "watch", {"server"})
  \/ /\ main = "server"
     /\ main' = "unwind" /\ failed' = TRUE /\ opened' = opened \cup {"parts"}
     /\ UNCHANGED <<watching, cancelled, serverVars, accepting, handler, drain, timedOut>>

StartWatcher ==
  /\ main = "watch"
  /\ main' = "listen" /\ watching' = TRUE
  /\ UNCHANGED <<opened, failed, cancelled, serverVars, accepting, handler, drain, timedOut>>

\* The TLS flags, the port, the certificate.
Listen ==
  \/ /\ main = "listen"
     /\ main' = "serving" /\ accepting' = TRUE
     /\ UNCHANGED <<opened, failed, watching, cancelled, serverVars, handler, drain, timedOut>>
  \/ StageFails("listen")

Startup == LoadEnvironment \/ InitLoggers \/ SetupCache \/ LoadConfiguration
           \/ SetupTracing \/ CreateServer \/ StartWatcher \/ Listen

-----------------------------------------------------------------------------
(* Ways to the end.                                                        *)

Cancel_Forgotten == UNCHANGED cancelled
Cancel == cancelled' = TRUE

Signal ==
  /\ ~cancelled
  /\ Cancel
  /\ UNCHANGED <<main, opened, failed, watching, serverVars, accepting, handler, drain, timedOut>>

\* Serve ends with an error nobody asked for.
ServeFails ==
  /\ main = "serving" /\ accepting
  /\ Cancel /\ accepting' = FALSE /\ failed' = TRUE
  /\ UNCHANGED <<main, opened, watching, serverVars, handler, drain, timedOut>>

\* Where the requester of a shutdown goes when the Once lets it pass.
AfterOnce(a) ==
  /\ handler' = IF a \in Closers THEN [handler EXCEPT ![a] = "respond"] ELSE handler
  /\ watching' = IF a = "watcher" THEN FALSE ELSE watching
  /\ opened' = IF a = "main" THEN opened \ {"server"} ELSE opened

\* Who calls InitiateShutdown: a /close that found the gateway open, the
\* goroutine that waited for the context, run() itself as it returns.
Asks(a) ==
  \/ a \in Closers /\ handler[a] = "initiate"
  \/ a = "watcher" /\ watching /\ cancelled
  \/ a = "main" /\ main = "unwind" /\ "server" \in opened

\* A definition named X_Bug is X with one plausible bug; no specification uses it.
Marked_Never(flag) == flag
Marked(flag) == TRUE

\* The first one in marks the gateway; the rest wait for it.
MarkShutdown(a) ==
  /\ Asks(a) /\ once = "new"
  /\ once' = "running" /\ onceOwner' = a
  /\ isShutdown' = Marked(isShutdown)
  /\ UNCHANGED <<main, opened, failed, watching, cancelled, accepting, handler, drain, timedOut>>

\* Monitor, connections, guards, compilation cache.
TearDown(a) ==
  /\ once = "running" /\ onceOwner = a
  /\ once' = "done"
  /\ AfterOnce(a)
  /\ UNCHANGED <<main, failed, cancelled, isShutdown, onceOwner, accepting, drain, timedOut>>

ShutdownWasDone(a) ==
  /\ Asks(a) /\ once = "done"
  /\ AfterOnce(a)
  /\ UNCHANGED <<main, failed, cancelled, serverVars, accepting, drain, timedOut>>

-----------------------------------------------------------------------------
(* Requests.                                                               *)

Arrive(r) ==
  /\ accepting /\ handler[r] = "none"
  /\ handler' = [handler EXCEPT ![r] = "gate"]
  /\ UNCHANGED <<main, opened, failed, watching, cancelled, serverVars, accepting, drain, timedOut>>

\* rejectIfShutdown for an MCP request, the 410 of a second /close.
TurnAway(r) ==
  /\ handler[r] = "gate" /\ isShutdown
  /\ handler' = [handler EXCEPT ![r] = "done"]
  /\ UNCHANGED <<main, opened, failed, watching, cancelled, serverVars, accepting, drain, timedOut>>

Admit(r) ==
  /\ handler[r] = "gate" /\ ~isShutdown
  /\ handler' = [handler EXCEPT ![r] = IF r \in Closers THEN "initiate" ELSE "handling"]
  /\ UNCHANGED <<main, opened, failed, watching, cancelled, serverVars, accepting, drain, timedOut>>

Finish(r) ==
  /\ handler[r] = "handling"
  /\ handler' = [handler EXCEPT ![r] = "done"]
  /\ UNCHANGED <<main, opened, failed, watching, cancelled, serverVars, accepting, drain, timedOut>>

\* The answer to /close, and the goroutine that drains and exits.
RespondClosed(c) ==
  /\ handler[c] = "respond"
  /\ handler' = [handler EXCEPT ![c] = "done"]
  /\ drain' = [drain EXCEPT ![c] = "begin"]
  /\ UNCHANGED <<main, opened, failed, watching, cancelled, serverVars, accepting, timedOut>>

StopsListening_Sleeps(taking) == taking
StopsListening(taking) == FALSE

BeginDrain(c) ==
  /\ drain[c] = "begin"
  /\ drain' = [drain EXCEPT ![c] = "wait"]
  /\ accepting' = StopsListening(accepting)
  /\ UNCHANGED <<main, opened, failed, watching, cancelled, serverVars, handler, timedOut>>

\* Shutdown returns when no handler runs, or when its time is over.
EndDrain(c) ==
  /\ drain[c] = "wait"
  /\ drain' = [drain EXCEPT ![c] = "exit"]
  /\ \/ Active = {} /\ UNCHANGED timedOut
     \/ Active # {} /\ timedOut' = timedOut \cup {c}
  /\ UNCHANGED <<main, opened, failed, watching, cancelled, serverVars, accepting, handler>>

CallExit(c) ==
  /\ drain[c] = "exit"
  /\ drain' = [drain EXCEPT ![c] = "ended"]
  /\ Cancel
  /\ UNCHANGED <<main, opened, failed, watching, serverVars, accepting, handler, timedOut>>

-----------------------------------------------------------------------------
(* The end of run().                                                       *)

BeginShutdown ==
  /\ main = "serving" /\ cancelled
  /\ main' = "draining" /\ accepting' = FALSE
  /\ UNCHANGED <<opened, failed, watching, cancelled, serverVars, handler, drain, timedOut>>

\* Handlers that outlast the timeout are cut off and make run() fail.
EndShutdown ==
  /\ main = "draining"
  /\ main' = "unwind"
  /\ \/ Active = {} /\ UNCHANGED <<failed, timedOut>>
     \/ Active # {} /\ failed' = TRUE /\ timedOut' = timedOut \cup {"main"}
  /\ UNCHANGED <<opened, watching, cancelled, serverVars, accepting, handler, drain>>

Released_Skip(open) == open \ {"cache"}
Released(open) == open \ {"tracing", "cache"}

\* The deferred calls: the server first (MarkShutdown, TearDown and
\* ShutdownWasDone with "main"), then spans and cache; a command that
\* succeeded closes the log files.
Exit ==
  /\ main = "unwind" /\ "server" \notin opened
  /\ main' = "exited"
  /\ opened' = IF failed THEN Released(opened) ELSE Released(opened) \ {"loggers"}
  /\ Cancel
  /\ UNCHANGED <<failed, watching, serverVars, accepting, handler, drain, timedOut>>

\* A process that has ended takes its goroutines with it.
Running == main # "exited"

MainStep == Startup \/ BeginShutdown \/ EndShutdown \/ Exit
OnceStep(a) == MarkShutdown(a) \/ TearDown(a) \/ ShutdownWasDone(a)
CloseStep(c) == RespondClosed(c) \/ BeginDrain(c) \/ EndDrain(c) \/ CallExit(c)
GateStep(r) == TurnAway(r) \/ Admit(r)

LifeNext ==
  /\ Running
  /\ \/ MainStep \/ Signal \/ ServeFails
     \/ \E a \in Actors : OnceStep(a)
     \/ \E c \in Closers : CloseStep(c)
     \/ \E r \in All : Arrive(r) \/ GateStep(r)
     \/ \E r \in Reqs : Finish(r)

Told == cancelled \/ isShutdown

\* Serving, draining and exiting have timeouts of their own, or nothing to wait
\* for.  There is no such promise for the stages before the server exists, in
\* which a signal is kept back while stdin or a backend is waited for, nor for
\* TearDown, which needs the launcher's lock; handlers need not end, signals and
\* requests need not come.
LifeFairness ==
  /\ WF_lifeVars(Running /\ (StartWatcher \/ Listen \/ BeginShutdown \/ EndShutdown \/ Exit))
  /\ \A a \in Actors : WF_lifeVars(Running /\ (MarkShutdown(a) \/ ShutdownWasDone(a)))
  /\ \A c \in Closers : WF_lifeVars(Running /\ CloseStep(c))
                        /\ WF_lifeVars(Running /\ GateStep(c))

LifeSpec == LifeInit /\ [][LifeNext]_lifeVars /\ LifeFairness

-----------------------------------------------------------------------------
(* Properties.                                                             *)

\* No request gets past the gate once somebody has begun to take the backends
\* down, whichever of the three ways led there (rejectIfShutdown, handleClose).
NoAdmissionAfterClose ==
  [][(\E r \in All : handler[r] = "gate" /\ handler'[r] \in {"handling", "initiate"})
       => once = "new"]_lifeVars

\* /close cancels the context that all requests share only when no handler
\* runs any more or the drain ran out of time (handleClose).
CloseDrainsFirst ==
  [][\A c \in Closers : drain[c] = "exit" /\ drain'[c] = "ended" /\ ~cancelled
       => Active = {} \/ c \in timedOut]_lifeVars

\* Whatever ends the process, and wherever startup fails: the deferred calls
\* leave nothing open but the log files of a command that failed and what a
\* server that could not be created had begun, and no shutdown under way is
\* cut off.
ExitIsClean ==
  main = "exited" =>
    /\ opened \subseteq (IF failed THEN {"loggers", "parts"} ELSE {})
    /\ once # "running"

\* Once there is a server, a gateway that was told to stop exits, even if
\* handlers never return, unless the backends are never taken down.
StopsWhenTold ==
  Told /\ main \in {"watch", "listen", "serving", "draining", "unwind"}
    ~> (main = "exited" \/ [](once = "running"))

=============================================================================
