----------------------------- MODULE MCProcess ------------------------------
(***************************************************************************)
(* The process and what keeps its backends reachable.  These share no      *)
(* state: a behaviour runs one of them, chosen at the start, and the       *)
(* others stay in one of their initial states.                             *)
(*   "life"      requests and two /close from startup to exit;             *)
(*   "registry"  two backends that list tools;                             *)
(*   "breaker"   three concurrent calls on one breaker;                    *)
(*   "launcher"  a call, abandoned launches and the health monitor;        *)
(*   "session"   two requests over one SDK transport.                      *)
(***************************************************************************)
EXTENDS Lifecycle, ToolRegistry, CircuitBreaker, Launcher, HttpSession, TLC

CONSTANTS c1, c2, c3, s1, r1, r2
VARIABLE machine

MCCalls == {c1, c2, c3}

MCOrder == <<"a", "b">>
MCListings == {<<>>, <<"x">>, <<"x", "y">>, <<"x", "x">>}
MCAllowLists == {{}, {"x"}, {"x", "*"}}

RegistryAtRest ==
  /\ launch = [sequential |-> TRUE, difc |-> FALSE]
  /\ allowed = [x \in Backends |-> {}]
  /\ RegistryInit

processVars == <<lifeVars, regVars>>
connVars == <<launcherVars, sessionVars>>

\* The inactive launcher is one of an http server.  What is checked of a
\* connection concerns SDK transports, for which contexts are all alike.
ConnInit ==
  /\ LauncherInit /\ (machine # "launcher" => kind = "http")
  /\ SessionInit /\ transport = "sdk"

ProcessInit ==
  /\ machine \in {"life", "registry", "breaker", "launcher", "session"}
  /\ LifeInit /\ (IF machine = "registry" THEN RegistryInit ELSE RegistryAtRest)
  /\ Init /\ ConnInit

LifeRuns == machine = "life" /\ LifeNext /\ UNCHANGED <<machine, regVars, vars, connVars>>
RegistryRuns ==
  machine = "registry" /\ RegistryNext /\ UNCHANGED <<machine, lifeVars, vars, connVars>>
BreakerRuns ==
  machine = "breaker" /\ Next /\ UNCHANGED <<machine, processVars, connVars>>
LauncherRuns ==
  machine = "launcher" /\ LauncherNext /\ UNCHANGED <<machine, processVars, vars, sessionVars>>
SessionRuns ==
  machine = "session" /\ SessionNext /\ UNCHANGED <<machine, processVars, vars, launcherVars>>

ProcessNext == LifeRuns \/ RegistryRuns \/ BreakerRuns \/ LauncherRuns \/ SessionRuns

\* What has not begun has nothing to be fair to.
ProcessSpec ==
  /\ ProcessInit /\ [][ProcessNext]_<<machine, processVars, vars, connVars>>
  /\ LifeFairness /\ RegistryFairness /\ Fairness /\ LauncherFairness /\ SessionFairness
=============================================================================
