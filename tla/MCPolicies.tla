----------------------------- MODULE MCPolicies -----------------------------
(***************************************************************************)
(* What is configured and what becomes of it: the configuration, the       *)
(* policies that reach the guards, the budgets of sessions under one of    *)
(* them, and the agent of the GitHub API proxy under another.  These       *)
(* share no state: a behaviour runs one of them, chosen at the start, and  *)
(* the others stay in one of their initial states.                         *)
(*   "config"    a configuration in both formats;                          *)
(*   "sessions"  concurrent calls of two limited tools and an unlimited    *)
(*               one;                                                      *)
(*   "policies"  two servers, of which one is for safe outputs;            *)
(*   "proxy"     two requests to the proxy.                                *)
(***************************************************************************)
EXTENDS MCConfig, MCGuardSession, MCGuardPolicy, MCProxy

CONSTANT star

VARIABLE machine

ConfigAtRest == source = Plain /\ env = (CHOOSE e \in Environments : TRUE) /\ ConfigInit
SessionsAtRest == req = [c \in Calls |-> [session |-> s1, tool |-> "search"]] /\ Init
PoliciesAtRest ==
  /\ raw = [x \in Servers |-> NoPolicy] /\ own = [x \in Servers |-> NoPolicy]
  /\ repo = "private" /\ force = "on" /\ exempt = {}
  /\ PolicyInit
ProxyAtRest == proxy = [phase |-> "new", mode |-> "strict", ready |-> FALSE] /\ ProxyInit

PoliciesInit ==
  /\ machine \in {"config", "sessions", "policies", "proxy"}
  /\ IF machine = "config" THEN ConfigInit ELSE ConfigAtRest
  /\ IF machine = "sessions" THEN Init ELSE SessionsAtRest
  /\ IF machine = "policies" THEN PolicyInit ELSE PoliciesAtRest
  /\ IF machine = "proxy" THEN ProxyInit ELSE ProxyAtRest

ConfigRuns == machine = "config" /\ ConfigNext /\ UNCHANGED <<machine, vars, gpvars, proxyVars>>
SessionsRun == machine = "sessions" /\ Next /\ UNCHANGED <<machine, cfvars, gpvars, proxyVars>>
PoliciesRun == machine = "policies" /\ PolicyNext /\ UNCHANGED <<machine, cfvars, vars, proxyVars>>
ProxyRuns == machine = "proxy" /\ ProxyNext /\ UNCHANGED <<machine, cfvars, vars, gpvars>>

policiesVars == <<machine, cfvars, vars, gpvars, proxyVars>>
PoliciesSpec == PoliciesInit /\ [][ConfigRuns \/ SessionsRun \/ PoliciesRun \/ ProxyRuns]_policiesVars
=============================================================================
