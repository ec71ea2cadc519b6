------------------------------ MODULE MCCalls -------------------------------
(***************************************************************************)
(* What a call passes: the front of the gateway and its cached servers,    *)
(* the pipeline over one secrecy and one integrity tag, the WASM guard,    *)
(* the connection to the backend and the tokens it needs, and what the     *)
(* GitHub API proxy does to a request before the guard sees it.  These     *)
(* share no state: a behaviour runs one of them, chosen at the start, and  *)
(* the others stay in one of their initial states.                         *)
(*   "front"   two requests on their way to the SDK;                       *)
(*   "flow"    two concurrent calls, secret and public resources;          *)
(*   "modes"   calls one after the other, both label dimensions and the    *)
(*             wildcard, two label_agent runs;                             *)
(*   "wasm"    two callers of one guard instance;                          *)
(*   "launcher" two calls of two sessions to one server;                   *)
(*   "cache"   two requests, three cached servers;                         *)
(*   "tokens"  three requests that need tokens for two audiences;          *)
(*   "router"  a path, segment by segment;                                 *)
(*   "rewrite" a GraphQL query.                                            *)
(***************************************************************************)
EXTENDS MCHttpFront, MCGuardPipeline, WasmGuard, Launcher, TtlCache, TokenCache, Router,
        GraphqlRewrite

CONSTANTS s1, s2
VARIABLE machine

MCSessions == {s1, s2}
MCSymmetry == Permutations(MCCalls) \cup Permutations(MCSessions)

MCLabels == FlowLabels \cup AllLabels
MCResponses == FlowResponses \cup AllResponses
MCGrants == FlowGrants \cup AllGrants

Flow == INSTANCE GuardPipeline WITH
          GuardLabels <- FlowLabels, Responses <- FlowResponses,
          AgentGrants <- FlowGrants, CallOps <- {"read", "write"}, MaxGrants <- 1
Each == INSTANCE GuardPipeline WITH
          GuardLabels <- AllLabels, Responses <- AllResponses, AgentGrants <- AllGrants

\* Connections with and without a block before their nodes, nested or not, and
\* nodes with fields, fragments and an author already asked for.
Nodes(body) == <<"nodes", "{">> \o body \o <<"}">>
Connection(name, before, body) == <<name, Args, "{">> \o before \o Nodes(body) \o <<"}">>
Paged == {<<>>, <<"pageInfo", "{", "endCursor", "}">>}
Connections == {"issues", "assignees", "history"}
Bodies == {<<"number">>, <<"author{login}", "number">>, <<Spread>>,
           <<Inline, "{", "number", "}">>, <<InlineGlued, "{", "number", "}">>}
Inner == {Connection(n, p, b) : n \in Connections, p \in Paged, b \in Bodies}
Outer ==
  Inner \cup
  {Connection(n, p, c \o <<"number">>) : n \in Connections, p \in Paged, c \in Inner}
Fragments == {<<>>, <<FragmentF, "{", "author", "{", "id", "}", "}">>}
\* Queries that are no good: nodes in no block, and blocks that are not closed.
Broken ==
  {Nodes(b) : b \in Bodies} \cup
  {<<"issues", "{", "nodes", "{">> \o b \o f :
     b \in Bodies, f \in {<<>>, <<FragmentF>>, <<FragmentF, "{", "id">>}}
MCQueries ==
  {<<"query", "{", "repository", Args, "{">> \o c \o <<"}", "}">> \o f :
     c \in Outer, f \in Fragments} \cup Broken

cachesVars == <<cacheVars, tokenVars, launcherVars>>
proxyVars == <<routerVars, rewrite>>

CallsInit ==
  /\ machine \in {"front", "flow", "modes", "wasm", "launcher", "cache", "tokens", "router", "rewrite"}
  /\ FrontInit /\ Init /\ WasmInit /\ LauncherInit
  /\ CacheInit /\ TokenInit /\ RouterInit /\ GraphqlInit
  /\ machine # "front" => apiKey = "key" /\ secret
  /\ machine # "wasm" => allocator
  /\ machine # "launcher" => kind = "http" /\ \A c, d \in Handlers : session[c] = session[d]

FrontRuns ==
  /\ machine = "front" /\ FrontNext
  /\ UNCHANGED <<machine, vars, wvars, cachesVars, proxyVars>>
FlowRuns ==
  /\ machine = "flow" /\ Flow!Next
  /\ UNCHANGED <<machine, frontVars, wvars, cachesVars, proxyVars>>
ModesRun ==
  /\ machine = "modes" /\ Each!Next
  /\ UNCHANGED <<machine, frontVars, wvars, cachesVars, proxyVars>>
  /\ Cardinality({c \in Calls : pc'[c] # "idle"}) <= 1
WasmRuns ==
  /\ machine = "wasm" /\ WasmNext
  /\ UNCHANGED <<machine, frontVars, vars, cachesVars, proxyVars>>
CacheRuns ==
  /\ machine = "cache" /\ CacheNext
  /\ UNCHANGED <<machine, frontVars, vars, wvars, tokenVars, launcherVars, proxyVars>>
TokensRun ==
  /\ machine = "tokens" /\ TokenNext
  /\ UNCHANGED <<machine, frontVars, vars, wvars, cacheVars, launcherVars, proxyVars>>
LauncherRuns ==
  /\ machine = "launcher" /\ LauncherNext
  /\ UNCHANGED <<machine, frontVars, vars, wvars, cacheVars, tokenVars, proxyVars>>
RouterRuns ==
  /\ machine = "router" /\ RouterNext
  /\ UNCHANGED <<machine, frontVars, vars, wvars, cachesVars, rewrite>>
RewriteRuns ==
  /\ machine = "rewrite" /\ GraphqlNext
  /\ UNCHANGED <<machine, frontVars, vars, wvars, cachesVars, routerVars>>

CallsNext ==
  \/ FrontRuns \/ FlowRuns \/ ModesRun \/ WasmRuns \/ LauncherRuns
  \/ CacheRuns \/ TokensRun \/ RouterRuns \/ RewriteRuns

callsVars == <<machine, frontVars, vars, wvars, cachesVars, proxyVars>>
CallsSpec == CallsInit /\ [][CallsNext]_callsVars
=============================================================================
