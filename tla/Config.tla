---- MODULE Config ----
(***************************************************************************)
(* The two loaders of internal/config.  One configuration ("source") is    *)
(* written in both formats, a TOML file and the JSON the gateway reads     *)
(* from its standard input; each is read, checked, given its defaults and  *)
(* handed to the launcher.  The JSON loader converts its servers one at a  *)
(* time, in any order, and may have to fetch the schema of a custom server *)
(* type over the network; the TOML loader works in one piece.              *)
(*                                                                         *)
(* An optional field is a set: {} when the field is absent, {v} when it is *)
(* v.  A value that is a member of Variables stands for "${NAME}".         *)
(***************************************************************************)
EXTENDS Integers, FiniteSets

CONSTANTS ServerNames, \* the keys of mcpServers / [servers]
          Sources, \* the configurations users write: records of the servers, the
                   \* gateway section, the guards' policies, the URL of the custom
                   \* type's schema and the keys no field is known for
          Environments, \* what the process finds in its environment
          Variables,
          MaxSchemaFetchRetries

(* The audience is a field of the auth section. *)
ASSUME AuthAssumption ==
  \A c \in Sources : \A n \in ServerNames :
    c.servers[n].auth = {} => c.servers[n].audience = {}

VARIABLES source, \* what the user wrote
          env, \* the environment variables the loaders look at
          stage, \* [Formats -> how far the loader is]
          config, \* [Formats -> what it has built]
          left, \* the JSON servers that remain to be converted
          fetches, \* requests sent for the schema of the server in hand
          compiled \* customSchemaCache

cfvars == <<source, env, stage, config, left, fetches, compiled>>

Formats == {"toml", "json"}
Blank == "" \* the value of a string that is present and empty

Value(o, default) == IF o = {} THEN default ELSE CHOOSE v \in o : TRUE
Within(o, S) == o \subseteq S

Port == 1 .. 65535
ToolTimeoutMin == 10
DefaultPort == 3000
DefaultStartupTimeout == 30
DefaultToolTimeout == 60
DefaultKeepaliveInterval == 1500
DefaultPayloadSizeThreshold == 524288

(* expandVariablesCore: {} when the variable is not defined. *)
ExpandVariables(v) ==
  IF v \notin Variables THEN {v}
  ELSE IF v \in DOMAIN env.vars THEN {env.vars[v]} ELSE {}

Expanded(o) == UNION {ExpandVariables(v) : v \in o}
Expandable(o) == \A v \in o : ExpandVariables(v) # {}

----------------------------------------------------------------------------
(* The rules both loaders apply. *)

IsStdioServerType(t) == t \in {Blank, "stdio", "local"}
NormalizeServerType(t) == IF IsStdioServerType(t) THEN "stdio" ELSE t
IsCustom(s) == NormalizeServerType(s.type) \notin {"stdio", "http"}

AuthAccepted(s) ==
  s.auth # {} => s.type = "http" /\ s.auth = {"github-oidc"} /\ env.requestURL

ValidateCommonServerFields(s) == AuthAccepted(s) /\ Within(s.filters, {"compiles"})

ValidateTrustedBots(bots) ==
  \A list \in bots : list # {} /\ "blank" \notin list

ValidateGuardPolicies == Within(source.guards, {"valid"})

(* A trace ID is "hex", "zeros" or anything else. *)
ValidateOpenTelemetryConfig(t) ==
  Expanded(t.endpoint) = {"https"} /\ Within(Expanded(t.traceId), {"hex"})

Tracing(o) ==
  {[endpoint |-> Expanded(t.endpoint), traceId |-> Expanded(t.traceId),
    service |-> Value(t.service, "mcp-gateway")] : t \in o}

NormalizeAgentID(g) == Value(g.agentId, Value(g.apiKey, Blank))

(* applyGatewayDefaults and applyDefaults replace zeroes, whoever wrote them. *)
OrElse(n, default) == IF n = 0 THEN default ELSE n

ApplyDefaults(g) ==
  [g EXCEPT !.port = OrElse(@, DefaultPort),
            !.startup = OrElse(@, DefaultStartupTimeout),
            !.tool = OrElse(@, DefaultToolTimeout),
            !.keepalive = OrElse(@, DefaultKeepaliveInterval),
            !.threshold = OrElse(@, DefaultPayloadSizeThreshold)]

(* The gateway section as it is read, before any default. *)
GatewayConfig(g) ==
  [port |-> Value(g.port, 0), agentID |-> NormalizeAgentID(g),
   startup |-> Value(g.startup, 0), tool |-> Value(g.tool, 0),
   keepalive |-> Value(g.keepalive, 0), threshold |-> Value(g.threshold, 0),
   bots |-> g.bots, force |-> g.force, exempt |-> g.exempt,
   tracing |-> Tracing(g.tracing)]

----------------------------------------------------------------------------
(* LoadFromFile *)

ValidateTOMLStdioContainerization ==
  \A n \in ServerNames :
    LET s == source.servers[n]
    IN IsStdioServerType(s.type) => s.container # {}

IsDynamicTOMLPath(key) == key = "under guard_policies"

FileAccepted ==
  LET g == source.gateway
  IN /\ \A key \in source.unknown : IsDynamicTOMLPath(key)
     /\ ValidateTOMLStdioContainerization
     /\ \A n \in ServerNames : ValidateCommonServerFields(source.servers[n])
     /\ ValidateTrustedBots(g.bots)
     /\ Within(g.port, Port)
     /\ \A n \in g.threshold : n >= 1
     /\ \A t \in g.tracing :
          /\ Expandable(t.endpoint) /\ Expandable(t.traceId)
          /\ ValidateOpenTelemetryConfig(t)
     /\ ValidateGuardPolicies

(* A TOML server is kept as it was decoded, its container as the image of a    *)
(* docker command; the launcher fills in the audience.                         *)
TOMLServer(s) ==
  [type |-> s.type, image |-> s.container,
   env |-> s.env, auth |-> s.auth, audience |-> s.audience, tools |-> s.tools,
   guard |-> s.guard, policies |-> s.policies, tool |-> Value(s.tool, 0)]

LoadFromFile ==
  /\ stage["toml"] = "reading"
  /\ \/ /\ FileAccepted
        /\ stage' = [stage EXCEPT !["toml"] = "loaded"]
        /\ config' = [config EXCEPT !["toml"] =
             {[servers |-> [n \in ServerNames |-> TOMLServer(source.servers[n])],
               gateway |-> ApplyDefaults(GatewayConfig(source.gateway)),
               guards |-> source.guards]}]
     \/ ~FileAccepted /\ stage' = [stage EXCEPT !["toml"] = "refused"] /\ UNCHANGED config
  /\ UNCHANGED <<source, env, left, fetches, compiled>>

----------------------------------------------------------------------------
(* LoadFromStdin *)

ToolTimeoutEnvOrDefault ==
  IF Within(env.toolTimeout, {n \in env.toolTimeout : n >= ToolTimeoutMin})
  THEN Value(env.toolTimeout, DefaultToolTimeout) ELSE DefaultToolTimeout

PerServerTimeout(s) == \A n \in s.tool : n = 0 \/ n >= ToolTimeoutMin

(* The embedded schema; guard, auth and the filters were stripped before.  *)
(* A stdio server needs its container; a custom one may hold any field.    *)
SchemaAcceptsServer(s) ==
  \/ NormalizeServerType(s.type) = "stdio" /\ s.container # {} /\ PerServerTimeout(s)
  \/ s.type = "http" /\ s.container = {} /\ PerServerTimeout(s)
  \/ IsCustom(s)

SchemaAcceptsGateway(g) ==
  /\ g.port # {} /\ Within(g.port, Port)
  /\ g.agentId # {} \/ g.apiKey # {}
  /\ Blank \notin g.agentId \cup g.apiKey
  /\ \A n \in g.startup \cup g.tool \cup g.threshold : n >= 1
  /\ \A n \in g.keepalive : n >= -1
  /\ {} \notin g.bots
  /\ \A t \in g.tracing :
       Expanded(t.endpoint) = {"https"} /\ Within(Expanded(t.traceId), {"hex", "zeros"})

ValidateJSONSchema ==
  /\ "typo" \notin source.unknown
  /\ SchemaAcceptsGateway(source.gateway)
  /\ \A n \in ServerNames : SchemaAcceptsServer(source.servers[n])

ValidateGatewayConfig(g) ==
  /\ \A n \in g.tool : n >= ToolTimeoutMin
  /\ ValidateTrustedBots(g.bots)
  /\ \A t \in g.tracing : ValidateOpenTelemetryConfig(t)

(* ExpandRawJSONVariables runs over the whole text, whatever the field. *)
Written ==
  UNION {source.servers[n].env : n \in ServerNames}
    \cup UNION {t.endpoint \cup t.traceId : t \in source.gateway.tracing}

StdinAccepted ==
  /\ Expandable(Written)
  /\ ValidateJSONSchema
  /\ ValidateGatewayConfig(source.gateway)
  /\ Within(source.schemas, {Blank, "https"})

StdinGateway(g) ==
  [GatewayConfig(g) EXCEPT
     !.startup = Value(g.startup, DefaultStartupTimeout),
     !.tool = Value(g.tool, ToolTimeoutEnvOrDefault),
     !.keepalive = Value(g.keepalive, DefaultKeepaliveInterval),
     !.threshold = Value(g.threshold, DefaultPayloadSizeThreshold)]

ReadStdin ==
  /\ stage["json"] = "reading"
  /\ \/ /\ StdinAccepted
        /\ stage' = [stage EXCEPT !["json"] = "converting"]
        /\ config' = [config EXCEPT !["json"] =
             {[servers |-> <<>>, gateway |-> StdinGateway(source.gateway), guards |-> {}]}]
        /\ left' = ServerNames
     \/ ~StdinAccepted /\ stage' = [stage EXCEPT !["json"] = "refused"] /\ UNCHANGED <<config, left>>
  /\ UNCHANGED <<source, env, fetches, compiled>>

Converted == CHOOSE c \in config["json"] : TRUE

ValidateStandardServerConfig(s) ==
  /\ s.type # "http" => s.container # {}
  /\ PerServerTimeout(s)
  /\ ValidateCommonServerFields(s)

(* expandMapInPlace expands what ExpandRawJSONVariables has already expanded. *)
TwiceExpandable(s) == Expandable(Expanded(s.env))

HTTPServer(s) ==
  [type |-> "http", image |-> {}, env |-> Expanded(Expanded(s.env)),
   auth |-> s.auth, audience |-> IF s.auth # {} /\ s.audience = {} THEN {"url"} ELSE s.audience,
   tools |-> s.tools, guard |-> s.guard, policies |-> s.policies, tool |-> Value(s.tool, 0)]

(* buildStdioServerConfig: every server that is not HTTP becomes "docker run"  *)
(* of its container, which a server of a custom type need not have.            *)
StdioServer(s) ==
  [type |-> "stdio", image |-> s.container, env |-> Expanded(Expanded(s.env)),
   auth |-> {}, audience |-> {},
   tools |-> s.tools, guard |-> s.guard, policies |-> s.policies, tool |-> Value(s.tool, 0)]

StdinServer_NoPolicies(s) ==
  [(IF s.type = "http" THEN HTTPServer(s) ELSE StdioServer(s)) EXCEPT !.policies = {}]

StdinServer(s) == IF s.type = "http" THEN HTTPServer(s) ELSE StdioServer(s)

Reject ==
  /\ stage' = [stage EXCEPT !["json"] = "refused"]
  /\ fetches' = 0
  /\ UNCHANGED <<source, env, config, left>>

Accept(n) ==
  LET s == source.servers[n]
  IN IF TwiceExpandable(s)
     THEN /\ config' = [config EXCEPT !["json"] =
               {[Converted EXCEPT !.servers =
                  [m \in DOMAIN @ \cup {n} |-> IF m = n THEN StdinServer(s) ELSE @[m]]]}]
          /\ left' = left \ {n}
          /\ stage' = [stage EXCEPT !["json"] = "converting"]
          /\ fetches' = 0
          /\ UNCHANGED <<source, env>>
     ELSE Reject

ConvertStandard(n) ==
  /\ stage["json"] = "converting" /\ n \in left /\ ~IsCustom(source.servers[n])
  /\ IF ValidateStandardServerConfig(source.servers[n])
     THEN Accept(n) ELSE Reject
  /\ UNCHANGED compiled

(* A custom type must be registered; an empty URL means nothing to check. *)
ConvertCustom(n) ==
  /\ stage["json"] = "converting" /\ n \in left /\ IsCustom(source.servers[n])
  /\ \/ source.schemas = {} /\ Reject
     \/ source.schemas = {Blank} /\ Accept(n)
     \/ source.schemas \cap compiled # {} /\ (Accept(n) \/ Reject)
     \/ /\ "https" \in source.schemas \ compiled
        /\ stage' = [stage EXCEPT !["json"] = "fetching"]
        /\ fetches' = 1
        /\ UNCHANGED <<source, env, config, left>>
  /\ UNCHANGED compiled

(* fetchSchema: a network error or a transient status is tried again. *)
FetchAgain ==
  /\ stage["json"] = "fetching" /\ fetches < MaxSchemaFetchRetries
  /\ fetches' = fetches + 1
  /\ UNCHANGED <<source, env, stage, config, left, compiled>>

(* A permanent status, a body too large, a document that does not compile,  *)
(* or the last transient failure.                                           *)
FetchFails == stage["json"] = "fetching" /\ Reject /\ UNCHANGED compiled

(* The compiled schema is cached whether or not the server matches it. *)
FetchSucceeds(n) ==
  /\ stage["json"] = "fetching" /\ n \in left /\ IsCustom(source.servers[n])
  /\ compiled' = compiled \cup {"https"}
  /\ Accept(n) \/ Reject

FinishStdin ==
  /\ stage["json"] = "converting" /\ left = {}
  /\ config' = [config EXCEPT !["json"] =
       {[Converted EXCEPT !.guards = source.guards]}]
  /\ stage' = [stage EXCEPT !["json"] = IF ValidateGuardPolicies THEN "loaded" ELSE "refused"]
  /\ UNCHANGED <<source, env, left, fetches, compiled>>

----------------------------------------------------------------------------
(* NewLauncher applies the defaults once more to what it is given. *)
NewLauncher(f) ==
  /\ stage[f] = "loaded"
  /\ stage' = [stage EXCEPT ![f] = "launched"]
  /\ config' = [config EXCEPT ![f] = {[c EXCEPT !.gateway = ApplyDefaults(@)] : c \in @}]
  /\ UNCHANGED <<source, env, left, fetches, compiled>>

ConfigInit ==
  /\ source \in Sources
  /\ env \in Environments
  /\ stage = [f \in Formats |-> "reading"]
  /\ config = [f \in Formats |-> {}]
  /\ left = {}
  /\ fetches = 0
  /\ compiled = {}

ConfigNext ==
  \/ LoadFromFile
  \/ ReadStdin
  \/ \E n \in ServerNames :
       ConvertStandard(n) \/ ConvertCustom(n) \/ FetchSucceeds(n)
  \/ FetchAgain
  \/ FetchFails
  \/ FinishStdin
  \/ \E f \in Formats : NewLauncher(f)

ConfigSpec == ConfigInit /\ [][ConfigNext]_cfvars

----------------------------------------------------------------------------
Launched(f) == stage[f] = "launched"
LoadedConfig(f) == CHOOSE c \in config[f] : TRUE

(* A server as the launcher uses it: the token's audience defaults to the URL, *)
(* and what is reached over HTTP is not run.                                   *)
Used(s) ==
  [s EXCEPT !.type = NormalizeServerType(@),
            !.image = IF s.type = "http" THEN {} ELSE @,
            !.audience = IF s.auth # {} /\ @ = {} THEN {"url"} ELSE @]

(* Whoever rewrites a TOML file as JSON runs the same gateway: when both      *)
(* loaders accept the configuration, every setting that decides what a server *)
(* is and may do (its image, its guard and policies, its tools, who is        *)
(* trusted, the agent's ID, the tracing, the timeouts) is the same in both.   *)
(* Two differences are documented: variables in a TOML server's env are not   *)
(* expanded, and only the JSON loader reads the tool timeout from the         *)
(* environment.  Servers of a custom type are left out: the TOML loader has   *)
(* no rule for them.                                                          *)
FormatsAgree ==
  Launched("toml") /\ Launched("json") =>
    LET t == LoadedConfig("toml")
        j == LoadedConfig("json")
    IN /\ t.guards = j.guards
       /\ \A n \in ServerNames :
            IsCustom(source.servers[n]) \/
              [Used(t.servers[n]) EXCEPT !.env = {}] = [Used(j.servers[n]) EXCEPT !.env = {}]
       /\ [t.gateway EXCEPT !.tool = 0] = [j.gateway EXCEPT !.tool = 0]
       /\ source.gateway.tool # {} => t.gateway.tool = j.gateway.tool

=============================================================================
