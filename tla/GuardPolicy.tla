---------------------------- MODULE GuardPolicy ----------------------------
(***************************************************************************)
(* Which guard every backend gets at startup, under which policy, and what *)
(* reaches the guard's label_agent when a session first calls it           *)
(* (internal/server/guard_init.go, guard_visibility.go and unified.go,     *)
(* internal/config/guard_policy*.go, internal/guard/wasm_payload.go).      *)
(* A policy arrives from the command line or the environment (for all      *)
(* servers), from the server's guard-policies in one of several shapes, or *)
(* from the guard's own configuration. When the workflow's repository is   *)
(* public, allow-only scopes are overridden and sinks are sealed.          *)
(***************************************************************************)
EXTENDS Naturals, FiniteSets

CONSTANTS Servers,    \* the backends
          SafeOutputs,\* those named "safe-outputs" or "safeoutputs"
          GlobalPolicies, ServerPolicies, OwnPolicies,
                      \* the policies the override, a server and a guard may hold
          Exemptions, \* the sets sinkVisibilityExemptServers may be
          NoPolicy, BadPolicy   \* nothing is configured; it does not validate

(* The optional fields of an allow-only policy: those the label_agent      *)
(* payload check knows, and all that the configuration's parser knows      *)
PayloadFields == {"blocked-users", "refusal-labels", "approval-labels",
                  "trusted-users", "endorsement-reactions",
                  "disapproval-reactions", "disapproval-integrity",
                  "endorser-min-integrity"}
PolicyFields == PayloadFields \cup {"tool-call-limits", "promotion-label", "demotion-label"}

Integrities == 0..3   \* none, unapproved, approved, merged
AllowOnly(repos, min, fields) ==
  [kind |-> "allow-only", repos |-> repos, min |-> min, fields |-> fields]
WriteSink(visibility) == [kind |-> "write-sink", visibility |-> visibility]

IsAllowOnly(p) == p \notin {NoPolicy, BadPolicy} /\ p.kind = "allow-only"
IsWriteSink(p) == p \notin {NoPolicy, BadPolicy} /\ p.kind = "write-sink"

ValidPolicies ==
  [kind : {"allow-only"}, repos : {"all", "public", "scoped"}, min : Integrities,
   fields : SUBSET PolicyFields] \cup
  [kind : {"write-sink"}, visibility : {"", "public", "internal", "private"}]

(* The shapes of a server's guard-policies map: the policy at the top,     *)
(* under the server's ID or under one other key; the legacy repos and      *)
(* min-integrity pair; keys nobody knows                                   *)
Shapes == {"top", "nested", "legacy", "unknown"}
PolicyMaps == [shape : Shapes, policy : ValidPolicies \cup {BadPolicy}]

ASSUME PolicyAssumption ==
  /\ GlobalPolicies \cup OwnPolicies \subseteq ValidPolicies \cup {NoPolicy, BadPolicy}
  /\ ServerPolicies \subseteq ValidPolicies \cup {BadPolicy}
  /\ NoPolicy # BadPolicy
  /\ {NoPolicy, BadPolicy} \cap (ValidPolicies \cup PolicyMaps) = {}

VARIABLES global,  \* cfg.GuardPolicy
          raw,     \* each server's GuardPolicies: [shape, policy], or NoPolicy
          own,     \* the policy of the guard the server names, if it names one
          repo,    \* the workflow repository: "public", "private", "unknown"
          force,   \* forcePublicRepos: "on", or switched off by "config" or by "env"
          exempt,  \* sinkVisibilityExemptServers
          guards,  \* the guard registry
          boot,    \* "override", "register", "up" or "failed"
          enabled, \* DIFC enforcement is on
          reached  \* what the server's label_agent has been given

gpvars == <<global, raw, own, repo, force, exempt, guards, boot, enabled, reached>>

Unregistered == [kind |-> "unregistered", visibility |-> ""]
Guard(kind)  == [kind |-> kind, visibility |-> ""]

RawPolicies ==
  {NoPolicy} \cup {r \in [shape : Shapes, policy : ServerPolicies] :
      /\ r.shape = "unknown" => r.policy = BadPolicy
      /\ r.shape = "legacy" => ~IsWriteSink(r.policy)}

PolicyInit ==
  /\ global = NoPolicy
  /\ raw \in [Servers -> RawPolicies]
  /\ own \in [Servers -> OwnPolicies]
  /\ repo \in {"public", "private", "unknown"}
  /\ force \in {"on", "config", "env"} /\ exempt \in Exemptions
  /\ guards = [s \in Servers |-> Unregistered]
  /\ boot = "override" /\ enabled = FALSE
  /\ reached = [s \in Servers |-> NoPolicy]

(* ResolveGuardPolicyOverride: flags before environment, JSON before scope *)
(* variables; a policy that does not validate stops the program            *)
ResolveOverride ==
  /\ boot = "override"
  /\ \E p \in GlobalPolicies :
       /\ boot' = IF p = BadPolicy THEN "failed" ELSE "register"
       /\ global' = IF p = BadPolicy THEN NoPolicy ELSE p
  /\ UNCHANGED <<raw, own, repo, force, exempt, guards, enabled, reached>>

(* ParseServerGuardPolicy: the legacy pair loses every optional field *)
ParseServerGuardPolicy(r) ==
  CASE r = NoPolicy -> NoPolicy
    [] r # NoPolicy /\ r.shape \in {"top", "nested"} -> r.policy
    [] r # NoPolicy /\ r.shape = "legacy" ->
         IF IsAllowOnly(r.policy) THEN [r.policy EXCEPT !.fields = {}] ELSE r.policy
    [] OTHER -> NoPolicy

(* resolveGuardPolicy over a given configuration *)
Resolve(g, r, s) ==
  IF g # NoPolicy THEN g
  ELSE IF ParseServerGuardPolicy(r[s]) # NoPolicy THEN ParseServerGuardPolicy(r[s])
  ELSE own[s]

MinimalPublic == AllowOnly("public", 0, {})
ToPublic(p) == IF IsAllowOnly(p) THEN [p EXCEPT !.repos = "public"] ELSE p

ForcesPublic == force = "on" /\ repo = "public"

(* overrideToPublicScope: the global policy if there is one, else the      *)
(* server's own map; write-sink policies stay                              *)
GlobalOverride == ToPublic(global)

ServerOverride_TopOnly(s) ==
  CASE raw[s] = NoPolicy -> [shape |-> "top", policy |-> MinimalPublic]
    [] raw[s] # NoPolicy /\ raw[s].shape = "top" ->
         [shape |-> "top", policy |-> ToPublic(raw[s].policy)]
    [] OTHER -> raw[s]

ServerOverride(s) ==
  LET parsed == ParseServerGuardPolicy(raw[s]) IN
  CASE raw[s] = NoPolicy -> [shape |-> "top", policy |-> MinimalPublic]
    [] parsed = BadPolicy -> raw[s]
    [] raw[s] # NoPolicy /\ raw[s].shape = "unknown" ->
         \* the injected key makes the rest of the map invalid
         [shape |-> "top", policy |-> BadPolicy]
    [] OTHER -> [shape |-> "top", policy |-> ToPublic(parsed)]

(* the visibility of a sink: public by default for external sinks, for     *)
(* safe-outputs when the repository is, and whenever a declared one turns  *)
(* out to be wrong                                                         *)
Exempt(s) == force = "config" \/ s \in exempt

DefaultVisibility(s, declared) ==
  IF declared # "" THEN declared
  ELSE IF s \notin SafeOutputs
         THEN IF Exempt(s) THEN "" ELSE "public"
  ELSE IF repo = "public" THEN "public" ELSE ""

Verified_NotVerified(v) == v
Verified(v) == IF v # "" /\ repo = "public" THEN "public" ELSE v

SinkGuard(s, p) ==
  [kind |-> "write-sink", visibility |-> Verified(DefaultVisibility(s, p.visibility))]

(* what FindGuardFile and NewWasmGuard come to for the server, and the     *)
(* guard its configuration names; either may fail to load                  *)
Files == {"none", "broken", "loads"}
Names == {"none", "wasm", "broken", "noop"}

(* registerGuard: a discovered file first, then a write-sink policy, then  *)
(* the guard the server names; whatever does not load falls back to noop   *)
ChosenGuard(s, file, name) ==
  LET p == Resolve(global, raw, s) IN
  IF file = "loads" THEN Guard("wasm")
  ELSE IF IsWriteSink(p) THEN SinkGuard(s, p)
  ELSE IF name = "wasm" THEN Guard("wasm") ELSE Guard("noop")

RegisterGuard(s) == \E file \in Files, name \in Names :
  LET g == ChosenGuard(s, file, name) IN
  /\ own[s] # NoPolicy => name # "none"
  /\ boot = "register" /\ guards[s] = Unregistered
  /\ IF ForcesPublic
       THEN IF global # NoPolicy
              THEN global' = GlobalOverride /\ UNCHANGED raw
              ELSE raw' = [raw EXCEPT ![s] = ServerOverride(s)] /\ UNCHANGED global
       ELSE UNCHANGED <<global, raw>>
  \* requireGuardPolicyIfGuardEnabled
  /\ LET p == Resolve(global', raw', s) IN
     IF g.kind # "noop" /\ p = BadPolicy
       THEN boot' = "failed" /\ UNCHANGED guards
       ELSE /\ guards' = [guards EXCEPT ![s] =
                 IF g.kind # "noop" /\ p = NoPolicy /\ raw'[s] = NoPolicy
                   THEN Guard("noop") ELSE g]
            /\ UNCHANGED boot
  /\ UNCHANGED <<own, repo, force, exempt, enabled, reached>>

(* every guard is registered: DIFC goes on by itself if any needs it *)
EnableDIFC ==
  /\ boot = "register" /\ \A s \in Servers : guards[s] # Unregistered
  /\ boot' = "up"
  /\ enabled' = \/ \E s \in Servers : guards[s].kind # "noop" \/ raw[s] # NoPolicy
                \/ global # NoPolicy
  /\ UNCHANGED <<global, raw, own, repo, force, exempt, guards, reached>>

(* buildStrictLabelAgentPayload over the policy and the trusted bots *)
PayloadAccepted(p) == IsAllowOnly(p) /\ p.fields \subseteq PayloadFields

(* ensureGuardInitialized up to the guard: only the WASM guard reads the   *)
(* payload, and it refuses what it does not know                           *)
LabelAgent(s) ==
  LET p == Resolve(global, raw, s) IN
  /\ boot = "up" /\ enabled /\ reached[s] = NoPolicy
  /\ guards[s].kind = "wasm" /\ p \notin {NoPolicy, BadPolicy}
  /\ reached' = [reached EXCEPT ![s] = IF PayloadAccepted(p) THEN p ELSE BadPolicy]
  /\ UNCHANGED <<global, raw, own, repo, force, exempt, guards, boot, enabled>>

PolicyNext ==
  \/ ResolveOverride
  \/ \E s \in Servers : RegisterGuard(s) \/ LabelAgent(s)
  \/ EnableDIFC

PolicySpec == PolicyInit /\ [][PolicyNext]_gpvars

-----------------------------------------------------------------------------

(* When the workflow repository is known to be public, the policy a WASM   *)
(* guard labels its agents by never opens more than public repositories,   *)
(* wherever the policy was configured and in whatever shape.               *)
PublicReadsOnly ==
  ForcesPublic => \A s \in Servers : IsAllowOnly(reached[s]) => reached[s].repos = "public"

(* When the workflow repository is known to be public, no write sink is    *)
(* left open to tainted agents, unless its server is an exempt one that    *)
(* declares nothing.                                                       *)
PublicSinksSealed ==
  repo = "public" =>
    \A s \in Servers :
      guards[s].kind = "write-sink" =>
        \/ guards[s].visibility = "public"
        \/ guards[s].visibility = "" /\ s \notin SafeOutputs /\ Exempt(s)

(* README.md, tool-call-limits: "Map of tool names to per-session call     *)
(* limits enforced by the gateway before the backend is invoked." So a     *)
(* policy that validates is one the guard can be started with.             *)
ValidPoliciesStart ==
  \A s \in Servers : IsAllowOnly(Resolve(global, raw, s)) => reached[s] # BadPolicy
=============================================================================
