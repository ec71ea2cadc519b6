# A verification project for the MCP gateway

The gateway (`awmg`) stands between agents and MCP servers. It launches or connects to
the servers, offers their tools to agents over HTTP, and applies decentralised
information flow control (DIFC) to every guarded tool call. This directory models the
parts of it whose correctness depends on interleavings, on stale answers, on sequences
of calls or on two pieces of code agreeing, model-checks them with TLC and proves the
most important properties with TLAPS.

## The system

| Component | State | Operations | What is hard | Module |
|---|---|---|---|---|
| Guarded tool call, `server/unified.go`, `guard/pipeline.go` | none of its own | phases 0 to 6 of `callBackendTool` | calls of one session run concurrently over shared, live labels | `GuardPipeline` |
| DIFC labels, `difc/` | per agent: secrecy and integrity | read and write checks, filtering, accumulation | two label dimensions, a wildcard, three modes that decide differently | `Difc` |
| Guard sessions, `server/guard_init.go`, `server/session.go` | sessions, per session and server a `GuardSessionState` with call counts | `requireSession`, `ensureGuardInitialized`, `enforceToolCallLimit`, `sys___init` | check under one lock, install under another; pointers that outlive the lock | `GuardSession` |
| Guard policies, `server/guard_init.go`, `guard_visibility.go`, `config/guard_policy*.go` | guards and policies per server | registration, overrides, `label_agent` | five sources of a policy, several shapes, overrides in an order | `GuardPolicy` |
| Circuit breaker, `server/circuit_breaker.go` | one breaker per server | `Allow`, `RecordSuccess`, `RecordRateLimit` | the backend call between them holds no lock, answers arrive late | `CircuitBreaker` |
| Launcher, session pool and health monitor, `launcher/` | shared and per-session connections, server status, failures | `GetOrLaunch`, `GetOrLaunchForSession`, cleanup, check and restart, `Close` | launches that time out, cleanup under calls, closing while calls run | `Launcher` |
| Life of the process, `cmd/root.go`, `cmd/serve.go`, `server/handlers.go` | what is open, `isShutdown`, a `sync.Once` | startup in stages, `/close`, signals, draining | three ways out, calls in flight, a stage that fails | `Lifecycle` |
| MCP connections, `mcp/` | one SDK or plain JSON session per connection | reconnect and retry, pagination | concurrent callers that reconnect the same session | `HttpSession`, `ToolRegistry` |
| WASM guards, `guard/wasm_*.go` | an instance, its failed mark, the backend of the call in it | `label_agent`, `label_resource`, `label_response` | traps, buffer retries, one instance shared by all calls | `WasmGuard` |
| Tool registry, `server/tool_registry.go`, `server/routed.go` | registered tools | registration in sequence or in parallel | late backends, handler installed after the tool | `ToolRegistry` |
| HTTP front, `server/hmac.go`, `session_auto_init.go`, `auth/` | nonces, SDK sessions | signature, API key, handshake done for the client | replay window, a handshake of three requests | `HttpFront` |
| Cache of filtered servers, `syncutil/ttl_cache.go` | entries with the time of their last use | `GetOrCreate` | the clock is read before the lock | `TtlCache` |
| OIDC tokens, `oidc/provider.go` | a token per audience | `Token` | expiry margin, concurrent refreshes | `TokenCache` |
| Proxy for GitHub's API, `proxy/` | one shared agent | routing, rewriting, the phases over REST and GraphQL | clients share the labels, failures are recovered from | `Proxy`, `Router`, `GraphqlRewrite` |
| Configuration, `config/` | none at run time | two loaders: read, check, default | the same thing said in two formats | `Config` |
| Rust guard, payload middleware, GitHub client, logging, tracing, helpers | files, spans | | no interleaving of their own | none |

A tool call passes the HTTP front (signature, API key, session ID from the Authorization
header, a cached server in routed mode), `requireSession`, `ensureGuardInitialized`
(which calls the guard's `label_agent` and adds to the agent's labels),
`enforceToolCallLimit`, the pre-phases (labels of the resource, coarse check), the
circuit breaker, the launcher (a connection of the session for stdio servers, a shared
one for HTTP servers), the transport with its token, and then the post-phases:
labelling, filtering, accumulation. Every arrow of this chain crosses a lock boundary:
what was read before it may be stale after it. The configuration decides the guards and
policies before any of this, and the proxy is a second way to the same guard and the
same labels.

What makes each component correct, in a line: no agent learns what its labels do not
cover and no write leaks it; a policy opens no more than it may, however it was written;
a session gets its budget, no more and no less; a signed request gets in once; a call
runs in its own identity's session; one probe per half-open circuit; a trapped guard
rests; every connection is eventually closed and none is closed under a call; shutdown
ends, once, with nothing left open. Two of these hold with exceptions that the
properties name, at the places where the code makes them.

## How the runs are laid out

Components that share no state need no product of their states, so several small
machines share a run: `machine` is chosen in the initial state and stays, the chosen
machine takes its own steps, and every other one rests in one of its initial states. A
property of one machine is then checked in all behaviours of that machine, and holds
trivially in those of others. Liveness is checked the same way: a component that has not
begun has nothing its fairness could ask for.

| Run | Machines | Question |
|---|---|---|
| `Calls` | front, flow, modes, wasm, cache, tokens, router, rewrite, launcher | what one request meets on its way |
| `Policies` | config, sessions, policies, proxy | which policy and budget a request is held to |
| `Process` | life, registry, breaker, launcher, session | what the process starts, keeps and stops, and that it gets there |
| nine more | one module each | the findings below |

`Calls` has 1.2 million states, `Policies` 4 million, `Process` 86 000 with liveness,
each about two minutes. `Calls` and `Policies` use symmetry (of calls, clients and
sessions, which the properties treat alike) and check no liveness. All three do without
TLC's deadlock check, since machines end: a clock stops, a configuration is loaded, the
process exits. That they get where they should is stated as liveness instead.

## The circuit breaker: `CircuitBreaker`

Each method of the breaker holds its mutex, so each is one action: `AllowClosed`,
`AllowProbe`, `RejectOpen` and `AllowHalfOpen` are the branches of `Allow`;
`RecordSuccess` and `RecordRateLimit` are the methods; `TransportError` is the path of
`callBackendTool` that calls neither. `Tick` moves the clock. Between `Allow` and the
answer any number of other calls can act, so an answer may be recorded in an episode it
does not belong to. The text of an error is an arbitrary answer; the reset time read
from it lies after now.

Run `Process`, machine "breaker": three calls, threshold 2, cooldown 1, six instants,
reset times up to two ahead (earlier than, equal to and later than the cooldown). Six
instants allow two full episodes, which is what a stale reset time or a stale answer
needs. It checks `BreakerInv`, `OneProbePerHalfOpen` and `WindowRespected`, and
`ProbeResolves` under weak fairness of each call's answer. The code justifies that: a
call's context has the tool timeout (`unified.go:369-387`). No fairness is put on time
or on new calls.

## Information flow: `Difc`, `GuardPipeline`, `ReferenceMonitor`

`Difc` has the pure decisions: what flows to what (with the wildcard), read and write
checks, what each mode does with a denial, filtering and aggregation. A label is a set
of tags.

`GuardPipeline` runs them. An agent is a session; its labels are the variables `secrecy`
and `integrity`, shared by its calls. Each phase of a call is an action, because no lock
spans two phases; filtering takes one step per item and accumulation two, since checks
of other calls do not take the agent's lock. The guard is a WASM module outside the Go
code: it gives any labels, fails, or gives none. The ghosts `knows`, `unchecked` and
`exposed` record the labels of what an agent was handed, with and without a check, and
of what each executed write may carry. An agent's write may carry everything it knew
when the call was made.

`ReferenceMonitor` is what the pipeline promises, in three actions: raise a clearance,
learn within the clearance, write to a sink that may hold all the agent knows.
`MonitorSpec` says that the pipeline implements it with `clearance <- secrecy`.

Run `Calls` has two machines for it. "flow": two concurrent calls, reads and writes, all
modes, secret and public resources, one `label_agent`; two calls are enough for one to
change the labels between the check and the delivery of the other. "modes": one call
after the other, both label dimensions, the wildcard sink, all three operations, two
`label_agent` runs, answers of up to two items.

## Sessions and budgets: `GuardSession`

A `GuardSessionState` is an object that calls keep a pointer to, so states are numbered
and pointers are numbers. The read-locked check of `ensureGuardInitialized` (`CacheHit`,
`CacheMiss`), the unlocked `label_agent` (`LabelAgentFails`, `LabelAgentApplied`) and
the installation under the write lock (`Install`) are separate steps;
`enforceToolCallLimit` is two (`FetchState`, then `AdmitUnlimited`, `AdmitCharged` or
`Refuse`), since it changes locks in between. `SysInit` replaces a session at any
moment.

Run `Policies`, machine "sessions": two sessions, two concurrent calls, four calls in
all, tools with the limits 1, 2 and none, one `sys___init` per session. Four calls
exhaust a limit of 2, and leave one to be refused or admitted wrongly. `NoEarlyRefusal`
and `BudgetOfOneInit` are the two sides of the budget.

## Connections of a server: `Launcher`

One backend server, with what `launcher.go`, `connection_pool.go` and
`health_monitor.go` keep for it. `kind` is chosen at first and stays. `cached` is
`l.connections` at the key `Shared` and the session pool at the sessions; for an `http`
server every call uses `Shared`, for a `stdio` server its session (`Key`). `launcher.mu`
is held for a whole launch, so a launch is one step (`LaunchOk`, `LaunchFails`,
`LaunchTimesOut`); the pool has its own lock, so `GetHit` and `GetMiss` come before it
and `Cleanup` may come in between. A launch that timed out leaves a goroutine behind
(`late`), whose process nobody holds (`LateConnects`, owner `Late`). The monitor reads
(`MonitorSeesError`), clears (`MonitorClears`) and launches (`MonitorFinds`,
`MonitorLaunches`) in separate steps, as the code takes and drops the lock.
`BeginClose`, `CloseLauncher` and `CancelContext` are `InitiateShutdown`, `Close` and
the end of the gateway's context.

A launch that gets an answer is one step under the lock. One that gets none is two:
`Hangs` begins it, `Answers` ends it, and in between nothing that needs the lock is done
(`hung`, `LockFree`). The code allows that of a plain JSON-RPC server, whose
`initialize` runs on the launcher's context with no deadline (`http_transport.go:475`,
`launcher.go:125`); the lock is shared by all servers, so a call, the monitor and
`Close` of any kind of server may meet it.

`Age` assumes that no call is longer than the idle timeout of six hours: it is counted
from the last `Get`, and a tool timeout that exceeds it would let the cleanup take a
connection in use. Numbers of connections are used again once nothing refers to them, so
`MaxConns` bounds the connections alive at a time.

- `Calls`, machine "launcher": a server of either kind, two sessions, two calls, two
  connections, one abandoned launch, two restarts. Two connections are one for each
  session, or one of them with one that is shared or late. A third launch has to fail,
  or to wait until one of the two is gone.
- `Process`, machine "launcher": one call of one session, one abandoned launch, one
  restart and two connections, since a liveness check does without symmetry. Fairness:
  the monitor is a goroutine with a ticker, and a Go mutex starves nobody, hence strong
  fairness of its steps, which are possible while nobody holds the lock; a closed
  launcher's context is cancelled by `/close` or the signal handler. No launch is
  assumed to be answered: `Recovers` says that the monitor gets to clear an error while
  it has restarts left and the gateway is up, or that the lock is held for good. Calls
  are not assumed to end.
- `Launcher_close` is a finding.

## Lost sessions: `HttpSession`

One HTTP connection, used by concurrent requests, over the transport that worked at
first. `current` is the SDK session or the ID in `httpSessionID`, `lock` the holder of
`sessionMu`. A request picks a session (`Pick`, under the read lock), is sent (`Issue`),
and is answered or told that its session is gone (`NotFound`; `Refused` for an SDK
session that was closed). On its first try it then takes the lock and reconnects
(`Reconnect`, `Closed`, `Reconnected` or `ReconnectFails`) and is sent once more.
Requests made for an agent (`FromContext`) carry its session ID in their context, which
over the plain transport is preferred to the connection's, on both tries (`Chosen`); the
SDK transports have no use for it. The backend may end any session at any time
(`Expire`). `Close` of an SDK session is the SDK's: it waits for the requests under way
and tells the backend, which may not hear it (`forgotten`).

- `Process`, machine "session": an SDK transport, two requests, three sessions: the
  current one and those of two reconnects. A request keeps the number of its session in
  use, so a third reconnect may have to wait or fail. Requests have the tool timeout and
  the SDK's connecting has its own (`connection_transport.go:71-72`); a Go mutex starves
  nobody, hence strong fairness of the steps that take the lock. It checks
  `SessionsReleased` and `RequestsEnd`, neither of which is claimed for the plain
  transport: the backend is told the end of no session, and `initialize` has no
  deadline.
- `HttpSession_race` and `HttpSession_context` are findings, with five sessions, the
  first without and the second with a session ID in the context of a request.

## From a policy to a guard: `GuardPolicy`

`global`, `raw` and `own` are where a policy may come from: the command line or the
environment, the server's `guard-policies`, the guard's own configuration. A policy is
the kind, the scope and minimum integrity or the sinks' visibility, and the optional
fields; `raw` also has the shape it was written in (`Shapes`: a map by kind, the legacy
form, nested under another key, nothing known). `ResolveOverride`, `GlobalOverride` and
`ServerOverride` are the startup steps in the code's order, `RegisterGuard` picks a
server's guard and wraps it, `EnableDIFC` is the last step, `LabelAgent` takes a policy
to the guard through the payload check. `ToPublic` is the narrowing for a public
repository, `Verified` and `SinkGuard` the sealing of sinks. `ValidPolicies` is what
validation lets through and `PolicyMaps` what the parser makes of it.

Run `Policies`, machine "policies": a server with a guard and one for safe outputs;
absent, bad, trusted, limited and sink policies at every source and in every shape; the
repository public, private or unknown; the override on, off by configuration, off by the
environment; an exempt server and none. Precedence is between any two sources, so two
servers and one of each source show it.

## The configuration: `Config`

`source` is one configuration as a user would write it; each loader turns it into
`config[f]`, in the stages of the code: `LoadFromFile` (TOML, in one piece),
`ReadStdin`, `ConvertStandard` and `ConvertCustom` per server in any order,
`FetchSucceeds`, `FetchFails` and `FetchAgain` for the schema of a custom type,
`FinishStdin`, and for both `NewLauncher`, which fills in what is still missing.
Optional fields are sets of at most one value, so an absent field is not confused with a
zero one; a value such as `"${V}"` stands for a reference to a variable, and expansion
is looked up, not assumed away. A stdio server has an `image` if a container was
written: of a custom type the JSON loader accepts one without, and builds a `docker run`
with no image (`StdioServer`).

Run `Policies`, machine "config": two servers, variations of one valid server of each
type and of one valid gateway section, a few fields at a time, under eighteen
environments. The two loaders handle fields independently but for the few that are
varied together (keys and agent IDs, the three timeouts with the threshold, type with
container, authentication with audience).

## A WASM guard: `WasmGuard`

`wlock` is the guard's mutex, `backend` and `count` its fields, `at`, `size`, `tries`,
`last` the locals of the call inside. `Request` and `Enter` are `callWasmFunction` up to
its loop; `AllocInput`, `AllocOutput`, `UseDirectMemory` and `AllocFails` the buffers;
`CallBackend` is the host function; `Returns` and `Cancelled` end an attempt
(`EndAttempt`, `Faults`). The deferred deallocation follows (`Dealloc`), which runs
guest code even after a trap, and whose own trap is only logged; then `Free` decides:
`Leave`, or another attempt with `NextSize`. `PoisonedStaysOut` is therefore about traps
in the guard's function and its alloc, and about the functions entered there
(`Entered`). `CloseGuard` is the registry at shutdown, which does not take the mutex.

Run `Calls`, machine "wasm": two callers, two backend calls per invocation, buffers from
1 to 4 units (of 4 MiB), three attempts: an answer that fits at once, after growing, or
never.

## The front: `HttpFront`, `TtlCache`, `TokenCache`

`HttpFront` is the chain of handlers of a request: `Receive` (the checks that do not
need the body: API key, age, a nonce already seen), `CheckSignature` or `BodyFails` (the
body was read, which takes the client's time; the signature is compared and the nonce
taken), `AutoInitialize`, `AutoNotify` and `ForwardUnchanged` (the handshake done for a
client that skips it: three requests to the SDK's handler), and `SdkInSession`,
`SdkNewSession` and `CallEnds`, the SDK's part as far as its use shows it.
`ExpireSession` ends a session at any time.

`TtlCache.ReadClock` and `Locked` are the two halves of `GetOrCreate`, with the wait for
the mutex between them; `Sweep`, `Victims` and `Touched` are its loops. `TokenCache` has
`Lock` (the lookup under the mutex) and `Fetched` or `FetchFails` (the fetch inside it).

Run `Calls`: "front" has two connections, nonces sent again at four times under a
maximum age of 1, bodies that take any time, callers with and without a name, a bearer
token or a plain key, with and without an API key and a secret; a copy is still fresh,
just expired, or old, and identities can be confused. The server reads a body without a
timeout (`http_server.go:31-37`, `hmac.go:172`), so `AcceptedOnce` is about copies read
within twice the age limit of their arrival, which is as long as a nonce is kept; a
slower copy may get in again. "cache" has three keys for two places, a TTL of 2 and a
wait of 1, so that an entry set back in time can look idle. "tokens" has three senders,
of which two must wait for a third, two audiences, and lifetimes at the margin, just
above it and by default.

## The proxy: `Router`, `GraphqlRewrite`, `Proxy`

`Router` holds the whole table (`Routes`, in order), patterns as sequences of segments,
with the dispatch index (`RouteKey`, `Bucket`, `MatchIndex`) that narrows the search.
`GraphqlRewrite` has the rewriting of a query as a function of its tokens
(`InjectGuardFields`, `FindParentField`, `InjectFieldsIntoQuery`, `InjectIntoFragment`);
every way of adding fields is one operator, `InsertAfter`, given the places that the
branch of the code chooses (`At` says where a token of the query ends up). A field to
inject is one token, however a query that asks for it spells it. `findParentField` walks
back from `nodes`, counting braces (`Brace`); `InjectionKeepsQuery` finds blocks the
other way round, from where each brace is closed (`BlockOf`), and asks where the fields
landed only of queries whose braces are closed (`Closed`). `Proxy` runs the phases on
one shared agent: `LabelResource`, `Forward`, `LabelResponse...`, `FilterItem`,
`Accumulate...`, `Respond`, with the fallbacks of `handler.go` when the guard fails or
gives nothing. What a reply carries is recorded in one of two ghosts. `told` has what a
check let through; `slipped` has what went out without one: a "whole" answer that is
passed on because it is an error or no JSON (`ForwardAsIs`), although the coarse denial
was bypassed for a filtering that never came, or on a check that says nothing
(`PassOn`), and "items" that failed their check but stay in the answer because only one
of its collections is replaced (`Respond`, `response_transform.go`). `RepliesReadable`
and `ReadsAreMonitored` are about `told`: the latter says that the proxy, too,
implements `ReferenceMonitor` as to what its checks let through, for its one agent and
as far as clients read. A request that writes passes through unmodified, so there are no
sinks in it. That nothing slips is not claimed, and for items in filter mode it is false
(`Proxy_kept`).

Run `Calls`, machine "router": every path of up to nine segments whose next segment some
pattern continues with, or that is digits, empty or unknown, over the whole table.
"rewrite": connections nested two deep, with `pageInfo` before the nodes or not, five
bodies (plain, author asked for, a spread, two spellings of an inline fragment), with
and without a fragment, and queries that are no good: nodes in no block, a query or a
fragment that is not closed. Run `Policies`, machine "proxy": two clients, three modes,
all three operations, answers of two items with different labels.

## Startup, tools and exit: `Lifecycle`, `ToolRegistry`

`Lifecycle.main` is where `run` is. `Stage` and `StageFails` are its stages, each of
which may return an error; `opened` is what has to be cleaned up: the deferred
clean-ups, and "parts", the launcher, connections and guards that `NewUnified` has made
when it fails, which nobody closes (`CreateServer`). A signal (`Signal`), a listener
that fails (`ServeFails`) and `/close` all lead to one `sync.Once` (`MarkShutdown`,
`TearDown`, `ShutdownWasDone`) and one cancelled context. A `/close` answers
(`RespondClosed`), stops the listener, drains and cancels (`BeginDrain`, `EndDrain`,
`CallExit`); `run` does it its own way (`BeginShutdown`, `EndShutdown`, `Exit`).
`TurnAway` and `Admit` are the gate in front of the handlers.

`ToolRegistry` lists tools page by page (`FetchPage`), records each and then sets its
handler (`RecordTool`, `SetHandler`), serves when every backend is over
(`StartServing`), and cuts a server out of the registry for a session
(`CreateFilteredServer`). A list stays as it was sent; `left` are the positions still to
be registered. The gateway's own tools are in the registry but never offered
(`registerSysTool` keeps them from the SDK's server).

Run `Process`: "life" has one request and two `/close`, which is what it takes for one
to be in flight, one to be first and one to be second. "registry" has two backends,
listings with and without duplicates, three allow lists, two pages. Fairness: while the
process runs, the main goroutine goes on from the moment there is a server, and so do a
`/close` and whoever enters or finds the Once (`LifeFairness`): serving, draining and
exiting have timeouts of their own or wait for nothing. No fairness is put on the stages
before the server exists, since the signal is kept back while stdin is read
(`root.go:158`, `config_stdin.go:335`) or a backend is asked for its tools, nor on
`TearDown`, which needs the launcher's lock. So `StopsWhenTold` starts at "watch", and
its alternative is that the backends are never taken down. Handlers need not end,
requests and signals need not come.

In the registry only the gateway's own steps are fair (`RegistryFairness`). Listing
tools has no deadline (`tool_registry.go:138-139`), so `GatewayServes` has the
hypothesis `BackendsAnswer`: if every launch and request is answered or fails, the
gateway serves, however a backend pages its list. One backend that never answers keeps
it from serving.

## Proofs

The proof modules hold for every value of the constants that satisfies the named
assumptions of the modules (a positive threshold and cooldown; label sets over the tags;
limits that are numbers; requesters of a shutdown told apart from the process's own
goroutines; policies that validate; listings that are finite sequences; an audience only
where there is an `auth` object to hold it, `config_core.go:246-253`; queries that are
sequences of tokens, of whatever grammar). TLC evaluates every assumption in the runs.

Every safety property that a passing run checks is proved: every invariant, every action
property and every refinement.

- `GuardPipeline_proofs`: the invariant `IInv` adds to `KnowledgeCovered` and
  `OnlyClearedSinks` what is known of each call in each phase (`CallsInv`): items
  already passed are covered by the agent's secrecy, what the request carries was known
  when it was made, a write past phase 2 goes to a sink that may hold it. `CallsInv` is
  kept by the steps of other calls because secrecy and knowledge only grow (lemma
  `Monotone`). `PipelineIsMonitor` is the refinement: each step maps to a step of the
  monitor or a stutter.
- `GuardSession_proofs`: the invariant adds a ledger: the count of a tool in the states
  made for a session never exceeds the calls admitted for it, and is equal for a session
  initialised once and not reset, up to the call that is being charged.
- `Launcher_proofs`: `NoneLost` needs that a cached connection has the owner it is
  cached under and that a fresh number is referred to by nobody (`CacheInv`);
  `OwnConnection` that a call's connection was made for its key (`CallInv`);
  `RestartsBounded` that restarts since the last good launch never exceed the monitor's
  counter while nobody succeeds (`MonitorInv`).
- `HttpSession_proofs`: the lock is with the request that reconnects (`LockInv`); a
  session about to be replaced is closed, and what the backend still has of it is in
  `forgotten` (`CloseInv`).
- `Requests_proofs`: `AcceptedOnce` rests on `NonceInv`: every pair of nonce and time
  that got in is either still remembered or too old, also by the time a body that is
  being read has been read, if that is within twice the age limit, which is the
  antecedent of the property. `RunsInOwnSession` needs `OwnerInv`, which follows a
  request through the handshake. `OnlyIdleEntriesGo` needs `TimesInv`, how far the time
  a caller has read may lie behind the clock, and so `lastUsed` behind the last use;
  `NoFreshTokenReplaced` needs `FetchInv`: who fetches holds the mutex, and no valid
  token is cached for his audience meanwhile.
- `Guards_proofs`: for the WASM guard, a caller past `Enter` holds the mutex, the
  backend is his, and calls counted bound calls sent (`LockInv`, `SentInv`); a trap not
  yet recorded as a failure belongs to whoever holds the mutex and is past the functions
  of the guard (`TrapInv`). For the policies, `OverriddenInv`: once a server is
  registered what its policy resolves to is public, whatever later registrations
  rewrite. For the configuration, `ConfigInv` (`ConfigSound`): however far a loader has
  come, what it holds is the translation of the servers it has taken, each of which
  passed the checks of its format. That the two translations agree (`TwoFormatsAgree`)
  is then a matter of the fields: `Sections` and `ServersAgree` give each format's
  reading field by field, and `OneDefault` says that a default applied at the start, at
  the end or twice gives the same value, since no default is zero.
- `Proxy_proofs`: `AskInv` says of each request in each phase what the agent may read
  already, and `ReadableStays` that labels only ever widen that, so that the steps of
  other clients, who share the agent, do no harm. On the same invariant rests
  `ProxyIsMonitor`, the refinement of the reading half of `ReferenceMonitor`:
  `InitGuardPolicy` and `AccumulateSecrecy` map to `Raise`, a reply that a check let
  through to `Learn`, everything else to a stutter, what slips included. For the router,
  `FirstMatchWinsHolds` is about paths of any length, where the run has nine segments at
  most: a row with a key matches only paths with that key (`MatchedKey`), the rows
  without a key are the last two of the table (`RoutesShape`, row by row), and so the
  bucket of the path's key followed by those rows has the same first match as the table
  (`IndexIsExact`). For GraphQL, `InjectionKeepsQueryHolds` is about any sequence of
  tokens, where the run has connections nested two deep. `TokensMoved` describes what
  `InsertAfter` returns for any places (`Movement`: the tokens of the query in their
  order, the fields after the places, nothing else), so that taking the fields out gives
  the query back (`KeptQuery`) and the second rewriting finds nothing missing
  (`RewrittenOnce`). No field is a brace or a name that the search looks for, so the
  blocks of the query are those it had (`EnclosesMoved`, `BraceMoved`, `ClosedMoved`),
  `nodes` and the names of their connections too (`NodesMoved`, `NameMoved`), and the
  fields lie in the block whose brace they follow (`FieldsBlock`). The last step is
  `SameBlock`: the block found walking back is the one found from where blocks end. It
  rests on the depth of the braces, which changes by one at a time, so that between two
  depths every one in between is passed (`LastOpening`, `FirstClosing`, from greatest
  and least numbers in place of an induction). A block that is not closed has no end to
  be found from, hence the premise.
- `Process_proofs`: for the life of the process, `ExitIsClean` needs `ShutInv` and
  `ServerInv` (who is inside the Once, and that the server leaves `opened` only through
  it; "parts" are there only after a failure), `CloseDrainsFirst` needs `DrainInv`: a
  drain begins after the listener closed for good. `OnceInv` keeps a `/close` that owns
  the Once at its place in the handler. For the registry, `RegistryInv`
  (`RegistrySound`) follows each backend through its list: the positions it is past are
  offered with a handler, the one it is at may lack its own, and every name in the
  registry comes from such a position, although other backends register in between and
  lists repeat names. When nobody is registering any more that is `ServedToolsComplete`.
  For the breaker, `BreakerInv` is not inductive alone only for lack of types;
  `OneProbePerHalfOpen` follows from `Probe`: in HALF-OPEN the probe mark is set, so
  `Allow` rejects.

The empty string has a name of its own in `Router` (`Empty`) and `Config` (`Blank`),
because the SMT backend cannot translate the literal.

Left to TLC:

- liveness, which the prover does not handle: `ProbeResolves`, `Recovers`,
  `AllReleased`, `RequestsEnd`, `StopsWhenTold`, `GatewayServes`;
- and every run marked as a violation.

## Findings

Each is a run that TLC must find violated, stating what the repository says.

1. `CircuitBreaker_stuck`: a probe that ends in a transport error leaves the circuit
   half-open and rejecting everything, with no probe out.
2. `GuardPipeline_nil`: a guard that labels nothing hands out the answer of a bypassed
   read unchecked.
3. `GuardPipeline_lowering`: a read of two items of different integrity leaves the agent
   with tags one of the items lacks: `Overall` unites the items' integrity, where the
   documentation has it intersected item by item.
4. `GuardSession_race`: two first calls share a session and double its budget.
5. `GuardPolicy_limits`: a policy with `tool-call-limits` passes validation and is
   refused by `buildStrictLabelAgentPayload`, so every call of a server with a WASM
   guard fails.
6. `HttpSession_race`: a second reconnect closes the session of the first one's retry.
7. `HttpSession_context`: over the plain transport a request with a session ID in its
   context, as every tool call of the gateway has, is retried with the ID that was
   refused, not in the session that was opened for the retry.
8. `Launcher_close`: `Close` leaves the processes of sessions running.
9. `Proxy_kept`: in filter mode items that failed their check stay in the answer when
   they are not in the one collection that is replaced: under keys of a search result
   other than `items` and `repositories`, and in the second collection of a GraphQL
   answer.

Also met while modelling, and left to the reader of the code, since the modules show
them at a glance.

Guarded calls:

- a success admitted before the circuit opened takes it from OPEN to CLOSED
  (`RecordSuccess`), a transition the type's comment does not list;
- the first call to a second server runs its `label_agent` and may give integrity back
  (`LabelAgent`);
- two first calls of a session both run `label_agent` (`CacheMiss` twice);
- the context of one request, cancelled inside the guest, closes the module (`wazero`'s
  close on context done) and fails the guard for everybody (`Cancelled`);
- the deferred deallocation runs guest code after a trap, and a trap inside it is only
  logged and does not mark the guard failed, where the comment at `wasm_exec.go:53-54`
  has a trap mark it for good (`Dealloc`);
- a copy of a signed request whose body is sent slowly enough finds its nonce forgotten
  and gets in again (`CheckSignature`).

Connections and process:

- the monitor acts on a status it read before (`MonitorSeesError`, `MonitorClears`);
- initialising a plain session has no deadline, and holds the lock of all servers
  meanwhile (`Hangs`); listing tools has none either, and `registerAllToolsParallel`
  waits for every backend;
- a signal is not looked at before the server exists, so it does not end a gateway that
  waits for its configuration or a backend (`Startup`);
- when `NewUnified` fails at a later guard or at the registration of tools, the launcher
  and the guards made before stay open until the process ends (`CreateServer`);
- of two `/close` that race, the second gets 200 with zero servers instead of 410; calls
  in flight lose their backends before the drain begins; a command that fails never
  closes its log files, since cobra skips the post-run (`Exit`);
- a signal cancels the context all requests come from before the drain, so
  `MCP_GATEWAY_SHUTDOWN_TIMEOUT` waits for handlers that have been told to stop
  (`Signal`).

Policies and configuration:

- when a server has no policy of its own the override for public repositories injects
  one with no minimum integrity, even if the guard it names is configured more strictly
  (`ServerOverride`); on a map nobody recognises the injected key makes the whole map
  invalid;
- an allow-only policy from the command line hides a server's write sink (`Resolve`);
  the legacy form drops the optional fields (`ParseServerGuardPolicy`); a guard that
  fails to load is replaced by none even when there is a policy for it (`ChosenGuard`);
- `MCP_GATEWAY_FORCE_PUBLIC_REPOS=false` disables the override even if the configuration
  enables it, where `ENVIRONMENT_VARIABLES.md:138` has the configuration win
  (`ForcesPublic`);
- the TOML loader skips the container check for a server of unknown type, which the
  launcher starts as stdio; it does not check the minima of timeouts, and `agent_id =
  ""` beside an API key stays empty (`NormalizeAgentID`); the JSON loader expands a
  server's env twice (`TwiceExpandable`) and builds a custom server without a container
  as a `docker run` with no image (`StdioServer`).

Proxy:

- an answer that is an error or no JSON is passed on unchecked, also to a read whose
  coarse denial was bypassed (`ForwardAsIs`), and then, as when the guard fails, the
  read accumulates nothing (`LabelResponseFails`); an unrecognised path read in
  propagate mode takes all integrity from the agent (`Unrecognized`);
- `...on T` without a space is taken for a spread (`InlineInNodes`).

## Plan

Done: every component of the table above but those of its last row, with the parts
listed below left out.

Next, in this order:

1. `ToolCall`: the composition of breaker, guard session, launcher and pipeline as one
   tool call, with the end of the gateway in the middle of it.
2. Several servers of one launcher, and its monitor over all of them.
3. Stdio connections, and the order in which transports are tried at first.
4. The operation classes and the integrity ladder of the Rust guard as operators.
5. Proofs for the compositions of 1 and 2, from the theorems of their parts.

## Not modelled

- Logging, tracing and the small helpers change nothing the properties speak of.
- The client for GitHub's API and the payload middleware wrap one call each; the
  latter's work is jq and files.
- The Rust guard is data to the Go code: the pipeline and the proxy take any labels it
  may give.
- Of the HTTP server: spans, `/health`, `/reflect`, TLS. Of the proxy: how a GraphQL
  operation is recognised by patterns (the router's table is whole), enrichment calls.
- Of the configuration: the format of URLs, mounts, domains and payload paths, the check
  of the execution environment, and the texts of errors. Of the transports: stdio and
  the parsing of answers.
- Of the command line: flags, and the proxy command but for what it defaults to.

Names of servers and agents, results and labels are model values: no property here is
about their text.
