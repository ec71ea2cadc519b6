---------------------------- MODULE ToolRegistry ----------------------------
(***************************************************************************)
(* How the gateway learns its tools: registerAllTools and its helpers in   *)
(* server/tool_registry.go, called by NewUnified before anything is        *)
(* served, and the per-backend servers that routed mode cuts out of the    *)
(* registry (server/routed.go).  Backends are asked one after the other or *)
(* all at once; one that fails is left out.                                *)
(*                                                                         *)
(* A tool's registered name is its server's ID, "___" and its own name.    *)
(* IDs hold no underscore, so a name stands for one pair.                  *)
(***************************************************************************)
EXTENDS Naturals, Sequences

LOCAL INSTANCE Functions
LOCAL INSTANCE FiniteSets

CONSTANTS Backends,   \* configured server IDs
          Order,      \* a sequence of them: that of launcher.ServerIDs
          Listings,   \* what a backend may list: sequences of tool names
          AllowLists, \* configured lists: sets of tool names
          PaginateAllMaxPages \* the most pages a list may have

ASSUME OrderAssumption == Range(Order) = Backends /\ Len(Order) = Cardinality(Backends)

ASSUME PagesAssumption == PaginateAllMaxPages \in Nat

ASSUME ListingsAssumption ==
  \A list \in Listings : Len(list) \in Nat /\ DOMAIN list = 1..Len(list)

VARIABLES launch,     \* how it runs: [sequential, difc]
          allowed,    \* allowedToolSets, {} for a server without a list
          reg,        \* per backend: pc, the list it sent, the positions of
                      \* it not registered yet, the pages it has sent, and
                      \* whether prompts of its were registered
          tools,      \* us.tools: registered name -> is its Handler set
          offered,    \* the tools of the SDK server
          serving,    \* NewUnified has returned
          routed      \* filtered servers made: backend -> its tools

regVars == <<launch, allowed, reg, tools, offered, serving, routed>>

Sys == "sys"
SysTools == {<<Sys, "init">>, <<Sys, "list_servers">>}
Everything == "*"

Untold == [pc |-> "todo", list |-> <<>>, left |-> {}, pages |-> 0, prompts |-> FALSE]

\* buildAllowedToolSets: "*" anywhere in a list is no list.
AllowedToolSets(lists) == [s \in Backends |-> IF Everything \in lists[s] THEN {} ELSE lists[s]]

RegistryInit ==
  /\ launch \in [sequential : BOOLEAN, difc : BOOLEAN]
  /\ \E lists \in [Backends -> AllowLists] : allowed = AllowedToolSets(lists)
  /\ reg = [s \in Backends |-> Untold]
  /\ tools = IF launch.difc THEN [n \in SysTools |-> TRUE] ELSE <<>>
  /\ offered = {}   \* registerSysTool keeps its tools from the SDK server
  /\ serving = FALSE
  /\ routed = [s \in Backends |-> {}]

\* isToolAllowed, and the filter on what a backend lists.
IsToolAllowed(s, t) == allowed[s] = {} \/ t \in allowed[s]

Over(s) == reg[s].pc \in {"done", "failed"}

\* Whose turn it is when backends are asked in order.
Turn(s) ==
  launch.sequential => \A i \in 1..Len(Order) :
    Order[i] = s => \A j \in 1..(i - 1) : Over(Order[j])

Set(s, state) == reg' = [reg EXCEPT ![s] = state]

\* GetOrLaunch, which may fail.
FetchTools(s) ==
  /\ reg[s].pc = "todo" /\ Turn(s)
  /\ \E pc \in {"failed", "list"} : Set(s, [Untold EXCEPT !.pc = pc])
  /\ UNCHANGED <<launch, allowed, tools, offered, serving, routed>>

\* A definition named X_Bug is X with one plausible bug; no specification uses it.
PageLimitReached_NoCap(s) == FALSE
PageLimitReached(s) == reg[s].pages >= PaginateAllMaxPages

\* The filter keeps the tools that are allowed, in their order.
Kept(list, s) == {i \in DOMAIN list : IsToolAllowed(s, list[i])}

Listed(list, s) ==
  [Untold EXCEPT !.pc = "record", !.list = list, !.left = Kept(list, s)]

\* The position whose tool is registered next.
IsNext(s, i) == i \in reg[s].left /\ \A j \in reg[s].left : i <= j

Named(s, i) == <<s, reg[s].list[i]>>

\* PaginateAll, a page at a time.  The answer is an error, the last page, a
\* cursor that was seen before, or a new one, of which a backend has as many
\* as it likes; the pages are counted modulo the limit plus one.
FetchPage(s) ==
  /\ reg[s].pc = "list"
  /\ IF PageLimitReached(s) THEN Set(s, [Untold EXCEPT !.pc = "failed"])
     ELSE \E answer \in {"error", "last", "seen", "new"} :
       CASE answer \in {"error", "seen"} -> Set(s, [Untold EXCEPT !.pc = "failed"])
         [] answer = "last" -> \E list \in Listings : Set(s, Listed(list, s))
         [] answer = "new" ->
              Set(s, [reg[s] EXCEPT !.pages = (@ + 1) % (PaginateAllMaxPages + 1)])
  /\ UNCHANGED <<launch, allowed, tools, offered, serving, routed>>

\* us.tools[name] = ToolInfo without a handler, under the lock.
RecordTool(s) ==
  /\ reg[s].pc = "record"
  /\ \E i \in reg[s].left :
       /\ IsNext(s, i)
       /\ tools' = [n \in DOMAIN tools \cup {Named(s, i)} |->
                      IF n = Named(s, i) THEN FALSE ELSE tools[n]]
  /\ Set(s, [reg[s] EXCEPT !.pc = "handler"])
  /\ UNCHANGED <<launch, allowed, offered, serving, routed>>

\* The wrapped handler is stored under the lock again, then given to the SDK.
SetHandler(s) ==
  /\ reg[s].pc = "handler"
  /\ \E i \in reg[s].left :
       /\ IsNext(s, i)
       /\ tools' = [tools EXCEPT ![Named(s, i)] = TRUE]
       /\ offered' = offered \cup {Named(s, i)}
       /\ Set(s, [reg[s] EXCEPT !.pc = "record", !.left = @ \ {i}])
  /\ UNCHANGED <<launch, allowed, serving, routed>>

\* Prompts may be missing, or fail, without harm.
RegisterPrompts(s) ==
  /\ reg[s].pc = "record" /\ reg[s].left = {}
  /\ \E prompts \in BOOLEAN : Set(s, [reg[s] EXCEPT !.pc = "done", !.prompts = prompts])
  /\ UNCHANGED <<launch, allowed, tools, offered, serving, routed>>

AllOver_First(servers) == \E s \in servers : Over(s)
\* wg.Wait, or the end of the loop.
AllOver(servers) == \A s \in servers : Over(s)

StartServing ==
  /\ ~serving /\ AllOver(Backends)
  /\ serving' = TRUE
  /\ UNCHANGED <<launch, allowed, reg, tools, offered, routed>>

\* GetToolsForBackend, and of those the tools that GetToolHandler finds.
Filtered(s) == {n \in DOMAIN tools : n[1] = s /\ tools[n]}

\* createFilteredServer, for a session's first request; its server is kept.
CreateFilteredServer(s) ==
  /\ serving
  /\ routed' = [routed EXCEPT ![s] = Filtered(s)]
  /\ UNCHANGED <<launch, allowed, reg, tools, offered, serving>>

\* What waits for a backend: a launch, a page of its tools, its prompts.
Asking(s) == FetchTools(s) \/ FetchPage(s) \/ RegisterPrompts(s)
RegisterStep(s) == Asking(s) \/ RecordTool(s) \/ SetHandler(s)

RegistryNext ==
  \/ StartServing
  \/ \E s \in Backends : RegisterStep(s) \/ CreateFilteredServer(s)

Begun == \E s \in Backends : reg[s].pc # "todo"

\* The gateway's own steps are taken, and the next backend's after them.
\* Nothing makes a backend answer: its requests have no deadline.
RegistryFairness ==
  /\ WF_regVars(StartServing)
  /\ \A s \in Backends : WF_regVars(RecordTool(s) \/ SetHandler(s))

RegistrySpec == RegistryInit /\ [][RegistryNext]_regVars /\ RegistryFairness

-----------------------------------------------------------------------------
(* Properties.                                                             *)

\* The tools that the backends that answered list and the configuration allows.
ToBeServed ==
  UNION {{Named(s, i) : i \in Kept(reg[s].list, s)} :
           s \in {r \in Backends : reg[r].pc = "done"}}

\* When the first request is served every tool that should be there can be
\* called, in the unified server and in those cut out of it, and no other but
\* the gateway's own, which are not listed; a tool is in the registry some time
\* before it has a handler (registerAllTools).
ServedToolsComplete ==
  serving =>
    /\ DOMAIN tools = ToBeServed \cup (IF launch.difc THEN SysTools ELSE {})
    /\ \A n \in DOMAIN tools : tools[n]
    /\ offered = ToBeServed
    /\ \A s \in Backends : routed[s] \in {{}, {n \in DOMAIN tools : n[1] = s}}

\* Each launch and each request is answered or fails.
BackendsAnswer == \A s \in Backends : WF_regVars(Begun /\ Asking(s))

\* A backend that fails, lists nothing or sends one new cursor after another
\* does not keep the gateway from serving once it has begun to ask (the page
\* limit of PaginateAll); one that never answers does.
GatewayServes == BackendsAnswer => (Begun ~> serving)
=============================================================================
