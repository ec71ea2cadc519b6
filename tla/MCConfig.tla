------------------------------ MODULE MCConfig ------------------------------
(***************************************************************************)
(* Configurations: variations of one valid stdio server, of one valid http *)
(* server and of one valid gateway section, a few fields at a time.        *)
(***************************************************************************)
EXTENDS Config

Server ==
  [type |-> "stdio", container |-> {"image"}, env |-> {}, auth |-> {}, audience |-> {},
   filters |-> {}, tools |-> {}, guard |-> {}, policies |-> {}, tool |-> {}]
HTTP == [Server EXCEPT !.type = "http", !.container = {}]

WithTimeouts ==
  {[s EXCEPT !.env = e, !.tool = n] :
     s \in {Server, [Server EXCEPT !.type = ""]}, e \in {{}, {"${V}"}}, n \in {{}, {0}, {5}, {10}}}
WithTypes ==
  {[Server EXCEPT !.type = k, !.container = c] :
     k \in {"", "local", "stdio", "custom"}, c \in {{}, {"image"}}}
WithAuth ==
  {[HTTP EXCEPT !.auth = {a}, !.audience = u] :
     a \in {"github-oidc", "other"}, u \in {{}, {"aud"}}}
  \cup {HTTP, [Server EXCEPT !.auth = {"github-oidc"}]}
WithFilters == {[s EXCEPT !.filters = {f}] : s \in {Server, HTTP}, f \in {"compiles", "fails"}}
WithGuards ==
  {[s EXCEPT !.tools = {"t"}, !.guard = {"g"}, !.policies = {"p"}] : s \in {Server, HTTP}}
MCServerForms == WithTimeouts \cup WithTypes \cup WithAuth \cup WithFilters \cup WithGuards

Section ==
  [port |-> {80}, agentId |-> {"a"}, apiKey |-> {}, startup |-> {}, tool |-> {}, keepalive |-> {},
   threshold |-> {}, bots |-> {}, force |-> {}, exempt |-> {}, tracing |-> {}]
Telemetry == [endpoint |-> {"https"}, traceId |-> {}, service |-> {}]

WithNumbers ==
  {[Section EXCEPT !.port = p] : p \in {{}, {0}, {70000}}}
  \cup {[Section EXCEPT !.startup = n, !.tool = m, !.keepalive = k, !.threshold = h] :
          n \in {{}, {0}}, m \in {{}, {0}, {5}, {90}}, k \in {{}, {0}, {-1}}, h \in {{}, {1}, {0}}}
WithKeys ==
  {[Section EXCEPT !.agentId = a, !.apiKey = k] : a, k \in {{}, {""}, {"a"}, {"k"}}}
WithLists ==
  {[Section EXCEPT !.bots = b, !.force = {FALSE}, !.exempt = {"a"}] :
     b \in {{}, {{}}, {{"bot"}}, {{"blank"}}}}
WithTracing ==
  {[Section EXCEPT !.tracing = {[Telemetry EXCEPT !.endpoint = e, !.traceId = i, !.service = n]}] :
     e \in {{}, {"http"}, {"https"}, {"${E}"}},
     i \in {{}, {"hex"}, {"zeros"}, {"${V}"}}, n \in {{}, {"svc"}}}
MCGatewayForms == WithNumbers \cup WithKeys \cup WithLists \cup WithTracing

MCEnvironments ==
  {[requestURL |-> r, toolTimeout |-> n, vars |-> v] :
     r \in BOOLEAN, n \in {{}, {5}, {70}},
     v \in {[x \in {} |-> ""],
            [x \in {"${V}"} |-> "hex"],
            [x \in {"${V}", "${E}"} |-> IF x = "${E}" THEN "https" ELSE "${W}"]}}

Plain ==
  [servers |-> [n \in ServerNames |-> Server], gateway |-> Section,
   guards |-> {}, schemas |-> {}, unknown |-> {}]

MCSources ==
  {[Plain EXCEPT !.servers = [n \in ServerNames |-> s], !.schemas = c] :
     s \in MCServerForms, c \in {{}, {"https"}}}
  \cup {[Plain EXCEPT !.servers["a"] = s, !.servers["b"] = [Server EXCEPT !.type = "custom"],
                      !.schemas = c] :
          s \in {Server, HTTP}, c \in {{}, {""}, {"https"}}}
  \cup {[Plain EXCEPT !.gateway = g] : g \in MCGatewayForms}
  \cup {[Plain EXCEPT !.guards = g, !.unknown = u] :
          g \in {{}, {"valid"}, {"invalid"}}, u \in {{}, {"typo"}, {"under guard_policies"}}}
=============================================================================
