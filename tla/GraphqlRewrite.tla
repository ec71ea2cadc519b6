--------------------------- MODULE GraphqlRewrite ---------------------------
(***************************************************************************)
(* The fields the proxy adds to a GraphQL query so that the guard can      *)
(* label the items of the answer: internal/proxy/graphql_rewrite.go.       *)
(*                                                                         *)
(* A query is a sequence of tokens: braces, names, Args for a list in      *)
(* parentheses, Spread for "...F", "... on T" and "...on T" for the two    *)
(* spellings of an inline fragment, and FragmentF for "fragment F on T".   *)
(* A field to inject is one token, however a query that asks for it        *)
(* spells it.                                                              *)
(***************************************************************************)
EXTENDS Naturals, Sequences, FiniteSetsExt

CONSTANT Queries   \* the queries clients send

\* A query may be any sequence of tokens, of whatever grammar.
ASSUME QueriesAssumption == Queries \subseteq Seq(STRING)

Args == "(args)"
Spread == "...F"
Inline == "... on T"
InlineGlued == "...on T"
FragmentF == "fragment F on T"
Structure == {"{", "}", Args, Spread, Inline, InlineGlued, FragmentF}

ReadTools == {"list_issues", "list_commits", "get_me"}

\* The fields to add and the connections whose nodes have them.
FieldsForTool(tool) ==
  CASE tool = "list_issues" ->
         [fields |-> <<"author{login}", "authorAssociation">>,
          parents |-> {"pullRequests", "issues", "comments", "reviews", "search"}]
    [] tool = "list_commits" -> [fields |-> <<"author{user{login}}">>, parents |-> {"history"}]
    [] OTHER -> [fields |-> <<>>, parents |-> {}]

Tokens(q) == {q[i] : i \in DOMAIN q}

Rank(S, k) == Cardinality({j \in S : j <= k})

\* A sequence without the tokens of a set.
Without(s, dropped) ==
  LET kept == {k \in 1..Len(s) : s[k] \notin dropped}
  IN [i \in 1..Cardinality(kept) |-> s[CHOOSE k \in kept : Rank(kept, k) = i]]

\* missingFields: the fields the query does not ask for, in their order.
Missing(q, fields) == Without(fields, Tokens(q))

-----------------------------------------------------------------------------
\* Where the nodes blocks open.
NodesAt(q) == {i \in 1..(Len(q) - 1) : q[i] = "nodes" /\ q[i + 1] = "{"}

Count(q, from, to, token) == Cardinality({i \in from..to : q[i] = token})
Balanced(q, from, to) == Count(q, from, to, "{") = Count(q, from, to, "}")

\* A definition named X_Bug is X with one plausible bug; no specification uses it.
Encloses_Nearest(q, k, i) == q[k] = "{"
\* The brace whose block i lies in: what lies between them is closed.
Encloses(q, k, i) == q[k] = "{" /\ Balanced(q, k + 1, i - 1)

Brace(q, i) == Max({0} \cup {k \in 1..(i - 1) : Encloses(q, k, i)})

NoName == ""

\* The name in front of a brace and of its arguments.
NameBefore(q, brace) ==
  LET before == IF brace > 1 /\ q[brace - 1] = Args THEN brace - 2 ELSE brace - 1
  IN IF before < 1 \/ q[before] \in Structure THEN NoName ELSE q[before]

\* findParentField: that of the block the nodes at i are in.
FindParentField(q, i) == NameBefore(q, Brace(q, i))

\* Where the token at i is when these fields follow the tokens at these places.
At(fields, places, i) == i + Len(fields) * Cardinality({p \in places : p < i})

InsertAfter(q, places, fields) ==
  [k \in 1..(At(fields, places, Len(q) + 1) - 1) |->
     LET i == Max({j \in 1..Len(q) : At(fields, places, j) <= k})
     IN IF k = At(fields, places, i) THEN q[i] ELSE fields[k - At(fields, places, i)]]

\* injectIntoFragment: before the brace that closes the definition, if there is one.
InjectIntoFragment(q, fields) ==
  LET opens == {i \in 1..Len(q) : q[i] = "{" /\ \E j \in 1..(i - 1) : q[j] = FragmentF}
      ends == {j \in 1..Len(q) : opens # {} /\ j > Min(opens) /\ q[j] = "}"
                                 /\ Balanced(q, Min(opens), j)}
  IN IF ends = {} THEN q ELSE InsertAfter(q, {Min(ends) - 1}, fields)

\* Where the blocks of inline fragments open.
InlineOpens(q) == {j \in 2..Len(q) : q[j - 1] \in {Inline, InlineGlued} /\ q[j] = "{"}

InlineInNodes(q) ==
  \E i \in NodesAt(q), j \in InlineOpens(q) :
    i + 2 < j /\ Count(q, i + 2, j - 1, "{") + Count(q, i + 2, j - 1, "}") = 0

\* A spread directly in a nodes block, an inline fragment in one, or the nodes
\* of safe connections.  "...on" is taken for a spread of a fragment named on.
InjectFieldsIntoQuery(q, fields, parents) ==
  LET spreads == {i \in NodesAt(q) : i + 2 <= Len(q) /\ q[i + 2] \in {Spread, InlineGlued}}
      safe == {n \in NodesAt(q) : FindParentField(q, n) \in parents}
  IN IF spreads # {}
       THEN IF q[Min(spreads) + 2] = Spread THEN InjectIntoFragment(q, fields) ELSE q
     ELSE IF InlineInNodes(q) THEN InsertAfter(q, InlineOpens(q), fields)
     ELSE InsertAfter(q, {n + 1 : n \in safe}, fields)

InjectGuardFields(q, tool) ==
  LET wanted == FieldsForTool(tool)
  IN InjectFieldsIntoQuery(q, Missing(q, wanted.fields), wanted.parents)

-----------------------------------------------------------------------------
VARIABLE rewrite   \* the last request: its tool, its query, what was sent on

graphqlVars == <<rewrite>>

GraphqlInit == rewrite = [tool |-> "get_me", query |-> <<>>, sent |-> <<>>]

\* Requests have nothing in common: one is enough.
Rewrite(q, tool) ==
  /\ rewrite.query = <<>>
  /\ rewrite' = [tool |-> tool, query |-> q, sent |-> InjectGuardFields(q, tool)]

GraphqlNext == \E q \in Queries, tool \in ReadTools : Rewrite(q, tool)

GraphqlSpec == GraphqlInit /\ [][GraphqlNext]_graphqlVars

-----------------------------------------------------------------------------
(* Properties.                                                             *)

\* The block a token is in, found from where blocks end.
Ends(q, o) == {j \in (o + 1)..Len(q) : q[j] = "}" /\ Balanced(q, o, j)}
Closed(q) == \A o \in 1..Len(q) : q[o] = "{" => Ends(q, o) # {}
BlockOf(q, k) == Max({0} \cup {o \in 1..(k - 1) : q[o] = "{" /\ k <= Min(Ends(q, o))})

\* The rewritten query is the client's with fields added and nothing else
\* changed, and to rewrite it again adds nothing; without fragments, and if its
\* braces are closed, the fields are in the nodes of every connection that has
\* them and in no other's: a field its type lacks would make the server reject
\* the query (InjectGuardFields, findParentField).
InjectionKeepsQuery ==
  LET q == rewrite.query
      sent == rewrite.sent
      wanted == FieldsForTool(rewrite.tool)
      added == Tokens(Missing(q, wanted.fields))
  IN /\ Without(sent, added) = q
     /\ InjectGuardFields(sent, rewrite.tool) = sent
     /\ Closed(q) /\ Tokens(q) \cap {Spread, Inline, InlineGlued} = {} =>
          \A n \in NodesAt(sent) :
            {sent[k] : k \in {j \in 1..Len(sent) : sent[j] \in added /\ BlockOf(sent, j) = n + 1}}
              = IF NameBefore(sent, BlockOf(sent, n)) \in wanted.parents THEN added ELSE {}
=============================================================================
