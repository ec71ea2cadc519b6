------------------------------- MODULE Router -------------------------------
(***************************************************************************)
(* How the proxy finds the guard's tool name for a REST path:              *)
(* internal/proxy/router.go.  The table is ordered and the first match     *)
(* wins; a dispatch index built from the patterns narrows the search.      *)
(*                                                                         *)
(* A path is the sequence of its segments.  A pattern is a sequence of     *)
(* segments too: a literal, Digits, One segment, or Rest (a tail).   *)
(***************************************************************************)
EXTENDS Naturals, Sequences

LOCAL INSTANCE Functions

CONSTANTS Numbers,   \* segments of digits
          OtherSegments,     \* segments no pattern mentions
          MaxPath    \* bound: segments of a path

Digits == "#"
One == "*"
Rest == "**"
Empty == ""   \* an empty segment, and the key of the catch-all bucket

Row(tool, pattern) == [tool |-> tool, pattern |-> pattern]
InRepo(tool, tail) == Row(tool, <<"repos", One, One>> \o tail)
Unmatched == "unmatched"

IssueRoutes == <<
  InRepo("issue_read", <<"issues", Digits, "comments">>),
  InRepo("issue_read", <<"issues", Digits, "labels">>),
  InRepo("issue_read", <<"issues", Digits>>),
  InRepo("list_issues", <<"issues">>),
  InRepo("pull_request_read", <<"pulls", Digits, "files">>),
  InRepo("pull_request_read", <<"pulls", Digits, "reviews">>),
  InRepo("pull_request_read", <<"pulls", Digits, "comments">>),
  InRepo("pull_request_read", <<"pulls", Digits, "commits">>),
  InRepo("pull_request_read", <<"pulls", Digits>>),
  InRepo("list_pull_requests", <<"pulls">>) >>

ContentRoutes == <<
  InRepo("get_commit", <<"commits", One>>),
  InRepo("list_commits", <<"commits">>),
  InRepo("list_branches", <<"branches">>),
  InRepo("get_tag", <<"git", "ref", "tags", Rest>>),
  InRepo("list_tags", <<"tags">>),
  InRepo("get_latest_release", <<"releases", "latest">>),
  InRepo("get_release_by_tag", <<"releases", "tags", Rest>>),
  InRepo("list_releases", <<"releases">>),
  InRepo("get_file_contents", <<"contents", Rest>>),
  InRepo("get_file_contents", <<"git", "trees", Rest>>),
  InRepo("get_label", <<"labels", Rest>>),
  InRepo("list_labels", <<"labels">>) >>

ActionRoutes == <<
  InRepo("actions_list", <<"actions", "workflows">>),
  InRepo("actions_list", <<"actions", "workflows", One, "runs">>),
  InRepo("actions_get", <<"actions", "workflows", One>>),
  InRepo("actions_list", <<"actions", "runs", Digits, "attempts", Digits, "jobs">>),
  InRepo("get_job_logs", <<"actions", "runs", Digits, "attempts", Digits, "logs">>),
  InRepo("get_job_logs", <<"actions", "runs", Digits, "logs">>),
  InRepo("actions_list", <<"actions", "runs", Digits, "artifacts">>),
  InRepo("actions_get", <<"actions", "runs", Digits>>),
  InRepo("actions_list", <<"actions", "runs">>),
  InRepo("actions_get", <<"actions", "jobs", Digits>>),
  InRepo("actions_list", <<"actions", "artifacts">>),
  InRepo("actions_list", <<"actions", "caches">>),
  InRepo("actions_list", <<"actions", "secrets">>),
  InRepo("actions_list", <<"actions", "variables">>),
  InRepo("actions_list", <<"actions", "variables", One>>),
  InRepo("actions_list", <<"environments", One, "secrets">>),
  InRepo("actions_list", <<"environments", One, "variables">>) >>

\* An alternative or an optional segment of a pattern makes several rows.
OtherRoutes == <<
  Row("list_notifications", <<"notifications">>),
  Row("get_me", <<"user">>),
  Row("get_me", <<"user", "keys">>),
  Row("get_me", <<"user", "ssh_signing_keys">>),
  Row("get_me", <<"user", "gpg_keys">>),
  Row("actions_list", <<"orgs", One, "actions", "secrets">>),
  Row("actions_list", <<"orgs", One, "actions", "secrets", One>>),
  Row("actions_list", <<"orgs", One, "actions", "variables">>),
  Row("actions_list", <<"orgs", One, "actions", "variables", One>>),
  InRepo("list_discussions", <<"discussions">>),
  InRepo("get_discussion_comments", <<"discussions", Digits, "comments">>),
  InRepo("list_discussions", <<"discussions", Digits>>),
  InRepo("pull_request_read", <<"commits", One, "check-runs">>),
  InRepo("pull_request_read", <<"commits", One, "check-suites">>),
  Row("search_code", <<"search", "code">>),
  Row("search_issues", <<"search", "issues">>),
  Row("search_repositories", <<"search", "repositories">>),
  InRepo("get_file_contents", <<>>),
  InRepo("get_file_contents", <<Rest>>) >>

Routes == IssueRoutes \o ContentRoutes \o ActionRoutes \o OtherRoutes

-----------------------------------------------------------------------------
SegmentMatches(p, segment) ==
  CASE p = Digits -> segment \in Numbers
    [] p = One -> segment # Empty
    [] OTHER -> p = segment

\* Rest needs a character, the generic fallback's tail does not.
Matches(row, path) ==
  LET n == Len(row.pattern)
      open == row.pattern[n] = Rest
      fixed == IF open THEN n - 1 ELSE n
  IN /\ IF open THEN Len(path) >= n ELSE Len(path) = n
     /\ \A i \in 1..fixed : SegmentMatches(row.pattern[i], path[i])
     /\ open /\ n > 4 => path[n] # Empty \/ Len(path) > n

\* buildRouteDispatch: the segment that follows the repository, or the first.
RouteKey(row) ==
  IF row.pattern[1] # "repos" THEN row.pattern[1]
  ELSE IF Len(row.pattern) < 4 \/ row.pattern[4] = Rest THEN Empty
  ELSE row.pattern[4]

\* A definition named X_Bug is X with one plausible bug; no specification uses it.
RouteMatchKey_FirstSegment(path) == path[1]

\* "repos" alone is a top-level path.
RouteMatchKey(path) ==
  IF path[1] # "repos" \/ Len(path) = 1 THEN path[1]
  ELSE IF Len(path) < 4 THEN Empty ELSE path[4]

Bucket(key) == {i \in DOMAIN Routes : RouteKey(Routes[i]) = key}

FirstOf(indices, path) ==
  LET hits == {i \in indices : Matches(Routes[i], path)}
  IN IF hits = {} THEN 0 ELSE CHOOSE i \in hits : \A j \in hits : i <= j

\* MatchRoute: the keyed bucket, then the catch-all; 0 when nothing matches.
MatchIndex(path) ==
  LET key == RouteMatchKey(path)
      keyed == FirstOf(Bucket(key), path)
  IN IF keyed # 0 \/ key = Empty THEN keyed ELSE FirstOf(Bucket(Empty), path)

MatchRoute(path) ==
  LET i == MatchIndex(path)
  IN IF i = 0 THEN [tool |-> Unmatched, repo |-> <<>>]
     ELSE [tool |-> Routes[i].tool,
           repo |-> IF Routes[i].pattern[1] = "repos" THEN <<path[2], path[3]>> ELSE <<>>]

-----------------------------------------------------------------------------
\* Requests: paths that follow some pattern for a while.
VARIABLE asked

routerVars == <<asked>>

Literals == UNION {Range(Routes[i].pattern) : i \in DOMAIN Routes} \ {Digits, One, Rest}

\* The literal some route wants next.
Continues(path, segment) ==
  \E i \in DOMAIN Routes :
    /\ Len(Routes[i].pattern) > Len(path) /\ Routes[i].pattern[Len(path) + 1] = segment
    /\ \A k \in DOMAIN path : SegmentMatches(Routes[i].pattern[k], path[k])

RouterInit == asked = <<>>

Ask(segment) ==
  /\ Len(asked) < MaxPath
  /\ segment \in Numbers \cup OtherSegments \/ Continues(asked, segment)
  /\ asked' = Append(asked, segment)

RouterNext == \E segment \in Literals \cup Numbers \cup OtherSegments : Ask(segment)

RouterSpec == RouterInit /\ [][RouterNext]_routerVars

-----------------------------------------------------------------------------
(* Properties.                                                             *)

\* The index changes nothing: it finds the row that trying the whole table in
\* its order finds ("Patterns are tried in order; first match wins"), and no
\* path inside a repository is left without a tool and that repository
\* (MatchRoute, buildRouteDispatch).
FirstMatchWins ==
  asked # <<>> =>
    /\ MatchIndex(asked) = FirstOf(DOMAIN Routes, asked)
    /\ asked[1] = "repos" /\ Len(asked) >= 3 /\ asked[2] # Empty /\ asked[3] # Empty
         => MatchRoute(asked).repo = <<asked[2], asked[3]>>
=============================================================================
