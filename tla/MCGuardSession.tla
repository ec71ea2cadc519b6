--------------------------- MODULE MCGuardSession ---------------------------
(* Concurrent calls of two limited tools and an unlimited one.             *)
EXTENDS GuardSession, TLC

CONSTANTS s1, s2, c1, c2

MCSessions == {s1, s2}
MCCalls == {c1, c2}
SessionSymmetry == Permutations(MCSessions) \cup Permutations(MCCalls)

MCTools == {"issue_read", "search", "get_me"}
MCLimit == [issue_read |-> 1, search |-> 2, get_me |-> 0]
=============================================================================
