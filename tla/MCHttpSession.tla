--------------------------- MODULE MCHttpSession ---------------------------
(* Concurrent requests over one connection, made for an agent or not. *)
EXTENDS HttpSession

CONSTANTS r1, r2

OneRequest == {r1}
TwoRequests == {r1, r2}
=============================================================================
