----------------------------- MODULE MCLauncher -----------------------------
(* Concurrent calls of two sessions to one server. *)
EXTENDS Launcher

CONSTANTS s1, s2, c1, c2

MCSessions == {s1, s2}
MCCalls == {c1, c2}
=============================================================================
