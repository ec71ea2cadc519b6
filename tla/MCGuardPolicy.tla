--------------------------- MODULE MCGuardPolicy ----------------------------
(* Policies with and without optional fields, sinks, and one that is none. *)
EXTENDS GuardPolicy

AllowTrusted == AllowOnly("all", 2, {"trusted-users"})
AllowLimited == AllowOnly("scoped", 1, {"tool-call-limits"})
MCGlobal == {NoPolicy, BadPolicy, AllowTrusted, WriteSink("")}
MCServer == {BadPolicy, AllowTrusted, AllowLimited, WriteSink(""), WriteSink("private")}
MCOwn == {NoPolicy, AllowTrusted}
=============================================================================
