------------------------------ MODULE MCProxy ------------------------------
(* Proxy with a public and a private repository and an untrusted author.  *)
EXTENDS Proxy, FiniteSets

CONSTANTS secretTag, trustTag

public == [sec |-> {}, int |-> {trustTag}]
private == [sec |-> {secretTag}, int |-> {trustTag}]
untrusted == [sec |-> {}, int |-> {}]
MCProxyLabels == {public, private, untrusted}
MCResponses == {R \in SUBSET MCProxyLabels : Cardinality(R) = 2}
MCGrants == {public, private}
=============================================================================
