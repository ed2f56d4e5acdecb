--------------------------- MODULE MCIntrospection ---------------------------
(* Introspection for TLC: a signed token, and two of the provider's, one of  *)
(* which expires early.                                                      *)
EXTENDS Introspection

CONSTANTS dev, short, long

MCTokens  == {dev, short, long}
MCSigned  == {dev}
MCExpires == [t \in MCTokens |-> CASE t = dev -> 1 [] t = short -> 2 [] t = long -> 9]
=============================================================================
