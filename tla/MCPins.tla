------------------------------- MODULE MCPins --------------------------------
(* Pins for TLC: one server of one name, reached by two origins, whose tools *)
(* change, with a pin file from before origins were bound.                   *)
EXTENDS Pins, TLC

CONSTANTS s, o1, o2, t1, t2, k1, k2

MCSelves     == {[name |-> s, version |-> 1]}
MCToolsets   == {t1, t2}
MCOrigins    == {o1, o2}
MCPublishers == {k1, k2}

MCInit == /\ Init
          /\ \A o \in Origins : serves[o].tools = t1
          /\ \A key \in DOMAIN acked.servers : acked.servers[key].tools = t1

Interchangeable == Permutations(Origins) \cup Permutations(Publishers)

MCSpec == MCInit /\ [][Next]_vars
=============================================================================
