----------------------------- MODULE MCHttpProxy -----------------------------
(* HttpProxy for TLC: concurrent POSTs, an upstream that lists its tool as   *)
(* approved, redefined or next to a new one, and a receipt file whose writes *)
(* fail.                                                                     *)
EXTENDS HttpProxy, TLC

CONSTANTS a, b, s1, s2, e1, read

MCTools     == {a, b}
MCShapes    == {s1, s2}
MCExtras    == {e1}
MCScopes    == {read}
MCDangerous == {<<b, s2>>}
MCTokens    == {[scopes |-> {read}, expires |-> 0]}

Plain(shape)  == [shape |-> shape, extra |-> e1, declared |-> {}]
Scoped(shape) == [shape |-> shape, extra |-> e1, declared |-> {read}]

MCServerListings == {a :> Scoped(s1), a :> Scoped(s2), a :> Scoped(s2) @@ b :> Plain(s2)}

(* Without --auth a call of the scoped tool never passes. *)
MCModes == {{"auth", "strict", "receipts"}, {"auth", "autoUpdate", "receipts"},
            {"auth", "autoUpdate", "allowAll"}}

MCInit == /\ Init
          /\ Names(file) = {a} /\ file.tools[a].shape = s1
          /\ file.tools[a].allowed /\ ~file.tools[a].override
          /\ mode \in MCModes

MCSpec == MCInit /\ [][Next]_vars
=============================================================================
