---------------------------- MODULE MCStdioProxy ----------------------------
(* StdioProxy for TLC: a server that lists its tool as approved, redefined,  *)
(* together with a new one, or not at all.                                   *)
EXTENDS StdioProxy, TLC

CONSTANTS a, b, s1, s2, e1, read, q1

MCTools     == {a, b}
MCShapes    == {s1, s2}
MCExtras    == {e1}
MCScopes    == {read}
MCDangerous == {<<b, s2>>}
MCServerIds == {q1}
MCTokens    == {[scopes |-> {read}, expires |-> 0]}

Plain(shape)  == [shape |-> shape, extra |-> e1, declared |-> {}]
Scoped(shape) == [shape |-> shape, extra |-> e1, declared |-> {read}]

(* As approved; a page without its tool; redefined; with a new tool that the *)
(* detector flags; redefined, with a new one.                                *)
MCServerListings == {a :> Scoped(s1), b :> Plain(s1), a :> Scoped(s2),
                     a :> Scoped(s1) @@ b :> Plain(s2),
                     a :> Scoped(s2) @@ b :> Plain(s1)}

(* No flag, and the flags that change the decision or the answer; an update  *)
(* may fail, which leaves {"auth"}.                                          *)
MCModes == {{}, {"auth", "strict"}, {"auth", "autoUpdate"}, {"autoUpdate", "allowAll"}}

(* The tool is allowed, allowed by an override, or denied. *)
MCInit == /\ Init
          /\ Names(file) = {a} /\ file.tools[a].shape = s1
          /\ file.tools[a].override => file.tools[a].allowed
          /\ mode \in MCModes
MCFairSpec == MCInit /\ [][Next]_vars /\ Fairness
=============================================================================
