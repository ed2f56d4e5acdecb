------------------------------ MODULE MCFleet ------------------------------
(* Fleet for TLC: one process of each kind, and one server whose two tools   *)
(* are redefined, dropped or added back under them.                          *)
EXTENDS Fleet, TLC

CONSTANTS a, b, w1, r1, p1, s1, s2, e1, read

MCTools       == {a, b}
MCShapes      == {s1, s2}
MCExtras      == {e1}
MCScopes      == {read}
MCDangerous   == {<<b, s2>>}
MCRenewers    == {w1}
MCReapprovers == {r1}
MCProxies     == {p1}

(* The server as it was first approved. *)
FirstListing == a :> [shape |-> s1, extra |-> e1, declared |-> {}]

(* Its operator allowed the tool by name, in a full or a legacy manifest.    *)
MCInit == Init /\ live = FirstListing /\ file.tools[a].override
MCFairSpec == MCInit /\ [][Next]_vars /\ Fairness

(* What the environment does is bounded, never the processes: gen-manifest   *)
(* runs, in two writes, while the server is as it was; the operator edits a  *)
(* full manifest, while nothing crashes; and a release redefines a tool,     *)
(* drops or adds one, or has the first one ask for a scope.                  *)
FewMishaps ==
    /\ edits' + changes' <= 2
    /\ edits' = 0 \/ crashes' = 0
    /\ edits' = edits \/ file = NONE \/ \A n \in Names(file) : file.tools[n].digest # NONE
    /\ \A n \in DOMAIN live' : live'[n].declared = {} \/ (n = a /\ live'[n].shape = s1)
=============================================================================
