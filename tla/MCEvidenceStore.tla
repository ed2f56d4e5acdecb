--------------------------- MODULE MCEvidenceStore ---------------------------
(* EvidenceStore for TLC: two days, two records that contradict each other,  *)
(* and two processes.                                                        *)
EXTENDS EvidenceStore, TLC

CONSTANTS x, y, kind, p1, p2

Rec(subject, value, layer, day) ==
    [subject |-> subject, predicate |-> kind, value |-> value, layer |-> layer, day |-> day]

MCRecords   == {Rec({x}, 1, 1, 1), Rec({x, y}, 2, 1, 1), Rec({y}, 1, 2, 2)}
MCProcesses == {p1, p2}

(* Processes differ in nothing but their names. *)
Interchangeable == Permutations(MCProcesses)
=============================================================================
