--------------------------- MODULE PolicyRegister ---------------------------
(* What the manifest file promises its operator: a register that automatic   *)
(* writers replace by comparing first.  A replacement is open from the       *)
(* moment the policy was compared; it writes a renewal, a reapproval or an   *)
(* automatic update of that policy, for some listing of the server, and it   *)
(* writes once.  Only the operator, who compares nothing, may write in       *)
(* between: that write is lost, no other is.                                 *)
EXTENDS ManifestPolicy

VARIABLES policy,  \* the manifest on disk, or NONE: it does not parse
          base,    \* the policy an open replacement compared, or NONE
          edits    \* how many times the operator has written the file

vars == <<policy, base, edits>>

Init == policy \in Manifest /\ base = NONE /\ edits = 0

Edit == edits' = edits + 1 /\ policy' \in Manifest \cup {NONE} /\ UNCHANGED base

Compare == base = NONE /\ base' = policy /\ UNCHANGED <<policy, edits>>

Abandon == base' = NONE /\ UNCHANGED <<policy, edits>>

Replace == /\ base # NONE
           /\ policy' \in Manifest
           /\ \E listing \in Listing : Maintains(base, policy', listing)
           /\ base' = NONE
           /\ UNCHANGED edits

Next == Edit \/ Compare \/ Abandon \/ Replace

Spec == Init /\ [][Next]_vars

-----------------------------------------------------------------------------
(* No automatic write loosens a decision the operator had made when it       *)
(* compared ("without ever loosening a decision a human made", fleet.js:3).  *)
NeverLoosens ==
    [][edits' = edits /\ policy' # policy
          => Tightens(base, policy') /\ NoNewOverride(base, policy')]_vars
=============================================================================
