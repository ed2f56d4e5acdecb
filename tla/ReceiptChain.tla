---------------------------- MODULE ReceiptChain ----------------------------
(* lib/receipts.js: signed, hash-chained receipts and the file they are      *)
(* appended to.  A digest is collision-free: it stands for the receipts it   *)
(* commits to, oldest first.  The key never changes and signs everything.    *)
EXTENDS Naturals, LineFile

(* Of a receipt's body: the call it is for and the policy that admitted it.  *)
(* In memory, a chain is the number and the digest of its latest receipt.    *)
Digest(r) == Append(r.parent, <<r.seq, r.call>>)

NewChain == [seq |-> 0, head |-> <<>>]

NextReceipt(chain, call, policy) ==
    [seq |-> chain.seq + 1, parent |-> chain.head, call |-> call, policy |-> policy]

After(r) == [seq |-> r.seq, head |-> Digest(r)]

FirstUnchecked(rs) ==   \* mutant: the first receipt may have a parent
    \A k \in DOMAIN rs \ {1} :
        rs[k].seq = rs[k - 1].seq + 1 /\ rs[k].parent = Digest(rs[k - 1])

VerifyReceiptChain(rs) ==
    \A k \in DOMAIN rs :
        IF k = 1 THEN rs[k].parent = <<>>
        ELSE rs[k].seq = rs[k - 1].seq + 1 /\ rs[k].parent = Digest(rs[k - 1])

(* May a chain be resumed from these lines, and what is it then? *)
Resumable(lines) == Parses(lines) /\ VerifyReceiptChain(lines)

Afresh(lines) == NewChain   \* mutant: every start begins a chain

Resumed(lines) == IF lines = <<>> THEN NewChain ELSE After(Last(lines))

(* makeReceiptSink: the lines after it was called, which may fail. *)
Sunk(lines, r) == {Written(lines, r), lines, Written(lines, TORN)}
=============================================================================
