--------------------------- MODULE HttpProxyProofs ---------------------------
(* The HTTP proxy's safety, for any number of concurrent POSTs, tools,       *)
(* listings, tokens, edits and restarts, and for receipt files of any length.*)
EXTENDS HttpProxy, ManifestPolicyProofs, SequenceTheorems

Line == Receipt \cup {TORN, GARBLED}

(* Each receipt of a file that verifies commits to all up to itself. *)
Tells(ls) == Resumable(ls) =>
                \A k \in 1..Len(ls) :
                   Digest(ls[k]) = [j \in 1..k |-> <<ls[j].seq, ls[j].call>>]

Gate == DriftIsCurrent /\ ShownIsAllowed
IInv == TypeOK /\ Gate /\ Tells(lines) /\ ChainCommitsToFile

-----------------------------------------------------------------------------
(* Receipt files. *)
LEMMA DigestType ==
    ASSUME NEW r \in Receipt
    PROVE  /\ Digest(r) \in Seq(Link)
           /\ Len(Digest(r)) = r.seq
           /\ \A j \in 1..Len(r.parent) : Digest(r)[j] = r.parent[j]
           /\ Digest(r)[r.seq] = <<r.seq, r.call>>
<1>1. /\ r.parent \in Seq(Link) /\ r.seq = Len(r.parent) + 1
      /\ <<r.seq, r.call>> \in Link
  BY DEF Receipt, Link
<1> QED BY <1>1, AppendProperties DEF Digest

LEMMA NextReceiptType ==
    ASSUME TypeOK, NEW i \in Posts, NEW policy \in {NONE} \cup Manifest
    PROVE  /\ NextReceipt(chain, i, policy) \in Receipt
           /\ NextReceipt(chain, i, policy).parent = chain.head
  BY DEF TypeOK, NextReceipt, Receipt

(* A chain after one of its receipts, and a resumed one. *)
LEMMA AfterType ==
    ASSUME NEW r \in Receipt
    PROVE  /\ After(r) \in [seq : Nat, head : Seq(Link)]
           /\ After(r).seq = Len(After(r).head)
           /\ After(r).head = Digest(r)
  BY DigestType DEF After, Receipt

(* What a sink may leave: the receipt, nothing, a torn line or a garbled one. *)
LEMMA SunkCases ==
    ASSUME NEW ls \in Seq(Line), NEW r, NEW new \in Sunk(ls, r)
    PROVE  \/ new = ls
           \/ new = Append(ls, r)
           \/ new = Append(ls, TORN)
           \/ ls # <<>> /\ new = Append(Front(ls), GARBLED)
  BY DEF Sunk, Written

LEMMA FrontType ==
    ASSUME NEW ls \in Seq(Line), ls # <<>>
    PROVE  /\ Front(ls) \in Seq(Line)
           /\ Len(Front(ls)) = Len(ls) - 1
           /\ \A k \in 1..Len(Front(ls)) : Front(ls)[k] = ls[k]
<1>1. Len(ls) \in Nat \ {0}
  BY EmptySeq
<1>2. \A k \in 1..(Len(ls) - 1) : ls[k] \in Line
  BY <1>1, ElementOfSeq
<1> DEFINE s == SubSeq(ls, 1, Len(ls) - 1)
<1>3. Len(ls) - 1 \in Int /\ 1 \in Int /\ (Len(ls) - 1) - 1 + 1 = Len(ls) - 1
  BY <1>1
<1>4. /\ s \in Seq(Line)
      /\ Len(s) = IF 1 <= Len(ls) - 1 THEN (Len(ls) - 1) - 1 + 1 ELSE 0
      /\ \A k \in 1..((Len(ls) - 1) - 1 + 1) : s[k] = ls[1 + k - 1]
  BY <1>2, <1>3, SubSeqProperties
<1>5. Front(ls) = s
  BY DEF Front
<1> HIDE DEF s
<1>6. Len(s) = Len(ls) - 1
  <2>1. \A n \in Nat \ {0} : (IF 1 <= n - 1 THEN (n - 1) - 1 + 1 ELSE 0) = n - 1
    OBVIOUS
  <2> QED BY <1>1, <1>4, <2>1
<1>7. \A k \in 1..(Len(ls) - 1) : s[k] = ls[k]
  BY <1>1, <1>4
<1> QED BY <1>4, <1>5, <1>6, <1>7

LEMMA ParsesWhole ==
    ASSUME NEW ls \in Seq(Line)
    PROVE  Parses(ls) <=> \A k \in 1..Len(ls) : ls[k] \notin {TORN, GARBLED}
<1>1. ToSet(ls) = {ls[k] : k \in 1..Len(ls)}
  BY LenProperties DEF ToSet
<1>2. Parses(ls) <=> \A x \in ToSet(ls) : x \notin {TORN, GARBLED}
  BY DEF Parses, Whole
<1>3. (\A x \in ToSet(ls) : x \notin {TORN, GARBLED})
         <=> \A k \in 1..Len(ls) : ls[k] \notin {TORN, GARBLED}
  BY <1>1
<1> QED BY <1>2, <1>3

(* A file is resumable with one more line only if it was without, and the    *)
(* line is a receipt that continues it.                                      *)
LEMMA ResumableAppend ==
    ASSUME NEW ls \in Seq(Line), NEW x \in Line, Resumable(Append(ls, x))
    PROVE  /\ Resumable(ls)
           /\ x \notin {TORN, GARBLED}
           /\ x.parent = IF ls = <<>> THEN <<>> ELSE Digest(ls[Len(ls)])
<1> DEFINE new == Append(ls, x)
           n == Len(ls)
<1>1. /\ new \in Seq(Line) /\ Len(new) = n + 1 /\ n \in Nat
      /\ \A k \in 1..n : new[k] = ls[k]
      /\ new[n + 1] = x
  BY AppendProperties, LenProperties
<1>2. DOMAIN new = 1..(n + 1) /\ DOMAIN ls = 1..n
  BY <1>1, LenProperties
<1>3. Parses(new) /\ VerifyReceiptChain(new)
  BY DEF Resumable
<1> HIDE DEF new
<1>4. \A k \in 1..(n + 1) : new[k] \notin {TORN, GARBLED}
  BY <1>1, <1>3, ParsesWhole
<1>5. Parses(ls) /\ x \notin {TORN, GARBLED}
  BY <1>1, <1>4, ParsesWhole
<1>6. \A k \in 1..(n + 1) :
         IF k = 1 THEN new[k].parent = <<>>
         ELSE new[k].seq = new[k - 1].seq + 1 /\ new[k].parent = Digest(new[k - 1])
  BY <1>2, <1>3 DEF VerifyReceiptChain
<1>7. VerifyReceiptChain(ls)
  BY <1>1, <1>2, <1>6 DEF VerifyReceiptChain
<1>8. x.parent = IF ls = <<>> THEN <<>> ELSE Digest(ls[n])
  <2>1. CASE ls = <<>>
    BY <1>1, <1>6, <2>1
  <2>2. CASE ls # <<>>
    <3>1. n \in Nat \ {0}
      BY <2>2, EmptySeq
    <3> QED BY <1>1, <1>6, <2>2, <3>1
  <2> QED BY <2>1, <2>2
<1> QED BY <1>5, <1>7, <1>8 DEF Resumable

(* Files go on telling the whole story, whatever becomes of a write. *)
LEMMA TellsAppend ==
    ASSUME NEW ls \in Seq(Line), NEW r \in Receipt, Tells(ls)
    PROVE  Tells(Append(ls, r))
<1> DEFINE new == Append(ls, r)
           n == Len(ls)
<1> SUFFICES ASSUME Resumable(new), NEW k \in 1..Len(new)
             PROVE  Digest(new[k]) = [j \in 1..k |-> <<new[j].seq, new[j].call>>]
  BY DEF Tells
<1>1. /\ new \in Seq(Line) /\ Len(new) = n + 1 /\ n \in Nat
      /\ \A j \in 1..n : new[j] = ls[j]
      /\ new[n + 1] = r
  BY AppendProperties, LenProperties DEF Line
<1>2. /\ Resumable(ls)
      /\ r.parent = IF ls = <<>> THEN <<>> ELSE Digest(ls[n])
  BY ResumableAppend DEF Line
<1> HIDE DEF new
<1>3. CASE k \in 1..n
  <2>1. Digest(ls[k]) = [j \in 1..k |-> <<ls[j].seq, ls[j].call>>]
    BY <1>2, <1>3 DEF Tells
  <2>2. new[k] = ls[k] /\ \A j \in 1..k : new[j] = ls[j]
    BY <1>1, <1>3
  <2> QED BY <2>1, <2>2
<1>4. CASE k = n + 1
  <2>1. r.parent = [j \in 1..n |-> <<new[j].seq, new[j].call>>]
    <3>1. CASE ls = <<>>
      <4>1. n = 0
        BY <3>1, EmptySeq
      <4> QED BY <1>2, <3>1, <4>1
    <3>2. CASE ls # <<>>
      <4>1. n \in 1..n
        BY <3>2, EmptySeq
      <4> QED BY <1>1, <1>2, <3>2, <4>1 DEF Tells
    <3> QED BY <3>1, <3>2
  <2>2. /\ Digest(r) \in Seq(Link) /\ Len(Digest(r)) = r.seq /\ r.seq = Len(r.parent) + 1
        /\ \A j \in 1..Len(r.parent) : Digest(r)[j] = r.parent[j]
        /\ Digest(r)[r.seq] = <<r.seq, r.call>>
        /\ r.parent \in Seq(Link)
    BY DigestType DEF Receipt
  <2>3. Len(r.parent) = n
    BY <1>1, <2>1, <2>2, LenProperties
  <2>4. \A j \in 1..k : Digest(r)[j] = <<new[j].seq, new[j].call>>
    BY <1>1, <1>4, <2>1, <2>2, <2>3
  <2>5. Digest(r) = [j \in 1..k |-> Digest(r)[j]]
    BY <1>4, <2>2, <2>3, LenProperties
  <2> QED BY <1>1, <1>4, <2>4, <2>5
<1> QED BY <1>1, <1>3, <1>4

LEMMA TellsSunk ==
    ASSUME NEW ls \in Seq(Line), NEW r \in Receipt, Tells(ls), NEW new \in Sunk(ls, r)
    PROVE  new \in Seq(Line) /\ Tells(new)
<1>1. CASE new = ls
  BY <1>1
<1>2. CASE new = Append(ls, r)
  BY <1>2, TellsAppend, AppendProperties DEF Line
<1>3. CASE new = Append(ls, TORN)
  BY <1>3, ResumableAppend, AppendProperties DEF Line, Tells
<1>4. CASE ls # <<>> /\ new = Append(Front(ls), GARBLED)
  BY <1>4, FrontType, ResumableAppend, AppendProperties DEF Line, Tells
<1> QED BY <1>1, <1>2, <1>3, <1>4, SunkCases

LEMMA Prefix ==
    ASSUME NEW s \in Seq(Link), NEW t \in Seq(Link)
    PROVE  IsPrefix(s, t) <=> Len(s) <= Len(t) /\ \A j \in 1..Len(s) : s[j] = t[j]
<1>1. /\ Len(s) \in Nat /\ Len(t) \in Nat
      /\ \A j \in 1..Len(s) : s[j] \in Link
      /\ \A j \in 1..Len(t) : t[j] \in Link
  BY ElementOfSeq, LenProperties
<1>2. /\ SubSeq(s, 1, Len(s)) \in Seq(Link) /\ Len(SubSeq(s, 1, Len(s))) = Len(s)
      /\ \A j \in 1..Len(s) : SubSeq(s, 1, Len(s))[j] = s[j]
  BY <1>1, SubSeqProperties
<1>3. ASSUME Len(s) <= Len(t)
      PROVE  /\ SubSeq(t, 1, Len(s)) \in Seq(Link) /\ Len(SubSeq(t, 1, Len(s))) = Len(s)
             /\ \A j \in 1..Len(s) : SubSeq(t, 1, Len(s))[j] = t[j]
  BY <1>1, <1>3, SubSeqProperties
<1>4. ASSUME Len(s) <= Len(t)
      PROVE  SubSeq(s, 1, Len(s)) = SubSeq(t, 1, Len(s))
                <=> \A j \in 1..Len(s) : s[j] = t[j]
  BY <1>2, <1>3, <1>4, SeqEqual
<1> QED BY <1>4 DEF IsPrefix

(* The digests in the file stay prefixes of the head as the chain grows. *)
LEMMA CommitsSunk ==
    ASSUME NEW ls \in Seq(Line), NEW r \in Receipt, NEW new \in Sunk(ls, r),
           \A k \in DOMAIN ls :
              ls[k] \notin {TORN, GARBLED} => IsPrefix(Digest(ls[k]), r.parent)
    PROVE  \A k \in DOMAIN new :
              new[k] \notin {TORN, GARBLED} => IsPrefix(Digest(new[k]), Digest(r))
<1>1. /\ Digest(r) \in Seq(Link) /\ r.parent \in Seq(Link)
      /\ Len(Digest(r)) = Len(r.parent) + 1
      /\ \A j \in 1..Len(r.parent) : Digest(r)[j] = r.parent[j]
  BY DigestType DEF Receipt
<1>2. IsPrefix(Digest(r), Digest(r))
  BY <1>1, Prefix, LenProperties
<1>3. ASSUME NEW k \in 1..Len(ls), ls[k] \notin {TORN, GARBLED}
      PROVE  IsPrefix(Digest(ls[k]), Digest(r))
  <2>1. ls[k] \in Receipt
    BY <1>3, ElementOfSeq DEF Line
  <2>2. Digest(ls[k]) \in Seq(Link) /\ IsPrefix(Digest(ls[k]), r.parent)
    BY <1>3, <2>1, DigestType, LenProperties
  <2>3. /\ Len(Digest(ls[k])) <= Len(r.parent)
        /\ \A j \in 1..Len(Digest(ls[k])) : Digest(ls[k])[j] = r.parent[j]
    BY <1>1, <2>2, Prefix
  <2>4. Len(Digest(ls[k])) \in Nat /\ Len(r.parent) \in Nat
    BY <1>1, <2>2, LenProperties
  <2>5. \A j \in 1..Len(Digest(ls[k])) : Digest(ls[k])[j] = Digest(r)[j]
    BY <1>1, <2>3, <2>4
  <2> QED BY <1>1, <2>2, <2>3, <2>4, <2>5, Prefix
<1>4. Len(ls) \in Nat /\ DOMAIN ls = 1..Len(ls)
  BY LenProperties
<1>5. ASSUME NEW b \in Seq(Line), NEW x \in Line, new = Append(b, x),
             \A k \in 1..Len(b) : k \in 1..Len(ls) /\ b[k] = ls[k],
             x \notin {TORN, GARBLED} => x = r,
             NEW k \in DOMAIN new, new[k] \notin {TORN, GARBLED}
      PROVE  IsPrefix(Digest(new[k]), Digest(r))
  <2>1. /\ DOMAIN new = 1..(Len(b) + 1) /\ Len(b) \in Nat
        /\ \A j \in 1..Len(b) : new[j] = b[j]
        /\ new[Len(b) + 1] = x
    BY <1>5, AppendProperties, LenProperties
  <2>2. CASE k \in 1..Len(b)
    BY <1>3, <1>5, <2>1, <2>2
  <2>3. CASE k = Len(b) + 1
    BY <1>2, <1>5, <2>1, <2>3
  <2> QED BY <2>1, <2>2, <2>3
<1>6. CASE new = ls
  BY <1>3, <1>4, <1>6
<1>7. CASE new = Append(ls, r)
  BY <1>4, <1>5, <1>7 DEF Line
<1>8. CASE new = Append(ls, TORN)
  BY <1>4, <1>5, <1>8 DEF Line
<1>9. CASE ls # <<>> /\ new = Append(Front(ls), GARBLED)
  <2>1. \A k \in 1..Len(Front(ls)) : k \in 1..Len(ls) /\ Front(ls)[k] = ls[k]
    BY <1>4, <1>9, FrontType
  <2> QED BY <1>5, <1>9, <2>1, FrontType DEF Line
<1> QED BY <1>6, <1>7, <1>8, <1>9, SunkCases

(* A resumed chain commits to the whole file. *)
LEMMA ResumedCommits ==
    ASSUME NEW ls \in Seq(Line), Resumable(ls), Tells(ls)
    PROVE  /\ Resumed(ls) \in [seq : Nat, head : Seq(Link)]
           /\ Resumed(ls).seq = Len(Resumed(ls).head)
           /\ \A k \in DOMAIN ls : IsPrefix(Digest(ls[k]), Resumed(ls).head)
<1>1. Len(ls) \in Nat /\ DOMAIN ls = 1..Len(ls)
  BY LenProperties
<1>2. CASE ls = <<>>
  BY <1>2, EmptySeq DEF Resumed, NewChain
<1>3. CASE ls # <<>>
  <2> DEFINE n == Len(ls)
  <2>1. n \in Nat \ {0}
    BY <1>3, EmptySeq
  <2>2. \A k \in 1..n : ls[k] \in Receipt
    BY ParsesWhole, ElementOfSeq DEF Resumable, Line
  <2>3. Resumed(ls) = After(ls[n])
    BY <1>3 DEF Resumed, Last
  <2>4. /\ Resumed(ls) \in [seq : Nat, head : Seq(Link)]
        /\ Resumed(ls).seq = Len(Resumed(ls).head)
        /\ Resumed(ls).head = Digest(ls[n])
    BY <2>1, <2>2, <2>3, AfterType
  <2>5. ASSUME NEW k \in 1..n PROVE IsPrefix(Digest(ls[k]), Digest(ls[n]))
    <3>1. Digest(ls[k]) \in Seq(Link) /\ Digest(ls[n]) \in Seq(Link)
      BY <2>1, <2>2, DigestType
    <3>2. /\ Digest(ls[k]) = [j \in 1..k |-> <<ls[j].seq, ls[j].call>>]
          /\ Digest(ls[n]) = [j \in 1..n |-> <<ls[j].seq, ls[j].call>>]
      BY <2>1, SMTT(30) DEF Tells
    <3>3. Len(Digest(ls[k])) = k /\ Len(Digest(ls[n])) = n
      BY <2>1, <3>1, <3>2, LenProperties
    <3>4. \A j \in 1..k : Digest(ls[k])[j] = Digest(ls[n])[j]
      BY <2>1, <3>2
    <3> QED BY <2>1, <3>1, <3>3, <3>4, Prefix
  <2> QED BY <1>1, <2>4, <2>5
<1> QED BY <1>2, <1>3

-----------------------------------------------------------------------------
LEMMA DenyingType ==
    ASSUME NEW m \in Manifest, NEW deny
    PROVE  Denying(m, deny) \in Manifest
<1> DEFINE f == [n \in Names(m) |-> [m.tools[n] EXCEPT !.allowed = @ /\ n \notin deny]]
<1>1. \A n \in Names(m) : m.tools[n] \in Entry
  BY ManifestParts
<1>2. \A e \in Entry, b \in BOOLEAN : [e EXCEPT !.allowed = @ /\ b] \in Entry
  BY DEF Entry
<1>3. f \in [Names(m) -> Entry]
  BY <1>1, <1>2
<1>4. Denying(m, deny) = [m EXCEPT !.tools = f]
  BY DEF Denying
<1> HIDE DEF f
<1> QED BY <1>3, <1>4, ToolsReplaced

LEMMA InitIInv == Init => IInv
<1> SUFFICES ASSUME Init PROVE IInv
  OBVIOUS
<1> USE HttpAssumption
<1>1. file \in Manifest
  <2>1. PICK listing \in ServerListings : \E allow, deny \in SUBSET DOMAIN listing :
                file = Denying(BuildManifest(listing, allow, Validity), deny)
    BY DEF Init
  <2>2. PICK allow \in SUBSET DOMAIN listing, deny \in SUBSET DOMAIN listing :
                file = Denying(BuildManifest(listing, allow, Validity), deny)
    BY <2>1
  <2>3. BuildManifest(listing, allow, Validity) \in Manifest
    BY BuildManifestType
  <2> QED BY <2>2, <2>3, DenyingType
<1>2. approved \in SUBSET Tools
  BY <1>1, ManifestParts DEF Init
<1>3. lines \in Seq(Receipt \cup {TORN, GARBLED}) /\ Len(lines) = 0
  BY EmptySeq DEF Init
<1>4. chain \in [seq : Nat, head : Seq(Link)] /\ chain.seq = Len(chain.head)
  BY EmptySeq DEF Init, NewChain
<1>6. TypeOK
  BY <1>1, <1>2, <1>3, <1>4 DEF Init, TypeOK, Stages
<1>7. Gate
  BY DEF Init, Gate, DriftIsCurrent, ShownIsAllowed
<1>8. Tells(lines) /\ ChainCommitsToFile
  BY <1>3, LenProperties DEF Tells, ChainCommitsToFile
<1> QED BY <1>6, <1>7, <1>8 DEF IInv

-----------------------------------------------------------------------------
(* Posts: what their handlers do to the table of requests. *)
LEMMA GoesTyped ==
    ASSUME TypeOK, NEW i \in Posts, NEW r \in {NONE} \cup Request, NEW place \in Stages,
           Goes(i, r, place)
    PROVE  /\ request' \in [Posts -> {NONE} \cup Request]
           /\ stage' \in [Posts -> Stages]
  BY DEF TypeOK, Goes

LEMMA OverTyped ==
    ASSUME TypeOK, NEW i \in Posts, Over(i)
    PROVE  /\ request' \in [Posts -> {NONE} \cup Request]
           /\ stage' \in [Posts -> Stages]
  BY GoesTyped DEF Over, Stages

LEMMA EnterTyped ==
    ASSUME TypeOK, NEW i \in Posts, NEW place \in Stages, Enter(i, place)
    PROVE  /\ request' \in [Posts -> {NONE} \cup Request]
           /\ stage' \in [Posts -> Stages]
<1>1. request[i] \in {NONE} \cup Request
  BY DEF TypeOK
<1> QED BY <1>1, GoesTyped DEF Enter

LEMMA ResponseTyped ==
    ASSUME TypeOK, NEW i \in Posts, Response(i)
    PROVE  /\ request' \in [Posts -> {NONE} \cup Request]
           /\ stage' \in [Posts -> Stages]
<1>1. "answered" \in Stages
  BY DEF Stages
<1> QED BY <1>1, OverTyped, EnterTyped DEF Response

LEMMA ResultTyped ==
    ASSUME TypeOK, NEW i \in Posts, Result(i)
    PROVE  /\ request' \in [Posts -> {NONE} \cup Request]
           /\ stage' \in [Posts -> Stages]
<1>1. stage[i] \in Stages
  BY DEF TypeOK
<1> QED BY <1>1, EnterTyped, ResponseTyped DEF Result, Passing

LEMMA DecideTyped ==
    ASSUME TypeOK, NEW i \in Posts, NEW r \in {NONE} \cup Request, NEW held, Decide(i, r, held)
    PROVE  /\ request' \in [Posts -> {NONE} \cup Request]
           /\ stage' \in [Posts -> Stages]
           /\ under' \in [Posts -> {NONE} \cup Manifest]
<1>1. CASE Over(i) /\ UNCHANGED under
  BY <1>1, OverTyped DEF TypeOK
<1>2. CASE under' = [under EXCEPT ![i] = manifest] /\ Goes(i, r, "fetching")
  <2>1. "fetching" \in Stages
    BY DEF Stages
  <2>2. under' \in [Posts -> {NONE} \cup Manifest]
    BY <1>2 DEF TypeOK
  <2> QED BY <1>2, <2>1, <2>2, GoesTyped
<1> QED BY <1>1, <1>2 DEF Decide

LEMMA FilteredNames ==
    ASSUME NEW m, NEW drift, NEW listing \in Listing, NEW updating
    PROVE  Filtered(m, drift, listing, updating) \in SUBSET Tools
  BY ListingShape DEF Filtered

(* The actions that leave policy and receipts alone, and those that do not. *)
Quiet(i) == \/ Call(i) \/ Ask(i) \/ Validated(i) \/ Unanswered(i) \/ StreamOpens(i)
            \/ StreamEnds(i) \/ Responded(i)

QuietStep == \/ UNCHANGED vars \/ Tick \/ Edit \/ Stop
             \/ \E i \in Posts : Quiet(i)

Lister(i) == ListedStrictly(i) \/ ListedUpdating(i) \/ Listed(i)

LEMMA StepCases ==
    ASSUME [Next]_vars
    PROVE  \/ QuietStep \/ Start
           \/ \E i \in Posts : Receipted(i) \/ Lister(i)
  BY DEF Next, Handles, QuietStep, Quiet, Lister

LEMMA QuietKeeps ==
    ASSUME QuietStep
    PROVE  /\ UNCHANGED <<policyVars, receiptVars, mode, starts>>
           /\ up' => up
<1>1. CASE UNCHANGED vars
  BY <1>1 DEF vars
<1>2. CASE Tick \/ Edit \/ Stop
  BY <1>2 DEF Tick, Edit, Stop
<1>3. ASSUME NEW i \in Posts, Quiet(i)
      PROVE  UNCHANGED <<policyVars, receiptVars, mode, starts, up>>
  BY <1>3 DEF Quiet, Call, Ask, Validated, Unanswered, StreamOpens, StreamEnds, Responded
<1> QED BY <1>1, <1>2, <1>3 DEF QuietStep

LEMMA QuietTyped == TypeOK /\ QuietStep => TypeOK'
<1> SUFFICES ASSUME TypeOK, QuietStep PROVE TypeOK'
  OBVIOUS
<1> USE HttpAssumption
<1> DEFINE Posted == /\ request' \in [Posts -> {NONE} \cup Request]
                     /\ stage' \in [Posts -> Stages]
                     /\ under' \in [Posts -> {NONE} \cup Manifest]
<1>1. ASSUME Posted, UNCHANGED <<now, mode, up, starts, file, edits, policyVars, receiptVars>>
      PROVE  TypeOK'
  BY <1>1 DEF TypeOK, policyVars, receiptVars
<1>2. CASE UNCHANGED vars
  BY <1>2 DEF TypeOK, vars, policyVars, postVars, receiptVars
<1>3. CASE Tick
  BY <1>3 DEF Tick, TypeOK, policyVars, postVars, receiptVars
<1>4. CASE Edit
  <2>1. file' \in Manifest
    BY <1>4, DenyingType DEF Edit, TypeOK
  <2> QED BY <1>4, <2>1 DEF Edit, TypeOK, policyVars, postVars, receiptVars
<1>5. CASE Stop
  <2>1. Posted
    BY <1>5 DEF Stop, TypeOK, Stages
  <2>2. up' \in BOOLEAN
    BY <1>5 DEF Stop
  <2> QED BY <1>5, <2>1, <2>2 DEF Stop, TypeOK, policyVars, receiptVars
<1>6. ASSUME NEW i \in Posts, Call(i) PROVE TypeOK'
  <2>1. PICK n \in Tools, token \in {NONE} \cup Tokens :
          LET r == [method |-> "call", tool |-> n, token |-> token]
          IN  IF "auth" \in mode /\ token # NONE
              THEN Goes(i, r, "validating") /\ UNCHANGED under
              ELSE Decide(i, r, NONE)
    BY <1>6 DEF Call
  <2> DEFINE r == [method |-> "call", tool |-> n, token |-> token]
  <2>2. r \in Request
    BY DEF Request
  <2>3. (Goes(i, r, "validating") /\ UNCHANGED under) \/ Decide(i, r, NONE)
    BY <2>1
  <2> HIDE DEF r
  <2>4. "validating" \in Stages
    BY DEF Stages
  <2>5. under \in [Posts -> {NONE} \cup Manifest]
    BY DEF TypeOK
  <2>6. Posted
    BY <2>2, <2>3, <2>4, <2>5, GoesTyped, DecideTyped
  <2> QED BY <1>1, <1>6, <2>6 DEF Call
<1>7. ASSUME NEW i \in Posts, Ask(i) PROVE TypeOK'
  <2>1. PICK method \in {"list", "other"} : Goes(i, [method |-> method], "fetching")
    BY <1>7 DEF Ask
  <2>2. [method |-> method] \in Request /\ "fetching" \in Stages
    BY DEF Request, Stages
  <2>3. Posted
    BY <1>7, <2>1, <2>2, GoesTyped DEF Ask, TypeOK
  <2> QED BY <1>1, <1>7, <2>3 DEF Ask
<1>8. ASSUME NEW i \in Posts, Validated(i) PROVE TypeOK'
  <2>1. (Over(i) /\ UNCHANGED under) \/ \E held : Decide(i, request[i], held)
    BY <1>8 DEF Validated
  <2>2. request[i] \in {NONE} \cup Request /\ under \in [Posts -> {NONE} \cup Manifest]
    BY DEF TypeOK
  <2>3. Posted
    BY <2>1, <2>2, OverTyped, DecideTyped
  <2> QED BY <1>1, <1>8, <2>3 DEF Validated
<1>9. ASSUME NEW i \in Posts,
             Unanswered(i) \/ StreamOpens(i) \/ StreamEnds(i) \/ Responded(i)
      PROVE  TypeOK'
  <2>1. "streaming" \in Stages
    BY DEF Stages
  <2>2. Over(i) \/ Enter(i, "streaming") \/ Response(i)
    BY <1>9 DEF Unanswered, StreamOpens, StreamEnds, Responded
  <2>3. under' \in [Posts -> {NONE} \cup Manifest]
    BY <1>9 DEF Unanswered, StreamOpens, StreamEnds, Responded, TypeOK
  <2>4. Posted
    BY <2>1, <2>2, <2>3, OverTyped, EnterTyped, ResponseTyped
  <2> QED BY <1>1, <1>9, <2>4 DEF Unanswered, StreamOpens, StreamEnds, Responded
<1> QED BY <1>2, <1>3, <1>4, <1>5, <1>6, <1>7, <1>8, <1>9 DEF QuietStep, Quiet

-----------------------------------------------------------------------------
LEMMA StartKeeps == IInv /\ Start => IInv'
<1> SUFFICES ASSUME IInv, Start PROVE IInv'
  OBVIOUS
<1>1. lines \in Seq(Line) /\ Tells(lines)
  BY DEF IInv, TypeOK, Line
<1>2. "receipts" \in mode =>
         /\ chain' \in [seq : Nat, head : Seq(Link)] /\ chain'.seq = Len(chain'.head)
         /\ \A k \in DOMAIN lines : IsPrefix(Digest(lines[k]), chain'.head)
  BY <1>1, ResumedCommits DEF Start
<1>3. "receipts" \notin mode =>
         chain' \in [seq : Nat, head : Seq(Link)] /\ chain'.seq = Len(chain'.head)
  BY EmptySeq DEF Start, NewChain
<1>4. approved' \in SUBSET Tools
  BY ManifestParts DEF IInv, TypeOK, Start
<1>5. /\ chain' \in [seq : Nat, head : Seq(Link)]
      /\ chain'.seq = Len(chain'.head)
  BY <1>2, <1>3
<1>6. TypeOK'
  BY <1>4, <1>5, HttpAssumption DEF IInv, TypeOK, Start, postVars
<1>7. Gate'
  BY DEF Start, Gate, DriftIsCurrent, ShownIsAllowed, Names
<1>8. lines' = lines /\ mode' = mode
  BY DEF Start
<1>9. Tells(lines)'
  BY <1>1, <1>8 DEF Tells
<1>10. ChainCommitsToFile'
  BY <1>2, <1>8 DEF ChainCommitsToFile
<1> QED BY <1>6, <1>7, <1>9, <1>10 DEF IInv

LEMMA ReceiptedKeeps ==
    ASSUME IInv, NEW i \in Posts, Receipted(i)
    PROVE  IInv'
<1> DEFINE r == NextReceipt(chain, i, under[i])
<1>1. r \in Receipt /\ r.parent = chain.head
  BY NextReceiptType DEF IInv, TypeOK
<1>2. chain' = After(r) /\ lines' \in Sunk(lines, r)
  BY DEF Receipted, Receipting
<1> HIDE DEF r
<1>3. /\ Result(i) /\ up /\ "receipts" \in mode
      /\ UNCHANGED <<now, mode, up, starts, file, edits, policyVars, under>>
  BY DEF Receipted, Receipting
<1>4. lines \in Seq(Line) /\ Tells(lines)
  BY DEF IInv, TypeOK, Line
<1>5. lines' \in Seq(Line) /\ Tells(lines')
  BY <1>1, <1>2, <1>4, TellsSunk
<1>6. /\ chain' \in [seq : Nat, head : Seq(Link)] /\ chain'.seq = Len(chain'.head)
      /\ chain'.head = Digest(r)
  BY <1>1, <1>2, AfterType
<1>7. TypeOK'
  BY <1>3, <1>5, <1>6, ResultTyped DEF IInv, TypeOK, Line, policyVars
<1>8. Gate'
  BY <1>3 DEF IInv, Gate, DriftIsCurrent, ShownIsAllowed, Names, Drifted, policyVars
<1>9. \A k \in DOMAIN lines :
         lines[k] \notin {TORN, GARBLED} => IsPrefix(Digest(lines[k]), r.parent)
  BY <1>1, <1>3 DEF IInv, ChainCommitsToFile
<1>10. ChainCommitsToFile'
  BY <1>1, <1>2, <1>4, <1>6, <1>9, CommitsSunk DEF ChainCommitsToFile
<1>11. Tells(lines)'
  BY <1>5 DEF Tells
<1> QED BY <1>7, <1>8, <1>10, <1>11 DEF IInv

(* An answer to tools/list: types, and the policy it leaves in force. *)
LEMMA ListerTyped ==
    ASSUME TypeOK, NEW i \in Posts, Lister(i)
    PROVE  TypeOK'
<1> USE HttpAssumption
<1>1. CASE ListedStrictly(i)
  <2>1. /\ drifted' \in SUBSET Tools
        /\ seen' \in {NONE} \cup Listing
        /\ shown' \in {NONE} \cup SUBSET Tools
    BY <1>1, ManifestParts DEF ListedStrictly, Drifted, TypeOK
  <2> QED BY <1>1, <2>1, OverTyped DEF ListedStrictly, TypeOK, receiptVars
<1>2. CASE ListedUpdating(i)
  <2>1. PICK listing \in ServerListings :
           LET new == AutoUpdated(manifest, listing, now + Validity)
           IN  /\ Updating(i, listing, new)
               /\ approved' = Names(new)
               /\ drifted' = {}
    BY <1>2 DEF ListedUpdating
  <2> DEFINE new == AutoUpdated(manifest, listing, now + Validity)
  <2>2. listing \in Listing /\ now + Validity \in Nat
    BY DEF TypeOK
  <2>3. new \in Manifest
    BY <2>2, AutoUpdatedType DEF TypeOK
  <2>4. Updating(i, listing, new) /\ approved' = Names(new) /\ drifted' = {}
    BY <2>1
  <2> HIDE DEF new
  <2>5. approved' \in SUBSET Tools
    BY <2>3, <2>4, ManifestParts
  <2>6. /\ shown' \in {NONE} \cup SUBSET Tools /\ seen' \in {NONE} \cup Listing
        /\ file' \in Manifest /\ manifest' \in Manifest
    BY <2>2, <2>3, <2>4, FilteredNames DEF Updating
  <2> QED BY <2>4, <2>5, <2>6, ResultTyped DEF Updating, TypeOK, receiptVars
<1>3. CASE Listed(i)
  <2>1. PICK listing \in ServerListings :
          /\ drifted' = Drifted(manifest, listing)
          /\ seen' = listing
          /\ shown' = Filtered(manifest, drifted', listing,
                              stage[i] # "fetching" /\ Updates(listing))
    BY <1>3 DEF Listed
  <2>2. drifted' \in SUBSET Tools
    BY <2>1, ManifestParts DEF Drifted, TypeOK
  <2>3. shown' \in {NONE} \cup SUBSET Tools /\ seen' \in {NONE} \cup Listing
    BY <2>1, FilteredNames
  <2> QED BY <1>3, <2>2, <2>3, ResultTyped DEF Listed, TypeOK, receiptVars
<1> QED BY <1>1, <1>2, <1>3 DEF Lister

LEMMA ListerGate ==
    ASSUME TypeOK, Gate, NEW i \in Posts, Lister(i)
    PROVE  Gate'
<1> USE HttpAssumption
<1>1. CASE ListedStrictly(i)
  <2>1. /\ up' = up /\ manifest' = manifest /\ approved' = approved /\ shown' = NONE
        /\ up
    BY <1>1 DEF ListedStrictly, Lists
  <2>2. PICK listing \in ServerListings :
           drifted' = Drifted(manifest, listing) /\ seen' = listing
    BY <1>1 DEF ListedStrictly
  <2>3. DriftIsCurrent'
    BY <2>1, <2>2 DEF Gate, DriftIsCurrent, Names, Drifted
  <2> QED BY <2>1, <2>3 DEF Gate, ShownIsAllowed
<1>2. CASE ListedUpdating(i)
  <2>1. PICK listing \in ServerListings :
           LET new == AutoUpdated(manifest, listing, now + Validity)
           IN  /\ Updating(i, listing, new)
               /\ approved' = Names(new)
               /\ drifted' = {}
    BY <1>2 DEF ListedUpdating
  <2> DEFINE new == AutoUpdated(manifest, listing, now + Validity)
  <2>2. listing \in Listing /\ now + Validity \in Nat
    BY DEF TypeOK
  <2>3. /\ Names(new) = DOMAIN listing
        /\ \A n \in DOMAIN listing : ~Differs(new.tools[n], listing[n])
        /\ Drifted(new, listing) = {}
    BY <2>2, AutoUpdateMatches DEF TypeOK
  <2>4. Updating(i, listing, new) /\ approved' = Names(new) /\ drifted' = {}
    BY <2>1
  <2> HIDE DEF new
  <2>5. /\ manifest' = new /\ seen' = listing /\ mode' = mode
        /\ shown' = Filtered(new, {}, listing, stage[i] # "fetching")
    BY <2>4 DEF Updating
  <2>6. drifted' = Drifted(manifest', seen') /\ seen' # NONE
    BY <2>2, <2>3, <2>4, <2>5
  <2>7. DriftIsCurrent'
    BY <2>4, <2>5, <2>6 DEF DriftIsCurrent, Names, Drifted
  <2>8. "allowAll" \notin mode =>
           shown' = {n \in DOMAIN listing \cap Names(new) : new.tools[n].allowed}
    BY <2>5 DEF Filtered
  <2>9. "allowAll" \notin mode' =>
           shown' = {n \in DOMAIN seen' \cap Names(manifest') :
                        manifest'.tools[n].allowed
                        /\ ~Differs(manifest'.tools[n], seen'[n])}
    BY <2>3, <2>5, <2>8
  <2>10. ShownIsAllowed'
    BY <2>9 DEF ShownIsAllowed, Names
  <2> QED BY <2>7, <2>10 DEF Gate
<1>3. CASE Listed(i)
  <2>1. PICK listing \in ServerListings :
          /\ drifted' = Drifted(manifest, listing)
          /\ seen' = listing
          /\ shown' = Filtered(manifest, drifted', listing,
                              stage[i] # "fetching" /\ Updates(listing))
    BY <1>3 DEF Listed
  <2>2. manifest' = manifest /\ approved' = approved /\ mode' = mode /\ up
    BY <1>3 DEF Listed, Lists
  <2>3. DriftIsCurrent'
    BY <2>1, <2>2 DEF Gate, DriftIsCurrent, Names, Drifted
  <2>4. "allowAll" \notin mode =>
           shown' = {n \in DOMAIN listing \cap Names(manifest) :
                        n \notin Drifted(manifest, listing) /\ manifest.tools[n].allowed}
    BY <2>1 DEF Filtered
  <2>5. \A n \in DOMAIN listing \cap Names(manifest) :
           n \in Drifted(manifest, listing) <=> Differs(manifest.tools[n], listing[n])
    BY DEF Drifted
  <2>6. "allowAll" \notin mode' =>
           shown' = {n \in DOMAIN seen' \cap Names(manifest') :
                        manifest'.tools[n].allowed
                        /\ ~Differs(manifest'.tools[n], seen'[n])}
    BY <2>1, <2>2, <2>4, <2>5
  <2>7. ShownIsAllowed'
    BY <2>6 DEF ShownIsAllowed, Names
  <2> QED BY <2>3, <2>7 DEF Gate
<1> QED BY <1>1, <1>2, <1>3 DEF Lister

LEMMA NextIInv == IInv /\ [Next]_vars => IInv'
<1> SUFFICES ASSUME IInv, [Next]_vars PROVE IInv'
  OBVIOUS
<1>1. CASE QuietStep
  <2>1. TypeOK'
    BY <1>1, QuietTyped DEF IInv
  <2>2. /\ UNCHANGED <<policyVars, receiptVars, mode, starts>>
        /\ up' => up
    BY <1>1, QuietKeeps
  <2>3. Gate'
    BY <2>2 DEF IInv, Gate, DriftIsCurrent, ShownIsAllowed, Names, Drifted, policyVars
  <2>4. Tells(lines)' /\ ChainCommitsToFile'
    BY <2>2 DEF IInv, Tells, ChainCommitsToFile, receiptVars
  <2> QED BY <2>1, <2>3, <2>4 DEF IInv
<1>2. CASE Start
  BY <1>2, StartKeeps
<1>3. ASSUME NEW i \in Posts, Receipted(i) PROVE IInv'
  BY <1>3, ReceiptedKeeps
<1>4. ASSUME NEW i \in Posts, Lister(i) PROVE IInv'
  <2>1. TypeOK' /\ Gate'
    BY <1>4, ListerTyped, ListerGate DEF IInv
  <2>2. UNCHANGED <<receiptVars, mode, up>>
    BY <1>4 DEF Lister, ListedStrictly, ListedUpdating, Updating, Listed
  <2>3. Tells(lines)' /\ ChainCommitsToFile'
    BY <2>2 DEF IInv, Tells, ChainCommitsToFile, receiptVars
  <2> QED BY <2>1, <2>3 DEF IInv
<1> QED BY <1>1, <1>2, <1>3, <1>4, StepCases

LEMMA SpecIInv == Spec => []IInv
  BY InitIInv, NextIInv, PTL DEF Spec

-----------------------------------------------------------------------------
(* The state is well typed: in particular, a receipt's number is its place   *)
(* in the chain.                                                             *)
THEOREM HttpTyped == Spec => []TypeOK
<1>1. IInv => TypeOK
  BY DEF IInv
<1> QED BY <1>1, SpecIInv, PTL

(* Whichever handler wrote the drift set last, it is about the manifest and  *)
(* the listing in force (mcp-http-proxy.js:571-590).                         *)
THEOREM HttpDriftIsCurrent == Spec => []DriftIsCurrent
<1>1. IInv => DriftIsCurrent
  BY DEF IInv, Gate
<1> QED BY <1>1, SpecIInv, PTL

(* A client is shown only what is allowed and as approved. *)
THEOREM HttpShownIsAllowed == Spec => []ShownIsAllowed
<1>1. IInv => ShownIsAllowed
  BY DEF IInv, Gate
<1> QED BY <1>1, SpecIInv, PTL

(* A receipt file that verifies has every receipt up to its last line, in    *)
(* order, whatever writes failed (receipts.js:60-62).                        *)
THEOREM HttpVerifiedIsComplete == Spec => []VerifiedIsComplete
<1>1. IInv => VerifiedIsComplete
  <2> SUFFICES ASSUME IInv, Resumable(lines), lines # <<>>
               PROVE  Digest(Last(lines))
                         = [k \in DOMAIN lines |-> <<lines[k].seq, lines[k].call>>]
    BY DEF VerifiedIsComplete
  <2>1. lines \in Seq(Line) /\ Tells(lines)
    BY DEF IInv, TypeOK, Line
  <2>2. Len(lines) \in 1..Len(lines) /\ DOMAIN lines = 1..Len(lines)
    BY <2>1, EmptySeq, LenProperties
  <2> QED BY <2>1, <2>2 DEF Tells, Last
<1> QED BY <1>1, SpecIInv, PTL

(* The chain in memory commits to every receipt in the file, also after a    *)
(* restart: it never forks.                                                  *)
THEOREM HttpChainCommitsToFile == Spec => []ChainCommitsToFile
<1>1. IInv => ChainCommitsToFile
  BY DEF IInv
<1> QED BY <1>1, SpecIInv, PTL

-----------------------------------------------------------------------------
(* The receipts are an audit log.  A handler that has its decision keeps it  *)
(* till its POST is over, and every receipt on file names that decision.     *)
Audited ==
    /\ \A i \in Posts : stage[i] \in {"unused", "validating"} => under[i] = NONE
    /\ \A i \in Posts :
          (request[i] # NONE /\ request[i].method = "call"
             /\ stage[i] \in {"fetching", "streaming", "answered"}) => under[i] # NONE
    /\ \A k \in 1..Len(lines) :
          lines[k] \notin {TORN, GARBLED} =>
             /\ under[lines[k].call] = lines[k].policy
             /\ lines[k].policy # NONE

(* The calls that are not over, and a decision that makes one. *)
Open == {i \in Posts : under[i] # NONE /\ stage[i] # "done"}

Authorizes(i) == /\ under[i] = NONE
                 /\ under' = [under EXCEPT ![i] = manifest]
                 /\ Open' = Open \cup {i}

LEMMA InitAudited == Init => Audited
<1> SUFFICES ASSUME Init PROVE Audited
  OBVIOUS
<1>1. Len(lines) = 0
  BY EmptySeq DEF Init
<1> QED BY <1>1 DEF Init, Audited

(* A handler moves on; the policy it goes under, u, may be a new one. *)
LEMMA GoesAudited ==
    ASSUME TypeOK, Audited, NEW i \in Posts, NEW r, NEW place, NEW u,
           Goes(i, r, place), under' = [under EXCEPT ![i] = u], UNCHANGED lines,
           place \in {"unused", "validating"} => u = NONE,
           (r # NONE /\ r.method = "call" /\ place \in {"fetching", "streaming", "answered"})
              => u # NONE,
           u = under[i] \/ under[i] = NONE
    PROVE  Audited'
<1>1. /\ stage' = [stage EXCEPT ![i] = place] /\ request' = [request EXCEPT ![i] = r]
      /\ DOMAIN stage = Posts /\ DOMAIN request = Posts /\ DOMAIN under = Posts
  BY DEF Goes, TypeOK
<1>2. \A j \in Posts : IF j = i THEN stage'[j] = place /\ request'[j] = r /\ under'[j] = u
                       ELSE /\ stage'[j] = stage[j] /\ request'[j] = request[j]
                            /\ under'[j] = under[j]
  BY <1>1
<1>3. \A k \in 1..Len(lines) : lines[k] \notin {TORN, GARBLED} => lines[k].call \in Posts
  BY ElementOfSeq DEF TypeOK, Receipt
<1>4. ASSUME NEW k \in 1..Len(lines), lines[k] \notin {TORN, GARBLED}
      PROVE  under'[lines[k].call] = lines[k].policy /\ lines[k].policy # NONE
  BY <1>2, <1>3, <1>4 DEF Audited
<1> QED BY <1>2, <1>4 DEF Audited

(* ... without a decision, which may close its call and reopens none. *)
LEMMA MovesAudited ==
    ASSUME TypeOK, Audited, NEW i \in Posts, UNCHANGED <<lines, under>>,
           \/ Over(i)
           \/ Result(i)
           \/ stage[i] = "fetching" /\ Enter(i, "streaming")
    PROVE  Audited' /\ Open' \subseteq Open
<1>1. under' = [under EXCEPT ![i] = under[i]]
  BY DEF TypeOK
<1>2. ASSUME Over(i) PROVE Audited'
  BY <1>1, <1>2, GoesAudited DEF Over
<1>3. ASSUME NEW place \in {"streaming", "answered"}, Enter(i, place),
             stage[i] \in {"fetching", "streaming", "answered"}
      PROVE  Audited'
  <2>1. request[i] # NONE /\ request[i].method = "call" => under[i] # NONE
    BY <1>3 DEF Audited
  <2> QED BY <1>1, <1>3, <2>1, GoesAudited DEF Enter
<1>4. Over(i) \/ \E place \in {"streaming", "answered"} :
                    Enter(i, place) /\ stage[i] \in {"fetching", "streaming", "answered"}
  BY DEF Result, Response, Passing
<1>5. Open' \subseteq Open
  <2>1. \A j \in Posts : stage'[j] = "done" \/ stage'[j] = stage[j] \/ stage[j] # "done"
    BY <1>4 DEF Over, Enter, Goes, TypeOK
  <2> QED BY <2>1 DEF Open
<1> QED BY <1>2, <1>3, <1>4, <1>5

LEMMA DecideAudited ==
    ASSUME TypeOK, Audited, NEW i \in Posts, NEW r, NEW held, Decide(i, r, held),
           stage[i] \in {"unused", "validating"}, UNCHANGED lines
    PROVE  /\ Audited'
           /\ \/ UNCHANGED under /\ Open' \subseteq Open
              \/ Authorizes(i)
<1>1. under[i] = NONE /\ manifest # NONE
  BY HttpAssumption DEF Audited, TypeOK
<1>2. CASE Over(i) /\ UNCHANGED under
  BY <1>2, MovesAudited
<1>3. CASE under' = [under EXCEPT ![i] = manifest] /\ Goes(i, r, "fetching")
  <2>1. \A j \in Posts : IF j = i THEN under'[j] = manifest /\ stage'[j] = "fetching"
                         ELSE under'[j] = under[j] /\ stage'[j] = stage[j]
    BY <1>3 DEF Goes, TypeOK
  <2>2. Open' = Open \cup {i}
    BY <1>1, <2>1 DEF Open
  <2> QED BY <1>1, <1>3, <2>2, GoesAudited DEF Authorizes
<1> QED BY <1>2, <1>3 DEF Decide

LEMMA QuietAudited ==
    ASSUME TypeOK, Audited, QuietStep
    PROVE  /\ Audited'
           /\ \/ UNCHANGED under /\ Open' \subseteq Open
              \/ \E i \in Posts : Authorizes(i)
<1>1. UNCHANGED lines
  BY QuietKeeps DEF receiptVars
<1>2. CASE UNCHANGED vars \/ Tick \/ Edit
  <2>1. UNCHANGED postVars
    BY <1>2 DEF vars, Tick, Edit
  <2> QED BY <1>1, <2>1 DEF Audited, Open, postVars
<1>3. CASE Stop
  <2>1. /\ \A i \in Posts : request'[i] = NONE
        /\ \A i \in Posts : stage'[i] = IF stage[i] = "unused" THEN "unused" ELSE "done"
        /\ UNCHANGED under
    BY <1>3 DEF Stop
  <2>2. \A k \in 1..Len(lines) : lines[k] \notin {TORN, GARBLED} => lines[k].call \in Posts
    BY ElementOfSeq DEF TypeOK, Receipt
  <2>3. Open' \subseteq Open
    BY <2>1 DEF Open, Audited
  <2> QED BY <1>1, <2>1, <2>2, <2>3 DEF Audited
<1>4. ASSUME NEW i \in Posts, Call(i)
      PROVE  /\ Audited'
             /\ \/ UNCHANGED under /\ Open' \subseteq Open
                \/ Authorizes(i)
  <2>1. stage[i] = "unused" /\ under[i] = NONE
    BY <1>4 DEF Call, Arrives, Audited
  <2>2. PICK r : (Goes(i, r, "validating") /\ UNCHANGED under) \/ Decide(i, r, NONE)
    <3>1. PICK n \in Tools, token \in {NONE} \cup Tokens :
            LET r == [method |-> "call", tool |-> n, token |-> token]
            IN  IF "auth" \in mode /\ token # NONE
                THEN Goes(i, r, "validating") /\ UNCHANGED under
                ELSE Decide(i, r, NONE)
      BY <1>4 DEF Call
    <3> WITNESS [method |-> "call", tool |-> n, token |-> token]
    <3> QED BY <3>1
  <2>3. CASE Goes(i, r, "validating") /\ UNCHANGED under
    <3>1. under' = [under EXCEPT ![i] = NONE]
      BY <2>1, <2>3 DEF TypeOK
    <3>2. \A j \in Posts : j = i \/ stage'[j] = stage[j]
      BY <2>3 DEF Goes, TypeOK
    <3>3. Open' \subseteq Open
      BY <2>1, <2>3, <3>2 DEF Open
    <3> QED BY <1>1, <2>1, <2>3, <3>1, <3>3, GoesAudited
  <2>4. CASE Decide(i, r, NONE)
    BY <1>1, <2>1, <2>4, DecideAudited
  <2> QED BY <2>2, <2>3, <2>4
<1>5. ASSUME NEW i \in Posts, Ask(i)
      PROVE  Audited' /\ UNCHANGED under /\ Open' \subseteq Open
  <2>1. PICK method \in {"list", "other"} : Goes(i, [method |-> method], "fetching")
    BY <1>5 DEF Ask
  <2>2. stage[i] = "unused" /\ UNCHANGED under /\ under[i] = NONE
    BY <1>5 DEF Ask, Arrives, Audited
  <2>3. under' = [under EXCEPT ![i] = under[i]]
    BY <2>2 DEF TypeOK
  <2>4. [method |-> method].method # "call"
    OBVIOUS
  <2>5. \A j \in Posts : j = i \/ stage'[j] = stage[j]
    BY <2>1 DEF Goes, TypeOK
  <2>6. Open' \subseteq Open
    BY <2>2, <2>5 DEF Open
  <2> QED BY <1>1, <2>1, <2>2, <2>3, <2>4, <2>6, GoesAudited
<1>6. ASSUME NEW i \in Posts, Validated(i)
      PROVE  /\ Audited'
             /\ \/ UNCHANGED under /\ Open' \subseteq Open
                \/ Authorizes(i)
  <2>1. /\ stage[i] = "validating"
        /\ (Over(i) /\ UNCHANGED under) \/ \E held : Decide(i, request[i], held)
    BY <1>6 DEF Validated
  <2> QED BY <1>1, <2>1, MovesAudited, DecideAudited
<1>7. ASSUME NEW i \in Posts,
             Unanswered(i) \/ StreamOpens(i) \/ StreamEnds(i) \/ Responded(i)
      PROVE  Audited' /\ UNCHANGED under /\ Open' \subseteq Open
  <2>1. UNCHANGED under
    BY <1>7 DEF Unanswered, StreamOpens, StreamEnds, Responded
  <2>2. Over(i) \/ Result(i) \/ (stage[i] = "fetching" /\ Enter(i, "streaming"))
    BY <1>7 DEF Unanswered, StreamOpens, StreamEnds, Responded, Result
  <2> QED BY <1>1, <2>1, <2>2, MovesAudited
<1> QED BY <1>2, <1>3, <1>4, <1>5, <1>6, <1>7 DEF QuietStep, Quiet

LEMMA ListerAudited ==
    ASSUME TypeOK, Audited, NEW i \in Posts, Lister(i)
    PROVE  Audited' /\ UNCHANGED <<under, lines>> /\ Open' \subseteq Open
<1>1. UNCHANGED <<under, lines>>
  BY DEF Lister, ListedStrictly, ListedUpdating, Updating, Listed, receiptVars
<1>2. Over(i) \/ Result(i)
  BY DEF Lister, ListedStrictly, ListedUpdating, Updating, Listed
<1> QED BY <1>1, <1>2, MovesAudited

(* What becomes of the whole lines when a receipt is given to the sink. *)
LEMMA SunkLines ==
    ASSUME NEW ls \in Seq(Line), NEW r \in Receipt, NEW new \in Sunk(ls, r)
    PROVE  LET whole(s) == {k \in 1..Len(s) : s[k] \notin {TORN, GARBLED}}
           IN  \/ /\ whole(new) = whole(ls)
                  /\ \A k \in whole(ls) : new[k] = ls[k]
               \/ \E n \in Nat :
                     /\ \A k \in whole(ls) : k < n /\ new[k] = ls[k]
                     /\ whole(new) = whole(ls) \cup {n}
                     /\ new[n] = r
<1> DEFINE whole(s) == {k \in 1..Len(s) : s[k] \notin {TORN, GARBLED}}
<1>1. Len(ls) \in Nat
  BY LenProperties
<1>2. CASE new = ls
  BY <1>2
<1>3. CASE new = Append(ls, r)
  <2>1. /\ Len(new) = Len(ls) + 1 /\ new[Len(ls) + 1] = r
        /\ \A k \in 1..Len(ls) : new[k] = ls[k]
    BY <1>3, AppendProperties DEF Line
  <2>2. CASE r \in {TORN, GARBLED}
    BY <1>1, <2>1, <2>2
  <2>3. CASE r \notin {TORN, GARBLED}
    <3>1. whole(new) = whole(ls) \cup {Len(ls) + 1}
      BY <1>1, <2>1, <2>3
    <3>2. \A k \in whole(ls) : k < Len(ls) + 1 /\ new[k] = ls[k]
      BY <1>1, <2>1
    <3>3. Len(ls) + 1 \in Nat
      BY <1>1
    <3> HIDE DEF whole
    <3>4. \E n \in Nat : /\ \A k \in whole(ls) : k < n /\ new[k] = ls[k]
                         /\ whole(new) = whole(ls) \cup {n}
                         /\ new[n] = r
      BY <2>1, <3>1, <3>2, <3>3
    <3> QED BY <3>4 DEF whole
  <2> QED BY <2>2, <2>3
<1>4. CASE new = Append(ls, TORN)
  <2>1. /\ Len(new) = Len(ls) + 1 /\ new[Len(ls) + 1] = TORN
        /\ \A k \in 1..Len(ls) : new[k] = ls[k]
    BY <1>4, AppendProperties DEF Line
  <2> QED BY <1>1, <2>1
<1>5. CASE ls # <<>> /\ Last(ls) = TORN /\ new = Append(Front(ls), GARBLED)
  <2>1. /\ Front(ls) \in Seq(Line) /\ Len(Front(ls)) = Len(ls) - 1
        /\ \A k \in 1..(Len(ls) - 1) : Front(ls)[k] = ls[k]
    BY <1>5, FrontType
  <2>2. Len(ls) \in Nat \ {0} /\ ls[Len(ls)] = TORN
    BY <1>5, EmptySeq DEF Last
  <2>3. /\ Len(new) = Len(ls) /\ new[Len(ls)] = GARBLED
        /\ \A k \in 1..(Len(ls) - 1) : new[k] = ls[k]
    BY <1>5, <2>1, <2>2, AppendProperties DEF Line
  <2> QED BY <2>2, <2>3
<1>6. new = ls \/ new = Append(ls, r) \/ new = Append(ls, TORN)
      \/ (ls # <<>> /\ Last(ls) = TORN /\ new = Append(Front(ls), GARBLED))
  BY DEF Sunk, Written
<1> QED BY <1>2, <1>3, <1>4, <1>5, <1>6

(* What the audit log is told of this state. *)
WholeLines == {k \in DOMAIN lines : lines[k] \notin {TORN, GARBLED}}
Authorized == {<<i, under[i]>> : i \in {j \in Posts : under[j] # NONE}}
Told       == [k \in WholeLines |-> <<lines[k].call, lines[k].policy>>]

LEMMA AuditAuthorizes ==
    ASSUME TypeOK, NEW i \in Posts, Authorizes(i), UNCHANGED lines
    PROVE  Audit!Next
<1>1. manifest # NONE
  BY HttpAssumption DEF TypeOK
<1>2. \A j \in Posts : under'[j] = IF j = i THEN manifest ELSE under[j]
  BY DEF Authorizes, TypeOK
<1>3. Authorized' = Authorized \cup {<<i, manifest>>} /\ Open' = Open \cup {i}
  BY <1>1, <1>2 DEF Authorized, Authorizes
<1>4. \A entry \in Authorized : entry[1] # i
  BY DEF Authorized, Authorizes
<1>5. Told' = Told
  BY DEF Told, WholeLines
<1>6. <<i, manifest>> \in Authorized' \ Authorized
  BY <1>3, <1>4
<1>7. \E e \in Authorized' \ Authorized :
         /\ \A old \in Authorized : old[1] # e[1]
         /\ Authorized' = Authorized \cup {<<e[1], e[2]>>}
         /\ Open' = Open \cup {e[1]}
         /\ Told' = Told
  BY <1>3, <1>4, <1>5, <1>6
<1> QED BY <1>7 DEF Audit!Next, Audit!Authorize, Authorized, Open, Told, WholeLines

LEMMA AuditCloses ==
    ASSUME Open' \subseteq Open, UNCHANGED <<under, lines>>
    PROVE  Audit!Next
<1>1. Authorized' = Authorized /\ Told' = Told
  BY DEF Authorized, Told, WholeLines
<1> QED BY <1>1 DEF Audit!Next, Audit!Close, Authorized, Open, Told, WholeLines

(* A receipt that reaches the file whole is a new entry; one that does not   *)
(* leaves no entry.                                                          *)
LEMMA ReceiptedAudited ==
    ASSUME IInv, Audited, NEW i \in Posts, Receipted(i)
    PROVE  Audited' /\ Audit!Next
<1> DEFINE r == NextReceipt(chain, i, under[i])
<1>1. TypeOK /\ lines \in Seq(Line)
  BY DEF IInv, TypeOK, Line
<1>2. r \in Receipt /\ r.call = i /\ r.policy = under[i]
  BY <1>1, NextReceiptType DEF TypeOK, NextReceipt
<1>3. lines' \in Sunk(lines, r) /\ Result(i) /\ UNCHANGED under
  BY DEF Receipted, Receipting
<1>4. stage[i] \in {"fetching", "streaming", "answered"} /\ under[i] # NONE
  BY DEF Receipted, Receipting, Result, Response, Passing, Audited
<1> HIDE DEF r
<1>5. /\ DOMAIN lines = 1..Len(lines) /\ DOMAIN lines' = 1..Len(lines')
      /\ lines' \in Seq(Line)
  BY <1>1, <1>2, <1>3, TellsSunk, LenProperties DEF IInv
<1>6. \/ /\ WholeLines' = WholeLines
         /\ \A k \in WholeLines : lines'[k] = lines[k]
      \/ \E n \in Nat : /\ \A k \in WholeLines : k < n /\ lines'[k] = lines[k]
                        /\ WholeLines' = WholeLines \cup {n}
                        /\ lines'[n] = r
  <2> DEFINE whole(s) == {k \in 1..Len(s) : s[k] \notin {TORN, GARBLED}}
  <2>1. WholeLines = whole(lines) /\ WholeLines' = whole(lines')
    BY <1>5 DEF WholeLines
  <2> QED BY <1>1, <1>2, <1>3, <2>1, SunkLines
<1>7. /\ stage'[i] \in {"streaming", "answered", "done"}
      /\ \A j \in Posts : j # i => stage'[j] = stage[j] /\ request'[j] = request[j]
      /\ request'[i] \in {NONE, request[i]}
  BY <1>1, <1>3 DEF Result, Response, Passing, Over, Enter, Goes, TypeOK
<1>8. \A k \in WholeLines : /\ under[lines[k].call] = lines[k].policy
                            /\ lines[k].policy # NONE
  BY <1>5 DEF Audited, WholeLines
<1>9. \A k \in WholeLines' : /\ under'[lines'[k].call] = lines'[k].policy
                             /\ lines'[k].policy # NONE
  BY <1>2, <1>3, <1>4, <1>6, <1>8
<1>10. Audited'
  <2>1. \A j \in Posts : stage'[j] \in {"unused", "validating"} => under'[j] = NONE
    BY <1>3, <1>7 DEF Audited
  <2>2. \A j \in Posts :
           (request'[j] # NONE /\ request'[j].method = "call"
              /\ stage'[j] \in {"fetching", "streaming", "answered"}) => under'[j] # NONE
    BY <1>3, <1>4, <1>7 DEF Audited
  <2> QED BY <1>5, <1>9, <2>1, <2>2 DEF Audited, WholeLines
<1>11. Authorized' = Authorized
  BY <1>3 DEF Authorized
<1>12. Open' \subseteq Open /\ i \in Open
  <2>1. i \in Open
    BY <1>4 DEF Open
  <2>2. \A j \in Posts : j # i => stage'[j] = stage[j]
    BY <1>7
  <2> QED BY <1>3, <2>1, <2>2 DEF Open
<1>13. CASE WholeLines' = WholeLines /\ \A k \in WholeLines : lines'[k] = lines[k]
  <2>1. Told' = Told
    BY <1>13 DEF Told
  <2>2. Audit!Close
    BY <1>11, <1>12, <2>1 DEF Audit!Close, Authorized, Open, Told, WholeLines
  <2> QED BY <1>10, <2>2 DEF Audit!Next
<1>14. ASSUME NEW n \in Nat, \A k \in WholeLines : k < n /\ lines'[k] = lines[k],
              WholeLines' = WholeLines \cup {n}, lines'[n] = r
       PROVE  Audit!Next
  <2> DEFINE entry == <<i, under[i]>>
  <2>1. entry \in Authorized /\ entry[1] \in Open
    BY <1>4, <1>12 DEF Authorized
  <2>2. \A k \in WholeLines : k < n
    BY <1>14
  <2>3. n \notin WholeLines
    BY <1>14
  <2>4. Told'[n] = entry
    BY <1>2, <1>14 DEF Told
  <2>5. Told' = [k \in WholeLines \cup {n} |-> IF k = n THEN entry ELSE Told[k]]
    BY <1>2, <1>14, <2>3 DEF Told
  <2>6. DOMAIN Told = WholeLines /\ DOMAIN Told' = WholeLines \cup {n}
    BY <1>14 DEF Told
  <2> HIDE DEF entry
  <2>7. \E k \in DOMAIN Told' \ DOMAIN Told :
           /\ Told'[k] \in Authorized
           /\ Told'[k][1] \in Open
           /\ \A j \in DOMAIN Told : j < k
           /\ Told' = [j \in DOMAIN Told \cup {k} |-> IF j = k THEN Told'[k] ELSE Told[j]]
    BY <2>1, <2>2, <2>3, <2>4, <2>5, <2>6
  <2> QED BY <1>11, <1>12, <2>7 DEF Audit!Next, Audit!Record, Authorized, Open, Told, WholeLines
<1> QED BY <1>6, <1>10, <1>13, <1>14

LEMMA NextAudited ==
    ASSUME IInv, Audited, [Next]_vars
    PROVE  Audited' /\ Audit!Next
<1>1. TypeOK
  BY DEF IInv
<1>2. CASE QuietStep
  <2>1. UNCHANGED lines
    BY <1>2, QuietKeeps DEF receiptVars
  <2> QED BY <1>1, <1>2, <2>1, QuietAudited, AuditAuthorizes, AuditCloses
<1>3. CASE Start
  <2>1. UNCHANGED <<postVars, lines>>
    BY <1>3 DEF Start
  <2>2. Audited' /\ Open' = Open
    BY <2>1 DEF Audited, Open, postVars
  <2> QED BY <2>1, <2>2, AuditCloses DEF postVars
<1>4. ASSUME NEW i \in Posts, Receipted(i) PROVE Audited' /\ Audit!Next
  BY <1>4, ReceiptedAudited
<1>5. ASSUME NEW i \in Posts, Lister(i) PROVE Audited' /\ Audit!Next
  BY <1>1, <1>5, ListerAudited, AuditCloses
<1> QED BY <1>2, <1>3, <1>4, <1>5, StepCases

LEMMA InitAudit == Init => Audit!Init
<1> SUFFICES ASSUME Init PROVE Audit!Init
  OBVIOUS
<1>1. Authorized = {}
  BY DEF Init, Authorized
<1>2. Open = {}
  BY DEF Init, Open
<1>3. DOMAIN Told = {}
  <2>1. DOMAIN lines = 1..0
    BY EmptySeq, LenProperties DEF Init
  <2> QED BY <2>1 DEF Told, WholeLines
<1> QED BY <1>1, <1>2, <1>3 DEF Audit!Init, Authorized, Open, Told, WholeLines

(* The proxy implements the audit log: what is receipted was authorized, by  *)
(* the policy the receipt names, and is not over yet, across failed writes,  *)
(* updates of the policy in mid-flight, streams that bring a result again    *)
(* and restarts (mcp-http-proxy.js:281, 497-510).                            *)
THEOREM HttpReceiptsAreAudit == Spec => ReceiptsAreAudit
<1>1. Init => IInv /\ Audited /\ Audit!Init
  BY InitIInv, InitAudited, InitAudit
<1>2. IInv /\ Audited /\ [Next]_vars => IInv' /\ Audited' /\ [Audit!Next]_(Audit!vars)
  BY NextIInv, NextAudited
<1> QED BY <1>1, <1>2, PTL DEF Spec, ReceiptsAreAudit, Audit!Spec
=============================================================================
