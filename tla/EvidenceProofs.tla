---------------------------- MODULE EvidenceProofs ----------------------------
(* What an evidence store promises, for any records and days, any number of  *)
(* processes that share it, batches and files of any size, and without the   *)
(* bounds of a run.                                                          *)
EXTENDS EvidenceStore, SequenceTheorems, WellFoundedInduction, TLAPS

OfDay(d) == {r \in Records : r.day = d}

Line(d) == OfDay(d) \cup {TORN, GARBLED}

Phases == {"closed", "idle", "counting", "writing", "flushing"}

(* A record is in the file of its day. *)
Files == {fs \in [Days -> Seq(Records \cup {TORN, GARBLED})] :
             \A d \in Days : fs[d] \in Seq(Line(d))}

TypeOK == /\ files \in Files
          /\ disk \in Index \cup {NONE, CORRUPT}
          /\ phase \in [Processes -> Phases]
          /\ index \in [Processes -> Index \cup {NONE}]
          /\ todo \in [Processes -> Seq(Group)]
          /\ start \in [Processes -> Nat]
          /\ opens \in Nat
          /\ written \in SUBSET Records

(* What an index lists under a key has that key. *)
Sound(ix) == \A k \in Keys : k[1] # "text" => ix.under[k] \subseteq {r \in Records : k \in KeysOf(r)}

IndexesSound == /\ disk \notin {NONE, CORRUPT} => Sound(disk)
                /\ \A p \in Processes : index[p] # NONE => Sound(index[p])

(* A record is lost only where a line is garbled. *)
Shows(fs, r) == {r, GARBLED} \cap ToSet(fs[r.day]) # {}

LossShows == \A r \in written : Shows(files, r)

(* Only an appending process has groups to write, of one file each, none of  *)
(* which its index has.                                                      *)
Waits(ph, gs, ix) == /\ ph \in {"counting", "writing"} <=> gs # <<>>
                     /\ \A j, k \in DOMAIN gs : gs[j].day = gs[k].day => j = k
                     /\ ix # NONE => Contents(gs) \cap DOMAIN ix.at = {}

Waiting == \A p \in Processes : Waits(phase[p], todo[p], index[p])

(* The first process that opens the store finds nothing, and is alone.       *)
Alone == /\ opens = 0 => disk = NONE
         /\ \A p \in Processes : /\ phase[p] = "closed" => index[p] = NONE
                                 /\ phase[p] = "flushing" => index[p] # NONE
                                 /\ phase[p] # "closed" => opens # 0
         /\ opens = 1 => \A p, q \in Processes :
                            phase[p] # "closed" /\ phase[q] # "closed" => p = q
         /\ opens = 1 => \A p \in Processes :
                            phase[p] = "writing" => start[p] = Len(files[Head(todo[p]).day])

(* An index that says what a rebuilt one would, of the records it has. *)
Agrees(fs, ix) ==
    /\ \A r \in DOMAIN ix.at : /\ r \in ToSet(fs[r.day])
                               /\ ix.at[r] = <<r.day, LineOf(fs[r.day], r)>>
    /\ \A k \in Keys : ix.under[k] = {r \in DOMAIN ix.at : k \in KeysOf(r)}

AllParse(fs) == \A d \in Days : Parses(fs[d])

Kept == \A p \in Processes :
           opens = 1 /\ index[p] # NONE /\ AllParse(files) => Agrees(files, index[p])

IInv == TypeOK /\ IndexesSound /\ LossShows /\ Waiting /\ Alone /\ Kept

-----------------------------------------------------------------------------
(* Numbers: a set of numbers that is not empty has a least one, and one      *)
(* below a bound has a greatest.                                             *)
LEMMA LeastNat ==
    ASSUME NEW T \in SUBSET Nat, T # {}
    PROVE  \E n \in T : \A m \in T : n <= m
<1> DEFINE R == OpToRel(<, Nat)
<1>1. \A m, n \in Nat : m < n => <<m, n>> \in R
  BY DEF OpToRel
<1>2. PICK n \in T : \A m \in T : <<m, n>> \notin R
  <2> HIDE DEF R
  <2>1. IsWellFoundedOn(R, Nat)
    BY NatLessThanWellFounded DEF R
  <2> QED BY <2>1, WFMin
<1> HIDE DEF R
<1>3. \A m \in T : m \in Nat /\ n \in Nat /\ ~(m < n)
  BY <1>1, <1>2
<1>4. \A m \in T : n <= m
  BY <1>3
<1> QED BY <1>4

LEMMA Greatest ==
    ASSUME NEW n \in Nat, NEW S \in SUBSET (1..n), S # {}
    PROVE  Max(S) \in S /\ \A k \in S : k <= Max(S)
<1> DEFINE T == {n - k : k \in S}
<1>0. \A k \in S : k \in Nat /\ n - k \in Nat
  OBVIOUS
<1>1. T \in SUBSET Nat /\ T # {}
  BY <1>0
<1>2. PICK t \in T : \A u \in T : t <= u
  BY <1>1, LeastNat
<1>3. PICK k \in S : t = n - k
  BY <1>2
<1>4. \A j \in S : k >= j
  <2> SUFFICES ASSUME NEW j \in S PROVE k >= j
    OBVIOUS
  <2>1. n - k <= n - j
    BY <1>2, <1>3
  <2> QED BY <1>0, <2>1
<1>5. Max(S) \in S /\ \A j \in S : Max(S) >= j
  BY <1>4 DEF Max
<1> QED BY <1>5

LEMMA LineOfLast ==
    ASSUME NEW S, NEW ls \in Seq(S), NEW r \in ToSet(ls)
    PROVE  /\ LineOf(ls, r) \in 1..Len(ls)
           /\ ls[LineOf(ls, r)] = r
           /\ \A k \in 1..Len(ls) : ls[k] = r => k <= LineOf(ls, r)
<1> DEFINE P == {k \in DOMAIN ls : ls[k] = r}
<1>1. Len(ls) \in Nat /\ DOMAIN ls = 1..Len(ls)
  BY LenProperties
<1>2. P \in SUBSET (1..Len(ls)) /\ P # {}
  BY <1>1 DEF ToSet
<1>3. Max(P) \in P /\ \A k \in P : k <= Max(P)
  BY <1>1, <1>2, Greatest
<1>4. LineOf(ls, r) = Max(P)
  BY DEF LineOf
<1> HIDE DEF P
<1> QED BY <1>1, <1>3, <1>4 DEF P

-----------------------------------------------------------------------------
(* Files of lines. *)
LEMMA Lines1 ==
    ASSUME NEW S, NEW ls \in Seq(S)
    PROVE  /\ Len(ls) \in Nat /\ DOMAIN ls = 1..Len(ls)
           /\ \A k \in 1..Len(ls) : ls[k] \in S
           /\ ToSet(ls) = {ls[k] : k \in 1..Len(ls)}
           /\ ToSet(ls) \subseteq S
           /\ Parses(ls) <=> \A k \in 1..Len(ls) : ls[k] \notin {TORN, GARBLED}
<1>1. Len(ls) \in Nat /\ DOMAIN ls = 1..Len(ls)
  BY LenProperties
<1>2. \A k \in 1..Len(ls) : ls[k] \in S
  BY ElementOfSeq
<1>3. ToSet(ls) = {ls[k] : k \in 1..Len(ls)}
  BY <1>1 DEF ToSet
<1>4. Parses(ls) <=> \A x \in ToSet(ls) : x \notin {TORN, GARBLED}
  BY DEF Parses, Whole
<1> QED BY <1>1, <1>2, <1>3, <1>4

(* Each line stays, but for a torn one, which stays torn or is garbled; the  *)
(* new line is there or garbled, and there if no line was torn.              *)
LEMMA WrittenLine ==
    ASSUME NEW S, TORN \in S, GARBLED \in S, NEW ls \in Seq(S), NEW x \in S
    PROVE  LET w == Written(ls, x)
           IN  /\ w \in Seq(S)
               /\ \A k \in 1..Len(ls) :
                     k \in 1..Len(w) /\ (w[k] = ls[k] \/ (ls[k] = TORN /\ w[k] = GARBLED))
               /\ \E k \in 1..Len(w) : w[k] \in {x, GARBLED}
               /\ Parses(ls) => w = Append(ls, x)
<1> DEFINE w == Written(ls, x)
           n == Len(ls)
<1>1. n \in Nat /\ \A k \in 1..n : ls[k] \in S
  BY Lines1
<1>2. CASE ls = <<>> \/ Last(ls) # TORN
  <2>1. w = Append(ls, x)
    BY <1>2 DEF Written
  <2>2. /\ Append(ls, x) \in Seq(S) /\ Len(Append(ls, x)) = n + 1
        /\ Append(ls, x)[n + 1] = x
        /\ \A k \in 1..n : Append(ls, x)[k] = ls[k]
    BY AppendProperties
  <2> HIDE DEF w
  <2>3. \E k \in 1..Len(w) : w[k] = x
    BY <1>1, <2>1, <2>2
  <2>4. \A k \in 1..n : k \in 1..Len(w) /\ w[k] = ls[k]
    BY <1>1, <2>1, <2>2
  <2> QED BY <2>1, <2>2, <2>3, <2>4 DEF w
<1>3. CASE ls # <<>> /\ Last(ls) = TORN
  <2>1. n \in Nat \ {0} /\ ls[n] = TORN
    BY <1>1, <1>3, EmptySeq DEF Last
  <2>2. ~Parses(ls)
    BY <2>1, Lines1
  <2>3. CASE x = TORN
    <3>1. w = ls
      BY <1>3, <2>3 DEF Written
    <3> QED BY <1>1, <2>1, <2>2, <2>3, <3>1
  <2>4. CASE x # TORN
    <3> DEFINE f == SubSeq(ls, 1, n - 1)
    <3>1. w = Append(f, GARBLED)
      BY <1>3, <2>4 DEF Written, Front
    <3>2. \A k \in 1..(n - 1) : ls[k] \in S
      BY <1>1, <2>1
    <3>3. f \in Seq(S) /\ Len(f) = n - 1 /\ \A k \in 1..(n - 1) : f[k] = ls[k]
      <4>1. /\ f \in Seq(S)
            /\ Len(f) = IF 1 <= n - 1 THEN (n - 1) - 1 + 1 ELSE 0
            /\ \A k \in 1..((n - 1) - 1 + 1) : f[k] = ls[1 + k - 1]
        BY <2>1, <3>2, SubSeqProperties
      <4> HIDE DEF f, n
      <4>2. Len(f) = n - 1
        <5>1. \A i \in Nat \ {0} : (IF 1 <= i - 1 THEN (i - 1) - 1 + 1 ELSE 0) = i - 1
          OBVIOUS
        <5> QED BY <2>1, <4>1, <5>1
      <4>3. \A k \in 1..(n - 1) : k \in 1..((n - 1) - 1 + 1) /\ 1 + k - 1 = k
        BY <2>1
      <4> QED BY <4>1, <4>2, <4>3
    <3> HIDE DEF f
    <3>4. /\ Append(f, GARBLED) \in Seq(S) /\ Len(Append(f, GARBLED)) = n
          /\ Append(f, GARBLED)[n] = GARBLED
          /\ \A k \in 1..(n - 1) : Append(f, GARBLED)[k] = f[k]
      BY <2>1, <3>3, AppendProperties
    <3> HIDE DEF w
    <3>5. \A k \in 1..n : k \in 1..Len(w) /\ (w[k] = ls[k] \/ (ls[k] = TORN /\ w[k] = GARBLED))
      BY <2>1, <3>1, <3>3, <3>4
    <3>6. \E k \in 1..Len(w) : w[k] = GARBLED
      BY <2>1, <3>1, <3>4
    <3> QED BY <2>2, <3>1, <3>4, <3>5, <3>6 DEF w
  <2> QED BY <2>3, <2>4
<1> QED BY <1>2, <1>3

LEMMA WrittenLines ==
    ASSUME NEW S, TORN \in S, GARBLED \in S, NEW ls \in Seq(S), NEW xs \in Seq(S)
    PROVE  LET w == WrittenAll(ls, xs)
           IN  /\ w \in Seq(S)
               /\ \A k \in 1..Len(ls) :
                     k \in 1..Len(w) /\ (w[k] = ls[k] \/ (ls[k] = TORN /\ w[k] = GARBLED))
               /\ \A j \in 1..Len(xs) : \E k \in 1..Len(w) : w[k] \in {xs[j], GARBLED}
               /\ Parses(ls) => w = ls \o xs
<1> DEFINE w == WrittenAll(ls, xs)
<1>1. Len(ls) \in Nat /\ Len(xs) \in Nat
  BY Lines1
<1>2. CASE xs = <<>>
  <2>1. w = ls /\ Len(xs) = 0 /\ ls \o xs = ls
    BY <1>2, EmptySeq, ConcatEmptySeq DEF WrittenAll
  <2> QED BY <1>1, <2>1
<1>3. CASE xs # <<>>
  <2> DEFINE h == Written(ls, Head(xs))
             t == Tail(xs)
  <2>1. /\ Head(xs) \in S /\ Head(xs) = xs[1] /\ t \in Seq(S) /\ Len(t) = Len(xs) - 1
        /\ \A j \in 1..Len(t) : t[j] = xs[j + 1]
    BY <1>3, HeadTailProperties
  <2>2. w = h \o t
    BY <1>3 DEF WrittenAll
  <2> DEFINE x == Head(xs)
  <2>0. x \in S
    BY <2>1
  <2> HIDE DEF x
  <2>3. LET u == Written(ls, x)
        IN  /\ u \in Seq(S)
            /\ \A k \in 1..Len(ls) :
                  k \in 1..Len(u) /\ (u[k] = ls[k] \/ (ls[k] = TORN /\ u[k] = GARBLED))
            /\ \E k \in 1..Len(u) : u[k] \in {x, GARBLED}
            /\ Parses(ls) => u = Append(ls, x)
    BY <2>0, WrittenLine
  <2>x. x = xs[1] /\ h = Written(ls, x)
    BY <2>1 DEF x
  <2> HIDE DEF h, t, w
  <2>y. /\ h \in Seq(S)
        /\ \A k \in 1..Len(ls) :
              k \in 1..Len(h) /\ (h[k] = ls[k] \/ (ls[k] = TORN /\ h[k] = GARBLED))
        /\ \E k \in 1..Len(h) : h[k] \in {xs[1], GARBLED}
        /\ Parses(ls) => h = Append(ls, xs[1])
    BY <2>3, <2>x
  <2>4. /\ w \in Seq(S) /\ Len(w) = Len(h) + Len(t)
        /\ \A k \in 1..Len(w) : w[k] = IF k <= Len(h) THEN h[k] ELSE t[k - Len(h)]
        /\ Len(h) \in Nat /\ Len(t) \in Nat
    <3>1. /\ h \o t \in Seq(S) /\ Len(h \o t) = Len(h) + Len(t)
          /\ \A k \in 1..(Len(h) + Len(t)) :
                (h \o t)[k] = IF k <= Len(h) THEN h[k] ELSE t[k - Len(h)]
      BY <2>1, <2>y, ConcatProperties
    <3>2. Len(h) \in Nat /\ Len(t) \in Nat
      BY <2>1, <2>y, LenProperties
    <3> QED BY <2>2, <3>1, <3>2
  <2>5. \A k \in 1..Len(ls) :
           k \in 1..Len(w) /\ (w[k] = ls[k] \/ (ls[k] = TORN /\ w[k] = GARBLED))
    BY <2>y, <2>4
  <2>6. ASSUME NEW j \in 1..Len(xs) PROVE \E k \in 1..Len(w) : w[k] \in {xs[j], GARBLED}
    <3>1. CASE j = 1
      <4>1. PICK k \in 1..Len(h) : h[k] \in {xs[1], GARBLED}
        BY <2>y
      <4>2. k \in 1..Len(w) /\ w[k] = h[k]
        BY <2>4, <4>1
      <4> QED BY <3>1, <4>1, <4>2
    <3>2. CASE j # 1
      <4> DEFINE i == j - 1
                 k == Len(h) + i
      <4>1. i \in 1..Len(t) /\ i + 1 = j
        BY <1>1, <2>1, <2>4, <3>2
      <4>2. k \in 1..Len(w) /\ ~(k <= Len(h)) /\ k - Len(h) = i
        BY <2>4, <4>1
      <4>3. w[k] = t[i] /\ t[i] = xs[j]
        BY <2>1, <2>4, <4>1, <4>2
      <4> HIDE DEF k, i
      <4> QED BY <4>2, <4>3
    <3> QED BY <3>1, <3>2
  <2>7. ASSUME Parses(ls) PROVE w = ls \o xs
    <3>1. h = Append(ls, xs[1])
      BY <2>y, <2>7
    <3>2. /\ Len(h) = Len(ls) + 1 /\ h[Len(ls) + 1] = xs[1]
          /\ \A k \in 1..Len(ls) : h[k] = ls[k]
      BY <2>1, <3>1, AppendProperties
    <3>3. /\ ls \o xs \in Seq(S) /\ Len(ls \o xs) = Len(ls) + Len(xs)
          /\ \A k \in 1..Len(ls \o xs) :
                (ls \o xs)[k] = IF k <= Len(ls) THEN ls[k] ELSE xs[k - Len(ls)]
      BY ConcatProperties
    <3>4. Len(w) = Len(ls \o xs)
      BY <1>1, <2>1, <2>4, <3>2, <3>3
    <3>5. ASSUME NEW k \in 1..Len(w) PROVE w[k] = (ls \o xs)[k]
      <4>1. CASE k <= Len(ls)
        <5>1. k \in 1..Len(ls) /\ k <= Len(h)
          BY <1>1, <2>4, <3>2, <3>5, <4>1
        <5> QED BY <2>4, <3>2, <3>3, <3>4, <3>5, <4>1, <5>1
      <4>2. CASE k = Len(ls) + 1
        BY <1>1, <2>1, <2>4, <3>2, <3>3, <3>4, <3>5, <4>2
      <4>3. CASE k > Len(ls) + 1
        <5>1. /\ k - Len(h) \in 1..Len(t) /\ (k - Len(h)) + 1 = k - Len(ls)
              /\ ~(k <= Len(h)) /\ ~(k <= Len(ls))
          BY <1>1, <2>1, <2>4, <3>2, <3>5, <4>3
        <5> DEFINE i == k - Len(h)
        <5>2. w[k] = t[i]
          BY <2>4, <3>5, <5>1
        <5>3. t[i] = xs[i + 1] /\ i + 1 = k - Len(ls)
          BY <2>1, <5>1
        <5>4. (ls \o xs)[k] = xs[k - Len(ls)]
          BY <3>3, <3>4, <3>5, <5>1
        <5> HIDE DEF i
        <5> QED BY <5>2, <5>3, <5>4
      <4>4. \A i \in 1..Len(w) : i <= Len(ls) \/ i = Len(ls) + 1 \/ i > Len(ls) + 1
        BY <1>1
      <4> QED BY <4>1, <4>2, <4>3, <4>4
    <3> QED BY <2>4, <3>3, <3>4, <3>5, SeqEqual
  <2> QED BY <2>4, <2>5, <2>6, <2>7 DEF w
<1> QED BY <1>2, <1>3

LEMMA LineOfIs ==
    ASSUME NEW S, NEW ls \in Seq(S), NEW r, NEW k \in 1..Len(ls), ls[k] = r,
           \A j \in 1..Len(ls) : ls[j] = r => j <= k
    PROVE  LineOf(ls, r) = k
<1>1. r \in ToSet(ls)
  BY Lines1
<1>2. /\ LineOf(ls, r) \in 1..Len(ls)
      /\ ls[LineOf(ls, r)] = r
      /\ \A j \in 1..Len(ls) : ls[j] = r => j <= LineOf(ls, r)
  BY <1>1, LineOfLast
<1>3. Len(ls) \in Nat
  BY Lines1
<1> DEFINE n == LineOf(ls, r)
<1>4. n <= k /\ k <= n
  BY <1>2
<1> HIDE DEF n
<1>5. n \in 1..Len(ls)
  BY <1>2 DEF n
<1> QED BY <1>3, <1>4, <1>5 DEF n

LEMMA LinesAdded ==
    ASSUME NEW S, NEW ls \in Seq(S), NEW xs \in Seq(S)
    PROVE  /\ ToSet(ls \o xs) = ToSet(ls) \cup ToSet(xs)
           /\ \A r \in ToSet(xs) : LineOf(ls \o xs, r) = Len(ls) + LineOf(xs, r)
           /\ \A r \in ToSet(ls) \ ToSet(xs) : LineOf(ls \o xs, r) = LineOf(ls, r)
<1> DEFINE w == ls \o xs
           m == Len(ls)
           n == Len(xs)
<1>1. m \in Nat /\ n \in Nat
  BY Lines1
<1>2. w \in Seq(S) /\ Len(w) = m + n
  BY ConcatProperties
<1>3. \A k \in 1..m : k \in 1..Len(w) /\ w[k] = ls[k]
  BY <1>1, ConcatProperties
<1>4. \A k \in 1..n : m + k \in 1..Len(w) /\ w[m + k] = xs[k]
  <2> SUFFICES ASSUME NEW k \in 1..n PROVE m + k \in 1..Len(w) /\ w[m + k] = xs[k]
    OBVIOUS
  <2>1. m + k \in 1..(m + n) /\ ~(m + k <= m) /\ (m + k) - m = k
    BY <1>1
  <2> QED BY <2>1, ConcatProperties
<1>5. \A k \in 1..Len(w) : k \in 1..m \/ \E j \in 1..n : k = m + j
  <2> SUFFICES ASSUME NEW k \in 1..Len(w), k \notin 1..m PROVE k - m \in 1..n /\ k = m + (k - m)
    OBVIOUS
  <2> QED BY <1>1, <1>2
<1> HIDE DEF w
<1>6. /\ ToSet(w) = {w[k] : k \in 1..Len(w)}
      /\ ToSet(ls) = {ls[k] : k \in 1..m}
      /\ ToSet(xs) = {xs[k] : k \in 1..n}
  BY <1>2, Lines1
<1> HIDE DEF m, n
<1>7. ToSet(w) = ToSet(ls) \cup ToSet(xs)
  <2>1. ASSUME NEW k \in 1..Len(w) PROVE w[k] \in ToSet(ls) \cup ToSet(xs)
    BY <1>3, <1>4, <1>5, <1>6
  <2>2. ASSUME NEW k \in 1..m PROVE ls[k] \in ToSet(w)
    BY <1>3, <1>6
  <2>3. ASSUME NEW k \in 1..n PROVE xs[k] \in ToSet(w)
    BY <1>4, <1>6
  <2> QED BY <1>6, <2>1, <2>2, <2>3
<1>8. ASSUME NEW r \in ToSet(xs) PROVE LineOf(w, r) = m + LineOf(xs, r)
  <2> DEFINE j == LineOf(xs, r)
  <2>1. j \in 1..n /\ xs[j] = r /\ \A k \in 1..n : xs[k] = r => k <= j
    BY LineOfLast DEF n
  <2> HIDE DEF j
  <2>2. m + j \in 1..Len(w) /\ w[m + j] = r
    BY <1>4, <2>1
  <2>3. ASSUME NEW i \in 1..Len(w), w[i] = r PROVE i <= m + j
    <3>1. CASE i \in 1..m
      BY <1>1, <2>1, <3>1
    <3>2. CASE \E k \in 1..n : i = m + k
      <4>1. PICK k \in 1..n : i = m + k
        BY <3>2
      <4>2. xs[k] = r
        BY <1>4, <2>3, <4>1
      <4>3. k <= j
        BY <2>1, <4>2
      <4> QED BY <1>1, <2>1, <4>1, <4>3
    <3> QED BY <1>5, <3>1, <3>2
  <2>4. LineOf(w, r) = m + j
    BY <1>2, <2>2, <2>3, LineOfIs
  <2> QED BY <2>4 DEF j
<1>9. ASSUME NEW r \in ToSet(ls), r \notin ToSet(xs) PROVE LineOf(w, r) = LineOf(ls, r)
  <2> DEFINE j == LineOf(ls, r)
  <2>1. j \in 1..m /\ ls[j] = r /\ \A k \in 1..m : ls[k] = r => k <= j
    BY LineOfLast DEF m
  <2> HIDE DEF j
  <2>2. j \in 1..Len(w) /\ w[j] = r
    BY <1>3, <2>1
  <2>3. ASSUME NEW i \in 1..Len(w), w[i] = r PROVE i <= j
    <3>1. i \in 1..m
      BY <1>4, <1>5, <1>6, <1>9, <2>3
    <3> QED BY <1>3, <2>1, <2>3, <3>1
  <2>4. LineOf(w, r) = j
    BY <1>2, <2>2, <2>3, LineOfIs
  <2> QED BY <2>4 DEF j
<1> QED BY <1>7, <1>8, <1>9 DEF w, m

-----------------------------------------------------------------------------
(* The files of a store. *)
LEMMA FilesAre ==
    ASSUME NEW fs \in Files, NEW d \in Days
    PROVE  /\ fs[d] \in Seq(Line(d)) /\ TORN \in Line(d) /\ GARBLED \in Line(d)
           /\ Seq(OfDay(d)) \subseteq Seq(Line(d))
           /\ Line(d) \subseteq Records \cup {TORN, GARBLED}
<1>1. OfDay(d) \subseteq Line(d)
  BY DEF Line
<1>2. ASSUME NEW S, NEW T, S \subseteq T PROVE Seq(S) \subseteq Seq(T)
  BY <1>2
<1>3. fs[d] \in Seq(Line(d))
  BY DEF Files
<1> QED BY <1>1, <1>2, <1>3 DEF Line, OfDay

LEMMA OnDiskIs ==
    ASSUME files \in Files
    PROVE  OnDisk = {r \in Records : r \in ToSet(files[r.day])}
<1>1. ASSUME NEW d \in Days, NEW r \in Whole(files[d])
      PROVE  r \in Records /\ r.day = d /\ r \in ToSet(files[d])
  <2>1. ToSet(files[d]) \subseteq Line(d)
    BY FilesAre, Lines1
  <2> QED BY <1>1, <2>1 DEF Whole, Line, OfDay
<1>2. ASSUME NEW r \in Records, r \in ToSet(files[r.day])
      PROVE  r.day \in Days /\ r \in Whole(files[r.day])
  BY <1>2, EvidenceAssumption DEF Days, Whole
<1> QED BY <1>1, <1>2 DEF OnDisk

(* An index made from the files is one, and says what they hold. *)
LEMMA RebuiltAgrees ==
    ASSUME files \in Files
    PROVE  Rebuilt \in Index /\ Sound(Rebuilt) /\ Agrees(files, Rebuilt)
<1>1. OnDisk \in SUBSET Records /\ \A r \in OnDisk : r \in ToSet(files[r.day])
  BY OnDiskIs
<1>2. ASSUME NEW r \in OnDisk PROVE <<r.day, LineOf(files[r.day], r)>> \in Location
  <2>1. r.day \in Days /\ r \in ToSet(files[r.day])
    BY <1>1 DEF Days
  <2>2. LineOf(files[r.day], r) \in 1..Len(files[r.day]) /\ Len(files[r.day]) \in Nat
    BY <2>1, FilesAre, LineOfLast, Lines1
  <2> QED BY <2>1, <2>2 DEF Location
<1>3. /\ Rebuilt.at \in [OnDisk -> Location]
      /\ Rebuilt.under \in [Keys -> SUBSET Records]
  BY <1>1, <1>2 DEF Rebuilt
<1>4. Rebuilt \in Index
  BY <1>1, <1>3 DEF Index, Rebuilt
<1> QED BY <1>1, <1>4 DEF Rebuilt, Sound, Agrees

LEMMA IndexIs ==
    ASSUME NEW ix \in Index
    PROVE  /\ ix = [at |-> ix.at, under |-> ix.under]
           /\ DOMAIN ix.at \in SUBSET Records
           /\ ix.at \in [DOMAIN ix.at -> Location]
           /\ ix.under \in [Keys -> SUBSET Records]
BY DEF Index

LEMMA IndexedIs ==
    ASSUME NEW ix \in Index, NEW d \in Days, NEW xs \in Seq(OfDay(d)),
           NEW n \in Nat
    PROVE  /\ Indexed(ix, xs, d, n) \in Index
           /\ DOMAIN Indexed(ix, xs, d, n).at = DOMAIN ix.at \cup ToSet(xs)
           /\ \A r \in ToSet(xs) : Indexed(ix, xs, d, n).at[r] = <<d, n + LineOf(xs, r)>>
           /\ \A r \in DOMAIN ix.at \ ToSet(xs) : Indexed(ix, xs, d, n).at[r] = ix.at[r]
           /\ \A k \in Keys : Indexed(ix, xs, d, n).under[k] =
                                 ix.under[k] \cup {r \in ToSet(xs) : k \in KeysOf(r)}
           /\ Sound(ix) => Sound(Indexed(ix, xs, d, n))
<1> DEFINE at  == [r \in ToSet(xs) \cup DOMAIN ix.at |->
                      IF r \in ToSet(xs) THEN <<d, n + LineOf(xs, r)>> ELSE ix.at[r]]
           und == [k \in Keys |-> ix.under[k] \cup {r \in ToSet(xs) : k \in KeysOf(r)}]
<1>1. ToSet(xs) \in SUBSET Records
  BY Lines1 DEF OfDay
<1>2. ASSUME NEW r \in ToSet(xs) PROVE <<d, n + LineOf(xs, r)>> \in Location
  BY LineOfLast, Lines1 DEF Location
<1>3. /\ DOMAIN at = DOMAIN ix.at \cup ToSet(xs)
      /\ \A r \in ToSet(xs) : at[r] = <<d, n + LineOf(xs, r)>>
      /\ \A r \in DOMAIN ix.at \ ToSet(xs) : at[r] = ix.at[r]
  OBVIOUS
<1>4. at = [r \in DOMAIN at |-> at[r]]
  OBVIOUS
<1>5. Indexed(ix, xs, d, n) = [at |-> at, under |-> und]
  BY DEF Indexed
<1>6. und \in [Keys -> SUBSET Records]
  BY <1>1, IndexIs
<1> HIDE DEF at
<1>7. at \in [DOMAIN at -> Location] /\ DOMAIN at \in SUBSET Records
  BY <1>1, <1>2, <1>3, <1>4, IndexIs
<1>8. Indexed(ix, xs, d, n) \in Index
  BY <1>5, <1>6, <1>7 DEF Index
<1>9. Sound(ix) => Sound(Indexed(ix, xs, d, n))
  BY <1>1, <1>5 DEF Sound
<1> QED BY <1>3, <1>5, <1>8, <1>9

LEMMA KeysAre ==
    /\ \A s \in UNION {r.subject : r \in Records} : <<"subject", s>> \in Keys
    /\ \A r \in Records : <<"layer", r.layer>> \in Keys
    /\ \A k \in Keys : k[1] = "text" => \E r \in Records : k[2] = r.layer
<1> DEFINE A == {<<"subject", s>> : s \in UNION {r.subject : r \in Records}}
           B == {<<"predicate", r.predicate>> : r \in Records}
           C == {"layer", "text"} \X {r.layer : r \in Records}
<1>1. Keys = A \cup B \cup C
  BY DEF Keys
<1>2. \A s \in UNION {r.subject : r \in Records} : <<"subject", s>> \in A
  OBVIOUS
<1>3. \A r \in Records : <<"layer", r.layer>> \in C
  OBVIOUS
<1>4. ASSUME NEW k \in A \cup B \cup C, k[1] = "text" PROVE \E r \in Records : k[2] = r.layer
  <2>1. k \notin A
    BY <1>4
  <2>2. k \notin B
    BY <1>4
  <2>3. k \in C
    BY <2>1, <2>2
  <2> HIDE DEF A, B
  <2> QED BY <2>3
<1> HIDE DEF A, B, C
<1> QED BY <1>1, <1>2, <1>3, <1>4

(* What a saved index is when it is loaded. *)
LEMMA FlushedIs ==
    ASSUME NEW ix \in Index, Sound(ix)
    PROVE  Flushed(ix) \in Index /\ Sound(Flushed(ix))
<1> DEFINE und == [k \in Keys |->
              IF k[1] = "layer" THEN {}
              ELSE IF k[1] = "text" /\ ix.under[<<"layer", k[2]>>] # {}
                   THEN ix.under[<<"layer", k[2]>>]
              ELSE ix.under[k]]
<1>1. Flushed(ix) = [at |-> ix.at, under |-> und]
  <2>1. Flushed(ix) = [ix EXCEPT !.under = und]
    BY DEF Flushed
  <2> HIDE DEF und
  <2>2. ASSUME NEW a, NEW b PROVE [[at |-> a, under |-> b] EXCEPT !.under = und] =
                                     [at |-> a, under |-> und]
    OBVIOUS
  <2> QED BY <2>1, <2>2, IndexIs
<1>2. ASSUME NEW k \in Keys, k[1] = "text" PROVE <<"layer", k[2]>> \in Keys
  BY <1>2, KeysAre
<1>3. und \in [Keys -> SUBSET Records]
  BY <1>2, IndexIs
<1>4. Flushed(ix) \in Index
  BY <1>1, <1>3, IndexIs DEF Index
<1>5. Sound(Flushed(ix))
  BY <1>1 DEF Sound
<1> QED BY <1>4, <1>5

-----------------------------------------------------------------------------
(* What the invariant says of queries. *)
LEMMA QueryIs ==
    ASSUME files \in Files, NEW ix \in Index, NEW keys, NEW r \in Query(ix, keys)
    PROVE  r \in OnDisk /\ r \in Records /\ \A k \in keys : r \in ix.under[k]
<1>1. PICK x \in DOMAIN ix.at : r \in Read(ix, x) /\ \A k \in keys : x \in ix.under[k]
  BY DEF Query
<1>2. x \in Records /\ ix.at[x] \in Location
  BY IndexIs
<1> DEFINE d == ix.at[x][1]
           k == ix.at[x][2]
<1>3. d \in Days
  BY <1>2 DEF Location
<1>4. r = x /\ k \in DOMAIN files[d] /\ files[d][k] = r
  BY <1>1 DEF Read
<1> HIDE DEF d, k
<1>5. r \in ToSet(files[d])
  BY <1>3, <1>4, FilesAre, Lines1
<1>6. r \in Whole(files[d])
  BY <1>2, <1>4, <1>5, EvidenceAssumption DEF Whole
<1>7. r \in OnDisk
  BY <1>3, <1>6 DEF OnDisk
<1> QED BY <1>1, <1>2, <1>4, <1>7

LEMMA LookupLemma == TypeOK /\ IndexesSound => LookupNeverLies
<1> SUFFICES ASSUME TypeOK, IndexesSound, NEW p \in Processes, index[p] # NONE
             PROVE  /\ \A k \in Keys : k[1] # "text" =>
                          Query(index[p], {k}) \subseteq {r \in OnDisk : k \in KeysOf(r)}
                    /\ \A s \in UNION {r.subject : r \in Records} :
                          \A q \in Contradictions(index[p], s) :
                              \E x, y \in OnDisk :
                                 /\ s \in x.subject \cap y.subject
                                 /\ x.predicate = q /\ y.predicate = q /\ x.value # y.value
  BY DEF LookupNeverLies
<1>1. files \in Files /\ index[p] \in Index /\ Sound(index[p])
  BY DEF TypeOK, IndexesSound
<1> DEFINE ix == index[p]
<1> HIDE DEF ix
<1>2. files \in Files /\ ix \in Index /\ Sound(ix)
  BY <1>1 DEF ix
<1>3. ASSUME NEW k \in Keys, k[1] # "text", NEW r \in Query(ix, {k})
      PROVE  r \in OnDisk /\ k \in KeysOf(r)
  <2>1. r \in OnDisk /\ r \in ix.under[k]
    BY <1>2, <1>3, QueryIs
  <2> QED BY <1>2, <1>3, <2>1 DEF Sound
<1>4. ASSUME NEW s \in UNION {r.subject : r \in Records}, NEW q \in Contradictions(ix, s)
      PROVE  \E x, y \in OnDisk :
                /\ s \in x.subject \cap y.subject
                /\ x.predicate = q /\ y.predicate = q /\ x.value # y.value
  <2> DEFINE k == <<"subject", s>>
             found == Query(ix, {k})
  <2>1. k \in Keys /\ k[1] # "text"
    BY KeysAre
  <2>2. \A r \in found : r \in OnDisk /\ k \in KeysOf(r)
    BY <1>3, <2>1
  <2>3. \A r : k \in KeysOf(r) => s \in r.subject
    BY DEF KeysOf
  <2>4. PICK z \in found : z.predicate = q /\ \E w \in found : w.predicate = z.predicate /\ w.value # z.value
    BY DEF Contradictions
  <2>5. PICK w \in found : w.predicate = z.predicate /\ w.value # z.value
    BY <2>4
  <2> HIDE DEF found, k
  <2> QED BY <2>2, <2>3, <2>4, <2>5
<1> QED BY <1>3, <1>4 DEF ix

LEMMA RebuildLemma == TypeOK => RebuildFindsAll
<1> SUFFICES ASSUME TypeOK PROVE Query(Rebuilt, {}) = OnDisk
  BY DEF RebuildFindsAll
<1>1. files \in Files
  BY DEF TypeOK
<1>2. Rebuilt \in Index /\ DOMAIN Rebuilt.at = OnDisk /\ Agrees(files, Rebuilt)
  BY <1>1, RebuiltAgrees DEF Rebuilt
<1>3. ASSUME NEW r \in OnDisk PROVE r \in Query(Rebuilt, {})
  <2>1. r.day \in Days /\ r \in Records /\ r \in ToSet(files[r.day])
    BY <1>1, OnDiskIs DEF Days
  <2> DEFINE ls == files[r.day]
             n  == LineOf(ls, r)
  <2>2. /\ DOMAIN ls = 1..Len(ls)
        /\ n \in 1..Len(ls) /\ ls[n] = r
    BY <1>1, <2>1, FilesAre, LineOfLast, Lines1
  <2>3. Rebuilt.at[r] = <<r.day, n>>
    BY <1>2 DEF Agrees
  <2> HIDE DEF n
  <2>4. r \in Read(Rebuilt, r)
    BY <2>2, <2>3 DEF Read
  <2> QED BY <1>2, <2>4 DEF Query
<1>4. Query(Rebuilt, {}) \subseteq OnDisk
  BY <1>1, <1>2, QueryIs
<1> QED BY <1>3, <1>4

LEMMA VerifiedLemma == TypeOK /\ LossShows => VerifiedHasAllWritten
<1> SUFFICES ASSUME TypeOK, LossShows, Verified, NEW r \in written PROVE r \in OnDisk
  BY DEF VerifiedHasAllWritten
<1>1. r \in Records /\ r.day \in Days /\ files \in Files
  BY DEF TypeOK, Days
<1>2. Parses(files[r.day])
  BY <1>1 DEF Verified
<1>3. GARBLED \notin ToSet(files[r.day])
  BY <1>2 DEF Parses, Whole
<1>4. r \in ToSet(files[r.day])
  BY <1>3 DEF LossShows, Shows
<1> QED BY <1>1, <1>4, OnDiskIs

LEMMA KeptLemma == TypeOK /\ Kept => KeptAsRebuilt
<1> SUFFICES ASSUME TypeOK, Kept, NEW p \in Processes, opens = 1, index[p] # NONE,
                    \A d \in Days : Parses(files[d])
             PROVE  LET known == DOMAIN index[p].at
                    IN  /\ known \subseteq OnDisk
                        /\ \A r \in known : index[p].at[r] = Rebuilt.at[r]
                        /\ \A k \in Keys : index[p].under[k] = Rebuilt.under[k] \cap known
  BY DEF KeptAsRebuilt
<1> DEFINE ix == index[p]
<1>1. files \in Files /\ ix \in Index /\ Agrees(files, ix)
  BY DEF TypeOK, Kept, AllParse
<1> HIDE DEF ix
<1>2. DOMAIN ix.at \subseteq Records
  BY <1>1, IndexIs
<1>3. DOMAIN ix.at \subseteq OnDisk
  BY <1>1, <1>2, OnDiskIs DEF Agrees
<1>4. \A r \in DOMAIN ix.at : ix.at[r] = Rebuilt.at[r]
  BY <1>1, <1>3 DEF Agrees, Rebuilt
<1>5. \A k \in Keys : ix.under[k] = Rebuilt.under[k] \cap DOMAIN ix.at
  BY <1>1, <1>3 DEF Agrees, Rebuilt
<1> QED BY <1>3, <1>4, <1>5 DEF ix

-----------------------------------------------------------------------------
(* What an append does to the files and to the indexes.                      *)
LEMMA Appended ==
    ASSUME NEW fs \in Files, NEW d \in Days, NEW ys \in Seq(Line(d))
    PROVE  LET gs == [fs EXCEPT ![d] = WrittenAll(fs[d], ys)]
           IN  /\ gs \in Files
               /\ \A r \in Records : Shows(fs, r) => Shows(gs, r)
               /\ \A r \in ToSet(ys) : {r, GARBLED} \cap ToSet(gs[d]) # {}
               /\ AllParse(gs) => /\ gs = [fs EXCEPT ![d] = fs[d] \o ys]
                                  /\ AllParse(fs)
                                  /\ TORN \notin ToSet(ys)
<1> DEFINE w  == WrittenAll(fs[d], ys)
           gs == [fs EXCEPT ![d] = w]
<1>1. /\ fs[d] \in Seq(Line(d)) /\ TORN \in Line(d) /\ GARBLED \in Line(d)
      /\ Line(d) \subseteq Records \cup {TORN, GARBLED}
  BY FilesAre
<1>2. /\ w \in Seq(Line(d))
      /\ \A k \in 1..Len(fs[d]) :
            k \in 1..Len(w) /\ (w[k] = fs[d][k] \/ (fs[d][k] = TORN /\ w[k] = GARBLED))
      /\ \A j \in 1..Len(ys) : \E k \in 1..Len(w) : w[k] \in {ys[j], GARBLED}
      /\ Parses(fs[d]) => w = fs[d] \o ys
  BY <1>1, WrittenLines
<1>3. /\ ToSet(fs[d]) = {fs[d][k] : k \in 1..Len(fs[d])}
      /\ Parses(fs[d]) <=> \A k \in 1..Len(fs[d]) : fs[d][k] \notin {TORN, GARBLED}
      /\ ToSet(ys) = {ys[k] : k \in 1..Len(ys)}
  BY <1>1, Lines1
<1> HIDE DEF w
<1>4. /\ ToSet(w) = {w[k] : k \in 1..Len(w)}
      /\ Parses(w) <=> \A k \in 1..Len(w) : w[k] \notin {TORN, GARBLED}
  BY <1>2, Lines1
<1>5. \A e \in Days : gs[e] = IF e = d THEN w ELSE fs[e]
  BY DEF Files
<1>6. gs \in Files
  <2>1. w \in Seq(Records \cup {TORN, GARBLED})
    BY <1>1, <1>2
  <2> QED BY <1>2, <2>1 DEF Files
<1>7. ASSUME NEW r \in Records, Shows(fs, r) PROVE Shows(gs, r)
  <2>1. r.day \in Days /\ r # TORN
    BY EvidenceAssumption DEF Days
  <2>2. CASE r.day # d
    BY <1>5, <1>7, <2>1, <2>2 DEF Shows
  <2>3. CASE r.day = d
    <3>1. PICK k \in 1..Len(fs[d]) : fs[d][k] \in {r, GARBLED}
      BY <1>3, <1>7, <2>3 DEF Shows
    <3>2. k \in 1..Len(w) /\ w[k] \in {r, GARBLED}
      BY <1>2, <2>1, <3>1
    <3> QED BY <1>4, <1>5, <2>3, <3>2 DEF Shows
  <2> QED BY <2>2, <2>3
<1>8. ASSUME NEW r \in ToSet(ys) PROVE {r, GARBLED} \cap ToSet(gs[d]) # {}
  <2>1. PICK j \in 1..Len(ys) : ys[j] = r
    BY <1>3
  <2>2. PICK k \in 1..Len(w) : w[k] \in {r, GARBLED}
    BY <1>2, <2>1
  <2> QED BY <1>4, <1>5, <2>2
<1>9. ASSUME AllParse(gs)
      PROVE  gs = [fs EXCEPT ![d] = fs[d] \o ys] /\ AllParse(fs) /\ TORN \notin ToSet(ys)
  <2>1. Parses(w)
    BY <1>5, <1>9 DEF AllParse
  <2>2. Parses(fs[d])
    BY <1>2, <1>3, <1>4, <2>1
  <2>3. w = fs[d] \o ys
    BY <1>2, <2>2
  <2>4. AllParse(fs)
    BY <1>5, <1>9, <2>2 DEF AllParse
  <2>5. TORN \notin ToSet(ys)
    BY <1>4, <1>5, <1>8, <2>1
  <2> QED BY <2>3, <2>4, <2>5
<1> HIDE DEF gs
<1> QED BY <1>6, <1>7, <1>8, <1>9 DEF gs, w

LEMMA IndexFollows ==
    ASSUME NEW fs \in Files, NEW d \in Days, NEW xs \in Seq(OfDay(d)),
           NEW ix \in Index, Agrees(fs, ix)
    PROVE  LET gs == [fs EXCEPT ![d] = fs[d] \o xs]
           IN  /\ Agrees(gs, Indexed(ix, xs, d, Len(fs[d])))
               /\ ToSet(xs) \cap DOMAIN ix.at = {} => Agrees(gs, ix)
<1> DEFINE gs == [fs EXCEPT ![d] = fs[d] \o xs]
           nx == Indexed(ix, xs, d, Len(fs[d]))
<1>1. fs[d] \in Seq(Line(d)) /\ xs \in Seq(Line(d)) /\ Len(fs[d]) \in Nat
  BY FilesAre, Lines1
<1>2. /\ ToSet(fs[d] \o xs) = ToSet(fs[d]) \cup ToSet(xs)
      /\ \A r \in ToSet(xs) : LineOf(fs[d] \o xs, r) = Len(fs[d]) + LineOf(xs, r)
      /\ \A r \in ToSet(fs[d]) \ ToSet(xs) : LineOf(fs[d] \o xs, r) = LineOf(fs[d], r)
  BY <1>1, LinesAdded
<1>3. \A e \in Days : gs[e] = IF e = d THEN fs[d] \o xs ELSE fs[e]
  BY DEF Files
<1>4. \A r \in ToSet(xs) : r \in Records /\ r.day = d
  BY Lines1 DEF OfDay
<1>5. \A r \in DOMAIN ix.at : r \in Records /\ r.day \in Days
  BY IndexIs DEF Days
<1>6. /\ DOMAIN nx.at = DOMAIN ix.at \cup ToSet(xs)
      /\ \A r \in ToSet(xs) : nx.at[r] = <<d, Len(fs[d]) + LineOf(xs, r)>>
      /\ \A r \in DOMAIN ix.at \ ToSet(xs) : nx.at[r] = ix.at[r]
      /\ \A k \in Keys : nx.under[k] = ix.under[k] \cup {r \in ToSet(xs) : k \in KeysOf(r)}
  BY <1>1, IndexedIs
<1> HIDE DEF gs, nx
<1>7. ASSUME NEW r \in DOMAIN ix.at, r \notin ToSet(xs)
      PROVE  r \in ToSet(gs[r.day]) /\ ix.at[r] = <<r.day, LineOf(gs[r.day], r)>>
  <2>1. r \in ToSet(fs[r.day]) /\ ix.at[r] = <<r.day, LineOf(fs[r.day], r)>>
    BY DEF Agrees
  <2>2. CASE r.day = d
    BY <1>2, <1>3, <1>7, <2>1, <2>2
  <2>3. CASE r.day # d
    BY <1>3, <1>5, <2>1, <2>3
  <2> QED BY <2>2, <2>3
<1>8. ASSUME NEW r \in ToSet(xs)
      PROVE  r \in ToSet(gs[r.day]) /\ nx.at[r] = <<r.day, LineOf(gs[r.day], r)>>
  BY <1>2, <1>3, <1>4, <1>6
<1>9. \A k \in Keys : nx.under[k] = {r \in DOMAIN nx.at : k \in KeysOf(r)}
  BY <1>6 DEF Agrees
<1>10. \A r \in DOMAIN nx.at : r \in ToSet(gs[r.day]) /\ nx.at[r] = <<r.day, LineOf(gs[r.day], r)>>
  BY <1>6, <1>7, <1>8
<1>11. Agrees(gs, nx)
  BY <1>9, <1>10 DEF Agrees
<1>12. ASSUME ToSet(xs) \cap DOMAIN ix.at = {} PROVE Agrees(gs, ix)
  <2>1. \A r \in DOMAIN ix.at : r \in ToSet(gs[r.day]) /\ ix.at[r] = <<r.day, LineOf(gs[r.day], r)>>
    BY <1>7, <1>12
  <2> QED BY <2>1 DEF Agrees
<1> QED BY <1>11, <1>12 DEF gs, nx

LEMMA GroupIs ==
    ASSUME NEW g \in Group
    PROVE  /\ g.day \in Days
           /\ g.records \in Seq(OfDay(g.day))
           /\ ToSet(g.records) \subseteq Records
<1>1. PICK d \in Days :
         g \in [day     : {d},
                records : UNION {[1..n -> OfDay(d)] : n \in 1..MaxBatch}]
  BY DEF Group, OfDay
<1>2. g.day = d
  BY <1>1
<1>3. PICK n \in 1..MaxBatch : g.records \in [1..n -> OfDay(d)]
  BY <1>1
<1>4. n \in Nat
  BY EvidenceAssumption
<1>5. g.records \in Seq(OfDay(d))
  BY <1>3, <1>4, SeqDef
<1>6. ToSet(g.records) \subseteq OfDay(d)
  BY <1>5, Lines1
<1> QED BY <1>2, <1>5, <1>6 DEF OfDay

LEMMA BatchIs ==
    ASSUME NEW gs \in Batches
    PROVE  /\ gs \in Seq(Group) /\ gs # <<>>
           /\ \A j, k \in DOMAIN gs : gs[j].day = gs[k].day => j = k
<1>1. PICK n \in 1..MaxBatch : gs \in [1..n -> Group]
  BY DEF Batches
<1>2. n \in Nat /\ n # 0
  BY EvidenceAssumption
<1>3. gs \in Seq(Group)
  BY <1>1, <1>2, SeqDef
<1>4. 1 \in DOMAIN gs
  BY <1>1, <1>2
<1>5. gs # <<>>
  BY <1>4
<1> QED BY <1>3, <1>5 DEF Batches

(* The records of a group that a write which fails leaves in the file. *)
LEMMA Partly ==
    ASSUME NEW g \in Group, NEW ls, NEW lines \in WrittenInPart(ls, g.records)
    PROVE  \E ys \in Seq(Line(g.day)) :
              /\ lines = WrittenAll(ls, ys)
              /\ TORN \notin ToSet(ys) => /\ ys \in Seq(OfDay(g.day))
                                          /\ ToSet(ys) \subseteq ToSet(g.records)
<1> DEFINE xs    == g.records
           d     == g.day
           whole == {SubSeq(xs, 1, k) : k \in 0..(Len(xs) - 1)}
           R     == OfDay(d)
<1>1. PICK ys \in whole \cup {Append(zs, TORN) : zs \in whole} : lines = WrittenAll(ls, ys)
  BY DEF WrittenInPart
<1>2. d \in Days /\ xs \in Seq(R)
  BY GroupIs
<1>3. /\ Len(xs) \in Nat /\ \A k \in 1..Len(xs) : xs[k] \in R
      /\ ToSet(xs) = {xs[k] : k \in 1..Len(xs)}
  BY <1>2, Lines1
<1>4. Seq(R) \subseteq Seq(Line(d)) /\ TORN \in Line(d)
  BY <1>2, FilesAre DEF Line
<1> HIDE DEF xs, d, R
<1>5. ASSUME NEW zs \in whole PROVE zs \in Seq(R) /\ ToSet(zs) \subseteq ToSet(xs)
  <2>1. PICK k \in 0..(Len(xs) - 1) : zs = SubSeq(xs, 1, k)
    BY <1>5
  <2>2. k \in Nat /\ k <= Len(xs)
    BY <1>3, <2>1
  <2>3. \A i \in 1..k : xs[i] \in R
    BY <1>3, <2>2
  <2>4. /\ zs \in Seq(R)
        /\ Len(zs) = IF 1 <= k THEN k - 1 + 1 ELSE 0
        /\ \A i \in 1..(k - 1 + 1) : zs[i] = xs[1 + i - 1]
    BY <2>1, <2>2, <2>3, SubSeqProperties
  <2>5. Len(zs) = k
    BY <2>2, <2>4
  <2>6. \A i \in 1..k : zs[i] = xs[i] /\ i \in 1..Len(xs)
    BY <1>3, <2>2, <2>4
  <2>7. ToSet(zs) = {zs[i] : i \in 1..k}
    BY <2>4, <2>5, Lines1
  <2> QED BY <1>3, <2>4, <2>6, <2>7
<1>6. CASE ys \in whole
  BY <1>1, <1>4, <1>5, <1>6 DEF xs, d, R
<1>7. CASE \E zs \in whole : ys = Append(zs, TORN)
  <2>1. PICK zs \in whole : ys = Append(zs, TORN)
    BY <1>7
  <2>2. zs \in Seq(Line(d))
    BY <1>4, <1>5
  <2> HIDE DEF whole
  <2>3. ys \in Seq(Line(d)) /\ Len(ys) = Len(zs) + 1 /\ ys[Len(zs) + 1] = TORN
    BY <1>4, <2>1, <2>2, AppendProperties
  <2>4. Len(zs) \in Nat
    BY <2>2, LenProperties
  <2>5. TORN \in ToSet(ys)
    BY <2>3, <2>4, Lines1
  <2> QED BY <1>1, <2>3, <2>5 DEF xs, d, R
<1> QED BY <1>1, <1>6, <1>7

-----------------------------------------------------------------------------
(* The steps. *)
Appends(p) == AppendBatch(p) \/ Counts(p) \/ Write(p) \/ WriteFails(p)

Other(p) == \/ Open(p) \/ OpenToAppend(p) \/ Close(p) \/ RebuildIndex(p)
            \/ FlushIndex(p) \/ Flushes(p)

LEMMA Steps ==
    ASSUME [Next]_vars
    PROVE  UNCHANGED vars \/ \E p \in Processes : Appends(p) \/ Other(p)
BY DEF Next, Appends, Other

LEMMA Opened ==
    ASSUME TypeOK, IndexesSound, NEW p \in Processes, Open(p) \/ OpenToAppend(p)
    PROVE  \E ix \in Index \cup {NONE} :
              /\ Opens(p, ix)
              /\ ix # NONE => Sound(ix)
              /\ disk = NONE /\ ix # NONE => Agrees(files, ix)
<1>1. Rebuilt \in Index /\ Sound(Rebuilt) /\ Agrees(files, Rebuilt)
  BY RebuiltAgrees DEF TypeOK
<1>2. CASE OpenToAppend(p)
  BY <1>2 DEF OpenToAppend
<1>3. CASE Open(p) /\ disk \in {NONE, CORRUPT}
  BY <1>1, <1>3 DEF Open
<1>4. CASE Open(p) /\ disk \notin {NONE, CORRUPT}
  BY <1>4 DEF Open, TypeOK, IndexesSound
<1> QED BY <1>2, <1>3, <1>4

(* The group that an appending process comes to next. *)
LEMMA NextGroup ==
    ASSUME TypeOK, Waiting, NEW p \in Processes, phase[p] \in {"counting", "writing"}
    PROVE  LET g == Head(todo[p])  rest == Tail(todo[p])
           IN  /\ g \in Group /\ g = todo[p][1] /\ 1 \in DOMAIN todo[p]
               /\ g.day \in Days /\ g.records \in Seq(OfDay(g.day))
               /\ g.records \in Seq(Line(g.day))
               /\ rest \in Seq(Group)
               /\ \A k \in DOMAIN rest : k + 1 \in DOMAIN todo[p] /\ rest[k] = todo[p][k + 1] /\ k # 0
<1>1. todo[p] \in Seq(Group) /\ todo[p] # <<>>
  BY DEF TypeOK, Waiting, Waits
<1> DEFINE g == Head(todo[p])
           rest == Tail(todo[p])
<1>2. /\ g \in Group /\ g = todo[p][1] /\ rest \in Seq(Group) /\ Len(rest) = Len(todo[p]) - 1
      /\ \A k \in 1..Len(rest) : rest[k] = todo[p][k + 1]
  BY <1>1, HeadTailProperties
<1>3. /\ DOMAIN rest = 1..Len(rest) /\ DOMAIN todo[p] = 1..Len(todo[p])
      /\ Len(todo[p]) \in Nat /\ Len(todo[p]) # 0
  BY <1>1, <1>2, LenProperties, EmptySeq
<1> HIDE DEF g, rest
<1>4. \A k \in DOMAIN rest : k + 1 \in DOMAIN todo[p] /\ rest[k] = todo[p][k + 1] /\ k # 0
  BY <1>2, <1>3
<1>5. 1 \in DOMAIN todo[p]
  BY <1>3
<1>6. g.day \in Days /\ g.records \in Seq(OfDay(g.day))
  BY <1>2, GroupIs
<1>7. g.records \in Seq(Line(g.day))
  BY <1>6, FilesAre DEF TypeOK
<1> QED BY <1>2, <1>4, <1>5, <1>6, <1>7 DEF g, rest

LEMMA TypeInit == Init => TypeOK
<1> SUFFICES ASSUME Init PROVE TypeOK
  OBVIOUS
<1>1. \A S : <<>> \in Seq(S)
  OBVIOUS
<1>2. files \in Files
  BY <1>1 DEF Init, Files
<1> QED BY <1>1, <1>2 DEF Init, TypeOK, Phases

LEMMA TypeOther ==
    ASSUME TypeOK, IndexesSound, Alone, NEW p \in Processes, Other(p)
    PROVE  TypeOK'
<1>1. CASE Open(p) \/ OpenToAppend(p)
  <2>1. PICK ix \in Index \cup {NONE} : Opens(p, ix)
    BY <1>1, Opened
  <2> QED BY <2>1 DEF Opens, TypeOK, Phases
<1>2. CASE Close(p)
  BY <1>2 DEF Close, TypeOK, Phases
<1>3. CASE RebuildIndex(p)
  <2>1. Rebuilt \in Index
    BY RebuiltAgrees DEF TypeOK
  <2> QED BY <1>3, <2>1 DEF RebuildIndex, TypeOK
<1>4. CASE FlushIndex(p)
  BY <1>4 DEF FlushIndex, TypeOK, Phases
<1>5. CASE Flushes(p)
  <2>1. Flushed(index[p]) \in Index
    BY <1>5, FlushedIs DEF TypeOK, IndexesSound, Alone, Flushes
  <2> QED BY <1>5, <2>1 DEF Flushes, TypeOK, Phases
<1> QED BY <1>1, <1>2, <1>3, <1>4, <1>5 DEF Other

LEMMA TypeAppends ==
    ASSUME TypeOK, Waiting, NEW p \in Processes, Appends(p)
    PROVE  TypeOK'
<1>1. CASE AppendBatch(p)
  <2>1. PICK gs \in Batches : todo' = [todo EXCEPT ![p] = gs]
    BY <1>1 DEF AppendBatch
  <2>2. gs \in Seq(Group)
    BY BatchIs
  <2> QED BY <1>1, <2>1, <2>2 DEF AppendBatch, TypeOK, Phases
<1>2. CASE Counts(p)
  <2> DEFINE n == Len(files[Head(todo[p]).day])
  <2>1. Counting(p, n)
    BY <1>2 DEF Counts
  <2>2. n \in Nat
    BY <2>1, NextGroup, FilesAre, Lines1 DEF Counting, TypeOK
  <2> HIDE DEF n
  <2> QED BY <2>1, <2>2 DEF Counting, TypeOK, Phases
<1>3. CASE Write(p)
  <2> DEFINE g == Head(todo[p])
             ix == index[p]
  <2>1. /\ g \in Group /\ g.day \in Days /\ g.records \in Seq(OfDay(g.day))
        /\ g.records \in Seq(Line(g.day)) /\ Tail(todo[p]) \in Seq(Group)
    BY <1>3, NextGroup DEF Write
  <2>2. /\ files' = [files EXCEPT ![g.day] = WrittenAll(files[g.day], g.records)]
        /\ written' = written \cup ToSet(g.records)
        /\ index' = [index EXCEPT ![p] =
                        IF ix = NONE THEN NONE ELSE Indexed(ix, g.records, g.day, start[p])]
        /\ Does(p, Tail(todo[p]))
    BY <1>3 DEF Write, Indexes
  <2>3. files' \in Files
    BY <2>1, <2>2, Appended DEF TypeOK
  <2>4. ix # NONE => Indexed(ix, g.records, g.day, start[p]) \in Index
    BY <2>1, IndexedIs DEF TypeOK
  <2>5. ToSet(g.records) \subseteq Records
    BY <2>1, GroupIs
  <2> HIDE DEF g, ix
  <2> QED BY <2>1, <2>2, <2>3, <2>4, <2>5 DEF Does, TypeOK, Phases
<1>4. CASE WriteFails(p)
  <2> DEFINE g == Head(todo[p])
  <2>1. g \in Group /\ g.day \in Days
    BY <1>4, NextGroup DEF WriteFails
  <2>2. PICK lines \in WrittenInPart(files[g.day], g.records) :
           files' = [files EXCEPT ![g.day] = lines]
    BY <1>4 DEF WriteFails
  <2> HIDE DEF g
  <2>3. PICK ys \in Seq(Line(g.day)) : lines = WrittenAll(files[g.day], ys)
    <3> DEFINE ls == files[g.day]
    <3>1. lines \in WrittenInPart(ls, g.records)
      BY <2>2
    <3> HIDE DEF ls
    <3>2. \E ys \in Seq(Line(g.day)) :
              /\ lines = WrittenAll(ls, ys)
              /\ TORN \notin ToSet(ys) => /\ ys \in Seq(OfDay(g.day))
                                          /\ ToSet(ys) \subseteq ToSet(g.records)
      BY <2>1, <3>1, Partly
    <3> QED BY <3>2 DEF ls
  <2>4. files' \in Files
    BY <2>1, <2>2, <2>3, Appended DEF TypeOK
  <2>5. Does(p, <<>>) /\ UNCHANGED <<index, written>>
    BY <1>4 DEF WriteFails
  <2> QED BY <2>4, <2>5 DEF Does, TypeOK, Phases
<1> QED BY <1>1, <1>2, <1>3, <1>4 DEF Appends

(* What a write, and one that fails, does to the files. *)
LEMMA Wrote ==
    ASSUME TypeOK, Waiting, NEW p \in Processes, Write(p)
    PROVE  LET g == Head(todo[p])
           IN  /\ \A r \in Records : Shows(files, r) => Shows(files', r)
               /\ \A r \in ToSet(g.records) : r.day = g.day /\ Shows(files', r)
               /\ AllParse(files') => /\ files' = [files EXCEPT ![g.day] = files[g.day] \o g.records]
                                      /\ AllParse(files)
<1> DEFINE g == Head(todo[p])
<1>1. g.day \in Days /\ g.records \in Seq(Line(g.day)) /\ g.records \in Seq(OfDay(g.day))
  BY NextGroup DEF Write
<1>2. files' = [files EXCEPT ![g.day] = WrittenAll(files[g.day], g.records)]
  BY DEF Write
<1> HIDE DEF g
<1>3. \A r \in ToSet(g.records) : r.day = g.day
  BY <1>1, Lines1 DEF OfDay
<1>4. \A r \in ToSet(g.records) : {r, GARBLED} \cap ToSet(files'[g.day]) # {}
  BY <1>1, <1>2, Appended DEF TypeOK
<1>5. /\ \A r \in Records : Shows(files, r) => Shows(files', r)
      /\ AllParse(files') => /\ files' = [files EXCEPT ![g.day] = files[g.day] \o g.records]
                             /\ AllParse(files)
  BY <1>1, <1>2, Appended, ZenonT(40) DEF TypeOK
<1> QED BY <1>3, <1>4, <1>5 DEF Shows, g

LEMMA WrotePart ==
    ASSUME TypeOK, Waiting, NEW p \in Processes, WriteFails(p)
    PROVE  LET g == Head(todo[p])
           IN  /\ \A r \in Records : Shows(files, r) => Shows(files', r)
               /\ AllParse(files') =>
                     /\ AllParse(files)
                     /\ \E ys \in Seq(OfDay(g.day)) :
                           /\ files' = [files EXCEPT ![g.day] = files[g.day] \o ys]
                           /\ ToSet(ys) \subseteq ToSet(g.records)
<1> DEFINE g  == Head(todo[p])
           ls == files[g.day]
<1>1. g.day \in Days /\ g \in Group
  BY NextGroup DEF WriteFails
<1>2. PICK lines \in WrittenInPart(ls, g.records) : files' = [files EXCEPT ![g.day] = lines]
  BY DEF WriteFails
<1> HIDE DEF g, ls
<1>3. PICK ys \in Seq(Line(g.day)) :
         /\ lines = WrittenAll(ls, ys)
         /\ TORN \notin ToSet(ys) => /\ ys \in Seq(OfDay(g.day))
                                     /\ ToSet(ys) \subseteq ToSet(g.records)
  BY <1>1, <1>2, Partly
<1>4. files' = [files EXCEPT ![g.day] = WrittenAll(files[g.day], ys)]
  BY <1>2, <1>3 DEF ls
<1>5. /\ \A r \in Records : Shows(files, r) => Shows(files', r)
      /\ AllParse(files') => /\ files' = [files EXCEPT ![g.day] = files[g.day] \o ys]
                             /\ AllParse(files)
                             /\ TORN \notin ToSet(ys)
  BY <1>1, <1>4, Appended, ZenonT(40) DEF TypeOK
<1> QED BY <1>3, <1>5 DEF g

LEMMA LossStep ==
    ASSUME TypeOK, Waiting, LossShows, [Next]_vars
    PROVE  LossShows'
<1>1. written \in SUBSET Records
  BY DEF TypeOK
<1>2. ASSUME UNCHANGED <<files, written>> PROVE LossShows'
  BY <1>2 DEF LossShows, Shows
<1>3. ASSUME NEW p \in Processes, Other(p) PROVE UNCHANGED <<files, written>>
  BY <1>3 DEF Other, Open, OpenToAppend, Opens, Close, RebuildIndex, FlushIndex, Flushes
<1>4. ASSUME NEW p \in Processes, AppendBatch(p) \/ Counts(p) PROVE UNCHANGED <<files, written>>
  BY <1>4 DEF AppendBatch, Counts, Counting
<1>5. ASSUME NEW p \in Processes, Write(p) PROVE LossShows'
  <2>1. written' = written \cup ToSet(Head(todo[p]).records)
    BY <1>5 DEF Write
  <2> QED BY <1>1, <1>5, <2>1, Wrote DEF LossShows
<1>6. ASSUME NEW p \in Processes, WriteFails(p) PROVE LossShows'
  <2>1. written' = written
    BY <1>6 DEF WriteFails
  <2> QED BY <1>1, <1>6, <2>1, WrotePart DEF LossShows
<1>7. UNCHANGED vars => UNCHANGED <<files, written>>
  BY DEF vars
<1> QED BY <1>2, <1>3, <1>4, <1>5, <1>6, <1>7, Steps DEF Appends

LEMMA SoundStep ==
    ASSUME TypeOK, Waiting, Alone, IndexesSound, [Next]_vars
    PROVE  IndexesSound'
<1>1. ASSUME UNCHANGED <<disk, index>> PROVE IndexesSound'
  BY <1>1 DEF IndexesSound
<1>2. ASSUME NEW p \in Processes, NEW ix, ix # NONE => Sound(ix), disk' = disk,
             index' = [index EXCEPT ![p] = ix]
      PROVE  IndexesSound'
  BY <1>2 DEF IndexesSound, TypeOK
<1>3. ASSUME NEW p \in Processes, Open(p) \/ OpenToAppend(p) PROVE IndexesSound'
  <2>1. PICK ix \in Index \cup {NONE} : Opens(p, ix) /\ (ix # NONE => Sound(ix))
    BY <1>3, Opened
  <2> QED BY <1>2, <2>1 DEF Opens
<1>4. ASSUME NEW p \in Processes, Close(p) PROVE IndexesSound'
  BY <1>2, <1>4 DEF Close
<1>5. ASSUME NEW p \in Processes, RebuildIndex(p) PROVE IndexesSound'
  BY <1>2, <1>5, RebuiltAgrees DEF RebuildIndex, TypeOK
<1>6. ASSUME NEW p \in Processes, FlushIndex(p) PROVE IndexesSound'
  BY <1>6 DEF FlushIndex, IndexesSound
<1>7. ASSUME NEW p \in Processes, Flushes(p) PROVE IndexesSound'
  <2>1. Sound(Flushed(index[p]))
    BY <1>7, FlushedIs DEF TypeOK, IndexesSound, Alone, Flushes
  <2> QED BY <1>7, <2>1 DEF Flushes, IndexesSound
<1>8. ASSUME NEW p \in Processes, Write(p) PROVE IndexesSound'
  <2> DEFINE g  == Head(todo[p])
             ix == index[p]
             nx == IF ix = NONE THEN NONE ELSE Indexed(ix, g.records, g.day, start[p])
  <2>1. g.day \in Days /\ g.records \in Seq(OfDay(g.day)) /\ start[p] \in Nat
    BY <1>8, NextGroup DEF Write, TypeOK
  <2>2. index' = [index EXCEPT ![p] = nx] /\ disk' = disk
    BY <1>8 DEF Write, Indexes, Does
  <2>3. ix \in Index \cup {NONE} /\ (ix # NONE => Sound(ix))
    BY DEF TypeOK, IndexesSound
  <2> HIDE DEF ix, g
  <2>4. nx # NONE => Sound(nx)
    BY <2>1, <2>3, IndexedIs
  <2> QED BY <1>2, <2>2, <2>4
<1>9. ASSUME NEW p \in Processes, AppendBatch(p) \/ Counts(p) \/ WriteFails(p)
      PROVE  UNCHANGED <<disk, index>>
  BY <1>9 DEF AppendBatch, Counts, Counting, WriteFails, Does
<1>10. UNCHANGED vars => UNCHANGED <<disk, index>>
  BY DEF vars
<1> QED BY <1>1, <1>3, <1>4, <1>5, <1>6, <1>7, <1>8, <1>9, <1>10, Steps DEF Appends, Other

LEMMA WaitingStep ==
    ASSUME TypeOK, Waiting, IndexesSound, [Next]_vars
    PROVE  Waiting'
<1>1. ASSUME UNCHANGED <<phase, todo, index>> PROVE Waiting'
  BY <1>1 DEF Waiting
<1>2. ASSUME NEW p \in Processes, NEW ph, NEW gs, NEW ix, Waits(ph, gs, ix),
             phase' = [phase EXCEPT ![p] = ph], todo' = [todo EXCEPT ![p] = gs],
             index' = [index EXCEPT ![p] = ix]
      PROVE  Waiting'
  BY <1>2 DEF Waiting, TypeOK
<1>3. ASSUME NEW ph, ph \notin {"counting", "writing"}, NEW ix PROVE Waits(ph, <<>>, ix)
  BY <1>3 DEF Waits, Contents
<1>4. ASSUME NEW p \in Processes
      PROVE  /\ phase = [phase EXCEPT ![p] = phase[p]]
             /\ todo = [todo EXCEPT ![p] = todo[p]]
             /\ index = [index EXCEPT ![p] = index[p]]
             /\ phase[p] \notin {"counting", "writing"} => todo[p] = <<>>
  BY DEF TypeOK, Waiting, Waits
<1>5. ASSUME NEW p \in Processes, Open(p) \/ OpenToAppend(p) PROVE Waiting'
  <2>1. PICK ix \in Index \cup {NONE} : Opens(p, ix)
    BY <1>5, Opened
  <2>2. /\ phase[p] = "closed" /\ todo' = todo
        /\ phase' = [phase EXCEPT ![p] = "idle"] /\ index' = [index EXCEPT ![p] = ix]
    BY <2>1 DEF Opens
  <2>3. todo' = [todo EXCEPT ![p] = <<>>]
    BY <1>4, <2>2
  <2>4. Waits("idle", <<>>, ix)
    BY <1>3
  <2> QED BY <1>2, <2>2, <2>3, <2>4
<1>6. ASSUME NEW p \in Processes, Close(p) PROVE Waiting'
  <2>1. Waits("closed", <<>>, NONE)
    BY <1>3
  <2> QED BY <1>2, <1>6, <2>1 DEF Close
<1>7. ASSUME NEW p \in Processes, RebuildIndex(p) PROVE Waiting'
  <2>1. /\ phase[p] = "idle" /\ UNCHANGED <<phase, todo>>
        /\ index' = [index EXCEPT ![p] = Rebuilt]
    BY <1>7 DEF RebuildIndex
  <2>2. phase' = [phase EXCEPT ![p] = "idle"] /\ todo' = [todo EXCEPT ![p] = <<>>]
    BY <1>4, <2>1
  <2>3. Waits("idle", <<>>, Rebuilt)
    BY <1>3
  <2> QED BY <1>2, <2>1, <2>2, <2>3
<1>8. ASSUME NEW p \in Processes, FlushIndex(p) \/ Flushes(p) PROVE Waiting'
  <2>1. PICK ph \in {"idle", "flushing"} : phase' = [phase EXCEPT ![p] = ph]
    BY <1>8 DEF FlushIndex, Flushes
  <2>2. phase[p] \notin {"counting", "writing"} /\ UNCHANGED <<todo, index>>
    BY <1>8 DEF FlushIndex, Flushes
  <2>3. todo' = [todo EXCEPT ![p] = <<>>] /\ index' = [index EXCEPT ![p] = index[p]]
    BY <1>4, <2>2
  <2>4. ph \notin {"counting", "writing"}
    OBVIOUS
  <2>5. Waits(ph, <<>>, index[p])
    BY <1>3, <2>4
  <2> QED BY <1>2, <2>1, <2>3, <2>5
<1>9. ASSUME NEW p \in Processes, AppendBatch(p) PROVE Waiting'
  <2>1. PICK gs \in Batches : /\ index[p] # NONE => Contents(gs) \cap DOMAIN index[p].at = {}
                              /\ todo' = [todo EXCEPT ![p] = gs]
    BY <1>9 DEF AppendBatch
  <2>2. phase' = [phase EXCEPT ![p] = "counting"] /\ index' = [index EXCEPT ![p] = index[p]]
    BY <1>4, <1>9 DEF AppendBatch
  <2>3. Waits("counting", gs, index[p])
    BY <2>1, BatchIs DEF Waits
  <2> QED BY <1>2, <2>1, <2>2, <2>3
<1>10. ASSUME NEW p \in Processes, Counts(p) PROVE Waiting'
  <2>1. /\ phase[p] = "counting" /\ phase' = [phase EXCEPT ![p] = "writing"]
        /\ UNCHANGED <<todo, index>>
    BY <1>10 DEF Counts, Counting
  <2> QED BY <2>1 DEF Waiting, Waits, TypeOK
<1>11. ASSUME NEW p \in Processes, Write(p) PROVE Waiting'
  <2> DEFINE g    == Head(todo[p])
             rest == Tail(todo[p])
             ix   == index[p]
             nx   == IF ix = NONE THEN NONE ELSE Indexed(ix, g.records, g.day, start[p])
             ph   == IF rest = <<>> THEN "idle" ELSE "counting"
  <2>1. /\ phase[p] = "writing" /\ todo' = [todo EXCEPT ![p] = rest]
        /\ index' = [index EXCEPT ![p] = nx] /\ phase' = [phase EXCEPT ![p] = ph]
    BY <1>11 DEF Write, Indexes, Does
  <2>2. /\ g \in Group /\ g = todo[p][1] /\ 1 \in DOMAIN todo[p] /\ rest \in Seq(Group)
        /\ g.day \in Days /\ g.records \in Seq(OfDay(g.day))
        /\ \A k \in DOMAIN rest : k + 1 \in DOMAIN todo[p] /\ rest[k] = todo[p][k + 1] /\ k # 0
    BY <2>1, NextGroup
  <2>3. DOMAIN rest \subseteq Nat
    BY <2>2, LenProperties
  <2>4. ix \in Index \cup {NONE} /\ start[p] \in Nat
    BY DEF TypeOK
  <2>5. Waits("writing", todo[p], ix)
    BY <2>1 DEF Waiting
  <2>6. \A k \in DOMAIN rest : rest[k].day # g.day
    <3> SUFFICES ASSUME NEW k \in DOMAIN rest, rest[k].day = g.day PROVE FALSE
      OBVIOUS
    <3>1. k + 1 \in DOMAIN todo[p] /\ todo[p][k + 1].day = todo[p][1].day /\ k \in Nat /\ k # 0
      BY <2>2, <2>3
    <3>2. k + 1 = 1
      BY <2>2, <2>5, <3>1 DEF Waits
    <3> QED BY <3>1, <3>2
  <2>7. Contents(rest) \subseteq Contents(todo[p])
    BY <2>2 DEF Contents
  <2>8. \A r \in Contents(rest) : r.day # g.day
    <3> SUFFICES ASSUME NEW k \in DOMAIN rest, NEW r \in ToSet(rest[k].records)
                 PROVE  r.day # g.day
      BY DEF Contents
    <3>1. rest[k] \in Group
      BY <2>2, LenProperties, ElementOfSeq
    <3> DEFINE h == rest[k]
    <3> HIDE DEF h
    <3>2. h \in Group
      BY <3>1 DEF h
    <3>3. h.records \in Seq(OfDay(h.day))
      BY <3>2, GroupIs
    <3>4. ToSet(h.records) \subseteq OfDay(h.day)
      BY <3>3, Lines1
    <3> QED BY <2>6, <3>4 DEF h, OfDay
  <2>9. \A r \in ToSet(g.records) : r.day = g.day
    BY <2>2, Lines1 DEF OfDay
  <2>10. \A j, k \in DOMAIN rest : rest[j].day = rest[k].day => j = k
    <3> SUFFICES ASSUME NEW j \in DOMAIN rest, NEW k \in DOMAIN rest, rest[j].day = rest[k].day
                 PROVE  j = k
      OBVIOUS
    <3>1. j + 1 = k + 1
      BY <2>2, <2>5 DEF Waits
    <3> QED BY <2>3, <3>1
  <2> HIDE DEF g, rest, ix
  <2>11. ASSUME nx # NONE PROVE Contents(rest) \cap DOMAIN nx.at = {}
    <3>1. ix \in Index /\ nx = Indexed(ix, g.records, g.day, start[p])
      BY <2>4, <2>11
    <3>2. DOMAIN nx.at = DOMAIN ix.at \cup ToSet(g.records)
      BY <2>2, <2>4, <3>1, IndexedIs
    <3>3. ix # NONE
      BY <2>11
    <3>4. Contents(todo[p]) \cap DOMAIN ix.at = {}
      BY <2>5, <3>3 DEF Waits
    <3> QED BY <2>7, <2>8, <2>9, <3>2, <3>4
  <2>12. Waits(ph, rest, nx)
    <3> HIDE DEF nx
    <3> QED BY <2>10, <2>11 DEF Waits
  <2> HIDE DEF nx, ph
  <2> QED BY <1>2, <2>1, <2>12
<1>12. ASSUME NEW p \in Processes, WriteFails(p) PROVE Waiting'
  <2>1. /\ todo' = [todo EXCEPT ![p] = <<>>] /\ phase' = [phase EXCEPT ![p] = "idle"]
        /\ index' = [index EXCEPT ![p] = index[p]]
    BY <1>4, <1>12 DEF WriteFails, Does
  <2>2. Waits("idle", <<>>, index[p])
    BY <1>3
  <2> QED BY <1>2, <2>1, <2>2
<1>13. UNCHANGED vars => UNCHANGED <<phase, todo, index>>
  BY DEF vars
<1> QED BY <1>1, <1>5, <1>6, <1>7, <1>8, <1>9, <1>10, <1>11, <1>12, <1>13, Steps DEF Appends, Other

(* A process that works has opened the store. *)
LEMMA Works ==
    ASSUME TypeOK, IndexesSound, Alone, NEW p \in Processes, Appends(p) \/ Other(p),
           ~(Open(p) \/ OpenToAppend(p))
    PROVE  /\ phase[p] # "closed" /\ opens # 0 /\ opens' = opens
           /\ \A q \in Processes \ {p} : /\ phase'[q] = phase[q] /\ index'[q] = index[q]
                                         /\ opens = 1 => phase[q] = "closed" /\ index[q] = NONE
<1>1. phase[p] # "closed" /\ opens' = opens
  BY DEF Appends, Other, Close, RebuildIndex, FlushIndex, Flushes, AppendBatch, Counts,
         Counting, Write, WriteFails, Does
<1>2. opens # 0
  BY <1>1 DEF Alone
<1>3. ASSUME NEW q \in Processes \ {p} PROVE phase'[q] = phase[q] /\ index'[q] = index[q]
  BY <1>3 DEF TypeOK, Appends, Other, Close, RebuildIndex, FlushIndex, Flushes, AppendBatch,
              Counts, Counting, Write, WriteFails, Does, Indexes
<1>4. ASSUME NEW q \in Processes \ {p}, opens = 1 PROVE phase[q] = "closed" /\ index[q] = NONE
  BY <1>1, <1>4 DEF Alone
<1> QED BY <1>1, <1>2, <1>3, <1>4

LEMMA AloneStep ==
    ASSUME TypeOK, IndexesSound, Waiting, Alone, [Next]_vars
    PROVE  Alone'
<1>1. UNCHANGED vars => Alone'
  BY DEF vars, Alone
<1>2. ASSUME NEW p \in Processes, Open(p) \/ OpenToAppend(p) PROVE Alone'
  <2>1. PICK ix \in Index \cup {NONE} : Opens(p, ix)
    BY <1>2, Opened
  <2>2. /\ phase' = [phase EXCEPT ![p] = "idle"] /\ index' = [index EXCEPT ![p] = ix]
        /\ opens' = opens + 1 /\ UNCHANGED <<disk, start, todo, files>>
    BY <2>1 DEF Opens
  <2>3. opens' # 0 /\ (opens' = 1 => opens = 0)
    BY <2>2 DEF TypeOK
  <2>4. \A q \in Processes \ {p} : phase'[q] = phase[q] /\ index'[q] = index[q]
    BY <2>2 DEF TypeOK
  <2>5. phase'[p] = "idle"
    BY <2>2 DEF TypeOK
  <2>6. opens' = 1 => \A q \in Processes \ {p} : phase'[q] = "closed"
    BY <2>3, <2>4 DEF Alone
  <2> QED BY <2>3, <2>4, <2>5, <2>6 DEF Alone
<1>3. ASSUME NEW p \in Processes, Appends(p) \/ Other(p), ~(Open(p) \/ OpenToAppend(p))
      PROVE  Alone'
  <2>1. /\ phase[p] # "closed" /\ opens # 0 /\ opens' = opens
        /\ \A q \in Processes \ {p} : /\ phase'[q] = phase[q] /\ index'[q] = index[q]
                                      /\ opens = 1 => phase[q] = "closed" /\ index[q] = NONE
    BY <1>3, Works
  <2>2. /\ phase'[p] = "closed" => index'[p] = NONE
        /\ phase'[p] = "flushing" => index'[p] # NONE
    <3>1. CASE Close(p)
      BY <3>1 DEF Close, TypeOK
    <3>2. CASE RebuildIndex(p)
      BY <3>2 DEF RebuildIndex, TypeOK
    <3>3. CASE FlushIndex(p)
      BY <3>3 DEF FlushIndex, TypeOK
    <3>4. CASE Flushes(p)
      BY <3>4 DEF Flushes, TypeOK
    <3>5. CASE Appends(p)
      <4>1. phase'[p] \notin {"closed", "flushing"}
        BY <3>5 DEF Appends, AppendBatch, Counts, Counting, Write, WriteFails, Does, TypeOK
      <4> QED BY <4>1
    <3> QED BY <1>3, <3>1, <3>2, <3>3, <3>4, <3>5 DEF Other
  <2>3. ASSUME phase'[p] = "writing" PROVE start'[p] = Len(files'[Head(todo'[p]).day])
    <3>1. CASE Other(p)
      BY <1>3, <2>3, <3>1 DEF Other, Close, RebuildIndex, FlushIndex, Flushes, TypeOK
    <3>2. CASE Counts(p)
      BY <3>2 DEF Counts, Counting, TypeOK
    <3>3. CASE AppendBatch(p) \/ Write(p) \/ WriteFails(p)
      BY <2>3, <3>3 DEF AppendBatch, Write, WriteFails, Does, TypeOK
    <3> QED BY <1>3, <3>1, <3>2, <3>3 DEF Appends
  <2> QED BY <2>1, <2>2, <2>3 DEF Alone
<1> QED BY <1>1, <1>2, <1>3, Steps

LEMMA KeptStep ==
    ASSUME TypeOK, TypeOK', IndexesSound, Waiting, Alone, Kept, [Next]_vars
    PROVE  Kept'
<1> SUFFICES ASSUME NEW q \in Processes, opens' = 1, index'[q] # NONE, AllParse(files')
             PROVE  Agrees(files', index'[q])
  BY DEF Kept
<1>1. CASE UNCHANGED vars
  BY <1>1 DEF vars, Kept
<1>2. ASSUME NEW p \in Processes, Open(p) \/ OpenToAppend(p) PROVE Agrees(files', index'[q])
  <2>1. PICK ix \in Index \cup {NONE} :
           Opens(p, ix) /\ (disk = NONE /\ ix # NONE => Agrees(files, ix))
    BY <1>2, Opened
  <2>2. index' = [index EXCEPT ![p] = ix] /\ opens' = opens + 1 /\ files' = files
    BY <2>1 DEF Opens
  <2>3. opens = 0
    BY <2>2 DEF TypeOK
  <2>4. disk = NONE /\ index[q] = NONE
    BY <2>3 DEF Alone
  <2>5. q = p /\ index'[q] = ix
    BY <2>2, <2>4 DEF TypeOK
  <2> QED BY <2>1, <2>2, <2>4, <2>5
<1>3. ASSUME NEW p \in Processes, Appends(p) \/ Other(p), ~(Open(p) \/ OpenToAppend(p))
      PROVE  Agrees(files', index'[q])
  <2>1. /\ opens = 1 /\ phase[p] # "closed" /\ q = p
        /\ \A r \in Processes : r # q => index'[r] = NONE
    BY <1>3, Works
  <2>2. CASE UNCHANGED <<files, index>>
    BY <2>1, <2>2 DEF Kept
  <2>3. CASE Close(p)
    BY <2>1, <2>3 DEF Close, TypeOK
  <2>4. CASE RebuildIndex(p)
    BY <2>1, <2>4, RebuiltAgrees DEF RebuildIndex, TypeOK
  <2>5. CASE Write(p)
    <3> DEFINE g  == Head(todo[p])
               ix == index[p]
               n  == start[p]
    <3>1. /\ index'[p] = IF ix = NONE THEN NONE ELSE Indexed(ix, g.records, g.day, n)
          /\ phase[p] = "writing"
      BY <2>5 DEF Write, Indexes, TypeOK
    <3>2. g.day \in Days /\ g.records \in Seq(OfDay(g.day))
      BY <3>1, NextGroup
    <3>3. files' = [files EXCEPT ![g.day] = files[g.day] \o g.records] /\ AllParse(files)
      BY <2>5, Wrote
    <3>4. ix \in Index /\ Agrees(files, ix) /\ ix # NONE
      BY <2>1, <3>1, <3>3 DEF Kept, TypeOK
    <3>5. n = Len(files[g.day])
      BY <2>1, <3>1 DEF Alone
    <3> HIDE DEF g, ix, n
    <3>6. files \in Files
      BY DEF TypeOK
    <3>7. Agrees([files EXCEPT ![g.day] = files[g.day] \o g.records],
                 Indexed(ix, g.records, g.day, Len(files[g.day])))
      BY <3>2, <3>4, <3>6, IndexFollows
    <3> QED BY <2>1, <3>1, <3>3, <3>4, <3>5, <3>7
  <2>6. CASE WriteFails(p)
    <3> DEFINE g  == Head(todo[p])
               ix == index[p]
    <3>1. index' = index /\ phase[p] = "writing"
      BY <2>6 DEF WriteFails
    <3>2. g.day \in Days /\ g.records \in Seq(OfDay(g.day)) /\ g = todo[p][1] /\ 1 \in DOMAIN todo[p]
      BY <3>1, NextGroup
    <3>3. AllParse(files) /\ \E ys \in Seq(OfDay(g.day)) :
             /\ files' = [files EXCEPT ![g.day] = files[g.day] \o ys]
             /\ ToSet(ys) \subseteq ToSet(g.records)
      BY <2>6, WrotePart
    <3>4. PICK ys \in Seq(OfDay(g.day)) :
             /\ files' = [files EXCEPT ![g.day] = files[g.day] \o ys]
             /\ ToSet(ys) \subseteq ToSet(g.records)
      BY <3>3
    <3>5. ix \in Index /\ Agrees(files, ix) /\ ix # NONE
      BY <2>1, <3>1, <3>3 DEF Kept, TypeOK
    <3>6. Contents(todo[p]) \cap DOMAIN ix.at = {}
      BY <3>5 DEF Waiting, Waits
    <3>7. ToSet(g.records) \subseteq Contents(todo[p])
      BY <3>2 DEF Contents
    <3> HIDE DEF g, ix
    <3>8. ToSet(ys) \cap DOMAIN ix.at = {} /\ files \in Files
      BY <3>4, <3>6, <3>7 DEF TypeOK
    <3>9. Agrees([files EXCEPT ![g.day] = files[g.day] \o ys], ix)
      BY <3>2, <3>5, <3>8, IndexFollows
    <3> QED BY <2>1, <3>1, <3>4, <3>9 DEF ix
  <2> QED BY <1>3, <2>2, <2>3, <2>4, <2>5, <2>6
          DEF Appends, Other, AppendBatch, Counts, Counting, FlushIndex, Flushes
<1> QED BY <1>1, <1>2, <1>3, Steps

-----------------------------------------------------------------------------
LEMMA Invariance == Spec => []IInv
<1>1. Init => IInv
  <2> SUFFICES ASSUME Init PROVE IInv
    OBVIOUS
  <2>1. TypeOK
    BY TypeInit
  <2>2. IndexesSound /\ LossShows /\ Kept
    BY DEF Init, IndexesSound, LossShows, Kept
  <2>3. Waiting
    BY DEF Init, Waiting, Waits, Contents
  <2>4. Alone
    BY DEF Init, Alone
  <2> QED BY <2>1, <2>2, <2>3, <2>4 DEF IInv
<1>2. IInv /\ [Next]_vars => IInv'
  <2> SUFFICES ASSUME IInv, [Next]_vars PROVE IInv'
    OBVIOUS
  <2>1. UNCHANGED vars => TypeOK'
    BY DEF vars, IInv, TypeOK
  <2>2. TypeOK'
    BY <2>1, Steps, TypeAppends, TypeOther DEF IInv
  <2> QED BY <2>2, SoundStep, LossStep, WaitingStep, AloneStep, KeptStep DEF IInv
<1> QED BY <1>1, <1>2, PTL DEF Spec

(* The files, indexes and saved index are of their types: every line of a    *)
(* file is a record of its day, or torn, or garbled.                         *)
THEOREM EvidenceTyped == Spec => []TypeOK
BY Invariance, PTL DEF IInv

(* A query answers with what is on disk, however stale the index is. *)
THEOREM EvidenceLookupNeverLies == Spec => []LookupNeverLies
<1>1. IInv => LookupNeverLies
  BY LookupLemma DEF IInv
<1> QED BY <1>1, Invariance, PTL

(* A rebuilt index finds every record on disk. *)
THEOREM EvidenceRebuildFindsAll == Spec => []RebuildFindsAll
<1>1. IInv => RebuildFindsAll
  BY RebuildLemma DEF IInv
<1> QED BY <1>1, Invariance, PTL

(* The index of an only writer says what a rebuilt one would. *)
THEOREM EvidenceKeptAsRebuilt == Spec => []KeptAsRebuilt
<1>1. IInv => KeptAsRebuilt
  BY KeptLemma DEF IInv
<1> QED BY <1>1, Invariance, PTL

(* A store that verifies has lost nothing that was written. *)
THEOREM EvidenceVerifiedHasAllWritten == Spec => []VerifiedHasAllWritten
<1>1. IInv => VerifiedHasAllWritten
  BY VerifiedLemma DEF IInv
<1> QED BY <1>1, Invariance, PTL
=============================================================================
