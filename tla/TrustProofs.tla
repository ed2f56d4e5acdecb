----------------------------- MODULE TrustProofs ----------------------------
(***************************************************************************)
(* What a pin is worth.  In three parts: the differ's verdict, on which a  *)
(* server is re-pinned without anyone asked (ToolContract), for every set  *)
(* of schemas, revisions and arguments; what the TrustStore's operations   *)
(* keep, for every differ, policy and record; and the theorems of a        *)
(* session over the store, for every differ, policy, set of ids and bound. *)
(***************************************************************************)
EXTENDS TrustSession, ToolContract, SequenceTheorems, FiniteSetTheorems,
        WellFoundedInduction, TLAPS

-----------------------------------------------------------------------------
\* The differ's verdict.

\* A set of numbers that is not empty has a least one.
LEMMA LeastNat ==
  ASSUME NEW T \in SUBSET Nat, T # {}
  PROVE  \E n \in T : \A m \in T : n <= m
  <1> DEFINE R == OpToRel(<, Nat)
  <1>1. \A m, n \in Nat : m < n => <<m, n>> \in R
    BY DEF OpToRel
  <1>2. PICK n \in T : \A m \in T : <<m, n>> \notin R
    <2> HIDE DEF R
    <2>1. IsWellFoundedOn(R, Nat)
      BY NatLessThanWellFounded DEF R
    <2>2. QED
      BY <2>1, WFMin
  <1> HIDE DEF R
  <1>3. \A m \in T : m \in Nat /\ n \in Nat /\ ~(m < n)
    BY <1>1, <1>2
  <1>4. \A m \in T : n <= m
    BY <1>3
  <1>5. QED
    BY <1>4

\* The levels after no note, after one, ... and after the last.
After(level, notes, m, f) ==
  f = [k \in 0..m |-> IF k = 0 THEN level ELSE Noted(f[k - 1], notes[k])]

LEMMA AfterExists ==
  ASSUME NEW level, NEW notes, NEW m \in Nat
  PROVE  \E f : After(level, notes, m, f)
  <1> DEFINE Bad == {k \in Nat : ~ \E f : After(level, notes, k, f)}
  <1>1. SUFFICES ASSUME Bad # {} PROVE FALSE
    OBVIOUS
  <1>2. PICK n \in Bad : \A k \in Bad : n <= k
    <2>1. Bad \in SUBSET Nat
      OBVIOUS
    <2> HIDE DEF Bad
    <2>2. QED
      BY <1>1, <2>1, LeastNat
  <1>3. n \in Nat /\ ~ \E f : After(level, notes, n, f)
    OBVIOUS
  <1>4. n # 0
    <2> DEFINE f == [k \in 0..0 |-> level]
    <2>1. \A k \in 0..0 : k = 0
      OBVIOUS
    <2>2. f = [k \in 0..0 |-> IF k = 0 THEN level ELSE Noted(f[k - 1], notes[k])]
      BY <2>1
    <2>3. After(level, notes, 0, f)
      BY <2>2 DEF After
    <2>4. QED
      BY <1>3, <2>3
  <1>5. n - 1 \in Nat /\ n - 1 < n
    BY <1>3, <1>4
  <1>6. PICK f : After(level, notes, n - 1, f)
    <2>1. n - 1 \notin Bad
      BY <1>2, <1>5
    <2>2. QED
      BY <1>5, <2>1
  <1> DEFINE g == [k \in 0..n |-> IF k = n THEN Noted(f[n - 1], notes[n]) ELSE f[k]]
  <1>7. \A k \in 0..n :
          g[k] = IF k = 0 THEN level ELSE Noted(g[k - 1], notes[k])
    <2>1. \A k \in 0..(n - 1) :
            f[k] = IF k = 0 THEN level ELSE Noted(f[k - 1], notes[k])
      BY <1>6 DEF After
    <2>2. \A k \in 0..n : k = n \/ k \in 0..(n - 1)
      BY <1>3
    <2>3. \A k \in 0..(n - 1) : g[k] = f[k] /\ k \in 0..n /\ k # n
      BY <1>3
    <2>4. \A k \in 0..n : k # 0 => k - 1 \in 0..(n - 1)
      BY <1>3
    <2>5. g[n] = Noted(f[n - 1], notes[n]) /\ 0 \in 0..n
      BY <1>3
    <2> HIDE DEF g
    <2> SUFFICES ASSUME NEW k \in 0..n
                 PROVE  g[k] = IF k = 0 THEN level ELSE Noted(g[k - 1], notes[k])
      OBVIOUS
    <2>6. CASE k = n
      BY <1>4, <2>3, <2>4, <2>5, <2>6
    <2>7. CASE k # n
      <3>1. k \in 0..(n - 1) /\ g[k] = f[k]
        BY <2>2, <2>3, <2>7
      <3>2. k # 0 => g[k - 1] = f[k - 1]
        BY <2>3, <2>4
      <3>3. QED
        BY <2>1, <3>1, <3>2
    <2>8. QED
      BY <2>6, <2>7
  <1>8. g = [k \in 0..n |-> IF k = 0 THEN level ELSE Noted(g[k - 1], notes[k])]
    BY <1>7, Zenon
  <1>9. QED
    BY <1>3, <1>8 DEF After

LEMMA JoinedLemma ==
  ASSUME NEW level, NEW S, NEW notes \in Seq(S)
  PROVE  \E f : /\ f[0] = level
                /\ \A k \in 1..Len(notes) : f[k] = Noted(f[k - 1], notes[k])
                /\ Joined(level, notes) = f[Len(notes)]
  <1> DEFINE N == Len(notes)
             f == CHOOSE f : After(level, notes, N, f)
  <1>1. N \in Nat
    BY LenProperties
  <1>2. After(level, notes, N, f)
    BY <1>1, AfterExists
  <1>3. Joined(level, notes) = f[N]
    BY DEF Joined, After
  <1> HIDE DEF f
  <1>4. \A k \in 0..N : f[k] = IF k = 0 THEN level ELSE Noted(f[k - 1], notes[k])
    BY <1>2 DEF After
  <1>5. 0 \in 0..N /\ \A k \in 1..N : k \in 0..N /\ k # 0
    BY <1>1
  <1>6. QED
    BY <1>3, <1>4, <1>5

LEMMA RanksLemma == NoNote \notin Ranked /\ \A x \in Ranked : CHANGE_LEVEL[x] \in Nat
  BY DEF Ranked, CHANGE_LEVEL, NoNote

\* A note that has a rank is not lost, if those after it have one.
LEMMA NotedLemma ==
  ASSUME NEW level, NEW note
  PROVE  /\ level \in Ranked /\ note \in Ranked \union {NoNote}
              => /\ Noted(level, note) \in Ranked
                 /\ CHANGE_LEVEL[Noted(level, note)] >= CHANGE_LEVEL[level]
         /\ note \in Ranked => /\ Noted(level, note) \in Ranked
                               /\ CHANGE_LEVEL[Noted(level, note)] >= CHANGE_LEVEL[note]
  <1>1. \A x \in Ranked : CHANGE_LEVEL[x] \in Nat
    BY RanksLemma
  <1>2. "" \notin Ranked
    BY RanksLemma DEF NoNote
  <1> DEFINE rank(x) == CHANGE_LEVEL[x]
  <1>3. ASSUME level \in Ranked, note \in Ranked
        PROVE  \/ Noted(level, note) = level /\ rank(level) >= rank(note)
               \/ Noted(level, note) = note /\ rank(note) >= rank(level)
    <2>1. note # NoNote
      BY <1>3, RanksLemma
    <2>2. Noted(level, note) = MaxLevel(level, note)
      BY <2>1 DEF Noted
    <2>3. {level, note} \subseteq Ranked
      BY <1>3
    <2>4. rank(level) \in Nat /\ rank(note) \in Nat
      BY <1>1, <1>3
    <2>5. CASE rank(level) >= rank(note)
      BY <2>2, <2>3, <2>5 DEF MaxLevel
    <2>6. CASE ~(rank(level) >= rank(note))
      <3>1. MaxLevel(level, note) = note
        BY <2>6 DEF MaxLevel
      <3>2. QED
        BY <2>2, <2>4, <2>6, <3>1
    <2>7. QED
      BY <2>5, <2>6
  <1>4. level \notin Ranked /\ note \in Ranked => Noted(level, note) = note
    BY <1>2 DEF Noted, MaxLevel, NoNote
  <1>5. Noted(level, NoNote) = level
    BY DEF Noted
  <1>6. QED
    BY <1>1, <1>3, <1>4, <1>5

\* The join of notes is no lower than a ranked note that no unranked one follows.
LEMMA NoteKept ==
  ASSUME NEW level, NEW S, NEW notes \in Seq(S), NEW i \in 1..Len(notes),
         notes[i] \in Ranked,
         \A k \in i..Len(notes) : notes[k] \in Ranked \union {NoNote}
  PROVE  /\ Joined(level, notes) \in Ranked
         /\ CHANGE_LEVEL[Joined(level, notes)] >= CHANGE_LEVEL[notes[i]]
  <1> DEFINE N == Len(notes)
             Good(x) == x \in Ranked /\ CHANGE_LEVEL[x] >= CHANGE_LEVEL[notes[i]]
  <1>1. N \in Nat /\ i \in Nat /\ 1 <= i /\ i <= N
    BY LenProperties
  <1>2. PICK f : /\ \A k \in 1..N : f[k] = Noted(f[k - 1], notes[k])
                 /\ Joined(level, notes) = f[N]
    BY JoinedLemma
  <1> DEFINE Bad == {k \in i..N : ~Good(f[k])}
  <1>3. SUFFICES ASSUME Bad # {} PROVE FALSE
    BY <1>1, <1>2
  <1>4. PICK n \in Bad : \A k \in Bad : n <= k
    <2>1. Bad \in SUBSET Nat
      BY <1>1
    <2> HIDE DEF Bad
    <2>2. QED
      BY <1>3, <2>1, LeastNat
  <1>5. n \in i..N /\ n \in 1..N /\ ~Good(f[n]) /\ f[n] = Noted(f[n - 1], notes[n])
    BY <1>1, <1>2
  <1>6. n # i
    <2>1. Good(Noted(f[i - 1], notes[i]))
      BY NotedLemma
    <2>2. QED
      BY <1>5, <2>1
  <1>7. n - 1 \in i..N /\ n - 1 < n
    BY <1>1, <1>5, <1>6
  <1>8. Good(f[n - 1])
    BY <1>1, <1>4, <1>5, <1>7
  <1>9. /\ f[n] \in Ranked
        /\ CHANGE_LEVEL[f[n]] >= CHANGE_LEVEL[f[n - 1]]
    BY <1>5, <1>8, NotedLemma
  <1>10. QED
    BY <1>5, <1>8, <1>9, RanksLemma

\* Ranked notes join to a ranked level, which is no lower than any of them.
LEMMA RankedJoin ==
  ASSUME NEW level \in Ranked, NEW S, NEW notes \in Seq(S),
         ToSet(notes) \subseteq Ranked \union {NoNote}
  PROVE  /\ Joined(level, notes) \in Ranked
         /\ Compatible(Joined(level, notes))
              => \A x \in ToSet(notes) : x = NoNote \/ Compatible(x)
  <1> DEFINE N == Len(notes)
  <1>1. N \in Nat /\ ToSet(notes) = {notes[k] : k \in 1..N}
    BY LenProperties DEF ToSet
  <1>2. \A k \in 1..N : notes[k] \in Ranked \union {NoNote}
    BY <1>1
  <1>3. PICK f : /\ f[0] = level
                 /\ \A k \in 1..N : f[k] = Noted(f[k - 1], notes[k])
                 /\ Joined(level, notes) = f[N]
    BY JoinedLemma
  <1>4. f[N] \in Ranked
    <2> DEFINE Bad == {k \in 0..N : f[k] \notin Ranked}
    <2>1. SUFFICES ASSUME Bad # {} PROVE FALSE
      BY <1>1
    <2>2. PICK n \in Bad : \A k \in Bad : n <= k
      <3>1. Bad \in SUBSET Nat
        BY <1>1
      <3> HIDE DEF Bad
      <3>2. QED
        BY <2>1, <3>1, LeastNat
    <2>3. n # 0 /\ n \in 0..N /\ f[n] \notin Ranked
      BY <1>3
    <2>4. n \in 1..N /\ n - 1 \in 0..N /\ n - 1 < n
      BY <1>1, <2>3
    <2>5. f[n - 1] \in Ranked
      BY <1>1, <2>2, <2>3, <2>4
    <2>6. QED
      BY <1>2, <1>3, <2>3, <2>4, <2>5, NotedLemma
  <1>5. ASSUME Compatible(Joined(level, notes)), NEW x \in ToSet(notes), x # NoNote
        PROVE  Compatible(x)
    <2>1. PICK i \in 1..N : x = notes[i]
      BY <1>1
    <2>2. notes[i] \in Ranked /\ \A k \in i..N : notes[k] \in Ranked \union {NoNote}
      BY <1>1, <1>2, <1>5, <2>1
    <2>3. CHANGE_LEVEL[Joined(level, notes)] >= CHANGE_LEVEL[notes[i]]
      BY <2>2, NoteKept
    <2>4. CHANGE_LEVEL["NON_BREAKING"] = 2
      BY DEF CHANGE_LEVEL
    <2>5. QED
      BY <1>5, <2>1, <2>2, <2>3, <2>4, RanksLemma DEF Compatible
  <1>6. QED
    BY <1>3, <1>4, <1>5

\* A note that is given, or none.
LEMMA WhenLemma ==
  ASSUME NEW cond, NEW level
  PROVE  /\ When(cond, level) \in {level, NoNote}
         /\ cond => When(cond, level) = level
  BY DEF When

\* Two sequences in a row: what stands where, and what is in either.
LEMMA InARow ==
  ASSUME NEW S, NEW s \in Seq(S), NEW t \in Seq(S)
  PROVE  /\ s \o t \in Seq(S)
         /\ Len(s) \in Nat /\ Len(t) \in Nat
         /\ Len(s \o t) = Len(s) + Len(t)
         /\ \A k \in 1..Len(s) : (s \o t)[k] = s[k]
         /\ \A k \in 1..Len(t) : (s \o t)[Len(s) + k] = t[k]
         /\ ToSet(s \o t) = ToSet(s) \union ToSet(t)
  <1>1. Len(s) \in Nat /\ Len(t) \in Nat
    BY LenProperties
  <1>2. /\ s \o t \in Seq(S)
        /\ Len(s \o t) = Len(s) + Len(t)
        /\ \A k \in 1..(Len(s) + Len(t)) :
             (s \o t)[k] = IF k <= Len(s) THEN s[k] ELSE t[k - Len(s)]
    BY ConcatProperties
  <1>3. \A k \in 1..Len(s) : (s \o t)[k] = s[k]
    BY <1>1, <1>2
  <1>4. \A k \in 1..Len(t) : (s \o t)[Len(s) + k] = t[k]
    BY <1>1, <1>2
  <1>5. \A k \in 1..(Len(s) + Len(t)) : k \in 1..Len(s) \/ (k - Len(s)) \in 1..Len(t)
    BY <1>1
  <1>6. /\ \A k \in 1..Len(s) : k \in 1..(Len(s) + Len(t))
        /\ \A k \in 1..Len(t) : Len(s) + k \in 1..(Len(s) + Len(t))
    BY <1>1
  <1>7. /\ ToSet(s) = {s[k] : k \in 1..Len(s)}
        /\ ToSet(t) = {t[k] : k \in 1..Len(t)}
        /\ ToSet(s \o t) = {(s \o t)[k] : k \in 1..(Len(s) + Len(t))}
    BY <1>2, LenProperties DEF ToSet
  <1>8. ToSet(s) \union ToSet(t) \subseteq ToSet(s \o t)
    BY <1>3, <1>4, <1>6, <1>7
  <1>9. ToSet(s \o t) \subseteq ToSet(s) \union ToSet(t)
    <2> SUFFICES ASSUME NEW k \in 1..(Len(s) + Len(t))
                 PROVE  (s \o t)[k] \in ToSet(s) \union ToSet(t)
      BY <1>7
    <2>1. CASE k \in 1..Len(s)
      BY <1>3, <1>7, <2>1
    <2>2. CASE k - Len(s) \in 1..Len(t)
      <3>1. Len(s) + (k - Len(s)) = k
        BY <1>1
      <3>2. (s \o t)[k] = t[k - Len(s)]
        BY <1>4, <2>2, <3>1
      <3>3. QED
        BY <1>7, <2>2, <3>2
    <2>3. QED
      BY <1>5, <2>1, <2>2
  <1>10. QED
    BY <1>1, <1>2, <1>3, <1>4, <1>8, <1>9

\* The seven notes of a tool, in their order; all but the schemas' have a rank.
LEMMA ToolNotes ==
  ASSUME NEW o, NEW n
  PROVE  LET notes == InputNotes(o, n) \o OutputNotes(o, n) \o PermissionNotes(o, n)
                      \o DescriptionNotes(o, n)
         IN  /\ \E S : notes \in Seq(S)
             /\ Len(notes) = 7
             /\ notes[1] = InputNotes(o, n)[1]
             /\ notes[2] = OutputNotes(o, n)[1]
             /\ notes[3] = PermissionNotes(o, n)[1]
             /\ notes[4] = PermissionNotes(o, n)[2]
             /\ notes[5] = DescriptionNotes(o, n)[1]
             /\ \A k \in 3..7 : notes[k] \in Ranked \union {NoNote}
  <1> DEFINE in == InputNotes(o, n)
             out == OutputNotes(o, n)
             perm == PermissionNotes(o, n)
             desc == DescriptionNotes(o, n)
             S == Ranked \union {NoNote, in[1], out[1]}
  <1>1. \A x \in {"PERMISSION_CHANGE", "ANNOTATION_DOWNGRADE", "NON_BREAKING"} : x \in Ranked
    BY DEF Ranked, CHANGE_LEVEL
  <1>2. in \in Seq(S) /\ Len(in) = 1
    BY DEF InputNotes
  <1>3. out \in Seq(S) /\ Len(out) = 1
    BY DEF OutputNotes
  <1>4. perm \in Seq(S) /\ Len(perm) = 2 /\ \A k \in 1..2 : perm[k] \in Ranked \union {NoNote}
    BY <1>1, WhenLemma DEF PermissionNotes
  <1>5. desc \in Seq(S) /\ Len(desc) = 3 /\ \A k \in 1..3 : desc[k] \in Ranked \union {NoNote}
    BY <1>1, WhenLemma DEF DescriptionNotes
  <1> HIDE DEF in, out, perm, desc, S
  <1> DEFINE two == in \o out
             four == two \o perm
             all == four \o desc
  <1>6. two \in Seq(S) /\ Len(two) = 2 /\ two[1] = in[1] /\ two[2] = out[1]
    <2>1. /\ two \in Seq(S) /\ Len(two) = Len(in) + Len(out)
          /\ \A k \in 1..Len(in) : two[k] = in[k]
          /\ \A k \in 1..Len(out) : two[Len(in) + k] = out[k]
      BY <1>2, <1>3, InARow
    <2>2. QED
      BY <1>2, <1>3, <2>1
  <1> HIDE DEF two
  <1>7. /\ four \in Seq(S) /\ Len(four) = 4 /\ four[1] = two[1] /\ four[2] = two[2]
        /\ four[3] = perm[1] /\ four[4] = perm[2]
    <2>1. /\ four \in Seq(S) /\ Len(four) = Len(two) + Len(perm)
          /\ \A k \in 1..Len(two) : four[k] = two[k]
          /\ \A k \in 1..Len(perm) : four[Len(two) + k] = perm[k]
      <3>1. two \in Seq(S) /\ perm \in Seq(S)
        BY <1>4, <1>6
      <3>2. QED
        BY <3>1, InARow
    <2>2. QED
      BY <1>4, <1>6, <2>1
  <1> HIDE DEF four
  <1>8. /\ all \in Seq(S) /\ Len(all) = 7 /\ \A k \in 1..4 : all[k] = four[k]
        /\ \A k \in 1..3 : all[4 + k] = desc[k]
    <2>1. /\ all \in Seq(S) /\ Len(all) = Len(four) + Len(desc)
          /\ \A k \in 1..Len(four) : all[k] = four[k]
          /\ \A k \in 1..Len(desc) : all[Len(four) + k] = desc[k]
      <3>1. four \in Seq(S) /\ desc \in Seq(S)
        BY <1>5, <1>7
      <3>2. QED
        BY <3>1, InARow
    <2>2. QED
      BY <1>5, <1>7, <2>1
  <1> HIDE DEF all
  <1>9. all[5] = desc[1] /\ all[6] = desc[2] /\ all[7] = desc[3]
    BY <1>8
  <1>10. \A k \in 3..7 : all[k] \in Ranked \union {NoNote}
    BY <1>4, <1>5, <1>7, <1>8, <1>9
  <1>11. /\ \E T : all \in Seq(T)
         /\ Len(all) = 7 /\ all[1] = in[1] /\ all[2] = out[1]
         /\ all[3] = perm[1] /\ all[4] = perm[2] /\ all[5] = desc[1]
    BY <1>6, <1>7, <1>8, <1>9
  <1>12. all = in \o out \o perm \o desc
    BY DEF all, four, two
  <1>13. QED
    BY <1>10, <1>11, <1>12, Zenon DEF in, out, perm, desc

\* A tool of which anything but the presentation changed, in terms of its notes.
LEMMA ChangedTool ==
  ASSUME NEW o \in Revisions, NEW n \in Revisions,
         \/ o.hints # n.hints \/ o.execution # n.execution
         \/ o.description # n.description \/ o.input # n.input
  PROVE  Projection(o) # Projection(n)
  BY RevisionAssumption DEF Projection

\* Danger, in any of the three forms, is ranked, and so is all that follows.
LEMMA DangerLemma ==
  ASSUME pinned \in Revisions, observed \in Revisions
  PROVE  DangerIsNeverCompatible
  <1> DEFINE notes == InputNotes(pinned, observed) \o OutputNotes(pinned, observed)
                      \o PermissionNotes(pinned, observed) \o DescriptionNotes(pinned, observed)
             level == Joined("NONE", notes)
             injected == /\ pinned.description # observed.description
                         /\ observed.description.tokens \intersect Markers # {}
  <1>1. SUFFICES ASSUME \/ pinned.hints # observed.hints
                        \/ pinned.execution # observed.execution
                        \/ injected
                 PROVE  ~Compatible(DiffTool(pinned, observed))
    BY DEF DangerIsNeverCompatible
  <1>2. DiffTool(pinned, observed) = level
    BY <1>1, ChangedTool DEF DiffTool
  <1>3. PICK S : notes \in Seq(S)
    BY ToolNotes
  <1>4. /\ Len(notes) = 7
        /\ notes[3] = PermissionNotes(pinned, observed)[1]
        /\ notes[4] = PermissionNotes(pinned, observed)[2]
        /\ notes[5] = DescriptionNotes(pinned, observed)[1]
        /\ \A k \in 3..7 : notes[k] \in Ranked \union {NoNote}
    BY ToolNotes
  <1>5. \E i \in 3..5 : notes[i] \in {"PERMISSION_CHANGE", "ANNOTATION_DOWNGRADE"}
    <2>1. pinned.hints # observed.hints => notes[3] = "PERMISSION_CHANGE"
      BY <1>4, WhenLemma DEF PermissionNotes
    <2>2. pinned.execution # observed.execution => notes[4] = "PERMISSION_CHANGE"
      BY <1>4, WhenLemma DEF PermissionNotes
    <2>3. injected => notes[5] = "ANNOTATION_DOWNGRADE"
      BY <1>4, WhenLemma DEF DescriptionNotes
    <2> HIDE DEF notes
    <2>4. QED
      BY <1>1, <2>1, <2>2, <2>3
  <1> HIDE DEF notes
  <1>6. PICK i \in 3..5 : notes[i] \in {"PERMISSION_CHANGE", "ANNOTATION_DOWNGRADE"}
    BY <1>5
  <1>7. /\ notes[i] \in Ranked
        /\ CHANGE_LEVEL[notes[i]] >= 3
        /\ CHANGE_LEVEL["NON_BREAKING"] = 2
    BY <1>6 DEF Ranked, CHANGE_LEVEL
  <1>8. i \in 1..Len(notes) /\ \A k \in i..Len(notes) : notes[k] \in Ranked \union {NoNote}
    BY <1>4
  <1>9. level \in Ranked /\ CHANGE_LEVEL[level] >= CHANGE_LEVEL[notes[i]]
    BY <1>3, <1>7, <1>8, NoteKept
  <1>10. QED
    BY <1>2, <1>7, <1>9, RanksLemma DEF Compatible

Note == Ranked \union {NoNote}

\* A note that a compatible level leaves room for.
Mild(note) == note = NoNote \/ Compatible(note)

AllNotes(o, n, diff) ==
  TypeNotes(o, n) \o EnumNotes(o, n) \o ConstraintNotes(o, n) \o RequiredNotes(o, n)
  \o PropertyNotes(o, n, diff) \o ClosedNotes(o, n) \o CompositionNotes(o, n)

\* The notes on two schemas, if those on the properties and the composition
\* are of some set: all are, and each of them is among all.
LEMMA NotesAre ==
  ASSUME NEW N, {"BREAKING", "NON_BREAKING", NoNote} \subseteq N, NEW o, NEW n, NEW diff,
         \A k \in 1..Len(PropOrder) : KeptNote(o, n, PropOrder[k], diff) \in N,
         CompositionNotes(o, n) \in Seq(N)
  PROVE  /\ AllNotes(o, n, diff) \in Seq(N)
         /\ ToSet(AllNotes(o, n, diff)) =
              ToSet(TypeNotes(o, n)) \union ToSet(EnumNotes(o, n))
              \union ToSet(ConstraintNotes(o, n)) \union ToSet(RequiredNotes(o, n))
              \union ToSet(PropertyNotes(o, n, diff)) \union ToSet(ClosedNotes(o, n))
              \union ToSet(CompositionNotes(o, n))
  <1> DEFINE a == TypeNotes(o, n)
             b == EnumNotes(o, n)
             c == ConstraintNotes(o, n)
             d == RequiredNotes(o, n)
             kept == [k \in 1..Len(PropOrder) |-> KeptNote(o, n, PropOrder[k], diff)]
             added == [k \in 1..Len(PropOrder) |-> AddedNote(o, n, PropOrder[k])]
             e == kept \o added
             f == ClosedNotes(o, n)
             g == CompositionNotes(o, n)
             all == a \o b \o c \o d \o e \o f \o g
  <1>1. /\ "BREAKING" \in N /\ "NON_BREAKING" \in N /\ NoNote \in N
        /\ \A cond, level : level \in N => When(cond, level) \in N
    BY WhenLemma
  <1>2. a \in Seq(N)
    BY <1>1 DEF TypeNotes
  <1>3. b \in Seq(N)
    BY <1>1 DEF EnumNotes
  <1>4. c \in Seq(N)
    BY <1>1 DEF ConstraintNotes, PatternNote
  <1>5. d \in Seq(N)
    BY <1>1 DEF RequiredNotes
  <1>6. e \in Seq(N)
    <2>1. Len(PropOrder) \in Nat
      BY DiffAssumption, LenProperties
    <2>2. kept \in Seq(N)
      <3>1. kept \in [1..Len(PropOrder) -> N]
        OBVIOUS
      <3> HIDE DEF kept
      <3>2. QED
        BY <2>1, <3>1, SeqDef
    <2>3. added \in Seq(N)
      <3>1. \A k \in 1..Len(PropOrder) : AddedNote(o, n, PropOrder[k]) \in N
        BY <1>1 DEF AddedNote
      <3>2. added \in [1..Len(PropOrder) -> N]
        BY <3>1
      <3> HIDE DEF added
      <3>3. QED
        BY <2>1, <3>2, SeqDef
    <2> HIDE DEF kept, added
    <2>4. QED
      BY <2>2, <2>3, InARow
  <1>7. f \in Seq(N)
    BY <1>1 DEF ClosedNotes
  <1>8. g \in Seq(N)
    OBVIOUS
  <1>9. e = PropertyNotes(o, n, diff)
    BY DEF PropertyNotes
  <1>10. AllNotes(o, n, diff) = all
    BY <1>9 DEF AllNotes
  <1> HIDE DEF a, b, c, d, e, f, g
  <1>11. /\ all \in Seq(N)
         /\ ToSet(all) = ToSet(a) \union ToSet(b) \union ToSet(c) \union ToSet(d)
                         \union ToSet(e) \union ToSet(f) \union ToSet(g)
    <2>1. \A s, t \in Seq(N) :
            s \o t \in Seq(N) /\ ToSet(s \o t) = ToSet(s) \union ToSet(t)
      BY InARow
    <2> DEFINE ab == a \o b
               abc == ab \o c
               abcd == abc \o d
               abcde == abcd \o e
               abcdef == abcde \o f
    <2>2. ab \in Seq(N) /\ ToSet(ab) = ToSet(a) \union ToSet(b)
      BY <1>2, <1>3, <2>1
    <2> HIDE DEF ab
    <2>3. abc \in Seq(N) /\ ToSet(abc) = ToSet(ab) \union ToSet(c)
      BY <1>4, <2>1, <2>2
    <2> HIDE DEF abc
    <2>4. abcd \in Seq(N) /\ ToSet(abcd) = ToSet(abc) \union ToSet(d)
      BY <1>5, <2>1, <2>3
    <2> HIDE DEF abcd
    <2>5. abcde \in Seq(N) /\ ToSet(abcde) = ToSet(abcd) \union ToSet(e)
      BY <1>6, <2>1, <2>4
    <2> HIDE DEF abcde
    <2>6. abcdef \in Seq(N) /\ ToSet(abcdef) = ToSet(abcde) \union ToSet(f)
      BY <1>7, <2>1, <2>5
    <2> HIDE DEF abcdef
    <2>7. /\ abcdef \o g \in Seq(N)
          /\ ToSet(abcdef \o g) = ToSet(abcdef) \union ToSet(g)
      BY <1>8, <2>1, <2>6
    <2>8. all = abcdef \o g
      BY DEF abcdef, abcde, abcd, abc, ab
    <2> HIDE DEF all
    <2>9. QED
      BY <2>2, <2>3, <2>4, <2>5, <2>6, <2>7, <2>8
  <1> HIDE DEF all
  <1>12. QED
    BY <1>9, <1>10, <1>11, Zenon DEF a, b, c, d, f, g

\* The notes on two schemas that are none of the unranked cases, if the
\* levels of their properties are ranked too: the level is ranked, and a
\* compatible one leaves room for mild notes only.
LEMMA SchemaNotes ==
  ASSUME NEW o \in Schemas, NEW n \in Schemas, o # n,
         o.kind = "object", n.kind = "object", o.comp = n.comp,
         \A k \in 1..Len(PropOrder) : KeptNote(o, n, PropOrder[k], DiffSchema) \in Note
  PROVE  /\ SchemaLevel(o, n, DiffSchema) \in Ranked
         /\ Compatible(SchemaLevel(o, n, DiffSchema)) =>
              /\ \A x \in ToSet(TypeNotes(o, n)) : Mild(x)
              /\ \A x \in ToSet(EnumNotes(o, n)) : Mild(x)
              /\ \A x \in ToSet(ConstraintNotes(o, n)) : Mild(x)
              /\ \A x \in ToSet(RequiredNotes(o, n)) : Mild(x)
              /\ \A x \in ToSet(PropertyNotes(o, n, DiffSchema)) : Mild(x)
              /\ \A x \in ToSet(ClosedNotes(o, n)) : Mild(x)
  <1> DEFINE all == AllNotes(o, n, DiffSchema)
  <1>1. {"BREAKING", "NON_BREAKING", NoNote} \subseteq Note /\ "NONE" \in Ranked
    BY DEF Note, Ranked, CHANGE_LEVEL
  <1>2. CompositionNotes(o, n) \in Seq(Note)
    BY <1>1 DEF CompositionNotes, When
  <1>3. SchemaLevel(o, n, DiffSchema) = Joined("NONE", all)
    BY DEF SchemaLevel, AllNotes
  <1>4. /\ all \in Seq(Note)
        /\ ToSet(all) = ToSet(TypeNotes(o, n)) \union ToSet(EnumNotes(o, n))
             \union ToSet(ConstraintNotes(o, n)) \union ToSet(RequiredNotes(o, n))
             \union ToSet(PropertyNotes(o, n, DiffSchema)) \union ToSet(ClosedNotes(o, n))
             \union ToSet(CompositionNotes(o, n))
    BY <1>1, <1>2, NotesAre
  <1> HIDE DEF all
  <1>5. ToSet(all) \subseteq Ranked \union {NoNote}
    <2>1. ToSet(all) = {all[k] : k \in 1..Len(all)}
      BY <1>4, LenProperties DEF ToSet
    <2>2. \A k \in 1..Len(all) : all[k] \in Note
      BY <1>4, ElementOfSeq
    <2>3. QED
      BY <2>1, <2>2 DEF Note
  <1>6. /\ Joined("NONE", all) \in Ranked
        /\ Compatible(Joined("NONE", all)) => \A x \in ToSet(all) : Mild(x)
    BY <1>1, <1>4, <1>5, RankedJoin DEF Mild
  <1>7. QED
    BY <1>3, <1>4, <1>6, Zenon

\* A recursion that goes to a lesser depth has a solution: at every depth, by
\* the one below it, and the solutions agree wherever both are right.
RightTo(D, R, depth, B, m, f) ==
  f \in [D -> R] /\ \A d \in D : depth[d] < m => f[d] = B[<<d, f>>]

Descends(D, R, depth, B) ==
  /\ depth \in [D -> Nat]
  /\ \A d \in D, f \in [D -> R] : B[<<d, f>>] \in R
  /\ \A d \in D, f, g \in [D -> R] :
       (\A e \in D : depth[e] < depth[d] => f[e] = g[e]) => B[<<d, f>>] = B[<<d, g>>]

LEMMA RightAgree ==
  ASSUME NEW D, NEW R, NEW depth, NEW B, Descends(D, R, depth, B), NEW m \in Nat,
         NEW f, NEW g, RightTo(D, R, depth, B, m, f), RightTo(D, R, depth, B, m, g)
  PROVE  \A d \in D : depth[d] < m => f[d] = g[d]
  <1> DEFINE Bad == {k \in Nat : \E d \in D : depth[d] = k /\ k < m /\ f[d] # g[d]}
  <1>1. \A d \in D : depth[d] \in Nat
    BY DEF Descends
  <1>2. SUFFICES ASSUME Bad # {} PROVE FALSE
    BY <1>1
  <1>3. PICK k \in Bad : \A j \in Bad : k <= j
    <2>1. Bad \in SUBSET Nat
      OBVIOUS
    <2> HIDE DEF Bad
    <2>2. QED
      BY <1>2, <2>1, LeastNat
  <1>4. PICK d \in D : depth[d] = k /\ k < m /\ f[d] # g[d]
    OBVIOUS
  <1>5. ASSUME NEW e \in D, depth[e] < depth[d] PROVE f[e] = g[e]
    <2>1. depth[e] \in Nat /\ k \in Nat /\ depth[e] < k /\ depth[e] < m
      BY <1>1, <1>4, <1>5
    <2>2. depth[e] \notin Bad
      <3> HIDE DEF Bad
      <3>1. QED
        BY <1>3, <2>1
    <2>3. QED
      BY <2>1, <2>2
  <1>6. f[d] = B[<<d, f>>] /\ g[d] = B[<<d, g>>] /\ f \in [D -> R] /\ g \in [D -> R]
    BY <1>4 DEF RightTo
  <1>7. B[<<d, f>>] = B[<<d, g>>]
    BY <1>5, <1>6 DEF Descends
  <1>8. QED
    BY <1>4, <1>6, <1>7

LEMMA RightExists ==
  ASSUME NEW D, NEW R, NEW depth, NEW B, Descends(D, R, depth, B), R # {}, NEW m \in Nat
  PROVE  \E f : RightTo(D, R, depth, B, m, f)
  <1> DEFINE Bad == {k \in Nat : ~ \E f : RightTo(D, R, depth, B, k, f)}
  <1>1. SUFFICES ASSUME Bad # {} PROVE FALSE
    OBVIOUS
  <1>2. PICK k \in Bad : \A j \in Bad : k <= j
    <2>1. Bad \in SUBSET Nat
      OBVIOUS
    <2> HIDE DEF Bad
    <2>2. QED
      BY <1>1, <2>1, LeastNat
  <1>3. k \in Nat /\ ~ \E f : RightTo(D, R, depth, B, k, f)
    OBVIOUS
  <1>4. k # 0
    <2>1. PICK r : r \in R
      OBVIOUS
    <2>2. [d \in D |-> r] \in [D -> R]
      BY <2>1
    <2>3. \A d \in D : ~(depth[d] < 0)
      <3>1. \A d \in D : depth[d] \in Nat
        BY DEF Descends
      <3>2. QED
        BY <3>1
    <2>4. RightTo(D, R, depth, B, 0, [d \in D |-> r])
      BY <2>2, <2>3 DEF RightTo
    <2>5. QED
      BY <1>3, <2>4
  <1>5. k - 1 \in Nat /\ k - 1 < k
    BY <1>3, <1>4
  <1>6. PICK f : RightTo(D, R, depth, B, k - 1, f)
    <2>1. k - 1 \notin Bad
      <3> HIDE DEF Bad
      <3>1. QED
        BY <1>2, <1>3, <1>5
    <2>2. QED
      BY <1>5, <2>1
  <1> DEFINE g == [d \in D |-> B[<<d, f>>]]
  <1>7. g \in [D -> R] /\ f \in [D -> R] /\ \A d \in D : g[d] = B[<<d, f>>]
    BY <1>6 DEF RightTo, Descends
  <1> HIDE DEF g
  <1>8. ASSUME NEW d \in D, depth[d] < k PROVE g[d] = B[<<d, g>>]
    <2>1. ASSUME NEW e \in D, depth[e] < depth[d] PROVE f[e] = g[e]
      <3>1. depth[e] \in Nat /\ depth[d] \in Nat
        BY DEF Descends
      <3>2. depth[e] < k - 1
        BY <1>3, <1>8, <2>1, <3>1
      <3>3. f[e] = B[<<e, f>>]
        BY <1>6, <3>2 DEF RightTo
      <3>4. QED
        BY <1>7, <3>3
    <2>2. B[<<d, f>>] = B[<<d, g>>]
      BY <1>7, <2>1 DEF Descends
    <2>3. QED
      BY <1>7, <2>2
  <1>9. RightTo(D, R, depth, B, k, g)
    BY <1>7, <1>8 DEF RightTo
  <1>10. QED
    BY <1>3, <1>9

LEMMA RecursionLemma ==
  ASSUME NEW D, NEW R, NEW depth, NEW B, Descends(D, R, depth, B), R # {}
  PROVE  \E f \in [D -> R] : \A d \in D : f[d] = B[<<d, f>>]
  <1> DEFINE Upto(m) == CHOOSE f : RightTo(D, R, depth, B, m, f)
             F == [d \in D |-> Upto(depth[d] + 1)[d]]
  <1>1. \A m \in Nat : RightTo(D, R, depth, B, m, Upto(m))
    BY RightExists
  <1>2. \A d \in D : depth[d] \in Nat
    BY DEF Descends
  <1> HIDE DEF Upto
  <1>3. F \in [D -> R]
    <2>1. \A m \in Nat : Upto(m) \in [D -> R]
      BY <1>1, Zenon DEF RightTo
    <2>2. \A d \in D : depth[d] + 1 \in Nat
      BY <1>2
    <2>3. \A d \in D : Upto(depth[d] + 1)[d] \in R
      BY <2>1, <2>2
    <2>4. QED
      BY <2>3
  <1>4. \A d \in D : F[d] = Upto(depth[d] + 1)[d]
    OBVIOUS
  <1> HIDE DEF F
  <1>5. ASSUME NEW d \in D PROVE F[d] = B[<<d, F>>]
    <2> DEFINE f == Upto(depth[d] + 1)
    <2>1. RightTo(D, R, depth, B, depth[d] + 1, f) /\ depth[d] < depth[d] + 1
      BY <1>1, <1>2
    <2>2. f[d] = B[<<d, f>>] /\ f \in [D -> R] /\ F[d] = f[d]
      BY <1>4, <2>1 DEF RightTo
    <2> HIDE DEF f
    <2>3. ASSUME NEW e \in D, depth[e] < depth[d] PROVE f[e] = F[e]
      <3> DEFINE h == Upto(depth[e] + 1)
      <3>1. depth[e] \in Nat /\ depth[d] \in Nat
        BY <1>2
      <3>2. RightTo(D, R, depth, B, depth[e] + 1, h)
        BY <1>1, <3>1
      <3>3. F[e] = h[e]
        BY <1>4
      <3> HIDE DEF h
      <3>4. RightTo(D, R, depth, B, depth[e] + 1, f)
        <4>1. \A x \in D : depth[x] < depth[e] + 1 => depth[x] < depth[d] + 1
          BY <1>2, <2>3, <3>1
        <4>2. QED
          BY <2>1, <4>1 DEF RightTo
      <3>5. depth[e] + 1 \in Nat /\ depth[e] < depth[e] + 1
        BY <3>1
      <3>6. f[e] = h[e]
        BY <3>2, <3>4, <3>5, RightAgree
      <3>7. QED
        BY <3>3, <3>6
    <2>4. B[<<d, f>>] = B[<<d, F>>]
      BY <1>3, <2>2, <2>3 DEF Descends
    <2>5. QED
      BY <2>2, <2>4
  <1>6. QED
    BY <1>3, <1>5

\* A level, joined with levels, is one.
LEMMA JoinedLevel ==
  ASSUME NEW level \in Levels, NEW notes \in Seq(Levels \union {NoNote})
  PROVE  Joined(level, notes) \in Levels
  <1> DEFINE N == Len(notes)
  <1>1. N \in Nat /\ \A k \in 1..N : notes[k] \in Levels \union {NoNote}
    BY LenProperties, ElementOfSeq
  <1>2. PICK f : /\ f[0] = level
                 /\ \A k \in 1..N : f[k] = Noted(f[k - 1], notes[k])
                 /\ Joined(level, notes) = f[N]
    BY JoinedLemma
  <1> DEFINE Bad == {k \in 0..N : f[k] \notin Levels}
  <1>3. SUFFICES ASSUME Bad # {} PROVE FALSE
    BY <1>1, <1>2
  <1>4. PICK m \in Bad : \A k \in Bad : m <= k
    <2>1. Bad \in SUBSET Nat
      BY <1>1
    <2> HIDE DEF Bad
    <2>2. QED
      BY <1>3, <2>1, LeastNat
  <1>5. m \in 1..N /\ m - 1 \in 0..N /\ m - 1 < m /\ f[m] \notin Levels
    BY <1>1, <1>2
  <1>6. f[m - 1] \in Levels
    BY <1>1, <1>4, <1>5
  <1>7. \A a \in Levels, b \in Levels \union {NoNote} : Noted(a, b) \in Levels
    BY DEF Noted, MaxLevel
  <1>8. QED
    BY <1>1, <1>2, <1>5, <1>6, <1>7

LEMMA SameLevel ==
  ASSUME NEW o, NEW n, NEW f, NEW g,
         \A p \in DOMAIN o.props \intersect DOMAIN n.props :
           f[<<o.props[p], n.props[p]>>] = g[<<o.props[p], n.props[p]>>]
  PROVE  SchemaLevel(o, n, f) = SchemaLevel(o, n, g)
  <1>1. \A p : KeptNote(o, n, p, f) = KeptNote(o, n, p, g)
    BY DEF KeptNote
  <1>2. PropertyNotes(o, n, f) = PropertyNotes(o, n, g)
    BY <1>1 DEF PropertyNotes
  <1>3. QED
    BY <1>2, Zenon DEF SchemaLevel

LEMMA LevelTyped ==
  ASSUME NEW o \in Schemas, NEW n \in Schemas, NEW f \in [Schemas \X Schemas -> Levels]
  PROVE  SchemaLevel(o, n, f) \in Levels
  <1> DEFINE N == Levels \union {NoNote}
  <1>1. /\ {"NONE", "SUSPECT_DOMAIN", "BREAKING", "NON_BREAKING"} \subseteq Levels
    BY DEF Levels, Ranked, CHANGE_LEVEL
  <1>2. \A k \in 1..Len(PropOrder) : KeptNote(o, n, PropOrder[k], f) \in N
    <2> SUFFICES ASSUME NEW p PROVE KeptNote(o, n, p, f) \in N
      OBVIOUS
    <2>1. CASE p \in DOMAIN o.props /\ p \in DOMAIN n.props
      <3>1. o.props[p] \in Schemas /\ n.props[p] \in Schemas
        BY <2>1, DiffAssumption
      <3>2. f[<<o.props[p], n.props[p]>>] \in Levels
        BY <3>1
      <3>3. QED
        BY <2>1, <3>2 DEF KeptNote
    <2>2. QED
      BY <1>1, <2>1 DEF KeptNote
  <1>3. CompositionNotes(o, n) \in Seq(N)
    BY <1>1 DEF CompositionNotes, When
  <1>4. {"BREAKING", "NON_BREAKING", NoNote} \subseteq N
    BY <1>1
  <1> HIDE DEF N
  <1>5. AllNotes(o, n, f) \in Seq(N)
    BY <1>2, <1>3, <1>4, NotesAre
  <1>6. Joined("NONE", AllNotes(o, n, f)) \in Levels
    BY <1>1, <1>5, JoinedLevel DEF N
  <1>7. QED
    BY <1>1, <1>6, Zenon DEF SchemaLevel, AllNotes

\* How deep the first of two nests.
Nesting(S) == [pair \in S |-> Depth[pair[1]]]

LEMMA DiffIs ==
  ASSUME NEW o \in Schemas, NEW n \in Schemas
  PROVE  /\ DiffSchema[<<o, n>>] = SchemaLevel(o, n, DiffSchema)
         /\ DiffSchema[<<o, o>>] = "NONE"
  <1> DEFINE S == Schemas \X Schemas
             body == [q \in S \X [S -> Levels] |-> SchemaLevel(q[1][1], q[1][2], q[2])]
             nest == Nesting(S)
  <1>1. ASSUME NEW d \in S, NEW f \in [S -> Levels]
        PROVE  body[<<d, f>>] = SchemaLevel(d[1], d[2], f) /\ body[<<d, f>>] \in Levels
    <2>1. d[1] \in Schemas /\ d[2] \in Schemas
      OBVIOUS
    <2>2. QED
      BY <2>1, LevelTyped
  <1>2. nest \in [S -> Nat] /\ \A d \in S : nest[d] = Depth[d[1]]
    BY DiffAssumption DEF Nesting
  <1> HIDE DEF body, nest
  <1>3. ASSUME NEW d \in S, NEW f \in [S -> Levels], NEW g \in [S -> Levels],
               \A e \in S : nest[e] < nest[d] => f[e] = g[e]
        PROVE  body[<<d, f>>] = body[<<d, g>>]
    <2>1. d[1] \in Schemas /\ d[2] \in Schemas
      OBVIOUS
    <2>2. ASSUME NEW p \in DOMAIN d[1].props \intersect DOMAIN d[2].props
          PROVE  f[<<d[1].props[p], d[2].props[p]>>] = g[<<d[1].props[p], d[2].props[p]>>]
      <3> DEFINE e == <<d[1].props[p], d[2].props[p]>>
      <3>1. /\ d[1].props[p] \in Schemas /\ d[2].props[p] \in Schemas
            /\ Depth[d[1].props[p]] < Depth[d[1]]
        BY <2>1, DiffAssumption
      <3>2. e \in S /\ e[1] = d[1].props[p]
        BY <3>1
      <3> HIDE DEF e
      <3>3. nest[e] < nest[d]
        BY <1>2, <3>1, <3>2
      <3>4. f[e] = g[e]
        BY <1>3, <3>2, <3>3
      <3>5. QED
        BY <3>4 DEF e
    <2>3. SchemaLevel(d[1], d[2], f) = SchemaLevel(d[1], d[2], g)
      BY <2>2, SameLevel
    <2>4. QED
      BY <1>1, <2>3
  <1>4. Descends(S, Levels, nest, body)
    BY <1>1, <1>2, <1>3, Zenon DEF Descends
  <1>5. PICK f \in [S -> Levels] : \A d \in S : f[d] = body[<<d, f>>]
    <2>1. Levels # {}
      BY DEF Levels
    <2>2. QED
      BY <1>4, <2>1, RecursionLemma
  <1>6. f = [pair \in S |-> SchemaLevel(pair[1], pair[2], f)]
    <2>1. \A d \in S : f[d] = SchemaLevel(d[1], d[2], f)
      BY <1>1, <1>5
    <2>2. f = [pair \in S |-> f[pair]]
      BY <1>5
    <2>3. QED
      BY <2>1, <2>2, Zenon
  <1>7. DiffSchema = [pair \in S |-> SchemaLevel(pair[1], pair[2], DiffSchema)]
    BY <1>6, Zenon DEF DiffSchema
  <1>8. \A d \in S : DiffSchema[d] = SchemaLevel(d[1], d[2], DiffSchema)
    <2> DEFINE g == [pair \in S |-> SchemaLevel(pair[1], pair[2], DiffSchema)]
    <2>1. \A d \in S : g[d] = SchemaLevel(d[1], d[2], DiffSchema)
      OBVIOUS
    <2>2. DiffSchema = g
      BY <1>7
    <2> HIDE DEF g
    <2>3. QED
      BY <2>1, <2>2
  <1>9. SchemaLevel(o, o, DiffSchema) = "NONE"
    BY DEF SchemaLevel
  <1>10. <<o, n>> \in S /\ <<o, o>> \in S
    OBVIOUS
  <1>11. QED
    BY <1>8, <1>9, <1>10

LEMMA HiddenIs ==
  ASSUME NEW o \in Schemas, NEW n \in Schemas
  PROVE  Hidden[<<o, n>>] = Hides(o, n, Hidden)
  <1> DEFINE S == Schemas \X Schemas
             body == [q \in S \X [S -> BOOLEAN] |-> Hides(q[1][1], q[1][2], q[2])]
             nest == Nesting(S)
  <1>1. ASSUME NEW d \in S, NEW f \in [S -> BOOLEAN]
        PROVE  body[<<d, f>>] = Hides(d[1], d[2], f) /\ body[<<d, f>>] \in BOOLEAN
    <2>1. body[<<d, f>>] = Hides(d[1], d[2], f)
      OBVIOUS
    <2>2. Hides(d[1], d[2], f) \in BOOLEAN
      BY DEF Hides
    <2>3. QED
      BY <2>1, <2>2
  <1>2. nest \in [S -> Nat] /\ \A d \in S : nest[d] = Depth[d[1]]
    BY DiffAssumption DEF Nesting
  <1> HIDE DEF body, nest
  <1>3. ASSUME NEW d \in S, NEW f \in [S -> BOOLEAN], NEW g \in [S -> BOOLEAN],
               \A e \in S : nest[e] < nest[d] => f[e] = g[e]
        PROVE  body[<<d, f>>] = body[<<d, g>>]
    <2>1. d[1] \in Schemas /\ d[2] \in Schemas
      OBVIOUS
    <2>2. ASSUME NEW p \in Both(d[1], d[2])
          PROVE  f[<<d[1].props[p], d[2].props[p]>>] = g[<<d[1].props[p], d[2].props[p]>>]
      <3> DEFINE e == <<d[1].props[p], d[2].props[p]>>
      <3>1. /\ d[1].props[p] \in Schemas /\ d[2].props[p] \in Schemas
            /\ Depth[d[1].props[p]] < Depth[d[1]]
        BY <2>1, DiffAssumption DEF Both
      <3>2. e \in S /\ e[1] = d[1].props[p]
        BY <3>1
      <3> HIDE DEF e
      <3>3. nest[e] < nest[d]
        BY <1>2, <3>1, <3>2
      <3>4. f[e] = g[e]
        BY <1>3, <3>2, <3>3
      <3>5. QED
        BY <3>4 DEF e
    <2>3. Hides(d[1], d[2], f) = Hides(d[1], d[2], g)
      BY <2>2 DEF Hides
    <2>4. body[<<d, f>>] = Hides(d[1], d[2], f) /\ body[<<d, g>>] = Hides(d[1], d[2], g)
      BY <1>1
    <2>5. QED
      BY <2>3, <2>4, Zenon
  <1>4. Descends(S, BOOLEAN, nest, body)
    BY <1>1, <1>2, <1>3, Zenon DEF Descends
  <1>5. PICK f \in [S -> BOOLEAN] : \A d \in S : f[d] = body[<<d, f>>]
    <2>1. BOOLEAN # {}
      OBVIOUS
    <2>2. QED
      BY <1>4, <2>1, RecursionLemma
  <1>6. f = [pair \in S |-> Hides(pair[1], pair[2], f)]
    <2>1. \A d \in S : f[d] = Hides(d[1], d[2], f)
      BY <1>1, <1>5
    <2>2. f = [pair \in S |-> f[pair]]
      BY <1>5
    <2>3. QED
      BY <2>1, <2>2, Zenon
  <1>7. Hidden = [pair \in S |-> Hides(pair[1], pair[2], Hidden)]
    BY <1>6, Zenon DEF Hidden
  <1>8. \A d \in S : Hidden[d] = Hides(d[1], d[2], Hidden)
    <2> DEFINE g == [pair \in S |-> Hides(pair[1], pair[2], Hidden)]
    <2>1. \A d \in S : g[d] = Hides(d[1], d[2], Hidden)
      OBVIOUS
    <2>2. Hidden = g
      BY <1>7
    <2> HIDE DEF g
    <2>3. QED
      BY <2>1, <2>2
  <1>9. <<o, n>> \in S
    OBVIOUS
  <1>10. QED
    BY <1>8, <1>9

LEMMA ValidIs ==
  ASSUME NEW s \in Schemas, NEW v \in Values
  PROVE  Valid[<<s, v>>] = ValidFor(s, v, Valid)
  <1> DEFINE S == Schemas \X Values
             body == [q \in S \X [S -> BOOLEAN] |-> ValidFor(q[1][1], q[1][2], q[2])]
             nest == Nesting(S)
  <1>1. ASSUME NEW d \in S, NEW f \in [S -> BOOLEAN]
        PROVE  body[<<d, f>>] = ValidFor(d[1], d[2], f) /\ body[<<d, f>>] \in BOOLEAN
    <2>1. body[<<d, f>>] = ValidFor(d[1], d[2], f)
      OBVIOUS
    <2>2. ValidFor(d[1], d[2], f) \in BOOLEAN
      BY DEF ValidFor
    <2>3. QED
      BY <2>1, <2>2
  <1>2. nest \in [S -> Nat] /\ \A d \in S : nest[d] = Depth[d[1]]
    BY DiffAssumption DEF Nesting
  <1> HIDE DEF body, nest
  <1>3. ASSUME NEW d \in S, NEW f \in [S -> BOOLEAN], NEW g \in [S -> BOOLEAN],
               \A e \in S : nest[e] < nest[d] => f[e] = g[e]
        PROVE  body[<<d, f>>] = body[<<d, g>>]
    <2>1. d[1] \in Schemas /\ d[2] \in Values
      OBVIOUS
    <2>2. ASSUME NEW t \in Schemas, NEW w \in Values, Depth[t] < Depth[d[1]]
          PROVE  f[<<t, w>>] = g[<<t, w>>]
      <3>1. <<t, w>> \in S /\ <<t, w>>[1] = t
        OBVIOUS
      <3>2. nest[<<t, w>>] < nest[d]
        BY <1>2, <2>2, <3>1
      <3>3. QED
        BY <1>3, <3>1, <3>2
    <2>3. ValidObject(d[1], d[2], f) <=> ValidObject(d[1], d[2], g)
      <3>1. \A p \in DOMAIN d[1].props \intersect DOMAIN d[2].fields :
              f[<<d[1].props[p], d[2].fields[p]>>] = g[<<d[1].props[p], d[2].fields[p]>>]
        BY <2>1, <2>2, DiffAssumption, ValueAssumption
      <3>2. QED
        BY <3>1 DEF ValidObject
    <2>4. ValidOther(d[1], d[2], f) <=> ValidOther(d[1], d[2], g)
      <3>1. \A item \in ToSet(d[1].items), e \in ToSet(d[2].elements) :
              f[<<item, e>>] = g[<<item, e>>]
        BY <2>1, <2>2, DiffAssumption, ValueAssumption
      <3>2. ValidItems(d[1], d[2], f) <=> ValidItems(d[1], d[2], g)
        BY <3>1 DEF ValidItems
      <3>3. QED
        BY <3>2 DEF ValidOther
    <2>5. ValidFor(d[1], d[2], f) = ValidFor(d[1], d[2], g)
      BY <2>3, <2>4 DEF ValidFor
    <2>6. body[<<d, f>>] = ValidFor(d[1], d[2], f) /\ body[<<d, g>>] = ValidFor(d[1], d[2], g)
      BY <1>1
    <2>7. QED
      BY <2>5, <2>6, Zenon
  <1>4. Descends(S, BOOLEAN, nest, body)
    BY <1>1, <1>2, <1>3, Zenon DEF Descends
  <1>5. PICK f \in [S -> BOOLEAN] : \A d \in S : f[d] = body[<<d, f>>]
    <2>1. BOOLEAN # {}
      OBVIOUS
    <2>2. QED
      BY <1>4, <2>1, RecursionLemma
  <1>6. f = [pair \in S |-> ValidFor(pair[1], pair[2], f)]
    <2>1. \A d \in S : f[d] = ValidFor(d[1], d[2], f)
      BY <1>1, <1>5
    <2>2. f = [pair \in S |-> f[pair]]
      BY <1>5
    <2>3. QED
      BY <2>1, <2>2, Zenon
  <1>7. Valid = [pair \in S |-> ValidFor(pair[1], pair[2], Valid)]
    BY <1>6, Zenon DEF Valid
  <1>8. \A d \in S : Valid[d] = ValidFor(d[1], d[2], Valid)
    <2> DEFINE g == [pair \in S |-> ValidFor(pair[1], pair[2], Valid)]
    <2>1. \A d \in S : g[d] = ValidFor(d[1], d[2], Valid)
      OBVIOUS
    <2>2. Valid = g
      BY <1>7
    <2> HIDE DEF g
    <2>3. QED
      BY <2>1, <2>2
  <1>9. <<s, v>> \in S
    OBVIOUS
  <1>10. QED
    BY <1>8, <1>9

LEMMA BreakingLemma == ~Mild("BREAKING")
  BY DEF Mild, Compatible, NoNote, Ranked, CHANGE_LEVEL

\* A schema that says nothing takes every value; so does none at all.
LEMMA GivenLemma ==
  ASSUME NEW s \in Schemas
  PROVE  /\ Given(s) \in Schemas
         /\ \A v \in Values : /\ Valid[<<AnySchema, v>>]
                              /\ Valid[<<Given(s), v>>] <=> Valid[<<s, v>>]
  <1>1. AnySchema \in Schemas /\ (s.kind = "absent" => s = NoSchema)
    BY DiffAssumption
  <1>2. ASSUME NEW v \in Values PROVE Valid[<<AnySchema, v>>] = TRUE
    <2>1. /\ AnySchema.types = {} /\ AnySchema.props = << >>
          /\ AnySchema.const = {} /\ AnySchema.enum = {} /\ AnySchema.pattern = 0
          /\ AnySchema.minimum = 0
      BY DEF AnySchema
    <2>2. ~Structured(AnySchema)
      BY <2>1 DEF Structured
    <2>3. ValidOther(AnySchema, v, Valid)
      <3>1. v.val >= 0
        BY ValueAssumption
      <3>2. QED
        BY <2>1, <3>1 DEF ValidOther, ValidItems
    <2>4. ValidFor(AnySchema, v, Valid)
      BY <2>2, <2>3 DEF ValidFor
    <2>5. QED
      BY <1>1, <2>4, ValidIs
  <1>3. CASE s.kind = "absent"
    <2>1. Given(s) = AnySchema
      BY <1>3 DEF Given
    <2>2. ASSUME NEW v \in Values PROVE Valid[<<s, v>>] = TRUE
      <3>1. ValidFor(s, v, Valid)
        BY <1>3 DEF ValidFor
      <3>2. QED
        BY <3>1, ValidIs
    <2>3. QED
      BY <1>1, <1>2, <2>1, <2>2
  <1>4. CASE s.kind # "absent"
    BY <1>2, <1>4 DEF Given
  <1>5. QED
    BY <1>3, <1>4

\* Every property of the old schema has its note.
LEMMA PropertyNotesSay ==
  ASSUME NEW o, NEW n, NEW k \in 1..Len(PropOrder),
         \A j \in 1..Len(PropOrder) : KeptNote(o, n, PropOrder[j], DiffSchema) \in Note
  PROVE  KeptNote(o, n, PropOrder[k], DiffSchema) \in ToSet(PropertyNotes(o, n, DiffSchema))
  <1> DEFINE kept == [j \in 1..Len(PropOrder) |-> KeptNote(o, n, PropOrder[j], DiffSchema)]
             added == [j \in 1..Len(PropOrder) |-> AddedNote(o, n, PropOrder[j])]
  <1>1. Len(PropOrder) \in Nat
    BY DiffAssumption, LenProperties
  <1>2. kept \in [1..Len(PropOrder) -> Note]
    OBVIOUS
  <1>3. added \in [1..Len(PropOrder) -> Note]
    BY WhenLemma DEF AddedNote, Note, Ranked, CHANGE_LEVEL
  <1>4. kept[k] = KeptNote(o, n, PropOrder[k], DiffSchema)
    OBVIOUS
  <1>5. DOMAIN kept = 1..Len(PropOrder)
    OBVIOUS
  <1>6. PropertyNotes(o, n, DiffSchema) = kept \o added
    BY DEF PropertyNotes
  <1> HIDE DEF kept, added
  <1>7. kept \in Seq(Note) /\ added \in Seq(Note)
    BY <1>1, <1>2, <1>3, SeqDef
  <1>8. kept[k] \in ToSet(kept)
    BY <1>5 DEF ToSet
  <1>9. QED
    BY <1>4, <1>6, <1>7, <1>8, InARow

\* What is claimed of two schemas: if nothing is hidden between them, their
\* level is ranked, and a compatible one keeps every value that was valid.
Claim(o, n) ==
  ~Hidden[<<o, n>>] =>
    /\ DiffSchema[<<o, n>>] \in Ranked
    /\ Compatible(DiffSchema[<<o, n>>]) =>
         \A v \in Values : Valid[<<o, v>>] => Valid[<<n, v>>]

\* The claim holds of two schemas, if it does of the properties they share.
LEMMA ClaimStep ==
  ASSUME NEW o \in Schemas, NEW n \in Schemas,
         \A p \in Both(o, n) : Claim(o.props[p], n.props[p])
  PROVE  Claim(o, n)
  <1> SUFFICES ASSUME ~Hidden[<<o, n>>]
               PROVE  /\ DiffSchema[<<o, n>>] \in Ranked
                      /\ Compatible(DiffSchema[<<o, n>>]) =>
                           \A v \in Values : Valid[<<o, v>>] => Valid[<<n, v>>]
    BY DEF Claim
  <1>1. CASE o = n
    BY <1>1, DiffIs DEF Ranked, CHANGE_LEVEL
  <1>2. CASE o # n
    <2> DEFINE level == SchemaLevel(o, n, DiffSchema)
    <2>1. ~Hides(o, n, Hidden)
      BY HiddenIs
    <2>2. /\ o.kind = "object" /\ n.kind = "object" /\ o.comp = n.comp
          /\ ~EnumIntroduced(o, n) /\ ~RemovedUnderClosed(o, n) /\ ~AddedWithADomain(o, n)
          /\ ~ClosedUnseen(o, n) /\ o.items = n.items /\ ~ReadOtherwise(o, n)
          /\ \A p \in Both(o, n) : ~Hidden[<<o.props[p], n.props[p]>>]
      BY <1>2, <2>1 DEF Hides, Unranked, ItemsChanged
    <2>3. ASSUME NEW p \in Both(o, n)
          PROVE  /\ o.props[p] \in Schemas /\ n.props[p] \in Schemas
                 /\ DiffSchema[<<o.props[p], n.props[p]>>] \in Ranked
                 /\ Compatible(DiffSchema[<<o.props[p], n.props[p]>>]) =>
                      \A v \in Values : Valid[<<o.props[p], v>>] => Valid[<<n.props[p], v>>]
      <3>1. Claim(o.props[p], n.props[p]) /\ ~Hidden[<<o.props[p], n.props[p]>>]
        BY <2>2
      <3>2. o.props[p] \in Schemas /\ n.props[p] \in Schemas
        BY DiffAssumption DEF Both
      <3>3. QED
        BY <3>1, <3>2 DEF Claim
    <2>4. \A k \in 1..Len(PropOrder) : KeptNote(o, n, PropOrder[k], DiffSchema) \in Note
      BY <2>3 DEF Both, KeptNote, Note, Ranked, CHANGE_LEVEL
    <2>5. DiffSchema[<<o, n>>] = level
      BY DiffIs
    <2>6. /\ level \in Ranked
          /\ Compatible(level) =>
               /\ \A x \in ToSet(TypeNotes(o, n)) : Mild(x)
               /\ \A x \in ToSet(EnumNotes(o, n)) : Mild(x)
               /\ \A x \in ToSet(ConstraintNotes(o, n)) : Mild(x)
               /\ \A x \in ToSet(RequiredNotes(o, n)) : Mild(x)
               /\ \A x \in ToSet(PropertyNotes(o, n, DiffSchema)) : Mild(x)
               /\ \A x \in ToSet(ClosedNotes(o, n)) : Mild(x)
      BY <1>2, <2>2, <2>4, SchemaNotes
    <2> HIDE DEF level
    <2>7. ASSUME Compatible(level), NEW v \in Values, Valid[<<o, v>>]
          PROVE  Valid[<<n, v>>]
      <3>1. ValidFor(o, v, Valid)
        BY <2>7, ValidIs
      <3>2. CASE Structured(o)
        <4>1. Structured(n)
          BY <2>2, <3>2 DEF ReadOtherwise
        <4>2. ValidObject(o, v, Valid)
          BY <2>2, <3>1, <3>2 DEF ValidFor
        <4>3. n.required \subseteq o.required
          <5>1. When(n.required \ o.required # {}, "BREAKING") \in ToSet(RequiredNotes(o, n))
            BY DEF RequiredNotes, ToSet
          <5>2. QED
            BY <2>6, <2>7, <5>1, BreakingLemma DEF When
        <4>4. n.extra = "none" => o.extra = "none"
          <5>1. When(o.extra = "any" /\ n.extra = "none", "BREAKING") \in ToSet(ClosedNotes(o, n))
            BY DEF ClosedNotes, ToSet
          <5>2. ~(o.extra = "any" /\ n.extra = "none")
            BY <2>6, <2>7, <5>1, BreakingLemma DEF When
          <5>3. o.extra \in {"any", "none", "schema"}
            BY DiffAssumption
          <5>4. QED
            BY <2>2, <5>2, <5>3 DEF ClosedUnseen
        <4>5. n.extra = "none" => DOMAIN v.fields \subseteq DOMAIN n.props
          BY <2>2, <4>2, <4>4 DEF ValidObject, RemovedUnderClosed
        <4>6. ASSUME NEW p \in DOMAIN n.props \intersect DOMAIN v.fields
              PROVE  Valid[<<n.props[p], v.fields[p]>>]
          <5>1. v.fields[p] \in Values
            BY ValueAssumption
          <5>2. CASE p \in DOMAIN o.props
            <6>1. p \in Both(o, n) /\ Valid[<<o.props[p], v.fields[p]>>]
              BY <4>2, <4>6, <5>2 DEF Both, ValidObject
            <6>2. PICK k \in 1..Len(PropOrder) : PropOrder[k] = p
              <7>1. p \in ToSet(PropOrder) /\ PropOrder \in Seq(STRING)
                BY <5>2, DiffAssumption
              <7>2. QED
                BY <7>1, LenProperties DEF ToSet
            <6>3. KeptNote(o, n, p, DiffSchema) = DiffSchema[<<o.props[p], n.props[p]>>]
              BY <6>1 DEF KeptNote, Both
            <6>4. KeptNote(o, n, p, DiffSchema) \in ToSet(PropertyNotes(o, n, DiffSchema))
              BY <2>4, <6>2, PropertyNotesSay
            <6>5. Mild(DiffSchema[<<o.props[p], n.props[p]>>])
              BY <2>6, <2>7, <6>3, <6>4
            <6>6. Compatible(DiffSchema[<<o.props[p], n.props[p]>>])
              BY <2>3, <6>1, <6>5, RanksLemma DEF Mild
            <6>7. QED
              BY <2>3, <5>1, <6>1, <6>6
          <5>3. CASE p \notin DOMAIN o.props
            <6>1. n.props[p] = AnySchema
              BY <2>2, <4>6, <5>3 DEF AddedWithADomain
            <6>2. QED
              BY <5>1, <6>1, GivenLemma
          <5>4. QED
            BY <5>2, <5>3
        <4>7. ValidObject(n, v, Valid)
          BY <4>2, <4>3, <4>5, <4>6 DEF ValidObject
        <4>8. QED
          BY <4>1, <4>7, ValidIs DEF ValidFor
      <3>3. CASE ~Structured(o)
        <4>1. ~Structured(n)
          BY <2>2, <3>3 DEF ReadOtherwise
        <4>2. ValidOther(o, v, Valid)
          BY <2>2, <3>1, <3>3 DEF ValidFor
        <4>3. n.types # {} => o.types # {} /\ o.types \subseteq n.types
          <5>1. CASE o.types # {} /\ n.types # {}
            <6>1. When(o.types \ n.types # {}, "BREAKING") \in ToSet(TypeNotes(o, n))
              BY <5>1 DEF TypeNotes, ToSet
            <6>2. QED
              BY <2>6, <2>7, <5>1, <6>1, BreakingLemma DEF When
          <5>2. CASE o.types = {} /\ n.types # {}
            <6>1. When(o.types # n.types, "BREAKING") \in ToSet(TypeNotes(o, n))
              BY <5>2 DEF TypeNotes, ToSet
            <6>2. QED
              BY <2>6, <2>7, <5>2, <6>1, BreakingLemma DEF When
          <5>3. QED
            BY <5>1, <5>2
        <4>4. o.const = n.const /\ (n.enum # {} => o.enum # {} /\ o.enum \subseteq n.enum)
          <5>1. /\ When(o.const # n.const, "BREAKING") \in ToSet(EnumNotes(o, n))
                /\ When(o.enum \ n.enum # {}, "BREAKING") \in ToSet(EnumNotes(o, n))
            BY DEF EnumNotes, ToSet
          <5>2. /\ Mild(When(o.const # n.const, "BREAKING"))
                /\ Mild(When(o.enum \ n.enum # {}, "BREAKING"))
            BY <2>6, <2>7, <5>1
          <5>3. o.const = n.const /\ o.enum \ n.enum = {}
            BY <5>2, BreakingLemma DEF When
          <5>4. QED
            BY <2>2, <5>3 DEF EnumIntroduced
        <4>5. n.minimum <= o.minimum /\ (n.pattern = 0 \/ n.pattern = o.pattern)
          <5>1. /\ When(n.minimum > o.minimum, "BREAKING") \in ToSet(ConstraintNotes(o, n))
                /\ PatternNote(o, n) \in ToSet(ConstraintNotes(o, n))
            BY DEF ConstraintNotes, ToSet
          <5>2. Mild(When(n.minimum > o.minimum, "BREAKING")) /\ Mild(PatternNote(o, n))
            BY <2>6, <2>7, <5>1
          <5>3. o.minimum \in Nat /\ n.minimum \in Nat
            BY DiffAssumption
          <5>4. ~(n.minimum > o.minimum)
            BY <5>2, BreakingLemma DEF When
          <5>5. n.pattern = 0 \/ n.pattern = o.pattern
            BY <5>2, BreakingLemma DEF When, PatternNote
          <5>6. QED
            BY <5>3, <5>4, <5>5
        <4>6. "number" \in v.types => v.val >= n.minimum
          <5>1. o.minimum \in Nat /\ n.minimum \in Nat /\ v.val \in Nat
            BY DiffAssumption, ValueAssumption
          <5>2. "number" \in v.types => v.val >= o.minimum
            BY <4>2 DEF ValidOther
          <5>3. QED
            BY <4>5, <5>1, <5>2
        <4>7. /\ n.const # {} => Canon(v) \in n.const
              /\ n.enum # {} => Canon(v) \in n.enum
          BY <4>2, <4>4 DEF ValidOther
        <4>8. n.types # {} => n.types \intersect v.types # {}
          BY <4>2, <4>3 DEF ValidOther
        <4>9. "string" \in v.types => (n.pattern = 0 \/ v.val = n.pattern)
          BY <4>2, <4>5 DEF ValidOther
        <4>10. ValidItems(n, v, Valid)
          <5>1. n.types = {"array"} => o.types = {"array"}
            BY <4>3
          <5>2. ValidItems(o, v, Valid)
            BY <4>2 DEF ValidOther
          <5>3. QED
            BY <2>2, <5>1, <5>2 DEF ValidItems
        <4>11. ValidOther(n, v, Valid)
          BY <4>6, <4>7, <4>8, <4>9, <4>10 DEF ValidOther
        <4>12. QED
          BY <4>1, <4>11, ValidIs DEF ValidFor
      <3>4. QED
        BY <3>2, <3>3
    <2>8. QED
      BY <2>5, <2>6, <2>7
  <1>3. QED
    BY <1>1, <1>2

\* So it holds of all: of two schemas of the least depth it does not hold of,
\* it holds, for their properties nest less.
LEMMA ClaimLemma == \A o, n \in Schemas : Claim(o, n)
  <1> DEFINE Bad == {k \in Nat : \E o, n \in Schemas : Depth[o] = k /\ ~Claim(o, n)}
  <1>1. \A s \in Schemas : Depth[s] \in Nat
    BY DiffAssumption
  <1>2. SUFFICES ASSUME Bad # {} PROVE FALSE
    BY <1>1
  <1>3. PICK k \in Bad : \A j \in Bad : k <= j
    <2>1. Bad \in SUBSET Nat
      OBVIOUS
    <2> HIDE DEF Bad
    <2>2. QED
      BY <1>2, <2>1, LeastNat
  <1>4. PICK o \in Schemas, n \in Schemas : k \in Nat /\ Depth[o] = k /\ ~Claim(o, n)
    OBVIOUS
  <1>5. ASSUME NEW p \in Both(o, n) PROVE Claim(o.props[p], n.props[p])
    <2>1. /\ o.props[p] \in Schemas /\ n.props[p] \in Schemas
          /\ Depth[o.props[p]] < Depth[o]
      BY DiffAssumption DEF Both
    <2>2. Depth[o.props[p]] \in Nat /\ Depth[o.props[p]] < k
      BY <1>1, <1>4, <2>1
    <2>3. Depth[o.props[p]] \notin Bad
      <3> HIDE DEF Bad
      <3>1. QED
        BY <1>3, <1>4, <2>2
    <2>4. QED
      BY <2>1, <2>2, <2>3
  <1>6. QED
    BY <1>4, <1>5, ClaimStep

\* A compatible revision keeps its callers, what the differ hides apart.
LEMMA CallersLemma ==
  ASSUME pinned \in Revisions, observed \in Revisions
  PROVE  CompatibleKeepsCallers
  <1> DEFINE o == Given(pinned.input)
             n == Given(observed.input)
             level == DiffSchema[<<o, n>>]
             notes == InputNotes(pinned, observed) \o OutputNotes(pinned, observed)
                      \o PermissionNotes(pinned, observed) \o DescriptionNotes(pinned, observed)
  <1> SUFFICES ASSUME Compatible(DiffTool(pinned, observed)), ~HiddenChange,
                      NEW args \in Arguments, Valid[<<pinned.input, args>>]
               PROVE  Valid[<<observed.input, args>>]
    BY DEF CompatibleKeepsCallers
  <1>1. CASE pinned.input = observed.input
    BY <1>1
  <1>2. CASE pinned.input # observed.input
    <2>1. /\ pinned.input \in Schemas /\ observed.input \in Schemas
          /\ pinned.output \in Schemas /\ observed.output \in Schemas
          /\ args \in Values
      BY RevisionAssumption
    <2>2. /\ o \in Schemas /\ n \in Schemas
          /\ Valid[<<o, args>>] <=> Valid[<<pinned.input, args>>]
          /\ Valid[<<n, args>>] <=> Valid[<<observed.input, args>>]
      BY <2>1, GivenLemma
    <2>3. ~Hidden[<<o, n>>]
      BY DEF HiddenChange
    <2> HIDE DEF o, n
    <2>4. level \in Ranked /\ (Compatible(level) => Valid[<<n, args>>])
      BY <2>1, <2>2, <2>3, ClaimLemma DEF Claim
    <2>5. Joined("NONE", notes) = DiffTool(pinned, observed)
      BY <1>2, ChangedTool DEF DiffTool
    <2>6. PICK S : notes \in Seq(S)
      BY ToolNotes
    <2>7. /\ Len(notes) = 7
          /\ notes[1] = InputNotes(pinned, observed)[1]
          /\ notes[2] = OutputNotes(pinned, observed)[1]
          /\ \A k \in 3..7 : notes[k] \in Ranked \union {NoNote}
      BY ToolNotes
    <2> HIDE DEF notes
    <2>8. notes[1] = level
      BY <1>2, <2>7, WhenLemma DEF InputNotes, o, n
    <2>9. notes[2] \in Ranked \union {NoNote}
      <3>1. "PERMISSION_CHANGE" \in Ranked /\ "NON_BREAKING" \in Ranked
        BY DEF Ranked, CHANGE_LEVEL
      <3>2. CASE "absent" \in {pinned.output.kind, observed.output.kind}
        BY <2>7, <3>1, <3>2 DEF OutputNotes
      <3>3. CASE "absent" \notin {pinned.output.kind, observed.output.kind}
        <4>1. DiffSchema[<<pinned.output, observed.output>>] \in Ranked
          BY <2>1, <3>3, ClaimLemma DEF Claim, HiddenChange
        <4>2. QED
          BY <2>7, <3>3, <4>1 DEF OutputNotes
      <3>4. QED
        BY <3>2, <3>3
    <2>10. \A k \in 1..7 : notes[k] \in Ranked \union {NoNote}
      <3>1. \A k \in 1..7 : k = 1 \/ k = 2 \/ k \in 3..7
        OBVIOUS
      <3>2. QED
        BY <2>4, <2>7, <2>8, <2>9, <3>1
    <2>11. Compatible(level)
      <3>1. /\ Joined("NONE", notes) \in Ranked
            /\ CHANGE_LEVEL[Joined("NONE", notes)] >= CHANGE_LEVEL[notes[1]]
        <4>1. /\ 1 \in 1..Len(notes) /\ notes[1] \in Ranked
              /\ \A k \in 1..Len(notes) : notes[k] \in Ranked \union {NoNote}
          BY <2>4, <2>7, <2>8, <2>10
        <4>2. QED
          BY <2>6, <4>1, NoteKept
      <3>2. CHANGE_LEVEL["NON_BREAKING"] = 2
        BY DEF CHANGE_LEVEL
      <3>3. QED
        BY <2>4, <2>5, <2>8, <3>1, <3>2, RanksLemma DEF Compatible
    <2>12. QED
      BY <2>2, <2>4, <2>11
  <1>3. QED
    BY <1>1, <1>2

LEMMA RevisionsLemma == ContractSpec => [](pinned \in Revisions /\ observed \in Revisions)
  <1> DEFINE Inv == pinned \in Revisions /\ observed \in Revisions
  <1>1. ContractInit => Inv
    BY DEF ContractInit
  <1>2. Inv /\ [ContractNext]_revisions => Inv'
    <2> SUFFICES ASSUME Inv, [ContractNext]_revisions PROVE Inv'
      OBVIOUS
    <2>1. CASE Publish
      BY <2>1 DEF Publish
    <2>2. CASE Repin
      BY <2>2 DEF Repin
    <2>3. CASE UNCHANGED revisions
      BY <2>3 DEF revisions
    <2>4. QED
      BY <2>1, <2>2, <2>3 DEF ContractNext
  <1>3. QED
    BY <1>1, <1>2, PTL DEF ContractSpec

\* A moved permission hint, a changed execution mode or an injected
\* description is never compatible, whatever else changes with it.
THEOREM DangerIsSeen == ContractSpec => []DangerIsNeverCompatible
  <1>1. pinned \in Revisions /\ observed \in Revisions => DangerIsNeverCompatible
    BY DangerLemma
  <1>2. QED
    BY <1>1, RevisionsLemma, PTL

\* A revision the differ calls compatible, and the server is re-pinned to,
\* breaks no caller, the changes it does not see apart.
THEOREM CallersAreKept == ContractSpec => []CompatibleKeepsCallers
  <1>1. pinned \in Revisions /\ observed \in Revisions => CompatibleKeepsCallers
    BY CallersLemma
  <1>2. QED
    BY <1>1, RevisionsLemma, PTL

-----------------------------------------------------------------------------
\* The store.

\* A transition gives a record again, and leaves its pin alone.
LEMMA TransitionLemma ==
  ASSUME NEW r \in TrustRecord, NEW to \in TrustStates, NEW reason \in Reasons
  PROVE  /\ Transition(r, to, reason) \in TrustRecord
         /\ Transition(r, to, reason).pin = r.pin
         /\ Transition(r, to, reason).last = r.last
         /\ Transition(r, to, reason).state \in {to, "REVOKED"}
         /\ r.state = "REVOKED" /\ reason # "MANUAL_APPROVAL"
              => Transition(r, to, reason).state = "REVOKED"
  BY DEF Transition, TrustRecord

\* observe() does not touch the pin, and does not move a REVOKED server.
LEMMA ObservedLemma ==
  ASSUME NEW r \in TrustRecord, NEW tools \in Toolsets
  PROVE  /\ Observed(r, tools) \in TrustRecord
         /\ Observed(r, tools).pin = r.pin
         /\ r.state # "UNKNOWN" => Observed(r, tools).state = r.state
         /\ r.state = "UNKNOWN" => Observed(r, tools).state \in {"OBSERVED", "REVOKED"}
  <1> DEFINE seen == Transition(r, "OBSERVED", "FIRST_OBSERVATION")
  <1>1. seen \in TrustRecord /\ seen.pin = r.pin /\ seen.state \in {"OBSERVED", "REVOKED"}
    BY TransitionLemma DEF TrustStates, Reasons
  <1>2. QED
    BY <1>1 DEF Observed, TrustRecord, TrustStates

\* pin() writes the pin, and does not move a REVOKED server.
LEMMA PinnedLemma ==
  ASSUME NEW r \in TrustRecord, NEW tools \in Toolsets
  PROVE  /\ Pinned(r, tools) \in TrustRecord
         /\ Pinned(r, tools).pin = tools
         /\ r.state = "REVOKED" => Pinned(r, tools).state = "REVOKED"
  <1> DEFINE seen == IF r.known THEN r ELSE Observed(r, tools)
             set  == [seen EXCEPT !.pin = tools]
  <1>1. seen \in TrustRecord /\ (r.state = "REVOKED" => seen.state = "REVOKED")
    BY ObservedLemma
  <1>2. /\ set \in TrustRecord /\ set.pin = tools /\ set.state = seen.state
    BY <1>1 DEF TrustRecord
  <1>3. /\ "PINNED" \in TrustStates /\ "PIN_CREATED" \in Reasons
        /\ "PIN_CREATED" # "MANUAL_APPROVAL"
    BY DEF TrustStates, Reasons
  <1>4. Pinned(r, tools) = Transition(set, "PINNED", "PIN_CREATED")
    BY DEF Pinned
  <1> HIDE DEF seen, set
  <1>5. QED
    BY <1>1, <1>2, <1>3, <1>4, TransitionLemma

\* evaluate() gives a record with a pin exactly when there was one, never
\* moves a REVOKED server, and leaves PINNED only servers that have a pin.
LEMMA EvaluatedLemma ==
  ASSUME NEW r \in TrustRecord, NEW tools \in Toolsets, NEW diff
  PROVE  /\ Evaluated(r, tools, diff) \in TrustRecord
         /\ r.state = "REVOKED" => Evaluated(r, tools, diff).state = "REVOKED"
         /\ r.pin # NoTools => Evaluated(r, tools, diff).pin # NoTools
         /\ r.pin = NoTools => Evaluated(r, tools, diff) = r
  <1> DEFINE e == Evaluated(r, tools, diff)
  <1>0. /\ "PINNED" \in TrustStates /\ "MISMATCH" \in TrustStates
        /\ "DIGEST_MATCH" \in Reasons /\ "TOOL_ADDED" \in Reasons
        /\ "COMPATIBLE_REPIN" \in Reasons
        /\ MismatchReason(diff) \in Reasons
        /\ MismatchReason(diff) # "MANUAL_APPROVAL"
    BY DEF TrustStates, Reasons, MismatchReason
  <1> HIDE DEF e
  <1>1. CASE Verdict(r, diff) \in {"unpinned", "ok"}
    <2>1. e = r
      BY <1>1 DEF e, Evaluated
    <2>2. QED
      BY <2>1 DEF e
  <1>2. CASE Verdict(r, diff) = "match"
    <2>1. e = Transition(r, "PINNED", "DIGEST_MATCH") /\ r.pin # NoTools
      BY <1>2 DEF e, Evaluated, Verdict
    <2>2. /\ e \in TrustRecord /\ e.pin = r.pin
          /\ r.state = "REVOKED" => e.state = "REVOKED"
      BY <2>1, <1>0, TransitionLemma
    <2>3. QED
      BY <2>1, <2>2 DEF e
  <1>3. CASE Verdict(r, diff) = "tool-added"
    <2>1. e = Transition(r, "MISMATCH", "TOOL_ADDED") /\ r.pin # NoTools
      BY <1>3 DEF e, Evaluated, Verdict
    <2>2. /\ e \in TrustRecord /\ e.pin = r.pin
          /\ r.state = "REVOKED" => e.state = "REVOKED"
      BY <2>1, <1>0, TransitionLemma
    <2>3. QED
      BY <2>1, <2>2 DEF e
  <1>4. CASE Verdict(r, diff) = "repinned"
    <2> DEFINE set == [r EXCEPT !.pin = tools]
    <2>1. e = Transition(set, "PINNED", "COMPATIBLE_REPIN") /\ r.pin # NoTools
      BY <1>4 DEF e, Evaluated, Verdict
    <2>2. set \in TrustRecord /\ set.pin = tools /\ set.state = r.state
      BY DEF TrustRecord
    <2>3. tools # NoTools
      BY StoreAssumption
    <2> HIDE DEF set
    <2>4. /\ e \in TrustRecord /\ e.pin = set.pin
          /\ set.state = "REVOKED" => e.state = "REVOKED"
      BY <2>1, <2>2, <1>0, TransitionLemma
    <2>5. QED
      BY <2>1, <2>2, <2>3, <2>4 DEF e
  <1>5. CASE Verdict(r, diff) = "incompatible"
    <2>1. e = Transition(r, "MISMATCH", MismatchReason(diff)) /\ r.pin # NoTools
      BY <1>5 DEF e, Evaluated, Verdict
    <2>2. /\ e \in TrustRecord /\ e.pin = r.pin
          /\ r.state = "REVOKED" => e.state = "REVOKED"
      BY <2>1, <1>0, TransitionLemma
    <2>3. QED
      BY <2>1, <2>2 DEF e
  <1>6. Verdict(r, diff) \in
          {"unpinned", "match", "incompatible", "tool-added", "repinned", "ok"}
    BY DEF Verdict
  <1>7. QED
    BY <1>1, <1>2, <1>3, <1>4, <1>5, <1>6

\* An incompatible diff against a pin is a mismatch.
LEMMA IncompatibleIsMismatch ==
  ASSUME NEW r \in TrustRecord, NEW diff, r.pin # NoTools, ~IsCompatible(diff)
  PROVE  Mismatched(r, diff)
  BY DEF Mismatched, Verdict, IsCompatible, Compatible, Ranked, CHANGE_LEVEL

\* approve() gives a record again, PINNED only with a pin.
LEMMA ApprovedLemma ==
  ASSUME NEW r \in TrustRecord, r.known
  PROVE  /\ Approved(r) \in TrustRecord
         /\ Approved(r).state = "PINNED" => Approved(r).pin # NoTools
  <1> DEFINE cleared == [r EXCEPT !.state = "UNKNOWN"]
             reset == Transition(cleared, "OBSERVED", "MANUAL_APPROVAL")
  <1>1. cleared \in TrustRecord /\ cleared.state = "UNKNOWN"
    BY DEF TrustRecord, TrustStates
  <1>2. reset \in TrustRecord /\ reset.state = "OBSERVED"
    BY <1>1 DEF Transition, TrustRecord, TrustStates, Reasons
  <1> HIDE DEF cleared
  <1>3. CASE reset.last = NoTools
    <2>1. Approved(r) = reset
      BY <1>3 DEF Approved, cleared
    <2>2. QED
      BY <1>2, <2>1
  <1>4. CASE reset.last # NoTools
    <2>1. Approved(r) = Pinned(reset, reset.last)
      BY <1>4 DEF Approved, cleared
    <2>2. reset.last \in Toolsets
      BY <1>2, <1>4 DEF TrustRecord
    <2> HIDE DEF reset
    <2>3. QED
      BY <1>2, <2>1, <2>2, PinnedLemma, StoreAssumption
  <1>5. QED
    BY <1>3, <1>4

-----------------------------------------------------------------------------
\* The session.

\* What the ids stand for, wherever they are: a listing carries a toolset, a
\* call is in flight only over a connection that was made, and one request at
\* most belongs to connect().
Answered == {m \in Message : m.id \in ListIds \union NoteIds => m.tools \in Toolsets}
NotACall == {m \in Answered : m.id \notin CallIds}

InFlight ==
  /\ wire \in Seq(Answered) /\ ready \in Seq(Answered)
  /\ \A m \in inbox : m.id \in ListIds \union NoteIds => m.tool = NoTool
  /\ phase \notin {"connected", "closed", "crashed"} =>
       /\ wire \in Seq(NotACall) /\ ready \in Seq(NotACall)
       /\ \A m \in inbox : m.id \notin CallIds
  /\ \A i \in Ids : /\ task[i].kind = "connect" => phase \in {"list", "crashed"}
                    /\ task[i].kind = "call" => task[i].tool \in Names
  /\ \A i, j \in Ids :
       task[i].kind = "connect" /\ task[j].kind = "connect" => i = j
  /\ phase = "initialize" => versionsLeft > 0
  /\ phase \in {"connected", "closed"} => observation \in Toolsets

Typing == TypeOK /\ InFlight

\* A PINNED server has a pin.
PinnedHasPin == trust.state = "PINNED" => trust.pin # NoTools

\* What the steps keep, to keep RevocationHolds and AdmissionStopsAtDrift.
Held == Typing /\ RevocationHolds /\ PinnedHasPin

\* The sequences stay well-typed whichever end they change at.
LEMMA SequenceLemma ==
  ASSUME NEW S, NEW s \in Seq(S)
  PROVE  /\ s # << >> => Head(s) \in S /\ Tail(s) \in Seq(S)
         /\ \A e \in S : Append(s, e) \in Seq(S)
         /\ << >> \in Seq(S)
  OBVIOUS

\* Every session starts well-typed.
LEMMA InitTyping == Init => Typing
  <1> SUFFICES ASSUME Init PROVE Typing
    OBVIOUS
  <1> USE SessionAssumption, StoreAssumption
  <1>1. NoRecord \in TrustRecord
    BY DEF NoRecord, TrustRecord, TrustStates, Reasons
  <1>2. Idle \in Task
    BY DEF Idle, Task
  <1>3. TypeOK
    <2>1. trust \in TrustRecord /\ task \in [Ids -> Task]
      BY <1>1, <1>2 DEF Init
    <2>2. callCounts \in [Names -> Nat] /\ served \in [Names -> Nat]
      BY DEF Init
    <2>3. serverTools \in Toolsets /\ versionsLeft \in Nat
      BY DEF Init
    <2>4. ready \in Seq(Message) /\ wire \in Seq(Message)
          /\ inbox \subseteq Request /\ receipts \subseteq Receipt
      BY SequenceLemma DEF Init
    <2>5. {drifted, unverified, missed} \subseteq BOOLEAN
      BY DEF Init
    <2>6. QED
      BY <2>1, <2>2, <2>3, <2>4, <2>5 DEF Init, TypeOK
  <1>4. << >> \in Seq(Answered) /\ << >> \in Seq(NotACall)
    OBVIOUS
  <1>5. \A i \in Ids : task[i].kind = "idle"
    BY DEF Init, Idle
  <1>6. versionsLeft > 0
    BY DEF Init
  <1>7. InFlight
    BY <1>4, <1>5, <1>6 DEF Init, InFlight
  <1>8. QED
    BY <1>3, <1>7 DEF Typing

\* A request started for a listing is a well-typed task.
LEMMA ListingLemma ==
  ASSUME NEW k \in {"connect", "notified", "refresh", "enumerate"}
  PROVE  /\ Listing(k) \in Task /\ Listing(k).kind = k /\ Listing(k).tool = NoTool
         /\ Idle \in Task /\ Idle.kind = "idle"
  BY DEF Listing, Idle, Task

\* An answer settles the await of its id, and no other.
LEMMA DeliverResponseTyping == Typing /\ DeliverResponse => Typing'
  <1> SUFFICES ASSUME Typing, DeliverResponse PROVE Typing'
    OBVIOUS
  <1> USE DEF Typing, DeliverResponse, ownerVars, sessionVars, serverVars, history
  <1>1. wire' = Tail(wire) /\ wire # << >>
    OBVIOUS
  <1>2. wire' \in Seq(Message) /\ wire' \in Seq(Answered)
        /\ Head(wire) \in Message /\ Head(wire) \in Answered
        /\ (wire \in Seq(NotACall) => wire' \in Seq(NotACall) /\ Head(wire) \in NotACall)
    BY <1>1, SequenceLemma DEF TypeOK, InFlight
  <1>3. Head(wire).id \in Ids
    BY <1>2 DEF Message
  <1> DEFINE i == Head(wire).id
  <1>4. CASE task[i].stage = "pending"
    <2>1. task' = [task EXCEPT ![i].stage = "resolved"] /\ ready' = Append(ready, Head(wire))
      BY <1>4
    <2>2. task' \in [Ids -> Task] /\ \A j \in Ids : task'[j].kind = task[j].kind
                                       /\ task'[j].tool = task[j].tool
      BY <1>3, <2>1 DEF TypeOK, Task
    <2>3. ready' \in Seq(Message) /\ ready' \in Seq(Answered)
          /\ (ready \in Seq(NotACall) /\ wire \in Seq(NotACall) => ready' \in Seq(NotACall))
      BY <1>2, <2>1, SequenceLemma DEF TypeOK, InFlight
    <2>4. QED
      BY <1>2, <2>2, <2>3, ZenonT(40) DEF TypeOK, InFlight
  <1>5. CASE task[i].stage # "pending"
    BY <1>2, <1>5 DEF TypeOK, InFlight
  <1>6. QED
    BY <1>4, <1>5

\* Asking for a listing under a listing's id.
LEMMA AskLemma ==
  ASSUME Typing,
         NEW i \in ListIds \union NoteIds,
         NEW k \in {"connect", "notified", "refresh", "enumerate"},
         Ask(i, Listing(k))
  PROVE  /\ i \in Ids
         /\ task' \in [Ids -> Task]
         /\ \A j \in Ids \ {i} : task'[j] = task[j]
         /\ task'[i].kind = k
         /\ inbox' \subseteq Request
         /\ \A m \in inbox' : m.id \in ListIds \union NoteIds => m.tool = NoTool
         /\ (\A m \in inbox : m.id \notin CallIds) => \A m \in inbox' : m.id \notin CallIds
  <1>1. i \in Ids /\ i \notin CallIds
    BY SessionAssumption DEF Ids
  <1>2. task' = [task EXCEPT ![i] = Listing(k)]
        /\ inbox' = inbox \union {[id |-> i, tool |-> NoTool]}
    BY ListingLemma DEF Ask
  <1>3. [id |-> i, tool |-> NoTool] \in Request
    BY <1>1 DEF Request
  <1>4. QED
    BY <1>1, <1>2, <1>3, ListingLemma DEF Typing, TypeOK, InFlight

\* The same for a listing a closed session may ask for in vain.
LEMMA SendLemma ==
  ASSUME Typing,
         NEW i \in ListIds \union NoteIds,
         NEW k \in {"notified", "refresh"},
         Send(i, Listing(k))
  PROVE  /\ i \in Ids
         /\ task' \in [Ids -> Task]
         /\ \A j \in Ids \ {i} : task'[j] = task[j]
         /\ task'[i].kind \in {k, task[i].kind} /\ task'[i].tool \in {NoTool, task[i].tool}
         /\ inbox' \subseteq Request
         /\ \A m \in inbox' : m.id \in ListIds \union NoteIds => m.tool = NoTool
         /\ (\A m \in inbox : m.id \notin CallIds) => \A m \in inbox' : m.id \notin CallIds
         /\ phase' = phase \/ phase' = "crashed"
  <1>1. CASE Ask(i, Listing(k)) /\ UNCHANGED phase
    BY <1>1, AskLemma, ListingLemma DEF Ask, Typing, TypeOK
  <1>2. CASE /\ task' = [task EXCEPT ![i] = Listing(k)]
             /\ UNCHANGED <<inbox, phase>>
    BY <1>2, ListingLemma DEF Ids, Typing, TypeOK, InFlight
  <1>3. CASE phase' = "crashed" /\ UNCHANGED <<task, inbox>>
    BY <1>3 DEF Ids, Typing, TypeOK, InFlight
  <1>4. QED
    BY <1>1, <1>2, <1>3 DEF Send

\* An announcement starts a listing, or is lost.
LEMMA DeliverNotificationTyping == Typing /\ DeliverNotification => Typing'
  <1> SUFFICES ASSUME Typing, DeliverNotification PROVE Typing'
    OBVIOUS
  <1> USE DEF Typing, ownerVars, sessionVars, serverVars
  <1>1. wire' \in Seq(Message) /\ wire' \in Seq(Answered)
        /\ (wire \in Seq(NotACall) => wire' \in Seq(NotACall))
    BY SequenceLemma DEF TypeOK, InFlight, DeliverNotification
  <1>2. CASE phase \in {"connected", "closed"}
    <2>1. PICK i \in NoteIds : Fresh(i) /\ Send(i, Listing("notified"))
      BY <1>2 DEF DeliverNotification
    <2>2. /\ i \in Ids /\ task' \in [Ids -> Task]
          /\ \A j \in Ids \ {i} : task'[j] = task[j]
          /\ task'[i].kind \in {"notified", "idle"}
          /\ inbox' \subseteq Request
          /\ \A m \in inbox' : m.id \in ListIds \union NoteIds => m.tool = NoTool
          /\ phase' = phase \/ phase' = "crashed"
      BY <2>1, SendLemma, ListingLemma DEF Fresh
    <2>3. TypeOK'
      BY <1>1, <1>2, <2>2 DEF TypeOK, DeliverNotification
    <2>4. InFlight'
      BY <1>1, <1>2, <2>2 DEF InFlight, TypeOK, DeliverNotification
    <2>5. QED
      BY <2>3, <2>4
  <1>3. CASE phase \notin {"connected", "closed"}
    BY <1>1, <1>3 DEF TypeOK, InFlight, DeliverNotification
  <1>4. QED
    BY <1>2, <1>3

\* A timer frees its id; only the listing of connect() ends the connection.
LEMMA TimeoutTyping ==
  ASSUME NEW i \in Ids, Typing, Timeout(i) PROVE Typing'
  <1> USE DEF Typing, ownerVars, pipeVars, serverVars, history
  <1>1. /\ task' = [task EXCEPT ![i] = Idle] /\ phase # "crashed"
        /\ phase' \in {"failed", "crashed", phase}
        /\ task[i].kind # "connect" => phase' \in {"crashed", phase}
    BY DEF Timeout
  <1>2. /\ task' \in [Ids -> Task]
        /\ \A j \in Ids \ {i} : task'[j] = task[j]
        /\ task'[i].kind = "idle"
    BY <1>1, ListingLemma DEF TypeOK
  <1>3. TypeOK'
    BY <1>1, <1>2 DEF TypeOK, Timeout
  <1>4. CASE task[i].kind = "connect"
    <2>1. phase = "list" /\ phase' = "failed" /\ \A j \in Ids : task'[j].kind # "connect"
      BY <1>1, <1>2, <1>4 DEF InFlight, Timeout
    <2>2. QED
      BY <1>2, <1>3, <2>1 DEF InFlight, Timeout
  <1>5. CASE task[i].kind # "connect"
    BY <1>1, <1>2, <1>3, <1>5 DEF InFlight, Timeout
  <1>6. QED
    BY <1>4, <1>5

\* connect() gives up at the last protocol version.
LEMMA InitializeFailsTyping == Typing /\ InitializeFails => Typing'
  <1> SUFFICES ASSUME Typing, InitializeFails PROVE Typing'
    OBVIOUS
  <1> USE DEF Typing, InitializeFails, ownerVars, pipeVars, serverVars, history
  <1>1. versionsLeft' \in Nat /\ phase' \in {"initialize", "failed"}
        /\ (phase' = "initialize" => versionsLeft' > 0)
    BY DEF TypeOK, InFlight
  <1>2. TypeOK'
    BY <1>1 DEF TypeOK
  <1>3. InFlight'
    BY <1>1 DEF InFlight
  <1>4. QED
    BY <1>2, <1>3

\* The handshake starts the one listing connect() awaits.
LEMMA InitializedTyping ==
  ASSUME NEW i \in ListIds, NEW b \in Bindings, Typing, Initialized(i, b) PROVE Typing'
  <1> USE DEF Typing, ownerVars, serverVars, history
  <1>1. /\ i \in Ids /\ task' \in [Ids -> Task]
        /\ \A j \in Ids \ {i} : task'[j] = task[j]
        /\ task'[i].kind = "connect"
        /\ inbox' \subseteq Request
        /\ \A m \in inbox' : m.id \in ListIds \union NoteIds => m.tool = NoTool
        /\ (\A m \in inbox : m.id \notin CallIds) => \A m \in inbox' : m.id \notin CallIds
    BY AskLemma DEF Initialized
  <1>2. b \in Toolsets \union {NoTools}
    BY SessionAssumption
  <1>3. TypeOK'
    BY <1>1, <1>2 DEF TypeOK, Initialized
  <1>4. \A j \in Ids : task[j].kind # "connect"
    BY DEF InFlight, Initialized
  <1>5. InFlight'
    BY <1>1, <1>4 DEF InFlight, Initialized
  <1>6. QED
    BY <1>3, <1>5

\* The id at the head of the microtask queue goes idle again.
LEMMA IdleLemma ==
  ASSUME Typing, NEW i \in Ids, task' = [task EXCEPT ![i] = Idle]
  PROVE  /\ task' \in [Ids -> Task]
         /\ \A j \in Ids \ {i} : task'[j] = task[j]
         /\ task'[i].kind = "idle"
  BY ListingLemma DEF Typing, TypeOK

\* What is left of the microtask queue, and the result that was at its head.
LEMMA ResumeLemma ==
  ASSUME Typing, NEW i \in Ids, NEW k, NEW st, Resume(i, k, st)
  PROVE  /\ ready' \in Seq(Message) /\ ready' \in Seq(Answered)
         /\ (ready \in Seq(NotACall) => ready' \in Seq(NotACall))
         /\ i \in ListIds \union NoteIds => Result \in Toolsets
         /\ (i \in CallIds => ready \notin Seq(NotACall))
  <1>1. /\ ready # << >> /\ Head(ready).id = i /\ ready' = Tail(ready)
        /\ ready \in Seq(Message) /\ ready \in Seq(Answered)
    BY DEF Typing, TypeOK, InFlight, Resume
  <1>2. /\ ready' \in Seq(Message) /\ ready' \in Seq(Answered)
        /\ Head(ready) \in Answered
        /\ ready \in Seq(NotACall) =>
             ready' \in Seq(NotACall) /\ Head(ready) \in NotACall
    BY <1>1, SequenceLemma
  <1>3. QED
    BY <1>1, <1>2 DEF Result, Answered, NotACall

\* connect() ends with an observation.
LEMMA ResumeConnectTyping ==
  ASSUME NEW i \in ListIds \union NoteIds, Typing, ResumeConnect(i) PROVE Typing'
  <1> USE DEF pipeVars, serverVars
  <1>1. /\ i \in Ids /\ task[i].kind = "connect" /\ phase # "crashed"
        /\ task' = [task EXCEPT ![i] = Idle] /\ phase' = "connected"
        /\ observation' = Result
    BY DEF ResumeConnect, Resume, Ids
  <1>2. /\ ready' \in Seq(Message) /\ ready' \in Seq(Answered)
        /\ Result \in Toolsets
    BY <1>1, ResumeLemma DEF ResumeConnect
  <1>3. /\ task' \in [Ids -> Task] /\ task'[i].kind = "idle"
        /\ \A j \in Ids \ {i} : task'[j] = task[j]
    BY <1>1, IdleLemma
  <1>4. trust' \in TrustRecord
    <2>1. trust \in TrustRecord
      BY DEF Typing, TypeOK
    <2>2. "SUSPECT" \in TrustStates /\ "BREAKING_CHANGE" \in Reasons
      BY DEF TrustStates, Reasons
    <2>3. Suspected(trust, "BREAKING_CHANGE") \in TrustRecord
      BY <2>1, <2>2, TransitionLemma DEF Suspected
    <2>4. QED
      BY <2>1, <2>3 DEF ResumeConnect
  <1>5. \A j \in Ids : task'[j].kind # "connect"
    BY <1>1, <1>3 DEF Typing, InFlight
  <1>6. TypeOK'
    BY <1>1, <1>2, <1>3, <1>4 DEF Typing, TypeOK, ResumeConnect
  <1>7. InFlight'
    BY <1>1, <1>2, <1>3, <1>5 DEF Typing, InFlight, ResumeConnect
  <1>8. QED
    BY <1>6, <1>7 DEF Typing

\* A refresh, or the middleware's listing, is asked for over a live connection.
LEMMA AskedTyping ==
  ASSUME NEW i \in ListIds, Typing, Refresh(i) \/ Enumerate(i) PROVE Typing'
  <1> USE DEF ownerVars, sessionVars, serverVars, history
  <1>1. /\ phase = "connected"
        /\ UNCHANGED <<ownerVars, sessionVars, ready, wire, serverVars, history>>
        /\ i \in Ids /\ task' \in [Ids -> Task]
        /\ \A j \in Ids \ {i} : task'[j] = task[j]
        /\ task'[i].kind \in {"refresh", "enumerate"}
        /\ inbox' \subseteq Request
        /\ \A m \in inbox' : m.id \in ListIds \union NoteIds => m.tool = NoTool
    BY AskLemma DEF Refresh, Enumerate, CanStartListing
  <1>2. TypeOK'
    BY <1>1 DEF Typing, TypeOK
  <1>3. InFlight'
    BY <1>1 DEF Typing, InFlight
  <1>4. QED
    BY <1>2, <1>3 DEF Typing

\* What a refresh makes of the trust record: it stays a record, keeps its
\* pin or has none, stays REVOKED, and is REVOKED once drifted.
LEMMA JudgedLemma ==
  ASSUME Typing, NEW tools \in Toolsets, Judged(tools)
  PROVE  /\ observation' = tools /\ trust' \in TrustRecord
         /\ drifted' \in BOOLEAN /\ unverified' \in BOOLEAN
         /\ trust.state = "REVOKED" => trust'.state = "REVOKED"
         /\ drifted' /\ ~drifted => trust'.state = "REVOKED"
         /\ trust.pin # NoTools => trust'.pin # NoTools
         /\ trust.pin = NoTools => trust' = trust
  <1>1. PICK diff \in {DiffToolsets(observation, tools)} :
          /\ observation' = tools
          /\ trust' = IF Mismatched(trust, diff) /\ ~IsCompatible(diff)
                      THEN Revoked(Evaluated(trust, tools, diff), "BREAKING_CHANGE")
                      ELSE Evaluated(trust, tools, diff)
          /\ drifted' = (drifted \/ (trust.pin # NoTools /\ ~IsCompatible(diff)))
          /\ unverified' = (unverified /\ Verdict(trust, diff) # "repinned")
    BY DEF Judged
  <1> DEFINE e == Evaluated(trust, tools, diff)
             r == Revoked(e, "BREAKING_CHANGE")
  <1>2. trust \in TrustRecord /\ drifted \in BOOLEAN /\ unverified \in BOOLEAN
    BY DEF Typing, TypeOK
  <1>3. /\ e \in TrustRecord
        /\ trust.state = "REVOKED" => e.state = "REVOKED"
        /\ trust.pin # NoTools => e.pin # NoTools
        /\ trust.pin = NoTools => e = trust
    BY <1>2, EvaluatedLemma
  <1>4. /\ "REVOKED" \in TrustStates /\ "BREAKING_CHANGE" \in Reasons
    BY DEF TrustStates, Reasons
  <1>5. r = Transition(e, "REVOKED", "BREAKING_CHANGE")
    BY DEF Revoked
  <1>6. trust.pin # NoTools /\ ~IsCompatible(diff) => trust' = r
    BY <1>1, <1>2, IncompatibleIsMismatch
  <1>7. trust' \in {e, r} /\ (trust.pin = NoTools => trust' = e)
    BY <1>1 DEF Mismatched, Verdict
  <1> HIDE DEF e, r
  <1>8. /\ r \in TrustRecord /\ r.pin = e.pin /\ r.state = "REVOKED"
    BY <1>3, <1>4, <1>5, TransitionLemma
  <1>9. QED
    BY <1>1, <1>2, <1>3, <1>6, <1>7, <1>8

\* A listing judged is a well-typed observation.
LEMMA ResumeRefreshTyping ==
  ASSUME NEW i \in ListIds \union NoteIds, Typing, ResumeRefresh(i) PROVE Typing'
  <1> USE DEF pipeVars, serverVars
  <1>1. /\ i \in Ids /\ task' = [task EXCEPT ![i] = Idle] /\ Judged(Result)
        /\ Resume(i, "refresh", "resolved") \/ Resume(i, "notified", "resolved")
    BY DEF ResumeRefresh, Ids
  <1>2. /\ ready' \in Seq(Message) /\ ready' \in Seq(Answered)
        /\ (ready \in Seq(NotACall) => ready' \in Seq(NotACall))
        /\ Result \in Toolsets
    BY <1>1, ResumeLemma
  <1>3. /\ task' \in [Ids -> Task] /\ task'[i].kind = "idle"
        /\ \A j \in Ids \ {i} : task'[j] = task[j]
    BY <1>1, IdleLemma
  <1>4. /\ observation' = Result /\ trust' \in TrustRecord
        /\ drifted' \in BOOLEAN /\ unverified' \in BOOLEAN
    BY <1>1, <1>2, JudgedLemma
  <1>5. TypeOK'
    BY <1>2, <1>3, <1>4 DEF Typing, TypeOK, ResumeRefresh
  <1>6. InFlight'
    BY <1>2, <1>3, <1>4 DEF Typing, InFlight, ResumeRefresh
  <1>7. QED
    BY <1>5, <1>6 DEF Typing

\* The middleware's listing ends, or turns into a refresh under the same id.
LEMMA ResumeEnumerateTyping ==
  ASSUME NEW i \in ListIds \union NoteIds, Typing, ResumeEnumerate(i) PROVE Typing'
  <1> USE DEF ownerVars, sessionVars, serverVars, history
  <1>1. /\ i \in Ids /\ Resume(i, "enumerate", "resolved")
        /\ task[i].kind = "enumerate"
        /\ UNCHANGED <<ownerVars, versionsLeft, binding, observation, sessions,
                       wire, serverVars, history>>
    BY DEF ResumeEnumerate, Resume, Ids
  <1>2. /\ ready' \in Seq(Message) /\ ready' \in Seq(Answered)
        /\ (ready \in Seq(NotACall) => ready' \in Seq(NotACall))
    BY <1>1, ResumeLemma
  <1>3. /\ task' \in [Ids -> Task] /\ task'[i].kind \in {"idle", "refresh", "enumerate"}
        /\ \A j \in Ids \ {i} : task'[j] = task[j]
        /\ inbox' \subseteq Request
        /\ \A m \in inbox' : m.id \in ListIds \union NoteIds => m.tool = NoTool
        /\ (\A m \in inbox : m.id \notin CallIds) => \A m \in inbox' : m.id \notin CallIds
        /\ phase' = phase \/ phase' = "crashed"
    <2>1. CASE Send(i, Listing("refresh"))
      BY <1>1, <2>1, SendLemma
    <2>2. CASE task' = [task EXCEPT ![i] = Idle] /\ UNCHANGED <<inbox, phase>>
      BY <1>1, <2>2, IdleLemma DEF Typing, TypeOK, InFlight
    <2>3. QED
      BY <2>1, <2>2 DEF ResumeEnumerate
  <1>4. TypeOK'
    BY <1>1, <1>2, <1>3 DEF Typing, TypeOK
  <1>5. InFlight'
    BY <1>1, <1>2, <1>3 DEF Typing, InFlight
  <1>6. QED
    BY <1>4, <1>5 DEF Typing

\* An admitted call is counted, and holds the contract the guard read.
LEMMA CallTyping ==
  ASSUME NEW i \in CallIds, NEW tool \in Names, NEW argsOk \in BOOLEAN,
         NEW allowed \in BOOLEAN, Typing, Call(i, tool, argsOk, allowed)
  PROVE  Typing'
  <1> USE DEF sessionVars, pipeVars, serverVars, history
  <1> DEFINE t == [kind |-> "call", stage |-> "authorized", tool |-> tool,
                   seen |-> observation[tool]]
             m == [id |-> i, tools |-> NoTools]
  <1>1. /\ phase = "connected" /\ i \in Ids
        /\ task' = [task EXCEPT ![i] = t] /\ ready' = Append(ready, m)
        /\ UNCHANGED <<trust, receipts, sessionVars, pipeVars, serverVars, history>>
    BY DEF Call, Ids
  <1>2. t \in Task /\ t.kind = "call" /\ t.tool = tool
    BY <1>1 DEF Typing, InFlight, Task, Toolsets
  <1>3. m \in Message /\ m \in Answered
    BY <1>1, SessionAssumption DEF Message, Answered
  <1>4. callCounts' \in [Names -> Nat]
    BY DEF Call, Typing, TypeOK
  <1> HIDE DEF t, m
  <1>5. ready' \in Seq(Message) /\ ready' \in Seq(Answered)
    BY <1>1, <1>3, SequenceLemma DEF Typing, TypeOK, InFlight
  <1>6. /\ task' \in [Ids -> Task] /\ task'[i] = t
        /\ \A j \in Ids \ {i} : task'[j] = task[j]
    BY <1>1, <1>2 DEF Typing, TypeOK
  <1>7. TypeOK'
    BY <1>1, <1>4, <1>5, <1>6 DEF Typing, TypeOK
  <1>8. InFlight'
    BY <1>1, <1>2, <1>5, <1>6 DEF Typing, InFlight
  <1>9. QED
    BY <1>7, <1>8 DEF Typing

\* A call leaves for the server under its own id.
LEMMA SendCallTyping ==
  ASSUME NEW i \in CallIds, Typing, SendCall(i) PROVE Typing'
  <1> USE DEF ownerVars, sessionVars, serverVars, history
  <1> DEFINE t == [task[i] EXCEPT !.stage = "pending"]
  <1>1. /\ i \in Ids /\ i \notin ListIds \union NoteIds
        /\ Resume(i, "call", "authorized") /\ task[i].kind = "call"
        /\ Ask(i, t)
        /\ UNCHANGED <<ownerVars, sessionVars, wire, serverVars, history>>
    BY SessionAssumption DEF SendCall, Resume, Ids
  <1>2. /\ ready' \in Seq(Message) /\ ready' \in Seq(Answered)
        /\ ready \notin Seq(NotACall)
    BY <1>1, ResumeLemma
  <1>3. phase \in {"connected", "closed", "crashed"}
    BY <1>2 DEF Typing, InFlight
  <1>4. t \in Task /\ t.kind = "call" /\ t.tool = task[i].tool /\ t.tool \in Names
    <2>1. task[i] \in Task /\ task[i].tool \in Names
      BY <1>1 DEF Typing, TypeOK, InFlight
    <2>2. QED
      BY <1>1, <2>1 DEF Task
  <1> HIDE DEF t
  <1>5. /\ task' \in [Ids -> Task] /\ task'[i] = t
        /\ \A j \in Ids \ {i} : task'[j] = task[j]
    BY <1>1, <1>4 DEF Ask, Typing, TypeOK
  <1>6. /\ inbox' \subseteq Request
        /\ \A m \in inbox' : m.id \in ListIds \union NoteIds => m.tool = NoTool
    <2>1. [id |-> i, tool |-> t.tool] \in Request
      BY <1>1, <1>4 DEF Request
    <2>2. inbox' = inbox \union {[id |-> i, tool |-> t.tool]}
      BY <1>1 DEF Ask
    <2>3. QED
      BY <1>1, <2>1, <2>2 DEF Typing, TypeOK, InFlight
  <1>7. TypeOK'
    BY <1>1, <1>2, <1>5, <1>6 DEF Typing, TypeOK
  <1>8. InFlight'
    BY <1>1, <1>2, <1>3, <1>4, <1>5, <1>6 DEF Typing, InFlight
  <1>9. QED
    BY <1>7, <1>8 DEF Typing

\* A call that returns leaves a receipt.
LEMMA ResumeCallTyping ==
  ASSUME NEW i \in CallIds, Typing, ResumeCall(i) PROVE Typing'
  <1> USE DEF sessionVars, pipeVars, serverVars, history
  <1>1. /\ i \in Ids /\ Resume(i, "call", "resolved") /\ task[i].kind = "call"
        /\ phase # "crashed"
        /\ task' = [task EXCEPT ![i] = Idle]
        /\ UNCHANGED <<trust, callCounts, sessionVars, pipeVars, serverVars, history>>
    BY DEF ResumeCall, Resume, Ids
  <1>2. /\ ready' \in Seq(Message) /\ ready' \in Seq(Answered)
        /\ ready \notin Seq(NotACall)
    BY <1>1, ResumeLemma
  <1>3. phase \in {"connected", "closed"} /\ observation \in Toolsets
    BY <1>1, <1>2 DEF Typing, InFlight
  <1>4. /\ task' \in [Ids -> Task] /\ task'[i].kind = "idle"
        /\ \A j \in Ids \ {i} : task'[j] = task[j]
    BY <1>1, IdleLemma
  <1>5. receipts' \subseteq Receipt
    <2>1. task[i].tool \in Names /\ task[i].seen \in Contracts \union {NoTool}
      BY <1>1 DEF Typing, TypeOK, InFlight, Task
    <2>2. observation[task[i].tool] \in Contracts \union {NoTool}
      BY <1>3, <2>1 DEF Toolsets
    <2>3. [tool |-> task[i].tool, contract |-> observation[task[i].tool],
           authorized |-> task[i].seen] \in Receipt
      BY <2>1, <2>2 DEF Receipt
    <2>4. QED
      BY <2>3 DEF ResumeCall, Typing, TypeOK
  <1>6. TypeOK'
    BY <1>1, <1>2, <1>4, <1>5 DEF Typing, TypeOK
  <1>7. InFlight'
    BY <1>1, <1>2, <1>3, <1>4 DEF Typing, InFlight
  <1>8. QED
    BY <1>6, <1>7 DEF Typing

\* What the owner's operations on the store make of the trust record.
LEMMA OwnerRecordLemma ==
  ASSUME Typing, Observe \/ Pin \/ ManualRevoke \/ Approve
  PROVE  /\ trust' \in TrustRecord
         /\ drifted' \in BOOLEAN /\ unverified' \in BOOLEAN
         /\ UNCHANGED <<callCounts, receipts, sessionVars, task, ready, pipeVars,
                        serverVars, missed>>
         /\ Approve \/ (drifted' = drifted)
         /\ Approve => ~drifted'
         /\ ~Approve /\ trust.state = "REVOKED" => trust'.state = "REVOKED"
         /\ PinnedHasPin => PinnedHasPin'
  <1> USE DEF PinnedHasPin
  <1>1. /\ trust \in TrustRecord /\ drifted \in BOOLEAN /\ unverified \in BOOLEAN
        /\ phase = "connected" => observation \in Toolsets
    BY DEF Typing, TypeOK, InFlight
  <1>2. CASE Observe
    <2>1. observation \in Toolsets /\ trust' = Observed(trust, observation)
      BY <1>1, <1>2 DEF Observe
    <2>2. /\ trust' \in TrustRecord
          /\ trust.state = "REVOKED" => trust'.state = "REVOKED"
          /\ trust'.pin = trust.pin /\ trust'.state \in {trust.state, "OBSERVED", "REVOKED"}
      BY <1>1, <2>1, ObservedLemma
    <2>3. QED
      BY <1>1, <1>2, <2>2 DEF Observe, Approve, history
  <1>3. CASE Pin
    <2>1. observation \in Toolsets /\ trust' = Pinned(trust, observation)
      BY <1>1, <1>3 DEF Pin
    <2>2. /\ trust' \in TrustRecord
          /\ trust.state = "REVOKED" => trust'.state = "REVOKED"
          /\ trust'.pin # NoTools
      BY <1>1, <2>1, PinnedLemma, StoreAssumption
    <2>3. QED
      BY <1>1, <1>3, <2>2 DEF Pin, Approve
  <1>4. CASE ManualRevoke
    <2>1. "REVOKED" \in TrustStates /\ "MANUAL_REVOKE" \in Reasons
      BY DEF TrustStates, Reasons
    <2>2. trust' = Transition(trust, "REVOKED", "MANUAL_REVOKE")
      BY <1>4 DEF ManualRevoke, Revoked
    <2>3. trust' \in TrustRecord /\ trust'.state = "REVOKED"
      BY <1>1, <2>1, <2>2, TransitionLemma
    <2>4. QED
      BY <1>1, <1>4, <2>3 DEF ManualRevoke, Approve, history
  <1>5. CASE Approve
    <2>1. trust.known /\ trust' = Approved(trust)
      BY <1>5 DEF Approve
    <2>2. /\ trust' \in TrustRecord
          /\ trust'.state = "PINNED" => trust'.pin # NoTools
      BY <1>1, <2>1, ApprovedLemma
    <2>3. QED
      BY <1>1, <1>5, <2>2 DEF Approve
  <1>6. QED
    BY <1>2, <1>3, <1>4, <1>5

\* The owner's operations on the store leave the session alone.
LEMMA OwnerTyping ==
  ASSUME Typing, Observe \/ Pin \/ ManualRevoke \/ Approve PROVE Typing'
  <1> USE DEF sessionVars, pipeVars, serverVars
  <1>1. /\ trust' \in TrustRecord
        /\ drifted' \in BOOLEAN /\ unverified' \in BOOLEAN
        /\ UNCHANGED <<callCounts, receipts, sessionVars, task, ready, pipeVars,
                       serverVars, missed>>
    BY OwnerRecordLemma
  <1>2. TypeOK'
    BY <1>1 DEF Typing, TypeOK
  <1>3. InFlight'
    BY <1>1 DEF Typing, InFlight
  <1>4. QED
    BY <1>2, <1>3 DEF Typing

\* Closing leaves the pipe to drain.
LEMMA CloseTyping == Typing /\ Close => Typing'
  <1> SUFFICES ASSUME Typing, Close PROVE Typing'
    OBVIOUS
  <1> USE DEF ownerVars, pipeVars, serverVars, history
  <1>1. TypeOK'
    BY DEF Typing, TypeOK, Close
  <1>2. InFlight'
    BY DEF Typing, InFlight, Close
  <1>3. QED
    BY <1>1, <1>2 DEF Typing

\* A new session starts with an empty pipe and every version to try.
LEMMA ReconnectTyping == Typing /\ Reconnect => Typing'
  <1> SUFFICES ASSUME Typing, Reconnect PROVE Typing'
    OBVIOUS
  <1> USE SessionAssumption DEF ownerVars, serverVars
  <1>1. << >> \in Seq(Message) /\ << >> \in Seq(Answered) /\ << >> \in Seq(NotACall)
    OBVIOUS
  <1>2. sessions' \in Nat
    BY DEF Typing, TypeOK, Reconnect
  <1>3. TypeOK'
    BY <1>1, <1>2 DEF Typing, TypeOK, Reconnect
  <1>4. InFlight'
    BY <1>1 DEF Typing, InFlight, Reconnect
  <1>5. QED
    BY <1>3, <1>4 DEF Typing

\* The server answers a listing with a toolset, under the id it was asked.
LEMMA AnswerTyping ==
  ASSUME NEW i \in Ids, Typing, Answer(i) PROVE Typing'
  <1> USE DEF ownerVars, sessionVars, history
  <1>1. PICK m \in inbox :
          /\ m.id = i
          /\ inbox' = inbox \ {m}
          /\ wire' = Append(wire, [id |-> i,
                              tools |-> IF m.tool = NoTool THEN serverTools ELSE NoTools])
          /\ served' = IF m.tool # NoTool /\ served[m.tool] <= MaxCallsPerTool
                       THEN [served EXCEPT ![m.tool] = @ + 1] ELSE served
    BY DEF Answer
  <1> DEFINE a == [id |-> i, tools |-> IF m.tool = NoTool THEN serverTools ELSE NoTools]
  <1>2. a \in Message /\ a \in Answered
    BY <1>1 DEF Typing, TypeOK, InFlight, Message, Answered
  <1>3. i \notin CallIds => a \in NotACall
    BY <1>2 DEF NotACall
  <1>4. wire' = Append(wire, a)
    BY <1>1
  <1> HIDE DEF a
  <1>5. /\ wire' \in Seq(Message) /\ wire' \in Seq(Answered)
        /\ wire \in Seq(NotACall) /\ i \notin CallIds => wire' \in Seq(NotACall)
    BY <1>2, <1>3, <1>4, SequenceLemma DEF Typing, TypeOK, InFlight
  <1>6. served' \in [Names -> Nat]
    <2>1. m.tool \in Names \union {NoTool}
      BY DEF Typing, TypeOK, Request
    <2>2. CASE served' = served
      BY <2>2 DEF Typing, TypeOK
    <2>3. CASE m.tool \in Names /\ served' = [served EXCEPT ![m.tool] = @ + 1]
      BY <2>3 DEF Typing, TypeOK
    <2>4. QED
      BY <1>1, <2>1, <2>2, <2>3
  <1>7. TypeOK'
    BY <1>1, <1>5, <1>6 DEF Typing, TypeOK, Answer
  <1>8. InFlight'
    BY <1>1, <1>5 DEF Typing, InFlight, Answer
  <1>9. QED
    BY <1>7, <1>8 DEF Typing

\* The server's toolset changes within Toolsets.
LEMMA ChangeTyping ==
  ASSUME NEW tools \in ServerToolsets, NEW announced \in Notifies, Typing,
         Change(tools, announced)
  PROVE  Typing'
  <1> USE SessionAssumption DEF ownerVars, sessionVars, history
  <1> DEFINE a == [id |-> NoId, tools |-> NoTools]
  <1>1. a \in Message /\ a \in Answered /\ a \in NotACall
    BY DEF Message, Answered, NotACall
  <1>2. wire' \in {wire, Append(wire, a)}
    BY DEF Change
  <1> HIDE DEF a
  <1>3. /\ wire' \in Seq(Message) /\ wire' \in Seq(Answered)
        /\ wire \in Seq(NotACall) => wire' \in Seq(NotACall)
    <2>1. wire \in Seq(Message) /\ wire \in Seq(Answered)
      BY DEF Typing, TypeOK, InFlight
    <2>2. CASE wire' = wire
      BY <2>1, <2>2
    <2>3. CASE wire' = Append(wire, a)
      BY <1>1, <2>1, <2>3, SequenceLemma
    <2>4. QED
      BY <1>2, <2>2, <2>3
  <1>4. TypeOK'
    BY <1>3 DEF Typing, TypeOK, Change
  <1>5. InFlight'
    BY <1>3 DEF Typing, InFlight, Change
  <1>6. QED
    BY <1>4, <1>5 DEF Typing

\* Every step of the session, its owner and its server keeps the types.
LEMMA NextTyping == Typing /\ [Next]_vars => Typing'
  <1> SUFFICES ASSUME Typing, [Next]_vars PROVE Typing'
    OBVIOUS
  <1>1. CASE InitializeFails
    BY <1>1, InitializeFailsTyping
  <1>2. CASE \E i \in ListIds, b \in Bindings : Initialized(i, b)
    BY <1>2, InitializedTyping
  <1>3. CASE \E i \in ListIds : Refresh(i) \/ Enumerate(i)
    BY <1>3, AskedTyping
  <1>4. CASE \E i \in CallIds, tool \in Names, argsOk, allowed \in BOOLEAN :
               Call(i, tool, argsOk, allowed)
    BY <1>4, CallTyping
  <1>5. CASE Deliver
    BY <1>5, DeliverResponseTyping, DeliverNotificationTyping DEF Deliver
  <1>6. CASE ResumeAny
    BY <1>6, ResumeConnectTyping, ResumeRefreshTyping, ResumeEnumerateTyping,
       SendCallTyping, ResumeCallTyping DEF ResumeAny, ResumeList
  <1>7. CASE \E i \in Ids : Timeout(i)
    BY <1>7, TimeoutTyping
  <1>8. CASE Owner
    BY <1>8, OwnerTyping, CloseTyping, ReconnectTyping DEF Owner
  <1>9. CASE \E i \in Ids : Answer(i)
    BY <1>9, AnswerTyping
  <1>10. CASE \E tools \in ServerToolsets, announced \in Notifies :
                Change(tools, announced)
    BY <1>10, ChangeTyping
  <1>11. CASE UNCHANGED vars
    BY <1>11 DEF vars, ownerVars, sessionVars, pipeVars, serverVars, history,
       Typing, TypeOK, InFlight
  <1>12. QED
    BY <1>1, <1>2, <1>3, <1>4, <1>5, <1>6, <1>7, <1>8, <1>9, <1>10, <1>11 DEF Next

\* Whatever toolsets, policy, ids and bounds there are, the session's state
\* has its types.
THEOREM TypeCorrect == Spec => []TypeOK
  <1>1. Init => Typing
    BY InitTyping
  <1>2. Typing /\ [Next]_vars => Typing'
    BY NextTyping
  <1>3. Typing => TypeOK
    BY DEF Typing
  <1>4. QED
    BY <1>1, <1>2, <1>3, PTL DEF Spec

\* Every step keeps a drifted server REVOKED, and a PINNED server's pin.
LEMMA NextHeld == Held /\ [Next]_vars => Held'
  <1> SUFFICES ASSUME Held, [Next]_vars PROVE Held'
    OBVIOUS
  <1> USE DEF Held
  <1>1. Typing'
    BY NextTyping
  <1>2. trust \in TrustRecord /\ drifted \in BOOLEAN
    BY DEF Typing, TypeOK
  <1>3. CASE UNCHANGED <<trust, drifted>>
    BY <1>1, <1>3 DEF RevocationHolds, PinnedHasPin
  <1>4. CASE \E i \in ListIds \union NoteIds : ResumeConnect(i)
    <2>1. /\ drifted' = drifted
          /\ trust' \in {trust, Transition(trust, "SUSPECT", "BREAKING_CHANGE")}
      BY <1>4 DEF ResumeConnect, Suspected
    <2>2. "SUSPECT" \in TrustStates /\ "BREAKING_CHANGE" \in Reasons
      BY DEF TrustStates, Reasons
    <2>3. /\ trust.state = "REVOKED" => trust'.state = "REVOKED"
          /\ trust'.pin = trust.pin /\ trust'.state \in {trust.state, "SUSPECT", "REVOKED"}
      BY <1>2, <2>1, <2>2, TransitionLemma
    <2>4. QED
      BY <1>1, <2>1, <2>3 DEF RevocationHolds, PinnedHasPin
  <1>5. CASE \E i \in ListIds \union NoteIds : ResumeRefresh(i)
    <2>1. PICK i \in ListIds \union NoteIds : ResumeRefresh(i)
      BY <1>5
    <2>2. Judged(Result) /\ Result \in Toolsets
      <3>1. /\ Judged(Result) /\ i \in Ids
            /\ Resume(i, "refresh", "resolved") \/ Resume(i, "notified", "resolved")
        BY <2>1 DEF ResumeRefresh, Ids
      <3>2. QED
        BY <3>1, ResumeLemma
    <2>3. /\ drifted' \in BOOLEAN
          /\ trust.state = "REVOKED" => trust'.state = "REVOKED"
          /\ drifted' /\ ~drifted => trust'.state = "REVOKED"
          /\ trust.pin # NoTools => trust'.pin # NoTools
          /\ trust.pin = NoTools => trust' = trust
      BY <2>2, JudgedLemma
    <2>4. QED
      BY <1>1, <1>2, <2>3 DEF RevocationHolds, PinnedHasPin
  <1>6. CASE Observe \/ Pin \/ ManualRevoke \/ Approve
    BY <1>1, <1>6, OwnerRecordLemma DEF RevocationHolds
  <1>7. QED
    BY <1>3, <1>4, <1>5, <1>6
    DEF Next, InitializeFails, Initialized, Ask, Refresh, Enumerate, Call, Deliver,
        DeliverResponse, DeliverNotification, ResumeAny, ResumeList, ResumeEnumerate,
        SendCall, ResumeCall, Send, Timeout, Owner, Close, Reconnect, Answer, Change, vars,
        ownerVars, history

\* A session starts with nothing judged and nothing pinned.
LEMMA InitHeld == Init => Held
  BY InitTyping DEF Init, Held, RevocationHolds, PinnedHasPin, NoRecord

\* An incompatible change to a pinned server leaves it REVOKED until somebody
\* approves it: for every differ, store policy, number of requests in flight,
\* and order of their answers.
THEOREM RevocationIsSticky == Spec => []RevocationHolds
  <1>1. Init => Held
    BY InitHeld
  <1>2. Held /\ [Next]_vars => Held'
    BY NextHeld
  <1>3. Held => RevocationHolds
    BY DEF Held
  <1>4. QED
    BY <1>1, <1>2, <1>3, PTL DEF Spec

\* A call's id becomes one when the guard admits it, and at no other step.
LEMMA NewCallLemma ==
  ASSUME Typing, [Next]_vars, NEW i \in CallIds, NewCall(i)
  PROVE  \E tool \in Names, argsOk, allowed \in BOOLEAN : Call(i, tool, argsOk, allowed)
  <1>0. /\ i \in Ids /\ task \in [Ids -> Task] /\ i \notin ListIds \union NoteIds
        /\ task[i].kind # "call" /\ task'[i].kind = "call"
    BY SessionAssumption DEF Ids, Typing, TypeOK, NewCall
  <1>1. CASE \E j \in ListIds \union NoteIds, k \in {"connect", "notified", "refresh"} :
               Ask(j, Listing(k))
    BY <1>0, <1>1, AskLemma
  <1>2. CASE \E j \in Ids : task' = [task EXCEPT ![j] = Idle]
    BY <1>0, <1>2, IdleLemma
  <1>3. CASE UNCHANGED task
    BY <1>0, <1>3
  <1>4. CASE DeliverResponse
    <2>1. \/ UNCHANGED task
          \/ \E j \in Ids : task' = [task EXCEPT ![j].stage = "resolved"]
      <3>1. Head(wire) \in Message
        BY <1>4, SequenceLemma DEF DeliverResponse, Typing, TypeOK
      <3>2. QED
        BY <1>4, <3>1 DEF DeliverResponse, Message
    <2>2. CASE \E j \in Ids : task' = [task EXCEPT ![j].stage = "resolved"]
      <3>1. PICK j \in Ids : task' = [task EXCEPT ![j].stage = "resolved"]
        BY <2>2
      <3>2. task'[i].kind = task[i].kind
        BY <1>0, <3>1 DEF Task
      <3>3. QED
        BY <1>0, <3>2
    <2>3. QED
      BY <1>3, <2>1, <2>2
  <1>5. CASE \E j \in CallIds : SendCall(j)
    <2>1. PICK j \in CallIds : SendCall(j)
      BY <1>5
    <2>2. /\ task[j].kind = "call"
          /\ task' = [task EXCEPT ![j] = [task[j] EXCEPT !.stage = "pending"]]
      BY <2>1 DEF SendCall, Resume, Ask
    <2>3. QED
      BY <1>0, <2>2
  <1>6. CASE \E j \in CallIds, tool \in Names, argsOk, allowed \in BOOLEAN :
               Call(j, tool, argsOk, allowed)
    <2>1. PICK j \in CallIds, tool \in Names, argsOk \in BOOLEAN, allowed \in BOOLEAN :
                 Call(j, tool, argsOk, allowed)
      BY <1>6
    <2>2. j = i
      BY <1>0, <2>1 DEF Call
    <2>3. QED
      BY <2>1, <2>2
  <1>7. CASE \E j \in ListIds : Enumerate(j)
    BY <1>0, <1>7, AskLemma DEF Enumerate
  <1>8. CASE \E j \in ListIds \union NoteIds, k \in {"notified", "refresh"} :
               Send(j, Listing(k))
    BY <1>0, <1>8, SendLemma
  <1>9. CASE Deliver
    BY <1>3, <1>4, <1>8, <1>9 DEF Deliver, DeliverNotification
  <1>10. CASE ResumeAny
    BY <1>2, <1>5, <1>8, <1>10
    DEF ResumeAny, ResumeList, ResumeConnect, ResumeRefresh, ResumeEnumerate,
        ResumeCall, Ids
  <1>11. CASE Owner
    BY <1>3, <1>11 DEF Owner, Observe, Pin, ManualRevoke, Approve, Close, Reconnect
  <1>12. CASE UNCHANGED vars
    BY <1>3, <1>12 DEF vars
  <1>13. QED
    BY <1>1, <1>2, <1>3, <1>6, <1>7, <1>9, <1>10, <1>11, <1>12
    DEF Next, InitializeFails, Initialized, Refresh, Timeout, Answer, Change

\* An enforcing guard admits no call between an incompatible change and the
\* approval that follows it, and under requirePinned none without a pin.
THEOREM NoAdmissionAfterDrift == Spec => AdmissionStopsAtDrift
  <1> DEFINE Stops == \A i \in CallIds : NewCall(i) /\ Mode = "enforce" =>
                        /\ ~drifted
                        /\ RequirePinned => trust.pin # NoTools
  <1>1. Held /\ [Next]_vars => Stops
    <2> SUFFICES ASSUME Held, [Next]_vars, NEW i \in CallIds, NewCall(i),
                        Mode = "enforce"
                 PROVE  ~drifted /\ (RequirePinned => trust.pin # NoTools)
      OBVIOUS
    <2>1. PICK tool \in Names, argsOk \in BOOLEAN, allowed \in BOOLEAN :
                 Call(i, tool, argsOk, allowed)
      BY NewCallLemma DEF Held
    <2>2. trust.state # "REVOKED" /\ (RequirePinned => trust.state = "PINNED")
      BY <2>1 DEF Call, Refused
    <2>3. QED
      BY <2>2 DEF Held, RevocationHolds, PinnedHasPin
  <1>2. Stops => [Stops]_vars
    OBVIOUS
  <1>3. Init => Held
    BY InitHeld
  <1>4. Held /\ [Next]_vars => Held'
    BY NextHeld
  <1> HIDE DEF Stops
  <1>5. Spec => [][Stops]_vars
    BY <1>1, <1>2, <1>3, <1>4, PTL DEF Spec
  <1>6. QED
    BY <1>5 DEF Stops, AdmissionStopsAtDrift

-----------------------------------------------------------------------------
(* The ceiling: what the guard counted covers what the server executed, what *)
(* waits in its pipe, and what was admitted and is not sent yet.             *)
Owed(t)  == {i \in CallIds : task[i].stage = "authorized" /\ task[i].tool = t}
Asked(t) == {m \in inbox : m.tool = t}

WithinBudget(t) ==
  /\ IsFiniteSet(Owed(t)) /\ IsFiniteSet(Asked(t))
  /\ served[t] + Cardinality(Owed(t)) + Cardinality(Asked(t)) <= callCounts[t]
  /\ callCounts[t] <= MaxCallsPerTool

Budget == \A t \in Names : WithinBudget(t)

LEMMA OneMore ==
  ASSUME NEW S, NEW x, IsFiniteSet(S)
  PROVE  /\ IsFiniteSet(S \union {x}) /\ Cardinality(S) \in Nat
         /\ Cardinality(S \union {x}) <= Cardinality(S) + 1
  <1>1. /\ IsFiniteSet(S \union {x})
        /\ Cardinality(S \union {x}) = IF x \in S THEN Cardinality(S) ELSE Cardinality(S) + 1
    BY FS_AddElement
  <1>2. Cardinality(S) \in Nat
    BY FS_CardinalityType
  <1>3. QED
    BY <1>1, <1>2

\* A step that admits, sends and serves no call.
Harmless ==
  /\ UNCHANGED <<callCounts, served>>
  /\ \A i \in CallIds : task'[i] = task[i] \/ task'[i].stage # "authorized"
  /\ \A m \in inbox' : m \in inbox \/ m.tool = NoTool

LEMMA HarmlessBudget == ASSUME Typing, Budget, Harmless PROVE Budget'
  <1> SUFFICES ASSUME NEW t \in Names PROVE WithinBudget(t)'
    BY DEF Budget
  <1>1. Owed(t)' \in SUBSET Owed(t) /\ Asked(t)' \in SUBSET Asked(t)
    BY SessionAssumption DEF Harmless, Owed, Asked
  <1>2. WithinBudget(t)
    BY DEF Budget
  <1>3. /\ IsFiniteSet(Owed(t)') /\ Cardinality(Owed(t)') <= Cardinality(Owed(t))
        /\ IsFiniteSet(Asked(t)') /\ Cardinality(Asked(t)') <= Cardinality(Asked(t))
    BY <1>1, <1>2, FS_Subset DEF WithinBudget
  <1>4. /\ Cardinality(Owed(t)) \in Nat /\ Cardinality(Asked(t)) \in Nat
        /\ Cardinality(Owed(t)') \in Nat /\ Cardinality(Asked(t)') \in Nat
    BY <1>2, <1>3, FS_CardinalityType DEF WithinBudget
  <1>5. served[t] \in Nat /\ callCounts[t] \in Nat /\ MaxCallsPerTool \in Nat
    BY SessionAssumption DEF Typing, TypeOK
  <1>6. QED
    BY <1>2, <1>3, <1>4, <1>5 DEF WithinBudget, Harmless

\* An admission is counted: the tool is listed, and the ceiling not reached.
LEMMA CallBudget ==
  ASSUME Typing, Budget, Mode = "enforce", ~AllowUnknownTools, NEW i \in CallIds,
         NEW tool \in Names, NEW argsOk \in BOOLEAN, NEW allowed \in BOOLEAN,
         Call(i, tool, argsOk, allowed)
  PROVE  Budget'
  <1> SUFFICES ASSUME NEW t \in Names PROVE WithinBudget(t)'
    BY DEF Budget
  <1>1. WithinBudget(t)
    BY DEF Budget
  <1>2. ~Refused(tool, argsOk, allowed) /\ ~Unlisted(tool) /\ callCounts[tool] < MaxCallsPerTool
    BY SessionAssumption DEF Call, Refused, Typing, TypeOK
  <1>3. /\ callCounts' = [callCounts EXCEPT ![tool] = @ + 1]
        /\ served' = served /\ inbox' = inbox
    BY <1>2 DEF Call, Counted, pipeVars, serverVars
  <1>4. i \in Ids /\ task \in [Ids -> Task]
    BY DEF Typing, TypeOK, Ids
  <1>5. Owed(t)' \in SUBSET (IF t = tool THEN Owed(t) \union {i} ELSE Owed(t))
    BY <1>4 DEF Call, Owed
  <1>6. Asked(t)' = Asked(t)
    BY <1>3 DEF Asked
  <1>7. /\ IsFiniteSet(Owed(t) \union {i})
        /\ Cardinality(Owed(t) \union {i}) <= Cardinality(Owed(t)) + 1
        /\ Cardinality(Owed(t)) \in Nat /\ Cardinality(Asked(t)) \in Nat
    BY <1>1, OneMore, FS_CardinalityType DEF WithinBudget
  <1>8. /\ IsFiniteSet(Owed(t)') /\ Cardinality(Owed(t)') \in Nat
        /\ Cardinality(Owed(t) \union {i}) \in Nat
        /\ t = tool => Cardinality(Owed(t)') <= Cardinality(Owed(t) \union {i})
        /\ t # tool => Cardinality(Owed(t)') <= Cardinality(Owed(t))
    BY <1>1, <1>5, <1>7, FS_Subset, FS_CardinalityType DEF WithinBudget
  <1>9. callCounts \in [Names -> Nat] /\ served[t] \in Nat /\ MaxCallsPerTool \in Nat
    BY SessionAssumption DEF Typing, TypeOK
  <1>10. QED
    BY <1>1, <1>2, <1>3, <1>6, <1>7, <1>8, <1>9 DEF WithinBudget

\* A call that is sent is asked instead of owed.
LEMMA SendCallBudget ==
  ASSUME Typing, Budget, NEW i \in CallIds, SendCall(i) PROVE Budget'
  <1> SUFFICES ASSUME NEW t \in Names PROVE WithinBudget(t)'
    BY DEF Budget
  <1> DEFINE m == [id |-> i, tool |-> task[i].tool]
  <1>1. WithinBudget(t)
    BY DEF Budget
  <1>2. i \in Ids /\ task \in [Ids -> Task]
    BY DEF Typing, TypeOK, Ids
  <1>3. /\ task[i].stage = "authorized"
        /\ task' = [task EXCEPT ![i] = [task[i] EXCEPT !.stage = "pending"]]
        /\ callCounts' = callCounts /\ served' = served
    BY DEF SendCall, Resume, Ask, ownerVars, serverVars
  <1>4. inbox' = inbox \union {m}
    <2>1. [task[i] EXCEPT !.stage = "pending"].tool = task[i].tool
      BY <1>2 DEF Task
    <2>2. QED
      BY <2>1 DEF SendCall, Ask
  <1>5. task'[i].stage = "pending" /\ (\A j \in CallIds : j # i => task'[j] = task[j])
    BY <1>2, <1>3 DEF Task
  <1>6. Owed(t)' = Owed(t) \ {i}
    BY <1>5 DEF Owed
  <1>7. Asked(t)' \in SUBSET (IF task[i].tool = t THEN Asked(t) \union {m} ELSE Asked(t))
    BY <1>4 DEF Asked
  <1>8. i \in Owed(t) <=> task[i].tool = t
    BY <1>3 DEF Owed
  <1> HIDE DEF m
  <1>9. /\ IsFiniteSet(Asked(t) \union {m})
        /\ Cardinality(Asked(t) \union {m}) <= Cardinality(Asked(t)) + 1
        /\ Cardinality(Owed(t)) \in Nat /\ Cardinality(Asked(t)) \in Nat
    BY <1>1, OneMore, FS_CardinalityType DEF WithinBudget
  <1>10. /\ IsFiniteSet(Owed(t)') /\ Cardinality(Owed(t)') \in Nat
         /\ Cardinality(Owed(t)') = IF task[i].tool = t THEN Cardinality(Owed(t)) - 1
                                    ELSE Cardinality(Owed(t))
    BY <1>1, <1>6, <1>8, FS_RemoveElement, FS_CardinalityType DEF WithinBudget
  <1>11. /\ IsFiniteSet(Asked(t)') /\ Cardinality(Asked(t)') \in Nat
         /\ Cardinality(Asked(t) \union {m}) \in Nat
         /\ task[i].tool = t => Cardinality(Asked(t)') <= Cardinality(Asked(t) \union {m})
         /\ task[i].tool # t => Cardinality(Asked(t)') <= Cardinality(Asked(t))
    BY <1>1, <1>7, <1>9, FS_Subset, FS_CardinalityType DEF WithinBudget
  <1>12. served[t] \in Nat /\ callCounts[t] \in Nat /\ MaxCallsPerTool \in Nat
    BY SessionAssumption DEF Typing, TypeOK
  <1>13. QED
    BY <1>1, <1>3, <1>9, <1>10, <1>11, <1>12 DEF WithinBudget

\* A call that is answered was served instead of asked.
LEMMA AnswerBudget ==
  ASSUME Typing, Budget, NEW i \in Ids, Answer(i) PROVE Budget'
  <1> SUFFICES ASSUME NEW t \in Names PROVE WithinBudget(t)'
    BY DEF Budget
  <1>1. PICK m \in inbox :
          /\ inbox' = inbox \ {m}
          /\ served' = IF m.tool # NoTool /\ served[m.tool] <= MaxCallsPerTool
                       THEN [served EXCEPT ![m.tool] = @ + 1] ELSE served
    BY DEF Answer
  <1>2. WithinBudget(t)
    BY DEF Budget
  <1>3. task' = task /\ callCounts' = callCounts
    BY DEF Answer, ownerVars
  <1>4. Owed(t)' = Owed(t)
    BY <1>3 DEF Owed
  <1>5. Asked(t)' = Asked(t) \ {m} /\ (m \in Asked(t) <=> m.tool = t)
    BY <1>1 DEF Asked
  <1>6. /\ IsFiniteSet(Asked(t)') /\ Cardinality(Asked(t)') \in Nat
        /\ Cardinality(Asked(t)) \in Nat /\ Cardinality(Owed(t)) \in Nat
        /\ Cardinality(Asked(t)') = IF m.tool = t THEN Cardinality(Asked(t)) - 1
                                    ELSE Cardinality(Asked(t))
    BY <1>2, <1>5, FS_RemoveElement, FS_CardinalityType DEF WithinBudget
  <1>7. served \in [Names -> Nat] /\ callCounts[t] \in Nat /\ MaxCallsPerTool \in Nat
    BY SessionAssumption DEF Typing, TypeOK
  <1>8. served'[t] <= IF m.tool = t THEN served[t] + 1 ELSE served[t]
    BY <1>1, <1>7
  <1>9. served'[t] \in Nat
    BY <1>1, <1>7
  <1>10. QED
    BY <1>2, <1>3, <1>4, <1>6, <1>7, <1>8, <1>9 DEF WithinBudget

\* Requests for a listing are harmless, and so is what settles one.
LEMMA AskHarmless ==
  ASSUME Typing, UNCHANGED <<callCounts, served>>, NEW i \in Ids,
         NEW k \in {"connect", "notified", "refresh", "enumerate"},
         Ask(i, Listing(k)) \/ (task' = [task EXCEPT ![i] = Listing(k)] /\ UNCHANGED inbox)
  PROVE  Harmless
  <1>1. task \in [Ids -> Task] /\ CallIds \subseteq Ids
    BY DEF Typing, TypeOK, Ids
  <1>2. task' = [task EXCEPT ![i] = Listing(k)]
    BY DEF Ask
  <1>3. Listing(k).stage = "pending" /\ Listing(k).tool = NoTool
    BY DEF Listing, Idle
  <1>4. \A m \in inbox' : m \in inbox \/ m.tool = NoTool
    BY <1>3 DEF Ask
  <1>5. QED
    BY <1>1, <1>2, <1>3, <1>4 DEF Harmless

LEMMA SettledHarmless ==
  ASSUME Typing, UNCHANGED <<callCounts, served>>, NEW i \in Ids,
         task' = [task EXCEPT ![i] = Idle] \/ task' = [task EXCEPT ![i].stage = "resolved"],
         UNCHANGED inbox
  PROVE  Harmless
  <1>1. task \in [Ids -> Task] /\ CallIds \subseteq Ids
    BY DEF Typing, TypeOK, Ids
  <1>2. task'[i].stage # "authorized"
    BY <1>1 DEF Idle, Task
  <1>3. \A j \in CallIds : j # i => task'[j] = task[j]
    BY <1>1
  <1>4. QED
    BY <1>2, <1>3 DEF Harmless

LEMMA NextBudget ==
  ASSUME Typing, Budget, Mode = "enforce", ~AllowUnknownTools, [Next]_vars
  PROVE  Budget'
  <1> USE DEF ownerVars, sessionVars, pipeVars, serverVars, history
  <1>1. CASE UNCHANGED <<task, inbox, callCounts, served>>
    BY <1>1, HarmlessBudget DEF Harmless
  <1>2. ASSUME NEW i \in Ids, NEW k \in {"connect", "notified", "refresh", "enumerate"},
               Ask(i, Listing(k)) \/ Send(i, Listing(k)), UNCHANGED <<callCounts, served>>
        PROVE  Budget'
    <2>1. CASE Ask(i, Listing(k)) \/ (task' = [task EXCEPT ![i] = Listing(k)] /\ UNCHANGED inbox)
      BY <1>2, <2>1, AskHarmless, HarmlessBudget
    <2>2. CASE UNCHANGED <<task, inbox>>
      BY <1>1, <1>2, <2>2
    <2>3. QED
      BY <1>2, <2>1, <2>2 DEF Send
  <1>3. ASSUME NEW i \in Ids, task' = [task EXCEPT ![i] = Idle],
               UNCHANGED <<inbox, callCounts, served>>
        PROVE  Budget'
    BY <1>3, SettledHarmless, HarmlessBudget
  <1>4. CASE \/ InitializeFails \/ Observe \/ Pin \/ ManualRevoke \/ Approve \/ Close
             \/ \E tools \in ServerToolsets, announced \in Notifies : Change(tools, announced)
             \/ UNCHANGED vars
    BY <1>1, <1>4 DEF InitializeFails, Observe, Pin, ManualRevoke, Approve, Close, Change, vars
  <1>5. CASE \/ \E i \in ListIds, b \in Bindings : Initialized(i, b)
             \/ \E i \in ListIds : Refresh(i) \/ Enumerate(i)
    BY <1>2, <1>5 DEF Initialized, Refresh, Enumerate, Ids
  <1>6. CASE \E i \in CallIds, tool \in Names, argsOk, allowed \in BOOLEAN :
               Call(i, tool, argsOk, allowed)
    BY <1>6, CallBudget
  <1>7. CASE DeliverNotification
    BY <1>1, <1>2, <1>7 DEF DeliverNotification, Ids
  <1>8. CASE DeliverResponse
    <2>1. Head(wire) \in Message /\ Head(wire).id # NoId
      BY <1>8, SequenceLemma DEF DeliverResponse, Typing, TypeOK
    <2>2. Head(wire).id \in Ids
      BY <2>1 DEF Message
    <2>3. /\ UNCHANGED <<inbox, callCounts, served>>
          /\ \/ UNCHANGED task
             \/ task' = [task EXCEPT ![Head(wire).id].stage = "resolved"]
      BY <1>8 DEF DeliverResponse
    <2>4. QED
      BY <1>1, <2>2, <2>3, SettledHarmless, HarmlessBudget
  <1>9. CASE \E i \in ListIds \union NoteIds : ResumeEnumerate(i)
    BY <1>2, <1>3, <1>9 DEF ResumeEnumerate, Ids
  <1>10. CASE \/ \E i \in ListIds \union NoteIds : ResumeConnect(i) \/ ResumeRefresh(i)
              \/ \E i \in CallIds : ResumeCall(i)
              \/ \E i \in Ids : Timeout(i)
    BY <1>3, <1>10 DEF ResumeConnect, ResumeRefresh, ResumeCall, Timeout, Ids, Judged
  <1>11. CASE \E i \in CallIds : SendCall(i)
    BY <1>11, SendCallBudget
  <1>12. CASE \E i \in Ids : Answer(i)
    BY <1>12, AnswerBudget
  <1>13. CASE Reconnect
    BY <1>13, HarmlessBudget DEF Reconnect, Harmless
  <1>14. QED
    BY <1>4, <1>5, <1>6, <1>7, <1>8, <1>9, <1>10, <1>11, <1>12, <1>13
    DEF Next, Deliver, ResumeAny, ResumeList, Owner

LEMMA InitBudget == Init => Budget
  <1> SUFFICES ASSUME Init, NEW t \in Names PROVE WithinBudget(t)
    BY DEF Budget
  <1>1. Owed(t) = {} /\ Asked(t) = {}
    BY DEF Init, Owed, Asked, Idle, Ids
  <1>2. served[t] = 0 /\ callCounts[t] = 0 /\ MaxCallsPerTool \in Nat
    BY SessionAssumption DEF Init
  <1>3. QED
    BY <1>1, <1>2, FS_EmptySet DEF WithinBudget

\* However many calls are in flight, time out, or are answered after their
\* session was closed, an enforcing guard that refuses unknown tools lets no
\* more of them reach the server per tool than its ceiling.
THEOREM CeilingIsKept ==
  ASSUME Mode = "enforce", ~AllowUnknownTools
  PROVE  Spec => []CeilingHolds
  <1>1. Init => Typing /\ Budget
    BY InitTyping, InitBudget
  <1>2. Typing /\ Budget /\ [Next]_vars => Typing' /\ Budget'
    BY NextTyping, NextBudget
  <1>3. Typing /\ Budget => CeilingHolds
    <2> SUFFICES ASSUME Typing, Budget, NEW t \in Names PROVE served[t] <= MaxCallsPerTool
      BY DEF CeilingHolds
    <2>1. WithinBudget(t)
      BY DEF Budget
    <2>2. Cardinality(Owed(t)) \in Nat /\ Cardinality(Asked(t)) \in Nat
      BY <2>1, FS_CardinalityType DEF WithinBudget
    <2>3. served[t] \in Nat /\ callCounts[t] \in Nat /\ MaxCallsPerTool \in Nat
      BY SessionAssumption DEF Typing, TypeOK
    <2>4. QED
      BY <2>1, <2>2, <2>3 DEF WithinBudget
  <1>4. QED
    BY <1>1, <1>2, <1>3, PTL DEF Spec

-----------------------------------------------------------------------------
\* The pin and the listing.

\* No step apart, and one step further.
LEMMA UnnoticedLemma ==
  ASSUME NEW s, NEW t, NEW u \in Toolsets
  PROVE  /\ Unnoticed(s, s)
         /\ Unnoticed(s, t) /\ Quiet(t, u) => Unnoticed(s, u)
  <1>1. Unnoticed(s, s)
    BY DEF Unnoticed
  <1>2. ASSUME Unnoticed(s, t), Quiet(t, u) PROVE Unnoticed(s, u)
    <2> SUFFICES ASSUME NEW S \in SUBSET Toolsets, s \in S, u \notin S
                 PROVE  \E x \in S, y \in Toolsets \ S : Quiet(x, y)
      BY DEF Unnoticed
    <2>1. CASE t \in S
      BY <1>2, <2>1
    <2>2. CASE t \notin S
      BY <1>2, <2>2 DEF Unnoticed
    <2>3. QED
      BY <2>1, <2>2
  <1>3. QED
    BY <1>1, <1>2

\* Ids that an earlier connection's listings left pending.  Until the next one
\* is made, nothing in flight answers them.
Orphaned == {i \in Ids : task[i].kind \in {"refresh", "notified", "enumerate"}}
Settled == {m \in Message : m.id \notin Orphaned}
Connecting == phase \notin {"connected", "closed", "crashed"}

Orphans ==
  Connecting => /\ wire \in Seq(Settled) /\ ready \in Seq(Settled)
                /\ \A m \in inbox : m.id \notin Orphaned

LEMMA OrphansStay ==
  ASSUME Orphaned' \subseteq Orphaned,
         wire' \in Seq(Settled), ready' \in Seq(Settled),
         \A m \in inbox' : m.id \notin Orphaned
  PROVE  Orphans'
  <1>1. Settled \subseteq Settled'
    BY DEF Settled
  <1>2. wire' \in Seq(Settled') /\ ready' \in Seq(Settled')
    BY <1>1, SeqMonotonic
  <1>3. QED
    BY <1>2 DEF Orphans

\* A step that gives no id to a listing but connect()'s orphans none.
LEMMA OrphanedLemma ==
  ASSUME \A i \in Ids : task'[i].kind \in {task[i].kind, "idle", "connect", "call"}
  PROVE  Orphaned' \subseteq Orphaned
  BY DEF Orphaned

LEMMA NextOrphans == Typing /\ Orphans /\ [Next]_vars => Orphans'
  <1> SUFFICES ASSUME Typing, Orphans, [Next]_vars, Connecting' PROVE Orphans'
    BY DEF Orphans
  <1> USE DEF Connecting
  <1>1. /\ task \in [Ids -> Task] /\ inbox \subseteq Request
        /\ wire \in Seq(Message) /\ ready \in Seq(Message)
    BY DEF Typing, TypeOK
  <1>2. Connecting => /\ wire \in Seq(Settled) /\ ready \in Seq(Settled)
                      /\ \A m \in inbox : m.id \notin Orphaned
    BY DEF Orphans
  <1>3. CASE InitializeFails
    <2>1. Connecting /\ UNCHANGED <<task, wire, ready, inbox>>
      BY <1>3 DEF InitializeFails, pipeVars
    <2>2. QED
      BY <1>2, <2>1, OrphansStay DEF Orphaned
  <1>4. ASSUME NEW i \in ListIds, NEW b \in Bindings, Initialized(i, b) PROVE Orphans'
    <2>1. Connecting /\ Ask(i, Listing("connect")) /\ UNCHANGED <<ready, wire>> /\ Fresh(i)
      BY <1>4 DEF Initialized
    <2>2. /\ i \in Ids /\ task' = [task EXCEPT ![i] = Listing("connect")]
          /\ \E t : inbox' = inbox \union {[id |-> i, tool |-> t]}
          /\ task[i] = Idle
      BY <2>1 DEF Ask, Ids, Fresh
    <2>3. Listing("connect").kind = "connect" /\ Idle.kind = "idle"
      BY DEF Listing, Idle
    <2>4. Orphaned' \subseteq Orphaned /\ i \notin Orphaned
      BY <1>1, <2>2, <2>3 DEF Orphaned
    <2>5. \A m \in inbox' : m.id \notin Orphaned
      BY <1>2, <2>1, <2>2, <2>4
    <2>6. QED
      BY <1>2, <2>1, <2>4, <2>5, OrphansStay
  <1>5. ASSUME NEW i \in ListIds, Refresh(i) \/ Enumerate(i) PROVE FALSE
    BY <1>5 DEF Refresh, Enumerate, CanStartListing, sessionVars
  <1>6. ASSUME NEW i \in CallIds, NEW tool \in Names, NEW argsOk \in BOOLEAN,
               NEW allowed \in BOOLEAN, Call(i, tool, argsOk, allowed)
        PROVE  FALSE
    BY <1>6 DEF Call, sessionVars
  <1>7. CASE DeliverResponse
    <2>1. /\ phase' = phase /\ inbox' = inbox /\ wire # << >> /\ wire' = Tail(wire)
          /\ \/ /\ task' = [task EXCEPT ![Head(wire).id].stage = "resolved"]
                /\ ready' = Append(ready, Head(wire))
             \/ UNCHANGED <<task, ready>>
      BY <1>7 DEF DeliverResponse, sessionVars
    <2>2. \A i \in Ids : task'[i].kind = task[i].kind
      <3>1. CASE task' = [task EXCEPT ![Head(wire).id].stage = "resolved"]
        BY <1>1, <3>1 DEF Task
      <3>2. QED
        BY <2>1, <3>1
    <2>3. Head(wire) \in Settled /\ wire' \in Seq(Settled)
      BY <1>2, <2>1, SequenceLemma
    <2>4. ready' \in Seq(Settled)
      <3>1. ready \in Seq(Settled)
        BY <1>2, <2>1
      <3>2. Append(ready, Head(wire)) \in Seq(Settled)
        BY <2>3, <3>1, SequenceLemma
      <3>3. QED
        BY <2>1, <3>1, <3>2
    <2>5. Orphaned' \subseteq Orphaned
      BY <2>2, OrphanedLemma
    <2>6. QED
      BY <1>2, <2>1, <2>3, <2>4, <2>5, OrphansStay
  <1>8. CASE DeliverNotification
    <2>1. /\ wire # << >> /\ wire' = Tail(wire) /\ ready' = ready
          /\ phase \notin {"connected", "closed"} => UNCHANGED <<task, inbox, phase>>
      BY <1>8 DEF DeliverNotification
    <2>2. phase \notin {"connected", "closed"}
      <3>1. \A i : Send(i, Listing("notified")) => phase' \in {phase, "crashed"}
        BY DEF Send
      <3>2. QED
        BY <1>8, <3>1 DEF DeliverNotification
    <2>3. wire' \in Seq(Settled)
      BY <1>2, <2>1, <2>2, SequenceLemma
    <2>4. QED
      BY <1>2, <2>1, <2>2, <2>3, OrphansStay DEF Orphaned
  <1>9. ASSUME NEW i \in ListIds \union NoteIds, ResumeConnect(i) PROVE FALSE
    BY <1>9 DEF ResumeConnect
  <1>10. ASSUME NEW i \in Ids, NEW k, NEW st, Resume(i, k, st), phase' \in {phase, "crashed"}
         PROVE  /\ Connecting /\ Head(ready).id = i /\ i \notin Orphaned
                /\ task[i].kind = k /\ ready' \in Seq(Settled)
    <2>1. /\ Connecting /\ ready # << >> /\ Head(ready).id = i /\ ready' = Tail(ready)
          /\ task[i].kind = k
      BY <1>10 DEF Resume
    <2>2. Head(ready) \in Settled /\ ready' \in Seq(Settled)
      BY <1>2, <2>1, SequenceLemma
    <2>3. QED
      BY <2>1, <2>2 DEF Settled
  <1>11. ASSUME NEW i \in ListIds \union NoteIds, ResumeRefresh(i) PROVE FALSE
    <2>1. PICK k \in {"refresh", "notified"} : Resume(i, k, "resolved")
      BY <1>11 DEF ResumeRefresh
    <2>2. i \in Ids /\ phase' = phase
      BY <1>11 DEF ResumeRefresh, Ids
    <2>3. i \notin Orphaned /\ task[i].kind = k
      BY <1>10, <2>1, <2>2
    <2>4. QED
      BY <2>2, <2>3 DEF Orphaned
  <1>12. ASSUME NEW i \in ListIds \union NoteIds, ResumeEnumerate(i) PROVE FALSE
    <2>1. Resume(i, "enumerate", "resolved") /\ i \in Ids
      BY <1>12 DEF ResumeEnumerate, Ids
    <2>2. phase' \in {phase, "crashed"}
      BY <1>12 DEF ResumeEnumerate, Send
    <2>3. QED
      BY <1>10, <2>1, <2>2 DEF Orphaned
  <1>13. ASSUME NEW i \in CallIds, SendCall(i) PROVE Orphans'
    <2>1. /\ Resume(i, "call", "authorized") /\ i \in Ids
          /\ phase' = phase /\ wire' = wire
          /\ task' = [task EXCEPT ![i] = [task[i] EXCEPT !.stage = "pending"]]
          /\ \E t : inbox' = inbox \union {[id |-> i, tool |-> t]}
      BY <1>13 DEF SendCall, Ask, sessionVars, Ids
    <2>2. /\ Connecting /\ i \notin Orphaned /\ ready' \in Seq(Settled)
      BY <1>10, <2>1
    <2>3. \A j \in Ids : task'[j].kind = task[j].kind
      BY <1>1, <2>1 DEF Task
    <2>4. Orphaned' \subseteq Orphaned
      BY <2>3, OrphanedLemma
    <2>5. \A m \in inbox' : m.id \notin Orphaned
      BY <1>2, <2>1, <2>2
    <2>6. QED
      BY <1>2, <2>1, <2>2, <2>4, <2>5, OrphansStay
  <1>14. ASSUME NEW i \in CallIds, ResumeCall(i) PROVE Orphans'
    <2>1. /\ Resume(i, "call", "resolved") /\ i \in Ids
          /\ phase' = phase /\ wire' = wire /\ inbox' = inbox
          /\ task' = [task EXCEPT ![i] = Idle]
      BY <1>14 DEF ResumeCall, sessionVars, pipeVars, Ids
    <2>2. /\ Connecting /\ ready' \in Seq(Settled)
      BY <1>10, <2>1
    <2>3. \A j \in Ids : task'[j].kind \in {task[j].kind, "idle"}
      BY <2>1, IdleLemma
    <2>4. Orphaned' \subseteq Orphaned
      BY <2>3, OrphanedLemma
    <2>5. QED
      BY <1>2, <2>1, <2>2, <2>4, OrphansStay
  <1>15. ASSUME NEW i \in Ids, Timeout(i) PROVE Orphans'
    <2>1. /\ task' = [task EXCEPT ![i] = Idle] /\ UNCHANGED <<ready, wire, inbox>>
          /\ phase' = phase \/ task[i].kind = "connect" \/ phase' = "crashed"
          /\ phase # "crashed"
      BY <1>15 DEF Timeout, pipeVars
    <2>2. task[i].kind = "connect" => phase \in {"list", "crashed"}
      BY DEF Typing, InFlight
    <2>3. Connecting
      BY <2>1, <2>2
    <2>4. \A j \in Ids : task'[j].kind \in {task[j].kind, "idle"}
      BY <2>1, IdleLemma
    <2>5. Orphaned' \subseteq Orphaned
      BY <2>4, OrphanedLemma
    <2>6. QED
      BY <1>2, <2>1, <2>3, <2>5, OrphansStay
  <1>16. CASE Observe \/ Pin \/ ManualRevoke \/ Approve
    <2>1. UNCHANGED <<phase, task, wire, ready, inbox>>
      BY <1>16 DEF Observe, Pin, ManualRevoke, Approve, sessionVars, pipeVars
    <2>2. QED
      BY <1>2, <2>1, OrphansStay DEF Orphaned
  <1>17. CASE Close
    BY <1>17 DEF Close
  <1>18. CASE Reconnect
    <2>1. inbox' = {} /\ wire' = << >> /\ ready' = << >> /\ task' = task
      BY <1>18 DEF Reconnect
    <2>2. << >> \in Seq(Settled)
      BY SequenceLemma
    <2>3. QED
      BY <2>1, <2>2, OrphansStay DEF Orphaned
  <1>19. ASSUME NEW i \in Ids, Answer(i) PROVE Orphans'
    <2>1. /\ UNCHANGED <<phase, task, ready>>
          /\ \E m \in inbox : m.id = i /\ inbox' = inbox \ {m}
          /\ \E t : wire' = Append(wire, [id |-> i, tools |-> t])
      BY <1>19 DEF Answer, sessionVars
    <2>2. Connecting /\ i \notin Orphaned /\ \A m \in inbox' : m.id \notin Orphaned
      BY <1>2, <2>1
    <2>3. wire' \in Seq(Message)
      BY <1>19, NextTyping DEF Next, Typing, TypeOK
    <2>4. PICK t : wire' = Append(wire, [id |-> i, tools |-> t])
      BY <2>1
    <2>5. [id |-> i, tools |-> t] \in Settled
      <3>1. [id |-> i, tools |-> t] \in Message
        <4> DEFINE e == [id |-> i, tools |-> t]
        <4>1. e \in Message
          <5>1. Len(wire) \in Nat /\ wire' = Append(wire, e)
            BY <1>1, <2>4, LenProperties
          <5> HIDE DEF e
          <5>2. Len(wire') = Len(wire) + 1 /\ wire'[Len(wire) + 1] = e
            BY <1>1, <5>1
          <5>3. QED
            BY <2>3, <5>1, <5>2, ElementOfSeq
        <4>2. QED
          BY <4>1
      <3>2. QED
        BY <2>2, <3>1 DEF Settled
    <2>6. wire' \in Seq(Settled)
      BY <1>2, <2>2, <2>4, <2>5, SequenceLemma
    <2>7. QED
      BY <1>2, <2>1, <2>2, <2>6, OrphansStay DEF Orphaned
  <1>20. ASSUME NEW tools \in ServerToolsets, NEW announced \in Notifies,
                Change(tools, announced)
         PROVE  Orphans'
    <2>1. /\ UNCHANGED <<phase, task, ready, inbox>>
          /\ wire' \in {wire, Append(wire, [id |-> NoId, tools |-> NoTools])}
      BY <1>20 DEF Change, sessionVars
    <2>2. [id |-> NoId, tools |-> NoTools] \in Settled
      BY SessionAssumption DEF Settled, Message, Orphaned, Ids
    <2>3. wire' \in Seq(Settled)
      BY <1>2, <2>1, <2>2, SequenceLemma
    <2>4. QED
      BY <1>2, <2>1, <2>3, OrphansStay DEF Orphaned
  <1>21. CASE UNCHANGED vars
    <2>1. UNCHANGED <<phase, task, wire, ready, inbox>>
      BY <1>21 DEF vars, sessionVars, pipeVars
    <2>2. QED
      BY <1>2, <2>1, OrphansStay DEF Orphaned
  <1>22. QED
    BY <1>3, <1>4, <1>5, <1>6, <1>7, <1>8, <1>9, <1>11, <1>12, <1>13, <1>14, <1>15, <1>16,
       <1>17, <1>18, <1>19, <1>20, <1>21
    DEF Next, Deliver, ResumeAny, ResumeList, Owner

\* What makes PinTracksObservation inductive: outside PINNED too, only a
\* revocation, a first listing or an approval parts the pin from what the guard
\* reads.
Tracks ==
  /\ trust.pin # NoTools /\ trust.state # "REVOKED"
  /\ observation # NoTools
  /\ ~unverified
  => Unnoticed(trust.pin, observation)

\* A listing judged under the default policy.
LEMMA JudgedTracks ==
  ASSUME AllowAutoRepin, AllowNewTools,
         Typing, Tracks, observation \in Toolsets,
         NEW tools \in Toolsets, Judged(tools)
  PROVE  Tracks'
  <1> SUFFICES ASSUME trust'.pin # NoTools, trust'.state # "REVOKED", ~unverified'
               PROVE  Unnoticed(trust'.pin, observation')
    BY DEF Tracks
  <1> DEFINE diff == DiffToolsets(observation, tools)
             e == Evaluated(trust, tools, diff)
  <1>1. /\ observation' = tools
        /\ trust' = IF Mismatched(trust, diff) /\ ~IsCompatible(diff)
                    THEN Revoked(e, "BREAKING_CHANGE") ELSE e
        /\ unverified' = (unverified /\ Verdict(trust, diff) # "repinned")
    BY DEF Judged
  <1>2. /\ trust \in TrustRecord /\ observation # NoTools
        /\ trust.state # "REVOKED" /\ trust.pin # NoTools
    BY <1>1, JudgedLemma, StoreAssumption DEF Typing, TypeOK
  <1>3. e \in TrustRecord
    BY <1>2, EvaluatedLemma
  <1>4. diff.overall = Overall(observation, tools)
    BY DEF DiffToolsets
  <1> HIDE DEF diff
  <1>5. IsCompatible(diff)
    <2>1. ASSUME ~IsCompatible(diff) PROVE FALSE
      <3>1. trust' = Transition(e, "REVOKED", "BREAKING_CHANGE")
        BY <1>1, <1>2, <2>1, IncompatibleIsMismatch DEF Revoked
      <3> HIDE DEF e
      <3>2. trust'.state = "REVOKED"
        BY <1>3, <3>1, TransitionLemma DEF TrustStates, Reasons
      <3>3. QED
        BY <3>2
    <2>2. QED
      BY <2>1
  <1>6. trust' = e
    BY <1>1, <1>5
  <1>7. Verdict(trust, diff) \in {"match", "repinned"}
    BY <1>2, <1>5 DEF Verdict
  <1>8. CASE Verdict(trust, diff) = "match"
    <2>1. e = Transition(trust, "PINNED", "DIGEST_MATCH")
      BY <1>8 DEF Evaluated
    <2>2. trust'.pin = trust.pin
      BY <1>2, <1>6, <2>1, TransitionLemma DEF TrustStates, Reasons
    <2>3. Overall(observation, tools) \in {"NONE", "SYNTACTIC"}
      BY <1>2, <1>4, <1>8 DEF Verdict
    <2>4. Unnoticed(trust.pin, observation)
      BY <1>1, <1>2, <1>8 DEF Tracks
    <2>5. QED
      BY <1>1, <2>2, <2>3, <2>4, UnnoticedLemma DEF Quiet
  <1>9. CASE Verdict(trust, diff) = "repinned"
    <2> DEFINE set == [trust EXCEPT !.pin = tools]
    <2>1. e = Transition(set, "PINNED", "COMPATIBLE_REPIN")
      BY <1>9 DEF Evaluated
    <2>2. set \in TrustRecord /\ set.pin = tools
      BY <1>2 DEF TrustRecord
    <2> HIDE DEF set, e
    <2>3. trust'.pin = tools
      BY <1>6, <2>1, <2>2, TransitionLemma DEF TrustStates, Reasons
    <2>4. QED
      BY <1>1, <2>3, UnnoticedLemma
  <1>10. QED
    BY <1>7, <1>8, <1>9

LEMMA NextTracks ==
  ASSUME AllowAutoRepin, AllowNewTools,
         Typing, Orphans, Tracks, [Next]_vars
  PROVE  Tracks'
  <1>1. trust \in TrustRecord
    BY DEF Typing, TypeOK
  <1>2. CASE UNCHANGED <<trust, observation, unverified>>
    BY <1>2 DEF Tracks
  <1>3. CASE \E i \in ListIds \union NoteIds : ResumeConnect(i)
    <2>1. /\ unverified' = (trust.pin # NoTools)
          /\ trust' \in {trust, Transition(trust, "SUSPECT", "BREAKING_CHANGE")}
      BY <1>3 DEF ResumeConnect, Suspected
    <2>2. "SUSPECT" \in TrustStates /\ "BREAKING_CHANGE" \in Reasons
      BY DEF TrustStates, Reasons
    <2>3. trust'.pin = trust.pin
      BY <1>1, <2>1, <2>2, TransitionLemma
    <2>4. QED
      BY <2>1, <2>3 DEF Tracks
  <1>4. CASE \E i \in ListIds \union NoteIds : ResumeRefresh(i)
    <2>1. PICK i \in ListIds \union NoteIds : ResumeRefresh(i)
      BY <1>4
    <2>2. /\ Judged(Result) /\ i \in Ids
          /\ Resume(i, "refresh", "resolved") \/ Resume(i, "notified", "resolved")
      BY <2>1 DEF ResumeRefresh, Ids
    <2>3. Result \in Toolsets
      BY <2>2, ResumeLemma
    <2>4. phase \in {"connected", "closed"}
      <3>1. SUFFICES ASSUME Connecting PROVE FALSE
        BY <2>2 DEF Resume, Connecting
      <3>2. ready \in Seq(Settled) /\ ready # << >> /\ Head(ready).id = i
        BY <2>2, <3>1 DEF Orphans, Resume
      <3>3. Head(ready) \in Settled
        BY <3>2, SequenceLemma
      <3>4. i \in Orphaned
        BY <2>2 DEF Orphaned, Resume
      <3>5. QED
        BY <3>2, <3>3, <3>4 DEF Settled
    <2>5. observation \in Toolsets
      BY <2>4 DEF Typing, InFlight
    <2>6. QED
      BY <2>2, <2>3, <2>5, JudgedTracks
  <1>5. CASE Observe
    <2>1. /\ observation \in Toolsets /\ trust' = Observed(trust, observation)
          /\ UNCHANGED <<observation, unverified>>
      BY <1>5 DEF Observe, sessionVars, history, Typing, InFlight
    <2>2. trust'.pin = trust.pin /\ (trust.state = "REVOKED" => trust'.state = "REVOKED")
      BY <1>1, <2>1, ObservedLemma
    <2>3. QED
      BY <2>1, <2>2 DEF Tracks
  <1>6. CASE Pin
    <2>1. /\ observation \in Toolsets /\ trust' = Pinned(trust, observation)
          /\ UNCHANGED observation
      BY <1>6 DEF Pin, sessionVars, Typing, InFlight
    <2>2. trust'.pin = observation
      BY <1>1, <2>1, PinnedLemma
    <2>3. QED
      BY <2>1, <2>2, UnnoticedLemma DEF Tracks
  <1>7. CASE ManualRevoke
    <2>1. trust' = Transition(trust, "REVOKED", "MANUAL_REVOKE")
      BY <1>7 DEF ManualRevoke, Revoked
    <2>2. "REVOKED" \in TrustStates /\ "MANUAL_REVOKE" \in Reasons
      BY DEF TrustStates, Reasons
    <2>3. trust'.state = "REVOKED"
      BY <1>1, <2>1, <2>2, TransitionLemma
    <2>4. QED
      BY <2>3 DEF Tracks
  <1>8. CASE Approve
    BY <1>8 DEF Approve, Tracks
  <1>9. CASE Reconnect
    BY <1>9 DEF Reconnect, Tracks
  <1>10. QED
    BY <1>2, <1>3, <1>4, <1>5, <1>6, <1>7, <1>8, <1>9
    DEF Next, InitializeFails, Initialized, Ask, Refresh, Enumerate, Call, Deliver,
        DeliverResponse, DeliverNotification, ResumeAny, ResumeList, ResumeEnumerate,
        SendCall, ResumeCall, Send, Timeout, Owner, Close, Answer, Change, vars,
        ownerVars, sessionVars, history

\* Under the default policy a PINNED server's pin leads to what the guard reads
\* by steps without a finding, whatever the differ finds and misses.
THEOREM PinIsTracked ==
  ASSUME AllowAutoRepin, AllowNewTools
  PROVE  Spec => []PinTracksObservation
  <1> DEFINE IInv == Held /\ Orphans /\ Tracks
  <1>1. Init => IInv
    <2>1. << >> \in Seq(Settled)
      BY SequenceLemma
    <2>2. QED
      BY <2>1, InitHeld DEF Init, Orphans, Tracks, NoRecord
  <1>2. IInv /\ [Next]_vars => IInv'
    BY NextHeld, NextOrphans, NextTracks DEF Held
  <1>3. IInv => PinTracksObservation
    BY DEF Tracks, PinTracksObservation, Held, PinnedHasPin
  <1>4. QED
    BY <1>1, <1>2, <1>3, PTL DEF Spec

=============================================================================
