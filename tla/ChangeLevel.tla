---------------------------- MODULE ChangeLevel ----------------------------
(***************************************************************************)
(* The vocabulary of a contract change (lib/diff.js): the ordered levels,  *)
(* the join the differ folds with, and the admission test.                 *)
(***************************************************************************)
EXTENDS Naturals, Sequences

\* CHANGE_LEVEL.  SUSPECT_DOMAIN, which the schema differ also reports, has
\* no entry in the table: looking it up gives `undefined`.
CHANGE_LEVEL ==
  [NONE |-> 0, SYNTACTIC |-> 1, NON_BREAKING |-> 2, ANNOTATION_DOWNGRADE |-> 3,
   PERMISSION_CHANGE |-> 4, BREAKING |-> 5]

Ranked == DOMAIN CHANGE_LEVEL
Levels == Ranked \union {"SUSPECT_DOMAIN"}

\* A join that lets the last finding win.
LastLevel(a, b) == b

\* maxLevel.  Every comparison with `undefined` is false, so the second
\* argument wins whenever either level is unranked: the join is not
\* commutative on SUSPECT_DOMAIN.
MaxLevel(a, b) ==
  IF /\ {a, b} \subseteq Ranked
     /\ CHANGE_LEVEL[a] >= CHANGE_LEVEL[b]
  THEN a
  ELSE b

\* note(): the level of a finding, or none.
NoNote == ""
When(cond, level) == IF cond THEN level ELSE NoNote
Noted(level, note) == IF note = NoNote THEN level ELSE MaxLevel(level, note)

\* The level after these notes, one by one.
Joined(level, notes) ==
  LET after[k \in 0..Len(notes)] ==
        IF k = 0 THEN level ELSE Noted(after[k - 1], notes[k])
  IN  after[Len(notes)]

\* isCompatible, on the overall level of a diff: an unranked level is not.
Compatible(level) ==
  /\ level \in Ranked
  /\ CHANGE_LEVEL[level] <= CHANGE_LEVEL["NON_BREAKING"]

=============================================================================
