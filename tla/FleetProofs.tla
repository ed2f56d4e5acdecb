----------------------------- MODULE FleetProofs -----------------------------
(* Fleet's safety for any number of processes, tools, contracts and crashes. *)
EXTENDS Fleet, ManifestPolicyProofs

-----------------------------------------------------------------------------
(* Every way of making a manifest makes a manifest. *)
LEMMA EditedType ==
    ASSUME NEW m \in Manifest, NEW n \in Names(m), NEW e \in Entry, NEW sealed \in BOOLEAN
    PROVE  [m EXCEPT !.tools = [@ EXCEPT ![n] = e], !.valid = sealed] \in Manifest
<1> DEFINE r == [m EXCEPT !.tools = [@ EXCEPT ![n] = e], !.valid = sealed]
           q == [m.tools EXCEPT ![n] = e]
<1>1. q \in [Names(m) -> Entry]
  BY ManifestParts
<1>2. r = [m EXCEPT !.tools = q, !.valid = sealed]
  OBVIOUS
<1> HIDE DEF q
<1>3. m = [tools |-> m.tools, expires |-> m.expires, valid |-> m.valid]
  BY ManifestParts
<1> HIDE DEF r
<1>4. r = [tools |-> q, expires |-> m.expires, valid |-> sealed]
  BY <1>2, <1>3
<1>5. /\ Names(m) \in SUBSET Tools /\ r.tools \in [Names(m) -> Entry]
      /\ r.expires \in Nat /\ r.valid \in BOOLEAN
      /\ r = [tools |-> r.tools, expires |-> r.expires, valid |-> r.valid]
  BY <1>1, <1>4, ManifestParts
<1>6. r \in Manifest
  BY <1>5, ManifestShape
<1> QED BY <1>6 DEF r

LEMMA RenewedType ==
    ASSUME NEW m \in Manifest, NEW expires \in Nat
    PROVE  /\ RenewManifest(m, expires) \in Manifest
           /\ RenewManifest(m, expires).expires = expires
<1> DEFINE r == RenewManifest(m, expires)
<1>1. m = [tools |-> m.tools, expires |-> m.expires, valid |-> m.valid]
  BY ManifestParts
<1>2. r = [tools |-> m.tools, expires |-> expires, valid |-> m.valid]
  BY <1>1 DEF RenewManifest
<1>3. /\ Names(m) \in SUBSET Tools /\ r.tools \in [Names(m) -> Entry]
      /\ r.expires = expires /\ r.expires \in Nat /\ r.valid \in BOOLEAN
      /\ r = [tools |-> r.tools, expires |-> r.expires, valid |-> r.valid]
  BY <1>2, ManifestParts
<1> HIDE DEF r
<1>4. r \in Manifest
  BY <1>3, ManifestShape
<1> QED BY <1>3, <1>4 DEF r

LEMMA ReapprovedType ==
    ASSUME NEW m \in Manifest, NEW listing \in Listing, NEW expires \in Nat
    PROVE  /\ Reapproved(m, listing, expires) \in Manifest
           /\ Reapproved(m, listing, expires).expires = expires
<1> DEFINE allow == Carried(m, BuildManifest(listing, {}, expires))
           b == BuildManifest(listing, allow, expires)
           f == [n \in Names(b) |-> IF n \in Names(m) THEN Restricted(m.tools[n], b.tools[n])
                                                     ELSE b.tools[n]]
<1>1. Reapproved(m, listing, expires) = [b EXCEPT !.tools = f]
  BY DEF Reapproved
<1> HIDE DEF allow
<1>2. b \in Manifest /\ b.expires = expires
  BY BuildManifestType, BuildNames, ZenonT(40)
<1> HIDE DEF b
<1>3. \A n \in Names(b) : b.tools[n] \in Entry
  BY <1>2, ManifestParts
<1>4. \A n \in Names(m) : m.tools[n] \in Entry
  BY ManifestParts
<1>5. \A n \in Names(b) : f[n] \in Entry
  BY <1>3, <1>4, RestrictedFields
<1>6. f \in [Names(b) -> Entry]
  BY <1>5
<1> HIDE DEF f
<1> QED BY <1>1, <1>2, <1>6, ToolsReplaced

LEMMA LegacyType ==
    ASSUME NEW m \in Manifest
    PROVE  Legacy(m) \in Manifest
<1> DEFINE f == [n \in Names(m) |-> [m.tools[n] EXCEPT !.digest = NONE, !.declared = NONE]]
<1>1. \A n \in Names(m) : m.tools[n] \in Entry
  BY ManifestParts
<1>2. \A e \in Entry : [e EXCEPT !.digest = NONE, !.declared = NONE] \in Entry
  BY DEF Entry
<1>3. f \in [Names(m) -> Entry]
  BY <1>1, <1>2
<1>4. Legacy(m) = [m EXCEPT !.tools = f]
  BY DEF Legacy
<1> HIDE DEF f
<1> QED BY <1>3, <1>4, ToolsReplaced

(* What each automatic writer computes is a manifest, and maintains the one  *)
(* it read.                                                                  *)
LEMMA Computed ==
    ASSUME NEW m \in Manifest, NEW listing \in Listing, NEW expires \in Nat
    PROVE  /\ Reapproved(m, listing, expires) \in Manifest
           /\ Maintains(m, Reapproved(m, listing, expires), listing)
           /\ AutoUpdated(m, listing, expires) \in Manifest
           /\ Maintains(m, AutoUpdated(m, listing, expires), listing)
           /\ RenewManifest(m, expires) \in Manifest
           /\ Renewable(m, listing)
                 => Maintains(m, RenewManifest(m, expires), listing)
  BY ReapprovedType, AutoUpdatedType, RenewedType DEF Maintains

-----------------------------------------------------------------------------
(* Which manifest a job read and what it will write. *)
JobOK ==
    \A w \in Writers :
       /\ pc[w] = "listing" => original[w] \in Manifest
       /\ pc[w] \in {"writing"} \cup Critical =>
             /\ original[w] \in Manifest
             /\ next[w] \in Manifest
             /\ \E listing \in Listing : Maintains(original[w], next[w], listing)
       /\ pc[w] \in Replacing /\ ~raced => file = original[w]
       /\ pc[w] = "saved" /\ ~raced => backup = file

LEMMA Bounds == /\ {Within, Validity, MaxNow, MaxEdits, MaxChanges, MaxCrashes} \subseteq Nat
                /\ NONE \notin Writers
                /\ NONE \notin Manifest
  BY FleetAssumption

LEMMA FirstFile == Init => file \in Manifest
<1> SUFFICES ASSUME Init PROVE file \in Manifest
  OBVIOUS
<1>1. PICK allow \in SUBSET DOMAIN live :
         \/ file = BuildManifest(live, allow, Validity)
         \/ file = Legacy(BuildManifest(live, allow, Validity))
  BY DEF Init
<1>2. live \in Listing /\ Validity \in Nat
  BY Bounds DEF Init
<1>3. BuildManifest(live, allow, Validity) \in Manifest
  BY <1>2, BuildManifestType
<1> QED BY <1>1, <1>3, LegacyType

LEMMA TypeInit == Init => TypeOK
<1> SUFFICES ASSUME Init PROVE TypeOK
  OBVIOUS
<1>2. live \in Listing
  BY DEF Init
<1>4. file \in Manifest
  BY FirstFile
<1>5. /\ memory \in [Proxies -> {NONE} \cup Manifest]
      /\ original \in [Writers -> {NONE} \cup Manifest]
      /\ next \in [Writers -> {NONE} \cup Manifest]
  BY <1>4 DEF Init
<1>6. pc \in [Writers -> Places]
  BY DEF Init, Places
<1>7. now \in 0..MaxNow /\ changes \in 0..MaxChanges /\ crashes \in 0..MaxCrashes
  BY Bounds DEF Init
<1>8. backup = NONE /\ lock = NONE /\ edits = 0 /\ raced = FALSE
  BY DEF Init
<1> QED BY <1>2, <1>4, <1>5, <1>6, <1>7, <1>8 DEF TypeOK

LEMMA ServerChangesType == TypeOK /\ ServerChanges => live' \in Listing
<1> SUFFICES ASSUME TypeOK, ServerChanges PROVE live' \in Listing
  OBVIOUS
<1>1. /\ DOMAIN live \in SUBSET Tools
      /\ \A n \in DOMAIN live : live[n] \in LiveTool
  BY ListingShape DEF TypeOK
<1>2. PICK n \in Tools :
         \/ \E t \in LiveTool :
               live' = [m \in DOMAIN live \cup {n} |-> IF m = n THEN t ELSE live[m]]
         \/ n \in DOMAIN live /\ live' = [m \in DOMAIN live \ {n} |-> live[m]]
  BY DEF ServerChanges
<1>3. CASE \E t \in LiveTool :
              live' = [m \in DOMAIN live \cup {n} |-> IF m = n THEN t ELSE live[m]]
  <2>1. live' \in [DOMAIN live \cup {n} -> LiveTool]
    BY <1>1, <1>3
  <2> QED BY <1>1, <2>1 DEF Listing
<1>4. CASE live' = [m \in DOMAIN live \ {n} |-> live[m]]
  <2>1. live' \in [DOMAIN live \ {n} -> LiveTool]
    BY <1>1, <1>4
  <2> QED BY <1>1, <2>1 DEF Listing
<1> QED BY <1>2, <1>3, <1>4

LEMMA OperatorEditsType == TypeOK /\ OperatorEdits => file' \in Manifest
<1> SUFFICES ASSUME TypeOK, OperatorEdits PROVE file' \in Manifest
  OBVIOUS
<1>0. file \in Manifest
  BY DEF OperatorEdits, TypeOK
<1>1. PICK n \in Names(file) :
          \/ EditEntry(n, [file.tools[n] EXCEPT !.allowed = FALSE])
          \/ \E s \in Scopes :
                EditEntry(n, [file.tools[n] EXCEPT !.scopes = @ \cup {s}])
  BY DEF OperatorEdits
<1>2. file.tools[n] \in Entry
  BY <1>0, ManifestParts
<1>3. \A e \in Entry : /\ [e EXCEPT !.allowed = FALSE] \in Entry
                       /\ \A s \in Scopes : [e EXCEPT !.scopes = @ \cup {s}] \in Entry
  BY DEF Entry
<1>4. ASSUME NEW e \in Entry, EditEntry(n, e)
      PROVE  file' \in Manifest
  <2>1. PICK sealed \in BOOLEAN :
           file' = [file EXCEPT !.tools = [@ EXCEPT ![n] = e], !.valid = sealed]
    BY <1>4 DEF EditEntry
  <2>2. [file EXCEPT !.tools = [@ EXCEPT ![n] = e], !.valid = sealed] \in Manifest
    BY <1>0, EditedType
  <2> QED BY <2>1, <2>2
<1> QED BY <1>1, <1>2, <1>3, <1>4

LEMMA GenManifestType == TypeOK /\ GenManifest => file' \in Manifest
<1> SUFFICES ASSUME TypeOK, GenManifest PROVE file' \in Manifest
  OBVIOUS
<1>1. live \in Listing /\ now + Validity \in Nat
  BY Bounds DEF TypeOK
<1> QED BY <1>1, BuildManifestType DEF GenManifest

(* The typing is preserved by every step. *)
LEMMA TypeStep == TypeOK /\ JobOK /\ [Next]_vars => TypeOK'
<1> SUFFICES ASSUME TypeOK, JobOK, [Next]_vars PROVE TypeOK'
  OBVIOUS
<1> USE DEF envVars, jobVars, Goto, Forget
<1>1. CASE Tick
  BY <1>1, Bounds DEF Tick, TypeOK
<1>2. CASE ServerChanges
  <2>1. /\ changes < MaxChanges /\ changes' = changes + 1
        /\ UNCHANGED <<now, file, backup, lock, pc, jobVars, edits, raced, crashes>>
    BY <1>2 DEF ServerChanges
  <2>2. live' \in Listing
    BY <1>2, ServerChangesType
  <2> QED BY <2>1, <2>2, Bounds DEF TypeOK
<1>3. CASE OperatorEdits \/ GenManifestOpens \/ GenManifest
  <2>1. Writes
    BY <1>3 DEF OperatorEdits, GenManifestOpens, GenManifest
  <2>2. file' \in {NONE} \cup Manifest
    BY <1>3, OperatorEditsType, GenManifestType DEF GenManifestOpens
  <2> QED BY <2>1, <2>2, Bounds DEF Writes, TypeOK
<1>5. ASSUME NEW w \in Writers, Work(w) \/ Unreachable(w) \/ Crash(w)
      PROVE  TypeOK'
  <2>1. CASE StartRenewal(w)
    BY <2>1 DEF StartRenewal, TypeOK, Places
  <2>2. CASE RefuseRenewal(w)
    BY <2>2 DEF RefuseRenewal, TypeOK, Places
  <2>3. CASE Renew(w)
    <3>1. RenewManifest(original[w], now + Validity) \in Manifest
      <4>1. original[w] \in Manifest /\ now + Validity \in Nat
        BY <2>3, Bounds DEF Renew, TypeOK, JobOK
      <4> QED BY <4>1, RenewedType
    <3> QED BY <2>3, <3>1 DEF Renew, TypeOK, Places
  <2>4. CASE StartReapproval(w)
    BY <2>4 DEF StartReapproval, TypeOK, Places
  <2>5. CASE Reapprove(w)
    <3>1. Reapproved(original[w], live, now + Validity) \in Manifest
      BY <2>5, Computed, Bounds DEF Reapprove, TypeOK, JobOK
    <3> QED BY <2>5, <3>1 DEF Reapprove, TypeOK, Places
  <2>6. CASE AutoUpdate(w)
    <3>1. AutoUpdated(memory[w], live, now + Validity) \in Manifest
      BY <2>6, Computed, Bounds DEF AutoUpdate, TypeOK
    <3> QED BY <2>6, <3>1 DEF AutoUpdate, TypeOK, Places
  <2>7. CASE Lock(w)
    BY <2>7 DEF Lock, TypeOK, Places
  <2>8. CASE LockTaken(w)
    BY <2>8 DEF LockTaken, TypeOK, Places
  <2>9. CASE Compare(w) \/ Save(w)
    BY <2>9 DEF Compare, Save, TypeOK, Places
  <2>10. CASE ChangedMeanwhile(w)
    BY <2>10 DEF ChangedMeanwhile, TypeOK, Places
  <2>11. CASE Rename(w)
    BY <2>11 DEF Rename, TypeOK, JobOK, Places, Critical
  <2>12. CASE Unlock(w)
    BY <2>12 DEF Unlock, TypeOK, Places
  <2>13. CASE Unreachable(w)
    BY <2>13 DEF Unreachable, TypeOK, Places
  <2>14. CASE Crash(w)
    BY <2>14, Bounds DEF Crash, TypeOK, Places
  <2> QED BY <1>5, <2>1, <2>2, <2>3, <2>4, <2>5, <2>6, <2>7, <2>8, <2>9, <2>10,
             <2>11, <2>12, <2>13, <2>14 DEF Work, Write
<1>6. ASSUME NEW p \in Proxies, StopProxy(p) \/ StartProxy(p)
      PROVE  TypeOK'
  BY <1>6 DEF StopProxy, StartProxy, TypeOK, Places
<1>7. CASE UNCHANGED vars
  BY <1>7 DEF vars, TypeOK
<1> QED BY <1>1, <1>2, <1>3, <1>5, <1>6, <1>7 DEF Next

(* So is the lock discipline. *)
LEMMA LockStep == TypeOK /\ LockDiscipline /\ [Next]_vars => LockDiscipline'
<1> SUFFICES ASSUME TypeOK, LockDiscipline, [Next]_vars PROVE LockDiscipline'
  OBVIOUS
<1> USE Bounds DEF envVars, jobVars, Goto, Forget, Critical, TypeOK, LockDiscipline
<1>1. CASE UNCHANGED <<lock, pc, crashes>>
  BY <1>1
<1>2. ASSUME NEW w \in Writers, Work(w) \/ Unreachable(w) \/ Crash(w)
      PROVE  LockDiscipline'
  <2>1. CASE /\ pc[w] \notin Critical /\ UNCHANGED <<lock, crashes>>
             /\ \E place \in {"idle", "listing", "writing"} : pc' = [pc EXCEPT ![w] = place]
    BY <2>1
  <2>2. CASE /\ pc[w] \in Critical /\ UNCHANGED <<lock, crashes>>
             /\ \E place \in Critical : pc' = [pc EXCEPT ![w] = place]
    BY <2>2
  <2>3. CASE Lock(w)
    BY <2>3 DEF Lock
  <2>4. CASE ChangedMeanwhile(w) \/ Unlock(w)
    BY <2>4 DEF ChangedMeanwhile, Unlock
  <2>5. CASE Crash(w)
    BY <2>5 DEF Crash
  <2>6. CASE StartRenewal(w) \/ RefuseRenewal(w) \/ Renew(w)
    BY <2>1, <2>6 DEF StartRenewal, RefuseRenewal, Renew
  <2>7. CASE StartReapproval(w) \/ Reapprove(w) \/ AutoUpdate(w)
    BY <2>1, <2>7 DEF StartReapproval, Reapprove, AutoUpdate
  <2>8. CASE LockTaken(w) \/ Unreachable(w)
    BY <2>1, <2>8 DEF LockTaken, Unreachable
  <2>9. CASE Compare(w) \/ Save(w) \/ Rename(w)
    BY <2>2, <2>9 DEF Compare, Save, Rename
  <2> QED BY <1>2, <2>3, <2>4, <2>5, <2>6, <2>7, <2>8, <2>9 DEF Work, Write
<1>3. ASSUME NEW p \in Proxies, StopProxy(p) \/ StartProxy(p)
      PROVE  LockDiscipline'
  BY <1>3 DEF StopProxy, StartProxy, Writers
<1>4. CASE Tick \/ ServerChanges \/ OperatorEdits \/ GenManifestOpens \/ GenManifest
  BY <1>1, <1>4 DEF Tick, ServerChanges, OperatorEdits, GenManifestOpens, GenManifest, Writes
<1>5. CASE UNCHANGED vars
  BY <1>1, <1>5 DEF vars
<1> QED BY <1>2, <1>3, <1>4, <1>5 DEF Next

(* A step of one process, seen by the others. *)
LEMMA OthersJob ==
    ASSUME TypeOK, LockDiscipline, JobOK, NEW w \in Writers, NEW v \in Writers, v # w,
           pc'[v] = pc[v], original'[v] = original[v], next'[v] = next[v],
           UNCHANGED <<file, backup, raced>> \/ pc[w] \in Critical
    PROVE  /\ pc'[v] = "listing" => original'[v] \in Manifest
           /\ pc'[v] \in {"writing"} \cup Critical =>
                 /\ original'[v] \in Manifest
                 /\ next'[v] \in Manifest
                 /\ \E listing \in Listing : Maintains(original'[v], next'[v], listing)
           /\ pc'[v] \in Replacing /\ ~raced' => file' = original'[v]
           /\ pc'[v] = "saved" /\ ~raced' => backup' = file'
<1>1. pc[v] \in Replacing => UNCHANGED <<file, backup, raced>>
  BY DEF LockDiscipline, Critical, Replacing
<1> QED BY <1>1 DEF JobOK, Replacing

LEMMA JobStep == TypeOK /\ LockDiscipline /\ JobOK /\ [Next]_vars => JobOK'
<1> SUFFICES ASSUME TypeOK, LockDiscipline, JobOK, [Next]_vars PROVE JobOK'
  OBVIOUS
<1> DEFINE Fine(w) ==
           /\ pc'[w] = "listing" => original'[w] \in Manifest
           /\ pc'[w] \in {"writing"} \cup Critical =>
                 /\ original'[w] \in Manifest
                 /\ next'[w] \in Manifest
                 /\ \E listing \in Listing : Maintains(original'[w], next'[w], listing)
           /\ pc'[w] \in Replacing /\ ~raced' => file' = original'[w]
           /\ pc'[w] = "saved" /\ ~raced' => backup' = file'
<1>1. CASE UNCHANGED <<file, backup, raced, pc, original, next>>
  BY <1>1 DEF JobOK
<1>2. CASE OperatorEdits \/ GenManifestOpens \/ GenManifest
  <2>1. UNCHANGED <<pc, original, next>> /\ Writes
    BY <1>2 DEF OperatorEdits, GenManifestOpens, GenManifest, Writes, jobVars
  <2>2. \A w \in Writers : pc[w] \in Replacing => raced'
    BY <2>1 DEF Writes
  <2> QED BY <2>1, <2>2 DEF JobOK, Replacing
<1>3. ASSUME NEW w \in Writers, Work(w) \/ Unreachable(w) \/ Crash(w)
      PROVE  JobOK'
  <2>1. Fine(w)
    <3>1. CASE StartRenewal(w) \/ StartReapproval(w)
      BY <3>1 DEF StartRenewal, StartReapproval, Goto, Critical, Replacing, TypeOK
    <3>2. CASE RefuseRenewal(w) \/ LockTaken(w) \/ ChangedMeanwhile(w) \/ Unlock(w) \/ Unreachable(w)
      BY <3>2 DEF RefuseRenewal, LockTaken, ChangedMeanwhile, Unlock, Unreachable,
                  Goto, Critical, Replacing, TypeOK
    <3>3. CASE Renew(w)
      <4>1. /\ original[w] \in Manifest /\ live \in Listing /\ now + Validity \in Nat
            /\ Renewable(original[w], live)
        BY <3>3, Bounds DEF Renew, TypeOK, JobOK
      <4>2. /\ RenewManifest(original[w], now + Validity) \in Manifest
            /\ Maintains(original[w], RenewManifest(original[w], now + Validity), live)
        BY <4>1, Computed
      <4>3. /\ original' = original /\ pc'[w] = "writing"
            /\ next'[w] = RenewManifest(original[w], now + Validity)
        BY <3>3 DEF Renew, Goto, TypeOK
      <4> QED BY <4>1, <4>2, <4>3 DEF Replacing
    <3>4. CASE Reapprove(w)
      <4>1. original[w] \in Manifest /\ live \in Listing /\ now + Validity \in Nat
        BY <3>4, Bounds DEF Reapprove, TypeOK, JobOK
      <4>2. /\ Reapproved(original[w], live, now + Validity) \in Manifest
            /\ Maintains(original[w], Reapproved(original[w], live, now + Validity), live)
        BY <4>1, Computed
      <4>3. /\ original' = original /\ pc'[w] = "writing"
            /\ next'[w] = Reapproved(original[w], live, now + Validity)
        BY <3>4 DEF Reapprove, Goto, TypeOK
      <4> QED BY <4>1, <4>2, <4>3 DEF Replacing
    <3>5. CASE AutoUpdate(w)
      <4>1. /\ file \in Manifest /\ memory[w] = file
            /\ live \in Listing /\ now + Validity \in Nat
        BY <3>5, Bounds DEF AutoUpdate, TypeOK
      <4>2. /\ AutoUpdated(file, live, now + Validity) \in Manifest
            /\ Maintains(file, AutoUpdated(file, live, now + Validity), live)
        BY <4>1, Computed
      <4>3. /\ original'[w] = file /\ pc'[w] = "writing"
            /\ next'[w] = AutoUpdated(file, live, now + Validity)
        BY <3>5, <4>1 DEF AutoUpdate, Goto, TypeOK
      <4> QED BY <4>1, <4>2, <4>3 DEF Replacing
    <3>6. CASE Lock(w)
      BY <3>6 DEF Lock, jobVars, Goto, Critical, Replacing, TypeOK, JobOK
    <3>7. CASE Compare(w) \/ Save(w)
      BY <3>7 DEF Compare, Save, jobVars, Goto, Critical, Replacing, TypeOK, JobOK
    <3>8. CASE Rename(w)
      BY <3>8 DEF Rename, jobVars, Goto, Critical, Replacing, TypeOK, JobOK
    <3>9. CASE Crash(w)
      BY <3>9 DEF Crash, Goto, Critical, Replacing, TypeOK
    <3> QED BY <1>3, <3>1, <3>2, <3>3, <3>4, <3>5, <3>6, <3>7, <3>8, <3>9 DEF Work, Write
  <2>2. ASSUME NEW v \in Writers, v # w
        PROVE  Fine(v)
    <3>1. pc'[v] = pc[v] /\ original'[v] = original[v] /\ next'[v] = next[v]
      BY <1>3, <2>2 DEF Work, Write, StartRenewal, RefuseRenewal, Renew, StartReapproval,
         Reapprove, AutoUpdate, Lock, LockTaken, Compare, Save, ChangedMeanwhile, Rename, Unlock,
         Unreachable, Crash, Goto, Forget, jobVars, TypeOK
    <3>2. UNCHANGED <<file, backup, raced>> \/ pc[w] \in Critical
      BY <1>3 DEF Work, Write, StartRenewal, RefuseRenewal, Renew, StartReapproval,
         Reapprove, AutoUpdate, Lock, LockTaken, Compare, Save, ChangedMeanwhile, Rename, Unlock,
         Unreachable, Crash, Critical
    <3> QED BY <2>2, <3>1, <3>2, OthersJob
  <2> QED BY <2>1, <2>2 DEF JobOK
<1>4. ASSUME NEW p \in Proxies, StopProxy(p) \/ StartProxy(p)
      PROVE  JobOK'
  <2>1. UNCHANGED <<file, backup, raced, original, next>>
    BY <1>4 DEF StopProxy, StartProxy
  <2>2. \A w \in Writers : pc'[w] = pc[w] \/ pc'[w] \in {"down", "idle"}
    BY <1>4 DEF StopProxy, StartProxy, Goto, TypeOK
  <2> QED BY <2>1, <2>2 DEF JobOK, Critical, Replacing
<1>5. CASE Tick \/ ServerChanges \/ UNCHANGED vars
  BY <1>1, <1>5 DEF Tick, ServerChanges, jobVars, vars
<1> QED BY <1>2, <1>3, <1>4, <1>5 DEF Next

LEMMA LockJobInit == Init => LockDiscipline /\ JobOK
  BY DEF Init, LockDiscipline, JobOK, Critical, Replacing

-----------------------------------------------------------------------------
Inv == TypeOK /\ LockDiscipline /\ JobOK

(* Fleet's state is typed, exactly one live process is between taking and    *)
(* removing the lock file (fleet.js:158-182), and the file that a job has    *)
(* compared is the one it read until the operator writes.                    *)
THEOREM InvCorrect == Spec => []Inv
<1>1. Init => Inv
  BY TypeInit, LockJobInit DEF Inv
<1>2. Inv /\ [Next]_vars => Inv'
  BY TypeStep, LockStep, JobStep DEF Inv
<1> QED BY <1>1, <1>2, PTL DEF Spec

(* Every variable keeps its type. *)
THEOREM FleetTyped == Spec => []TypeOK
<1>1. Inv => TypeOK
  BY DEF Inv
<1> QED BY <1>1, InvCorrect, PTL

(* The lock file of atomicWriteJson excludes, whatever dies where. *)
THEOREM LockExcludes == Spec => []LockDiscipline
<1>1. Inv => LockDiscipline
  BY DEF Inv
<1> QED BY <1>1, InvCorrect, PTL

(* Only the operator counts an edit; no replacement opens or closes by it.   *)
LEMMA EditStep ==
    Inv /\ Next /\ edits' # edits =>
        /\ edits' = edits + 1
        /\ file' \in {NONE} \cup Manifest
        /\ UNCHANGED <<lock, pc, original>>
<1> SUFFICES ASSUME Inv, Next, edits' # edits
             PROVE  /\ edits' = edits + 1
                    /\ file' \in {NONE} \cup Manifest
                    /\ UNCHANGED <<lock, pc, original>>
  OBVIOUS
<1>1. OperatorEdits \/ GenManifestOpens \/ GenManifest
  BY DEF Next, Tick, ServerChanges, Work, Write, StartRenewal, RefuseRenewal, Renew,
     StartReapproval, Reapprove, AutoUpdate, Lock, LockTaken, Compare, Save, ChangedMeanwhile,
     Rename, Unlock, Unreachable, Crash, StopProxy, StartProxy
<1>2. Writes
  BY <1>1 DEF OperatorEdits, GenManifestOpens, GenManifest
<1> QED BY <1>1, <1>2, OperatorEditsType, GenManifestType
        DEF GenManifestOpens, Writes, jobVars, Inv

(* A process that is replacing the file is the one the lock names.           *)
LEMMA BaseIs ==
    ASSUME LockDiscipline, NEW w \in Writers, pc[w] \in Replacing
    PROVE  Base = original[w]
  BY Bounds DEF LockDiscipline, Replacing, Critical, Base

(* Any other change of the file is a rename by a job that holds the lock: it *)
(* maintains the manifest that job compared, which is the one replaced and   *)
(* saved unless the operator has written since.                              *)
LEMMA ReplaceStep ==
    Inv /\ [Next]_vars /\ edits' = edits /\ file' # file =>
       /\ file' \in Manifest
       /\ Base \in Manifest
       /\ \E listing \in Listing : Maintains(Base, file', listing)
       /\ Base' = NONE
       /\ raced \/ backup = file
<1> SUFFICES ASSUME Inv, [Next]_vars, edits' = edits, file' # file
             PROVE  /\ file' \in Manifest
                    /\ Base \in Manifest
                    /\ \E listing \in Listing : Maintains(Base, file', listing)
                    /\ Base' = NONE
                    /\ raced \/ backup = file
  OBVIOUS
<1>1. edits \in Nat
  BY DEF Inv, TypeOK
<1>2. ~OperatorEdits /\ ~GenManifestOpens /\ ~GenManifest
  BY <1>1 DEF OperatorEdits, GenManifestOpens, GenManifest, Writes
<1>3. PICK w \in Writers : Rename(w)
  BY <1>2 DEF Next, vars, Tick, ServerChanges, Work, Write, StartRenewal, RefuseRenewal, Renew,
     StartReapproval, Reapprove, AutoUpdate, Lock, LockTaken, Compare, Save, ChangedMeanwhile,
     Unlock, Unreachable, Crash, StopProxy, StartProxy
<1>4. pc[w] = "saved" /\ file' = next[w] /\ lock' = lock /\ pc' = [pc EXCEPT ![w] = "renamed"]
  BY <1>3 DEF Rename, Goto
<1>5. lock = w /\ Base = original[w]
  BY <1>4, BaseIs DEF Inv, LockDiscipline, Critical, Replacing
<1>6. Base' = NONE
  BY <1>4, <1>5 DEF Base, Replacing, Inv, TypeOK
<1> QED BY <1>4, <1>5, <1>6 DEF Inv, JobOK, Critical

(* What leaves the file alone opens a replacement of what it compared,       *)
(* closes one or neither.                                                    *)
LEMMA OtherStep ==
    Inv /\ [Next]_vars /\ edits' = edits /\ file' = file =>
       \/ Base' = Base
       \/ Base = NONE /\ Base' = file
       \/ Base' = NONE
<1> SUFFICES ASSUME Inv, [Next]_vars, edits' = edits, file' = file
             PROVE  Base' = Base \/ (Base = NONE /\ Base' = file) \/ Base' = NONE
  OBVIOUS
<1> USE DEF Goto, Forget, jobVars, envVars
<1>1. CASE UNCHANGED <<lock, pc, original>>
  BY <1>1 DEF Base
<1>2. ASSUME NEW w \in Writers, Work(w) \/ Unreachable(w) \/ Crash(w)
      PROVE  Base' = Base \/ (Base = NONE /\ Base' = file) \/ Base' = NONE
  <2> USE Bounds DEF Inv, TypeOK, LockDiscipline, Critical, Replacing, Base
  <2>1. CASE /\ pc[w] \notin Critical /\ lock' = lock
             /\ \E place \in {"idle", "listing", "writing"} : pc' = [pc EXCEPT ![w] = place]
             /\ \A v \in Writers \ {w} : original'[v] = original[v]
    BY <2>1
  <2>2. CASE StartRenewal(w) \/ RefuseRenewal(w) \/ Renew(w)
    BY <2>1, <2>2 DEF StartRenewal, RefuseRenewal, Renew
  <2>3. CASE StartReapproval(w) \/ Reapprove(w) \/ AutoUpdate(w)
    BY <2>1, <2>3 DEF StartReapproval, Reapprove, AutoUpdate
  <2>4. CASE LockTaken(w) \/ Unreachable(w)
    BY <2>1, <2>4 DEF LockTaken, Unreachable
  <2>5. CASE Lock(w)
    BY <2>5 DEF Lock
  <2>6. CASE Compare(w)
    BY <2>6 DEF Compare
  <2>7. CASE Save(w)
    BY <2>7 DEF Save
  <2>8. CASE Rename(w)
    BY <2>8 DEF Rename
  <2>9. CASE ChangedMeanwhile(w) \/ Unlock(w)
    BY <2>9 DEF ChangedMeanwhile, Unlock
  <2>10. CASE Crash(w)
    BY <2>10 DEF Crash
  <2> QED BY <1>2, <2>2, <2>3, <2>4, <2>5, <2>6, <2>7, <2>8, <2>9, <2>10 DEF Work, Write
<1>3. ASSUME NEW w \in Proxies, StopProxy(w) \/ StartProxy(w)
      PROVE  Base' = Base \/ (Base = NONE /\ Base' = file) \/ Base' = NONE
  BY <1>3, Bounds DEF StopProxy, StartProxy, Writers, Inv, TypeOK, LockDiscipline, Critical,
                      Replacing, Base
<1>4. CASE Tick \/ ServerChanges \/ UNCHANGED vars
  BY <1>1, <1>4 DEF Tick, ServerChanges, vars
<1>5. CASE OperatorEdits \/ GenManifestOpens \/ GenManifest
  BY <1>1, <1>5 DEF OperatorEdits, GenManifestOpens, GenManifest, Writes
<1> QED BY <1>2, <1>3, <1>4, <1>5 DEF Next

(* The register is about the same manifests. *)
LEMMA SameManifests == Register!Manifest = Manifest /\ Register!Listing = Listing
  BY DEF Register!Manifest, Register!Entry, Register!Contract, Register!Listing,
     Register!LiveTool, Manifest, Entry, Contract, Listing, LiveTool

LEMMA SameTests ==
    ASSUME NEW m, NEW r
    PROVE  /\ Register!Tightens(m, r) <=> Tightens(m, r)
           /\ Register!NoNewOverride(m, r) <=> NoNewOverride(m, r)
  BY DEF Register!Tightens, Register!NoNewOverride, Register!Names, Register!SameContract,
     Tightens, NoNewOverride, Names, SameContract

LEMMA SameMaintenance ==
    ASSUME NEW m, NEW r, NEW listing
    PROVE  Register!Maintains(m, r, listing) <=> Maintains(m, r, listing)
<1>1. Register!Renewable(m, listing) <=> Renewable(m, listing)
  BY DEF Register!Renewable, Register!Matches, Register!Added, Register!Removed,
     Register!Drifted, Register!Differs, Register!ContractOf, Register!Names,
     Renewable, Matches, Added, Removed, Drifted, Differs, ContractOf, Names
<1>2. \A e : Register!RenewManifest(m, e) = RenewManifest(m, e)
  BY DEF Register!RenewManifest, RenewManifest
<1>3. \A e : Register!Reapproved(m, listing, e) = Reapproved(m, listing, e)
  BY DEF Register!Reapproved, Register!Carried, Register!Restricted, Register!Names,
     Register!SameContract, Register!BuildManifest, Register!BuildEntry, Register!ContractOf,
     Reapproved, Carried, Restricted, Names, SameContract,
     BuildManifest, BuildEntry, ContractOf
<1>4. \A e : Register!AutoUpdated(m, listing, e) = AutoUpdated(m, listing, e)
  BY DEF Register!AutoUpdated, Register!PreserveProxyPolicy, Register!Preserved,
     Register!Names, Register!SameContract, Register!BuildManifest, Register!BuildEntry,
     Register!ContractOf, AutoUpdated, PreserveProxyPolicy, Preserved, Names, SameContract,
     BuildManifest, BuildEntry, ContractOf
<1> QED BY <1>1, <1>2, <1>3, <1>4 DEF Register!Maintains, Maintains

(* Automatic writes never loosen a decision about a tool that stays listed,  *)
(* however processes, edits, releases and crashes interleave (fleet.js:2-3). *)
THEOREM FleetNeverLoosens == Spec => NeverLoosens
<1>1. Inv /\ [Next]_vars =>
         (edits' = edits /\ file' # file
             => Tightens(Base, file') /\ NoNewOverride(Base, file'))
  BY ReplaceStep, MaintenanceNeverLoosens
<1>2. Inv /\ [Next]_vars =>
         [edits' = edits /\ file' # file
             => Register!Tightens(Base, file')
                /\ Register!NoNewOverride(Base, file')]_<<file, Base, edits>>
  BY <1>1, SameTests
<1> QED BY <1>2, InvCorrect, PTL DEF NeverLoosens, Register!NeverLoosens, Register!vars, Spec

(* atomicWriteJson backs up what it replaces, unless the operator wrote.     *)
THEOREM FleetSaves == Spec => ReplacedIsSaved
<1>1. Inv /\ [Next]_vars => (file' # file /\ edits' = edits /\ ~raced => backup = file)
  BY ReplaceStep
<1> QED BY <1>1, InvCorrect, PTL DEF ReplacedIsSaved, Spec

(* The lock file, the comparison and the rename make the manifest file a     *)
(* register that automatic writers replace by comparing first: every step of *)
(* every process is an edit, opens or ends a replacement, makes one, or      *)
(* changes nothing.                                                          *)
THEOREM FleetImplementsRegister == Spec => AtomicRegister
<1>0. Init => file \in Manifest
  BY FirstFile
<1>1. Init => Register!Init
  BY <1>0, SameManifests DEF Init, Register!Init, Base
<1>2. Inv /\ [Next]_vars => [Register!Next]_(Register!vars)
  <2> SUFFICES ASSUME Inv, [Next]_vars
               PROVE  [Register!Next]_(Register!vars)
    OBVIOUS
  <2>1. CASE edits' # edits
    <3>1. Next
      BY <2>1 DEF vars
    <3>2. Base' = Base
      BY <2>1, <3>1, EditStep DEF Base
    <3> QED BY <2>1, <3>1, <3>2, EditStep, SameManifests DEF Register!Next, Register!Edit
  <2>2. CASE edits' = edits /\ file' = file
    BY <2>2, OtherStep DEF Register!vars, Register!Next, Register!Compare, Register!Abandon
  <2>3. CASE edits' = edits /\ file' # file
    <3>1. /\ file' \in Manifest
          /\ Base \in Manifest
          /\ \E listing \in Listing : Maintains(Base, file', listing)
          /\ Base' = NONE
      BY <2>3, ReplaceStep
    <3>2. \E listing \in Register!Listing : Register!Maintains(Base, file', listing)
      BY <3>1, SameManifests, SameMaintenance
    <3> QED BY <2>3, <3>1, <3>2, Bounds, SameManifests DEF Register!Next, Register!Replace
  <2> QED BY <2>1, <2>2, <2>3
<1> QED BY <1>1, <1>2, InvCorrect, PTL DEF AtomicRegister, Register!Spec, Spec
=============================================================================
