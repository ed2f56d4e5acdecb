------------------------------- MODULE Fleet -------------------------------
(* The processes that keep one manifest file up to date: `renew` and `watch` *)
(* (renewServer), `reapprove` (reapproveServer), auto-updating proxies, and  *)
(* the operator.  The first three read the file, learn the server's tools,   *)
(* compute a manifest and replace the file through atomicWriteJson, which    *)
(* takes <path>.lock, re-reads the file, backs it up and renames a temporary *)
(* file over it.  The operator and gen-manifest write the file itself and    *)
(* take no lock.  Processes interleave and die between those steps.          *)
EXTENDS ManifestPolicy, FiniteSets

CONSTANTS Renewers, Reapprovers, Proxies,  \* processes
          Within,      \* renew only if at most this long is left
          Validity,    \* how long a new manifest is valid
          MaxNow, MaxEdits, MaxChanges, MaxCrashes  \* bounds

Writers == Renewers \cup Reapprovers \cup Proxies

ASSUME FleetAssumption ==
    /\ {Within, Validity, MaxNow, MaxEdits, MaxChanges, MaxCrashes} \subseteq Nat
    /\ Validity > 0
    /\ Renewers \cap Reapprovers = {}
    /\ Proxies \cap (Renewers \cup Reapprovers) = {}
    /\ NONE \notin Writers \cup Manifest

VARIABLES now,      \* the clock manifest expiry is compared with
          live,     \* the tools the server has
          changes,  \* how often they changed
          file,     \* the manifest on disk, or NONE: torn
          backup,   \* what was last saved beside it, or NONE
          lock,     \* the process whose lock file is there, or NONE
          pc,       \* pc[w]: where the process is
          original, \* original[w]: the manifest it read, or NONE
          next,     \* next[w]: the manifest it will write, or NONE
          memory,   \* memory[p]: the manifest proxy p enforces
          edits,    \* how often the operator wrote the file
          raced,    \* whether that was after the last comparison
          crashes   \* how many processes died

vars == <<now, live, changes, file, backup, lock, pc, original, next, memory,
          edits, raced, crashes>>
envVars  == <<now, live, changes>>
jobVars  == <<original, next, memory>>

(* idle; listing: awaiting tools/list; writing: about to open the lock file; *)
(* locked; compared: the file was the one it read; saved: a copy was made;   *)
(* renamed: about to remove the lock file; down: a proxy not running.        *)
Places == {"idle", "listing", "writing", "locked", "compared", "saved", "renamed", "down"}
Critical == {"locked", "compared", "saved", "renamed"}
Replacing == {"compared", "saved"}

TypeOK == /\ now \in 0..MaxNow
          /\ live \in Listing
          /\ changes \in 0..MaxChanges
          /\ file \in {NONE} \cup Manifest
          /\ backup \in {NONE} \cup Manifest
          /\ lock \in Writers \cup {NONE}
          /\ pc \in [Writers -> Places]
          /\ original \in [Writers -> {NONE} \cup Manifest]
          /\ next \in [Writers -> {NONE} \cup Manifest]
          /\ memory \in [Proxies -> {NONE} \cup Manifest]
          /\ edits \in Nat
          /\ raced \in BOOLEAN
          /\ crashes \in 0..MaxCrashes

(* A manifest written before contractDigest and declaredScopesHash existed. *)
Legacy(m) == [m EXCEPT !.tools = [n \in Names(m) |->
                 [m.tools[n] EXCEPT !.digest = NONE, !.declared = NONE]]]

(* gen-manifest wrote the first manifest; the proxies have loaded it. *)
Init == /\ now = 0
        /\ live \in Listing
        /\ changes = 0
        /\ \E allow \in SUBSET DOMAIN live :
               LET first == BuildManifest(live, allow, Validity)
               IN  file \in {first, Legacy(first)}
        /\ backup = NONE
        /\ lock = NONE
        /\ pc = [w \in Writers |-> "idle"]
        /\ original = [w \in Writers |-> NONE]
        /\ next = [w \in Writers |-> NONE]
        /\ memory = [p \in Proxies |-> file]
        /\ edits = 0
        /\ raced = FALSE
        /\ crashes = 0

-----------------------------------------------------------------------------
(* The environment. *)
Tick == /\ now < MaxNow
        /\ now' = now + 1
        /\ UNCHANGED <<live, changes, file, backup, lock, pc, jobVars, edits, raced, crashes>>

(* A new release of the server adds, redefines or drops a tool. *)
ServerChanges ==
    /\ changes < MaxChanges
    /\ \E n \in Tools :
          \/ \E t \in LiveTool :
                live' = [m \in DOMAIN live \cup {n} |-> IF m = n THEN t ELSE live[m]]
          \/ n \in DOMAIN live /\ live' = [m \in DOMAIN live \ {n} |-> live[m]]
    /\ changes' = changes + 1
    /\ UNCHANGED <<now, file, backup, lock, pc, jobVars, edits, raced, crashes>>

(* What the operator writes is written whatever lock file there is. *)
Writes == /\ edits' = edits + 1
          /\ raced' = (raced \/ \E w \in Writers : pc[w] \in Replacing)
          /\ UNCHANGED <<envVars, backup, lock, pc, jobVars, crashes>>

(* The operator denies a tool or restricts it to a scope, and reseals the    *)
(* manifest hash or forgets to.                                              *)
EditEntry(n, e) ==
    /\ file.tools[n] # e
    /\ \E sealed \in BOOLEAN :
          file' = [file EXCEPT !.tools = [@ EXCEPT ![n] = e], !.valid = sealed]

OperatorEdits ==
    /\ edits < MaxEdits
    /\ file # NONE
    /\ \E n \in Names(file) :
          \/ EditEntry(n, [file.tools[n] EXCEPT !.allowed = FALSE])
          \/ \E s \in Scopes :
                EditEntry(n, [file.tools[n] EXCEPT !.scopes = @ \cup {s}])
    /\ Writes

(* `gen-manifest` empties the file and writes a fresh manifest, with the     *)
(* operator's --allow-tool names, into it. In between no reader can parse it *)
(* and gen-manifest may die. If another process renames its own file over    *)
(* it in between, what is written goes to no file.                           *)
GenManifestOpens ==
    /\ edits < MaxEdits
    /\ file' = NONE
    /\ Writes

GenManifest ==
    /\ file = NONE
    /\ \E allow \in SUBSET DOMAIN live :
          file' = BuildManifest(live, allow, now + Validity)
    /\ Writes

-----------------------------------------------------------------------------
Goto(w, place) == pc' = [pc EXCEPT ![w] = place]

(* A job that returns or dies forgets what it read and computed. *)
Forget(w) == /\ original' = [original EXCEPT ![w] = NONE]
             /\ next' = [next EXCEPT ![w] = NONE]

TooLate(w) ==   \* mutant: < for <=
    /\ w \in Renewers /\ pc[w] = "idle"
    /\ file # NONE /\ file.valid
    /\ file.expires < now + Within
    /\ original' = [original EXCEPT ![w] = file]
    /\ Goto(w, "listing")
    /\ UNCHANGED <<envVars, file, backup, lock, next, memory, edits, raced, crashes>>

(* renewServer: a manifest with longer than `within` left is skipped, and an *)
(* invalid one refused.                                                      *)
StartRenewal(w) ==
    /\ w \in Renewers /\ pc[w] = "idle"
    /\ file # NONE /\ file.valid
    /\ file.expires <= now + Within
    /\ original' = [original EXCEPT ![w] = file]
    /\ Goto(w, "listing")
    /\ UNCHANGED <<envVars, file, backup, lock, next, memory, edits, raced, crashes>>

StartReapproval(w) ==
    /\ w \in Reapprovers /\ pc[w] = "idle"
    /\ file # NONE /\ file.valid
    /\ original' = [original EXCEPT ![w] = file]
    /\ Goto(w, "listing")
    /\ UNCHANGED <<envVars, file, backup, lock, next, memory, edits, raced, crashes>>

Unreachable(w) ==
    /\ pc[w] = "listing"
    /\ Goto(w, "idle") /\ Forget(w)
    /\ UNCHANGED <<envVars, file, backup, lock, memory, edits, raced, crashes>>

RefuseRenewal(w) ==
    /\ w \in Renewers /\ pc[w] = "listing"
    /\ ~Renewable(original[w], live)
    /\ Goto(w, "idle") /\ Forget(w)
    /\ UNCHANGED <<envVars, file, backup, lock, memory, edits, raced, crashes>>

Renew(w) ==
    /\ w \in Renewers /\ pc[w] = "listing"
    /\ Renewable(original[w], live)
    /\ next' = [next EXCEPT ![w] = RenewManifest(original[w], now + Validity)]
    /\ Goto(w, "writing")
    /\ UNCHANGED <<envVars, file, backup, lock, original, memory, edits, raced, crashes>>

Reapprove(w) ==
    /\ w \in Reapprovers /\ pc[w] = "listing"
    /\ next' = [next EXCEPT ![w] = Reapproved(original[w], live, now + Validity)]
    /\ Goto(w, "writing")
    /\ UNCHANGED <<envVars, file, backup, lock, original, memory, edits, raced, crashes>>

(* A tools/list answer passes an auto-updating proxy and has new tools. The  *)
(* update is given up if the file is no longer the policy the proxy loaded.  *)
AutoUpdate(w) ==
    /\ w \in Proxies /\ pc[w] = "idle"
    /\ Added(memory[w], live) # {}
    /\ file # NONE /\ file = memory[w]
    /\ original' = [original EXCEPT ![w] = file]
    /\ next' = [next EXCEPT ![w] = AutoUpdated(memory[w], live, now + Validity)]
    /\ Goto(w, "writing")
    /\ UNCHANGED <<envVars, file, backup, lock, memory, edits, raced, crashes>>

-----------------------------------------------------------------------------
(* atomicWriteJson. openSync(lock, "wx") fails if the file is there. *)
SharedLock(w) ==   \* mutant: opened without the exclusive flag
    /\ pc[w] = "writing"
    /\ lock' = w
    /\ Goto(w, "locked")
    /\ UNCHANGED <<envVars, file, backup, jobVars, edits, raced, crashes>>

Lock(w) ==
    /\ pc[w] = "writing"
    /\ lock = NONE
    /\ lock' = w
    /\ Goto(w, "locked")
    /\ UNCHANGED <<envVars, file, backup, jobVars, edits, raced, crashes>>

LockTaken(w) ==
    /\ pc[w] = "writing"
    /\ lock # NONE
    /\ Goto(w, "idle") /\ Forget(w)
    /\ UNCHANGED <<envVars, file, backup, lock, memory, edits, raced, crashes>>

UncheckedReplace(w) ==   \* mutant: no comparison with what was read
    /\ pc[w] = "locked"
    /\ raced' = FALSE
    /\ Goto(w, "compared")
    /\ UNCHANGED <<envVars, file, backup, lock, jobVars, edits, crashes>>

(* The file is still what the process read. *)
Compare(w) ==
    /\ pc[w] = "locked"
    /\ file = original[w]
    /\ raced' = FALSE
    /\ Goto(w, "compared")
    /\ UNCHANGED <<envVars, file, backup, lock, jobVars, edits, crashes>>

ChangedMeanwhile(w) ==
    /\ pc[w] = "locked"
    /\ file # original[w]
    /\ lock' = NONE
    /\ Goto(w, "idle") /\ Forget(w)
    /\ UNCHANGED <<envVars, file, backup, memory, edits, raced, crashes>>

Unsaved(w) ==   \* mutant: no backup
    /\ pc[w] = "compared"
    /\ Goto(w, "saved")
    /\ UNCHANGED <<envVars, file, backup, lock, jobVars, edits, raced, crashes>>

(* copyFileSync, of what the file is by now. *)
Save(w) ==
    /\ pc[w] = "compared"
    /\ backup' = file
    /\ Goto(w, "saved")
    /\ UNCHANGED <<envVars, file, lock, jobVars, edits, raced, crashes>>

Rename(w) ==
    /\ pc[w] = "saved"
    /\ file' = next[w]
    /\ Goto(w, "renamed")
    /\ UNCHANGED <<envVars, backup, lock, jobVars, edits, raced, crashes>>

(* The lock file goes; a proxy now enforces what it wrote. *)
Unlock(w) ==
    /\ pc[w] = "renamed"
    /\ lock' = NONE
    /\ memory' = [p \in Proxies |-> IF p = w THEN next[w] ELSE memory[p]]
    /\ Goto(w, "idle") /\ Forget(w)
    /\ UNCHANGED <<envVars, file, backup, edits, raced, crashes>>

(* A process dies: its lock file stays, and nothing removes it. The next     *)
(* command or pass is a new process; dying before the lock file is opened    *)
(* has the effect of Unreachable.                                            *)
Crash(w) ==
    /\ crashes < MaxCrashes
    /\ pc[w] \in Critical
    /\ Goto(w, IF w \in Proxies THEN "down" ELSE "idle") /\ Forget(w)
    /\ memory' = [p \in Proxies |-> IF p = w THEN NONE ELSE memory[p]]
    /\ crashes' = crashes + 1
    /\ UNCHANGED <<envVars, file, backup, lock, edits, raced>>

(* A proxy that starts loads the file, and exits if it is not valid. A proxy *)
(* can be stopped whenever it is not writing.                                *)
StopProxy(p) ==
    /\ p \in Proxies /\ pc[p] = "idle"
    /\ Goto(p, "down")
    /\ memory' = [memory EXCEPT ![p] = NONE]
    /\ UNCHANGED <<envVars, file, backup, lock, original, next, edits, raced, crashes>>

StartProxy(p) ==
    /\ p \in Proxies /\ pc[p] = "down"
    /\ file # NONE /\ file.valid
    /\ memory' = [memory EXCEPT ![p] = file]
    /\ Goto(p, "idle")
    /\ UNCHANGED <<envVars, file, backup, lock, original, next, edits, raced, crashes>>

-----------------------------------------------------------------------------
Write(w) == \/ Lock(w) \/ LockTaken(w) \/ Compare(w) \/ ChangedMeanwhile(w)
            \/ Save(w) \/ Rename(w) \/ Unlock(w)

Work(w) == \/ StartRenewal(w) \/ RefuseRenewal(w) \/ Renew(w)
           \/ StartReapproval(w) \/ Reapprove(w)
           \/ AutoUpdate(w)
           \/ Write(w)

Next == \/ Tick \/ ServerChanges
        \/ OperatorEdits \/ GenManifestOpens \/ GenManifest
        \/ \E w \in Writers : Work(w) \/ Unreachable(w) \/ Crash(w)
        \/ \E p \in Proxies : StopProxy(p) \/ StartProxy(p)

Spec == Init /\ [][Next]_vars

(* A process that opened the lock file runs to the end of atomicWriteJson,   *)
(* which blocks nowhere; the watch loop runs pass after pass, each to its    *)
(* end; a server that is asked again and again answers once more.            *)
Fairness == /\ \A w \in Writers \ Renewers : WF_vars(Write(w))
            /\ \A w \in Renewers : WF_vars(Work(w)) /\ SF_vars(Renew(w))

FairSpec == Spec /\ Fairness

-----------------------------------------------------------------------------
(* Only one process is ever between taking the lock file and removing it,    *)
(* and a lock file nobody holds was left by a process that died.             *)
LockDiscipline ==
    /\ \A w \in Writers : pc[w] \in Critical => lock = w
    /\ lock # NONE => pc[lock] \in Critical \/ crashes > 0

(* Automatic writers lose none of each other's writes nor mix two policies:  *)
(* what one of them writes is computed from the policy it compared, once,    *)
(* and since it compared nobody but the operator has written. The operator's *)
(* own write in that moment is lost: neither gen-manifest nor an editor      *)
(* takes the lock (docs/OPERATIONS.md:35 "Locks coordinate cooperating       *)
(* writers").                                                                *)
Base == IF lock # NONE /\ pc[lock] \in Replacing THEN original[lock] ELSE NONE
Register == INSTANCE PolicyRegister WITH policy <- file, base <- Base
AtomicRegister == Register!Spec

(* No automatic write loosens a decision of the operator that was in the     *)
(* file when it compared, whatever the order in which processes, edits and   *)
(* releases of the server interleave.                                        *)
NeverLoosens == Register!NeverLoosens

(* "atomically, with a backup" (fleet.js:2-3): unless the operator wrote in  *)
(* the middle, an automatic write replaces the very policy it has saved.     *)
ReplacedIsSaved ==
    [][file' # file /\ edits' = edits /\ ~raced => backup = file]_vars

(* As long as the server is what the operator approved and no process dies,  *)
(* the watch loop renews a manifest whose end has come within its window,    *)
(* its edge included, whoever else writes the file: it does not wait until   *)
(* the manifest has expired.                                                 *)
KeptFresh == Validity > Within
             => (<>[](crashes = 0 /\ file # NONE /\ Renewable(file, live))
                    => <>[](file # NONE /\ file.expires > now + Within))
=============================================================================
