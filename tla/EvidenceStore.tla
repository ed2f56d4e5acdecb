---------------------------- MODULE EvidenceStore ----------------------------
(* lib/evidence-store.js: records appended to one file per day, and an index *)
(* in memory that finds them by identifier, predicate or layer.  The index   *)
(* may be saved in a file, from which a later process starts.  Processes     *)
(* share the directory without a lock.  Appending counts the lines of a file *)
(* and then appends to it; a record's id is the digest of its content, so a  *)
(* record stands for its id.                                                 *)
EXTENDS Integers, FiniteSets, LineFile

CONSTANTS Processes,
          Records,   \* records of: subject (its identifiers), predicate, value, layer, day
          NONE,      \* no index
          CORRUPT,   \* an index file of which a part was written
          MaxBatch, MaxOpens, MaxLines  \* bounds; MaxLines is of all files together

Days == {r.day : r \in Records}

Keys == {<<"subject", s>> : s \in UNION {r.subject : r \in Records}}
        \cup {<<"predicate", r.predicate>> : r \in Records}
        \cup {"layer", "text"} \X {r.layer : r \in Records}

Location == Days \X Nat

(* byId, and the sets of ids under the other keys.  A layer is a number in   *)
(* memory and the text of a number in the index file.                        *)
Index == [at : UNION {[S -> Location] : S \in SUBSET Records}, under : [Keys -> SUBSET Records]]

ASSUME EvidenceAssumption == /\ {MaxBatch, MaxOpens, MaxLines} \subseteq Nat
                             /\ Records \cap {TORN, GARBLED} = {}
                             /\ {NONE, CORRUPT} \cap Index = {}

VARIABLES files,  \* files[d]: the lines of day d
          disk,   \* index.json, CORRUPT or NONE
          phase,  \* phase[p]: what process p is doing
          index,  \* index[p]: its index, or NONE
          todo,   \* todo[p]: the appends it has to do, oldest first
          start,  \* start[p]: the lines it counted in the file of the next one
          opens,  \* how many processes have opened the store
          written \* the records of which a write returned

vars == <<files, disk, phase, index, todo, start, opens, written>>

Init == /\ files = [d \in Days |-> <<>>]
        /\ disk = NONE
        /\ phase = [p \in Processes |-> "closed"]
        /\ index = [p \in Processes |-> NONE]
        /\ todo = [p \in Processes |-> <<>>]
        /\ start = [p \in Processes |-> 0]
        /\ opens = 0
        /\ written = {}

-----------------------------------------------------------------------------
(* The index. *)
KeysOf(r) == {<<"subject", s>> : s \in r.subject}
             \cup {<<"predicate", r.predicate>>, <<"layer", r.layer>>}

LineOf(lines, r) == Max({k \in DOMAIN lines : lines[k] = r})

(* _indexRecord for the records of xs, which follow line n of the file of    *)
(* day d.                                                                    *)
Indexed(ix, xs, d, n) ==
    [at    |-> [r \in ToSet(xs) \cup DOMAIN ix.at |->
                   IF r \in ToSet(xs) THEN <<d, n + LineOf(xs, r)>> ELSE ix.at[r]],
     under |-> [k \in Keys |-> ix.under[k] \cup {r \in ToSet(xs) : k \in KeysOf(r)}]]

OnDisk == UNION {Whole(files[d]) : d \in Days}

(* rebuildIndex: lines that do not parse are skipped, the last line that has *)
(* a record is the one found.                                                *)
RebuiltByRecord ==   \* mutant: lines that do not parse are not counted
    [at    |-> [r \in OnDisk |->
                   <<r.day, LineOf(SelectSeq(files[r.day], LAMBDA x : x \in Records), r)>>],
     under |-> [k \in Keys |-> {r \in OnDisk : k \in KeysOf(r)}]]

Rebuilt == [at    |-> [r \in OnDisk |-> <<r.day, LineOf(files[r.day], r)>>],
            under |-> [k \in Keys |-> {r \in OnDisk : k \in KeysOf(r)}]]

(* What flushIndex writes of an index and _loadIndex makes of that: of two   *)
(* layers with the same text the later one, the number, is written.          *)
Flushed(ix) ==
    [ix EXCEPT !.under = [k \in Keys |->
        IF k[1] = "layer" THEN {}
        ELSE IF k[1] = "text" /\ ix.under[<<"layer", k[2]>>] # {} THEN ix.under[<<"layer", k[2]>>]
        ELSE ix.under[k]]]

(* getById: what the line the index names holds, if it is that record. *)
ReadUnchecked(ix, r) ==   \* mutant: any record will do
    LET d == ix.at[r][1]  k == ix.at[r][2]
    IN  {x \in Records : k \in DOMAIN files[d] /\ files[d][k] = x}

Read(ix, r) == LET d == ix.at[r][1]  k == ix.at[r][2]
               IN  {x \in {r} : k \in DOMAIN files[d] /\ files[d][k] = x}

(* query: the records found under all of these keys. *)
Query(ix, keys) ==
    UNION {Read(ix, r) : r \in {x \in DOMAIN ix.at : \A k \in keys : x \in ix.under[k]}}

(* contradictions: the predicates with several values for this identifier. *)
Contradictions(ix, s) ==
    LET found == Query(ix, {<<"subject", s>>})
    IN  {y.predicate : y \in {z \in found :
            \E w \in found : w.predicate = z.predicate /\ w.value # z.value}}

(* verify: every line parses, and no record is there twice. *)
SkipsBroken ==   \* mutant: lines that do not parse are skipped, as in a query
    \A d \in Days : \A j, k \in DOMAIN files[d] :
        files[d][j] = files[d][k] /\ files[d][j] \in Records => j = k

Verified == \A d \in Days : /\ Parses(files[d])
                            /\ \A j, k \in DOMAIN files[d] : files[d][j] = files[d][k] => j = k

-----------------------------------------------------------------------------
(* A process opens the store: with the saved index as it is, or, if that is  *)
(* missing or does not parse, with one made from the files.                  *)
Opens(p, ix) == /\ phase[p] = "closed"
                /\ opens < MaxOpens
                /\ phase' = [phase EXCEPT ![p] = "idle"]
                /\ index' = [index EXCEPT ![p] = ix]
                /\ opens' = opens + 1
                /\ UNCHANGED <<files, disk, todo, start, written>>

Open(p) == Opens(p, IF disk \in {NONE, CORRUPT} THEN Rebuilt ELSE disk)

(* scan-ecosystem.mjs opens it without an index, to append only. *)
OpenToAppend(p) == Opens(p, NONE)

(* It exits, or is killed in the middle of an append or a flush. *)
Close(p) == /\ phase[p] # "closed"
            /\ phase' = [phase EXCEPT ![p] = "closed"]
            /\ index' = [index EXCEPT ![p] = NONE]
            /\ todo' = [todo EXCEPT ![p] = <<>>]
            /\ start' = [start EXCEPT ![p] = 0]
            /\ UNCHANGED <<files, disk, opens, written>>

RebuildIndex(p) == /\ phase[p] = "idle"
                   /\ index' = [index EXCEPT ![p] = Rebuilt]
                   /\ UNCHANGED <<files, disk, phase, todo, start, opens, written>>

(* append, appendBatch: records are grouped by file.  None may be in the     *)
(* index; they are not compared with each other.                             *)
Group == UNION {[day     : {d},
                 records : UNION {[1..n -> {r \in Records : r.day = d}] : n \in 1..MaxBatch}] :
                d \in Days}

Places(gs) == UNION {{k} \X DOMAIN gs[k].records : k \in DOMAIN gs}
Size(gs)   == Cardinality(Places(gs))

Batches == {gs \in UNION {[1..n -> Group] : n \in 1..MaxBatch} :
               /\ \A j, k \in DOMAIN gs : gs[j].day = gs[k].day => j = k
               /\ Size(gs) <= MaxBatch}

Contents(gs) == UNION {ToSet(gs[k].records) : k \in DOMAIN gs}

(* The bound counts the records on their way to the files, too. *)
Lines == Cardinality(UNION {{d} \X DOMAIN files[d] : d \in Days})
         + Cardinality(UNION {{q} \X Places(todo[q]) : q \in Processes})

AppendBatch(p) ==
    /\ phase[p] = "idle"
    /\ \E gs \in Batches :
          /\ index[p] # NONE => Contents(gs) \cap DOMAIN index[p].at = {}
          /\ Size(gs) <= MaxLines - Lines
          /\ todo' = [todo EXCEPT ![p] = gs]
    /\ phase' = [phase EXCEPT ![p] = "counting"]
    /\ UNCHANGED <<files, disk, index, start, opens, written>>

(* Before a file is appended to, its lines are counted. *)
Counting(p, n) == /\ phase[p] = "counting"
                  /\ start' = [start EXCEPT ![p] = n]
                  /\ phase' = [phase EXCEPT ![p] = "writing"]
                  /\ UNCHANGED <<files, disk, index, todo, opens, written>>

CountsRecords(p) ==   \* mutant: the records are counted
    Counting(p, Cardinality(Whole(files[Head(todo[p]).day])))

Counts(p) == Counting(p, Len(files[Head(todo[p]).day]))

Does(p, rest) == /\ todo' = [todo EXCEPT ![p] = rest]
                 /\ start' = [start EXCEPT ![p] = 0]
                 /\ phase' = [phase EXCEPT ![p] = IF rest = <<>> THEN "idle" ELSE "counting"]
                 /\ UNCHANGED <<disk, opens>>

(* One file takes its lines, and the index takes its records. *)
Indexes(p, g) == index' = [index EXCEPT ![p] =
                    IF @ = NONE THEN NONE ELSE Indexed(@, g.records, g.day, start[p])]

Write(p) ==
    /\ phase[p] = "writing"
    /\ LET g == Head(todo[p])
       IN  /\ files' = [files EXCEPT ![g.day] = WrittenAll(@, g.records)]
           /\ Indexes(p, g)
           /\ written' = written \cup ToSet(g.records)
    /\ Does(p, Tail(todo[p]))

(* The write fails, and with it the rest of the batch. *)
WriteFails(p) ==
    /\ phase[p] = "writing"
    /\ LET g == Head(todo[p])
       IN  \E lines \in WrittenInPart(files[g.day], g.records) :
              files' = [files EXCEPT ![g.day] = lines]
    /\ Does(p, <<>>)
    /\ UNCHANGED <<index, written>>

(* flushIndex writes the file in place: it does not parse until it is whole. *)
FlushIndex(p) == /\ phase[p] = "idle"
                 /\ index[p] # NONE
                 /\ disk' = CORRUPT
                 /\ phase' = [phase EXCEPT ![p] = "flushing"]
                 /\ UNCHANGED <<files, index, todo, start, opens, written>>

Flushes(p) == /\ phase[p] = "flushing"
              /\ disk' = Flushed(index[p])
              /\ phase' = [phase EXCEPT ![p] = "idle"]
              /\ UNCHANGED <<files, index, todo, start, opens, written>>

-----------------------------------------------------------------------------
Next == \E p \in Processes : \/ Open(p) \/ OpenToAppend(p) \/ Close(p) \/ RebuildIndex(p)
                             \/ AppendBatch(p) \/ Counts(p) \/ Write(p) \/ WriteFails(p)
                             \/ FlushIndex(p) \/ Flushes(p)

Spec == Init /\ [][Next]_vars

-----------------------------------------------------------------------------
(* The index is a cache and not the source of truth: however stale it is,    *)
(* whoever saved it and wherever its lines have moved since, what a query    *)
(* returns is on disk and has the keys asked for, and a contradiction it     *)
(* reports is between two records on disk.                                   *)
LookupNeverLies ==
    \A p \in Processes : index[p] # NONE =>
        /\ \A k \in Keys : k[1] # "text" =>
              Query(index[p], {k}) \subseteq {r \in OnDisk : k \in KeysOf(r)}
        /\ \A s \in UNION {r.subject : r \in Records} : \A q \in Contradictions(index[p], s) :
              \E x, y \in OnDisk : /\ s \in x.subject \cap y.subject
                                   /\ x.predicate = q /\ y.predicate = q /\ x.value # y.value

(* An index made from the files finds every record of every line that        *)
(* parses ("Index is a cache - can be deleted and rebuilt at any time",      *)
(* evidence-store.js:21), between torn and garbled lines too.                *)
RebuildFindsAll == Query(Rebuilt, {}) = OnDisk

(* The index a process keeps while it appends, in batches over several files *)
(* that fail half way or repeat a record, says of each record what a rebuilt *)
(* one would, as long as it is the only writer and no line is torn.          *)
KeptAsRebuilt ==
    \A p \in Processes :
        opens = 1 /\ index[p] # NONE /\ (\A d \in Days : Parses(files[d])) =>
            LET known == DOMAIN index[p].at
            IN  /\ known \subseteq OnDisk
                /\ \A r \in known : index[p].at[r] = Rebuilt.at[r]
                /\ \A k \in Keys : index[p].under[k] = Rebuilt.under[k] \cap known

(* A store that verifies has every record of which a write returned: one     *)
(* that a torn line took along is gone, but not unnoticed.                   *)
VerifiedHasAllWritten == Verified => written \subseteq OnDisk
=============================================================================
