-------------------------------- MODULE Pins ---------------------------------
(* The commands of bin/mcp-trustcard.js that share a pin file and a manifest *)
(* file: pin, unpin, fingerprint and verify, with manifest and sign.  Each   *)
(* is a process: it loads the pins, may wait for a probe of the server, and  *)
(* saves what it loaded and changed, through a temporary file of one name    *)
(* for all processes that is renamed to the pin file.                        *)
EXTENDS Naturals, FiniteSets, PinStore

CONSTANTS Selves,    \* self-reports, records of a name and a version
          Toolsets,
          Expiries,  \* may a manifest have an expiry date, must it?
          Origins,   \* what the operator configured: a package or a command
          PART,      \* a file that does not parse: it is being written, or was
          MaxCommands, MaxRunning, MaxEdits, MaxKills  \* bounds; MaxRunning is of commands at once

Commands == 1..MaxCommands
Files    == 0..MaxCommands   \* each command creates at most one
Observed == [self : Selves, tools : Toolsets]

Keys  == {<<self>> : self \in Selves} \cup (Selves \X Origins)
Pin   == [tools : Toolsets, first : Nat, repins : Nat]
Store == [servers : UNION {[K -> Pin] : K \in SUBSET Keys}, publishers : SUBSET Publishers]

Contents  == [tools : Toolsets, digest : Toolsets, server : {self.name : self \in Selves},
              key : Publishers \cup {NONE}, keyId : Publishers \cup {NONE}, expires : BOOLEAN]
Signature == [by : Publishers, of : Contents]
Manifest  == [tools : Toolsets, digest : Toolsets, server : {self.name : self \in Selves},
              key : Publishers \cup {NONE}, keyId : Publishers \cup {NONE}, expires : BOOLEAN,
              manifestDigest : Contents, signature : Signature \cup {NONE}]

ASSUME PinAssumption == /\ {MaxCommands, MaxRunning, MaxEdits, MaxKills} \subseteq Nat
                        /\ Expiries \subseteq BOOLEAN
                        /\ NONE \notin Publishers \cup Toolsets \cup Origins \cup Keys \cup Files
                        /\ NONE \notin Observed \cup Manifest \cup Signature
                        /\ PART \notin Store

VARIABLES serves,    \* serves[o]: what the server at o reports
          manifest,  \* the manifest file, or NONE
          late,      \* its expiry date has passed
          edits,     \* how often the three above were changed
          content,   \* content[f]: what is in file f, a store or PART
          pinFile,   \* the file that has the name of the pin file
          tmpFile,   \* the file that has the name of the temporary one, or NONE
          command,   \* command[i]: the process of the i-th command
          kills,     \* how many of them were killed
          raced,     \* a command loaded pins that another was about to replace
          acked,     \* the pins as completed commands left them, until a race
          attested,  \* <<key, tools>>: what was ever signed
          known      \* the keys of the manifests that fingerprints verified

worldVars == <<serves, manifest, late, edits, attested>>
fileVars  == <<content, pinFile, tmpFile>>
ghosts    == <<acked, raced, known>>
vars == <<worldVars, fileVars, command, kills, ghosts>>

Idle == [stage |-> "unused", verb |-> NONE, origin |-> NONE, key |-> NONE, pins |-> EmptyStore,
         manifest |-> NONE, seen |-> NONE, file |-> NONE, passed |-> FALSE,
         named |-> {}, pinned |-> FALSE]

Stages == {"unused", "probing", "opening", "writing", "written", "done"}

Verbs   == {"pin", "unpin", "fingerprint", "verify"}
Command == [stage : Stages, verb : Verbs \cup {NONE}, origin : Origins \cup {NONE},
            key : Keys \cup {NONE}, pins : Store, manifest : Manifest \cup {NONE},
            seen : Observed \cup {NONE}, file : Files \cup {NONE}, passed : BOOLEAN,
            named : SUBSET Publishers, pinned : BOOLEAN]   \* --publisher-key, --pins

TypeOK == /\ serves \in [Origins -> Observed]
          /\ manifest \in Manifest \cup {NONE}
          /\ late \in BOOLEAN
          /\ edits \in Nat
          /\ attested \subseteq Publishers \X Toolsets
          /\ content \in [Files -> Store \cup {PART}]
          /\ pinFile \in Files
          /\ tmpFile \in Files \cup {NONE}
          /\ command \in [Commands -> Command]
          /\ kills \in Nat
          /\ raced \in BOOLEAN
          /\ acked \in Store
          /\ known \subseteq Publishers

(* The pin file may be one from before origins were bound. *)
LegacyStore(self, tools) ==
    PinServer(EmptyStore, <<self>>, tools, 0)

Init == /\ serves \in [Origins -> Observed]
        /\ manifest = NONE /\ late = FALSE /\ edits = 0 /\ attested = {}
        /\ \E data \in {EmptyStore} \cup {LegacyStore(s, t) : s \in Selves, t \in Toolsets} :
              /\ content = [f \in Files |-> IF f = 0 THEN data ELSE PART]
              /\ acked = data
        /\ pinFile = 0
        /\ tmpFile = NONE
        /\ command = [i \in Commands |-> Idle]
        /\ kills = 0
        /\ raced = FALSE
        /\ known = {}

-----------------------------------------------------------------------------
(* The world: a server is updated, time passes, the manifest file is made,   *)
(* signed (only when the result verifies) or edited.  A command reads the    *)
(* manifest at one instant, so that those happen between commands, and the   *)
(* world stands still once no command is left to see it.                     *)
Edits == /\ edits < MaxEdits
         /\ \E i \in Commands : command[i].stage \in {"unused", "probing"}
         /\ edits' = edits + 1
         /\ UNCHANGED <<fileVars, command, kills, ghosts>>

Quiet == \A i \in Commands : command[i].stage \in {"unused", "done"}

Update == /\ Edits
          /\ \E o \in Origins : \E x \in Observed \ {serves[o]} : serves' = [serves EXCEPT ![o] = x]
          /\ UNCHANGED <<manifest, late, attested>>

Expire == /\ Edits /\ Quiet
          /\ manifest # NONE /\ ~late
          /\ late' = TRUE
          /\ UNCHANGED <<serves, manifest, attested>>

Build == /\ Edits /\ Quiet
         /\ \E o \in Origins, key \in Publishers \cup {NONE}, expires \in Expiries :
               manifest' = BuildManifest(serves[o], key, expires)
         /\ late' = FALSE
         /\ UNCHANGED <<serves, attested>>

Sign == /\ Edits /\ Quiet
        /\ manifest # NONE
        /\ \E secret \in Publishers :
              /\ MaySign(manifest, secret)
              /\ VerifyManifest(SignManifest(manifest, secret), late)
              /\ manifest' = SignManifest(manifest, secret)
              /\ attested' = attested \cup {<<secret, manifest.tools>>}
        /\ UNCHANGED <<serves, late>>

(* Someone changes the tools in the file, or its digests with them. *)
Tamper == /\ Edits /\ Quiet
          /\ manifest # NONE
          /\ \E t \in Toolsets \ {manifest.tools} : \E digest \in {manifest.digest, t} :
                LET m == [manifest EXCEPT !.tools = t, !.digest = digest]
                IN  manifest' \in {m, Digested(m)}
          /\ UNCHANGED <<serves, late, attested>>

-----------------------------------------------------------------------------
(* _load: a file that does not parse is an empty store, as a missing one is. *)
Loaded == IF content[pinFile] = PART THEN EmptyStore ELSE content[pinFile]

(* What is left of a command: a manifest that passed, with what was probed   *)
(* and what anchored it.                                                     *)
Exited(c) == IF c.passed /\ c.manifest # NONE
             THEN [Idle EXCEPT !.stage = "done", !.manifest = c.manifest, !.seen = c.seen,
                               !.passed = TRUE, !.named = c.named, !.pinned = c.pinned]
             ELSE [Idle EXCEPT !.stage = "done"]

(* Commands that hold pins they may yet save. *)
Saving(i) == /\ command[i].verb # "verify"
             /\ command[i].stage \in {"probing", "opening", "writing", "written"}

Starts(i) == /\ command[i].stage = "unused"
             /\ \A j \in 1..(i - 1) : command[j].stage # "unused"
             /\ Cardinality({j \in 1..(i - 1) : command[j].stage # "done"}) < MaxRunning
             /\ UNCHANGED <<worldVars, fileVars, kills, known>>

Races == \/ /\ \E j \in Commands : Saving(j)
            /\ raced' = TRUE /\ acked' = EmptyStore
         \/ /\ ~\E j \in Commands : Saving(j)
            /\ UNCHANGED <<raced, acked>>

StartPin(i) == /\ Starts(i)
               /\ \E o \in Origins :
                     command' = [command EXCEPT ![i] =
                         [@ EXCEPT !.stage = "probing", !.verb = "pin", !.origin = o, !.pins = Loaded]]
               /\ Races

(* unpin takes a key; it saves whether or not there was such a pin, so one   *)
(* key without a pin, the legacy one, stands for all.                        *)
StartUnpin(i) ==
    /\ Starts(i)
    /\ \E key \in {<<s>> : s \in Selves} \cup DOMAIN Loaded.servers :
          command' = [command EXCEPT ![i] =
              [@ EXCEPT !.stage = "opening", !.verb = "unpin", !.key = key,
                        !.pins = RemoveServerPin(Loaded, key)]]
    /\ Races

StartFingerprint(i) ==
    /\ Starts(i)
    /\ \E o \in Origins :
          command' = [command EXCEPT ![i] =
              [@ EXCEPT !.stage = "probing", !.verb = "fingerprint", !.origin = o, !.pins = Loaded]]
    /\ Races

(* verify is given keys to anchor trust in by name, by the pins or not at    *)
(* all; pins without a publisher are refused.  With --spec and a manifest    *)
(* that holds it then probes.                                                *)
StartVerify(i) ==
    /\ Starts(i)
    /\ manifest # NONE
    /\ \E o \in Origins \cup {NONE}, named \in SUBSET Publishers, pinned \in BOOLEAN :
          /\ pinned => Loaded.publishers # {}
          /\ LET anchors == named \cup IF pinned THEN Loaded.publishers ELSE {}
                 c == [command[i] EXCEPT !.verb = "verify", !.origin = o, !.manifest = manifest,
                                         !.named = named, !.pinned = pinned,
                                         !.passed = Accepted(manifest, late, anchors)]
             IN  command' = [command EXCEPT ![i] =
                     IF o # NONE /\ VerifyManifest(manifest, late)
                     THEN [c EXCEPT !.stage = "probing"] ELSE Exited(c)]
    /\ UNCHANGED <<raced, acked>>

-----------------------------------------------------------------------------
(* The probe ends. *)
Probes(i, verb) == /\ command[i].stage = "probing"
                   /\ command[i].verb = verb
                   /\ UNCHANGED <<worldVars, fileVars, kills, acked, raced>>

Finish(i) == command' = [command EXCEPT ![i] = [Idle EXCEPT !.stage = "done"]]

PinProbed(i) ==
    /\ Probes(i, "pin")
    /\ LET x == serves[command[i].origin]
           key == ServerKey(x.self, command[i].origin)
           pins == PinServer(command[i].pins, key, x.tools, i)
       IN  \/ command' = [command EXCEPT ![i] =
                  [@ EXCEPT !.stage = "opening", !.key = key, !.seen = x, !.pins = pins]]
           \/ Finish(i)   \* the probe fails
    /\ UNCHANGED known

(* fingerprint, with --manifest or without: the key of a valid manifest is   *)
(* pinned, whatever the probe showed; the exit code is that of all checks.   *)
Matches(pins, x, o) ==
    LET pin == GetServerPin(pins, ServerKey(x.self, o)) IN pin = NONE \/ pin.tools = x.tools

Fingerprints(i, x, m) ==
    LET valid == m # NONE /\ VerifyManifest(m, late)
        c == [command[i] EXCEPT !.manifest = m, !.seen = x,
                 !.passed = /\ x # NONE /\ Matches(command[i].pins, x, command[i].origin)
                            /\ m = NONE \/ (valid /\ BindingConsistent(m, x))]
    IN  /\ command' = [command EXCEPT ![i] =
               IF valid /\ m.key \notin c.pins.publishers
               THEN [c EXCEPT !.stage = "opening", !.pins = PinPublisherTofu(@, m.key)]
               ELSE Exited(c)]
        /\ known' = IF valid THEN known \cup {m.key} ELSE known

FingerprintProbed(i) ==
    /\ Probes(i, "fingerprint")
    /\ \E x \in {serves[command[i].origin], NONE}, m \in {manifest, NONE} : Fingerprints(i, x, m)

VerifyProbed(i) ==
    /\ Probes(i, "verify")
    /\ \E x \in {serves[command[i].origin], NONE} :
          LET c == command[i]
              passed == c.passed /\ x # NONE /\ BindingConsistent(c.manifest, x)
          IN  command' = [command EXCEPT ![i] = Exited([c EXCEPT !.seen = x, !.passed = passed])]
    /\ UNCHANGED known

-----------------------------------------------------------------------------
(* save: the temporary file is opened, which empties it, written and renamed *)
(* to the pin file.  A file renamed in between is written under its new name.*)
OpensPinFile(i) ==   \* mutant: the pin file itself is written
    /\ command[i].stage = "opening"
    /\ tmpFile' = pinFile
    /\ content' = [content EXCEPT ![pinFile] = PART]
    /\ command' = [command EXCEPT ![i].stage = "writing", ![i].file = pinFile]
    /\ UNCHANGED <<worldVars, pinFile, kills, ghosts>>

OpenTmp(i) == /\ command[i].stage = "opening"
              /\ \E f \in {IF tmpFile = NONE THEN i ELSE tmpFile} :
                    /\ tmpFile' = f
                    /\ content' = [content EXCEPT ![f] = PART]
                    /\ command' = [command EXCEPT ![i].stage = "writing", ![i].file = f]
              /\ UNCHANGED <<worldVars, pinFile, kills, ghosts>>

(* Two processes that have it open write over each other. *)
WriteTmp(i) == /\ command[i].stage = "writing"
               /\ \E f \in {command[i].file} :
                     content' \in {[content EXCEPT ![f] = c] :
                         c \in {command[i].pins} \cup IF content[f] = PART THEN {} ELSE {PART}}
               /\ command' = [command EXCEPT ![i].stage = "written"]
               /\ UNCHANGED <<worldVars, pinFile, tmpFile, kills, ghosts>>

(* What a completed command has done to the pins. *)
Applied(i) == CASE command[i].verb = "pin" ->
                       PinServer(acked, command[i].key, command[i].seen.tools, i)
                [] command[i].verb = "unpin" -> RemoveServerPin(acked, command[i].key)
                [] command[i].verb = "fingerprint" ->
                       PinPublisherTofu(acked, command[i].manifest.key)

RenameTmp(i) == /\ command[i].stage = "written"
                /\ tmpFile # NONE
                /\ pinFile' = tmpFile
                /\ tmpFile' = NONE
                /\ content' = [content EXCEPT ![pinFile] = PART]   \* it has no name now
                /\ acked' = IF raced THEN acked ELSE Applied(i)
                /\ command' = [command EXCEPT ![i] = Exited(@)]
                /\ UNCHANGED <<worldVars, kills, raced, known>>

(* Another process has renamed it: the command fails. *)
RenameFails(i) == /\ command[i].stage = "written"
                  /\ tmpFile = NONE
                  /\ Finish(i)
                  /\ UNCHANGED <<worldVars, fileVars, kills, ghosts>>

Kill(i) == /\ command[i].stage \in {"writing", "written"}
           /\ kills < MaxKills
           /\ kills' = kills + 1
           /\ Finish(i)
           /\ UNCHANGED <<worldVars, fileVars, ghosts>>

World == Update \/ Expire \/ Build \/ Sign \/ Tamper

Run(i) == \/ StartPin(i) \/ StartUnpin(i) \/ StartFingerprint(i) \/ StartVerify(i)
          \/ PinProbed(i) \/ FingerprintProbed(i) \/ VerifyProbed(i)
          \/ OpenTmp(i) \/ WriteTmp(i) \/ RenameTmp(i) \/ RenameFails(i) \/ Kill(i)

Next == World \/ \E i \in Commands : Run(i)

Spec == Init /\ [][Next]_vars

-----------------------------------------------------------------------------
(* As long as no command loads the pins while another is about to save its   *)
(* own, every completed command is in the pin file and nothing else is: also *)
(* after commands that were killed in the middle of a save (pin.js: "a       *)
(* crashed write never halves the pin file").                                *)
SoleWriterKeepsPins == ~raced => content[pinFile] = acked

(* The continuity of a pin from before origins were bound goes to one origin *)
(* at most, even if commands for several race to take it over.               *)
ContinuityIsUnique ==
    \A f \in Files : content[f] # PART =>
        \A k1, k2 \in DOMAIN content[f].servers :
            k1 # k2 => 0 \notin {content[f].servers[k1].first, content[f].servers[k2].first}
                       \/ content[f].servers[k1].first # content[f].servers[k2].first

(* A verify that passes, and a fingerprint that passes with a manifest, found *)
(* tools that the publisher signed, and if they probed the server it served  *)
(* just those. A verify that was given keys, pins or both passed on a named  *)
(* key or on one of a manifest that some fingerprint verified; one that was  *)
(* given none says nothing of whose key it is.                               *)
PassedIsAttested ==
    \A i \in Commands : \A m \in {command[i].manifest} \ {NONE} :
        command[i].stage = "done" =>
            /\ <<m.key, m.tools>> \in attested
            /\ command[i].seen # NONE => command[i].seen.tools = m.tools
            /\ command[i].pinned \/ command[i].named # {} =>
                  m.key \in command[i].named \/ (command[i].pinned /\ m.key \in known)
=============================================================================
