---------------------------- MODULE CommandProofs ----------------------------
(* What three commands of mcp-trustcard are worth.  In three parts: the      *)
(* commands that share a pin file (Pins), for any number of them, of         *)
(* servers, origins and publishers, of kills and changes of the world; a     *)
(* scan of a list of servers (Scan), for any list and any number of workers; *)
(* and a replay of the behaviour probes (Behavior), for any tools, answers   *)
(* and bounds.                                                               *)
EXTENDS Pins, Scan, Behavior, SequenceTheorems, FiniteSetTheorems,
        WellFoundedInduction, TLAPS

-----------------------------------------------------------------------------
(* The pins.                                                                 *)

(* One server pin at most is from before origins were bound. *)
OneFromBefore(data) ==
    \A k, l \in DOMAIN data.servers :
        data.servers[k].first = 0 /\ data.servers[l].first = 0 => k = l

Sound(data, keys) == OneFromBefore(data) /\ data.publishers \subseteq keys

StoresAreSound == /\ \A f \in Files : content[f] # PART => Sound(content[f], known)
                  /\ \A i \in Commands : Sound(command[i].pins, known)

(* What a command needs in order to go on. *)
Ready(c) ==
    /\ c.stage = "unused" => c = Idle
    /\ c.stage = "probing" /\ c.verb # "verify" => c.origin \in Origins
    /\ c.stage = "probing" /\ c.verb \in {"pin", "fingerprint"} =>
          c.manifest = NONE /\ c.named = {} /\ ~c.pinned
    /\ c.stage = "probing" /\ c.verb = "verify" => c.manifest # NONE /\ c.origin \in Origins
    /\ c.stage \in {"opening", "writing", "written"} =>
          /\ c.verb \in {"pin", "unpin", "fingerprint"}
          /\ c.verb \in {"pin", "unpin"} => c.key \in Keys
          /\ c.verb = "pin" => c.seen \in Observed
          /\ c.verb = "fingerprint" => c.manifest # NONE /\ c.manifest.key \in Publishers
    /\ c.stage \in {"writing", "written"} => c.file \in Files

AllReady == \A i \in Commands : Ready(command[i])

(* Every file is the work of the command of its number, or the first one. *)
FilesAreMade ==
    /\ tmpFile # pinFile
    /\ \A f \in {pinFile, tmpFile} \ {0, NONE} :
          command[f].stage \in {"writing", "written", "done"}

(* What a command that saves does to the pins of `data`. *)
Effect(data, c, i) == CASE c.verb = "pin" -> PinServer(data, c.key, c.seen.tools, i)
                        [] c.verb = "unpin" -> RemoveServerPin(data, c.key)
                        [] c.verb = "fingerprint" -> PinPublisherTofu(data, c.manifest.key)

Saves(c) == c.verb # "verify" /\ c.stage \in {"probing", "opening", "writing", "written"}

(* Without a race one command saves at most, and has the file to itself. *)
HasFile(c, i, data, tmp, held) ==
    /\ c.stage = "probing" => c.pins = data
    /\ c.stage \in {"opening", "writing", "written"} => c.pins = Effect(data, c, i)
    /\ c.stage \in {"writing", "written"} => tmp \in Files /\ c.file = tmp
    /\ c.stage = "writing" => held[tmp] = PART
    /\ c.stage = "written" => held[tmp] = c.pins

SaverIsAlone ==
    ~raced => /\ content[pinFile] = acked
              /\ \A i, j \in Commands : Saves(command[i]) /\ Saves(command[j]) => i = j
              /\ \A i \in Commands : Saves(command[i]) => HasFile(command[i], i, acked, tmpFile, content)

(* A signature tells what was signed; a command that may yet pass has been   *)
(* told so by the manifest it read.                                          *)
SignedIsAttested == manifest # NONE /\ manifest.signature # NONE =>
                        <<manifest.signature.by, manifest.signature.of.tools>> \in attested

Backed(c, attests, keys) ==
    c.passed /\ c.manifest # NONE =>
        /\ <<c.manifest.key, c.manifest.tools>> \in attests
        /\ c.manifest.digest = c.manifest.tools
        /\ c.pinned \/ c.named # {} =>
              c.manifest.key \in c.named \/ (c.pinned /\ c.manifest.key \in keys)
        /\ c.seen # NONE => c.seen.tools = c.manifest.tools

Passes(c) == c.stage = "done" /\ c.manifest # NONE => c.passed

PassesAreBacked == \A i \in Commands : Backed(command[i], attested, known) /\ Passes(command[i])

PinsInv == /\ TypeOK /\ AllReady /\ StoresAreSound
           /\ FilesAreMade /\ SaverIsAlone
           /\ SignedIsAttested /\ PassesAreBacked

-----------------------------------------------------------------------------
(* Stores and what the operations make of them. *)
LEMMA StoreFields ==
    ASSUME NEW data \in Store
    PROVE  /\ data = [servers |-> data.servers, publishers |-> data.publishers]
           /\ DOMAIN data.servers \subseteq Keys
           /\ \A k \in DOMAIN data.servers : data.servers[k] \in Pin
           /\ data.publishers \subseteq Publishers
  BY DEF Store

LEMMA StoreChanged ==
    ASSUME NEW data \in Store, NEW x
    PROVE  /\ [data EXCEPT !.servers = x] = [servers |-> x, publishers |-> data.publishers]
           /\ [data EXCEPT !.publishers = x] = [servers |-> data.servers, publishers |-> x]
  BY DEF Store

LEMMA StoreMade ==
    ASSUME NEW K \in SUBSET Keys, NEW pins \in [K -> Pin], NEW p \in SUBSET Publishers
    PROVE  [servers |-> pins, publishers |-> p] \in Store
  BY DEF Store

LEMMA EmptyIsSound ==
    /\ EmptyStore \in Store
    /\ EmptyStore.publishers = {}
    /\ OneFromBefore(EmptyStore)
<1>1. /\ EmptyStore.servers = [key \in {} |-> NONE]
      /\ EmptyStore.publishers = {}
      /\ EmptyStore = [servers |-> [key \in {} |-> NONE], publishers |-> {}]
  BY DEF EmptyStore
<1>2. [key \in {} |-> NONE] \in [{} -> Pin]
  OBVIOUS
<1>3. EmptyStore \in Store
  BY <1>1, <1>2, StoreMade
<1> QED BY <1>1, <1>3 DEF OneFromBefore

(* A pin is renewed where it was found, and a legacy one moves: no continuity *)
(* from before origins were bound is copied.                                 *)
LEMMA PinServerIsSound ==
    ASSUME NEW data \in Store, OneFromBefore(data), NEW key \in Keys,
           NEW given \in Toolsets, NEW when \in Nat,
           when # 0 \/ data = EmptyStore
    PROVE  /\ PinServer(data, key, given, when) \in Store
           /\ PinServer(data, key, given, when).publishers = data.publishers
           /\ OneFromBefore(PinServer(data, key, given, when))
<1> DEFINE legacy == LegacyKeyOf(key)
           moved  == IF key \in DOMAIN data.servers THEN {} ELSE {legacy}
           old    == GetServerPin(data, key)
           pin    == Renewed(old, given, when)
           kept   == DOMAIN data.servers \ moved
           next   == [k \in kept \cup {key} |-> IF k = key THEN pin ELSE data.servers[k]]
<1>1. /\ data = [servers |-> data.servers, publishers |-> data.publishers]
      /\ DOMAIN data.servers \subseteq Keys
      /\ \A k \in DOMAIN data.servers : data.servers[k] \in Pin
      /\ data.publishers \subseteq Publishers
  BY StoreFields
<1>2. PinServer(data, key, given, when) = [servers |-> next, publishers |-> data.publishers]
  <2>1. PinServer(data, key, given, when) = [data EXCEPT !.servers = next]
    BY DEF PinServer, Put, Without, Restrict
  <2> HIDE DEF next
  <2> QED BY <2>1, StoreChanged
<1>3. /\ key \in DOMAIN data.servers => old = data.servers[key]
      /\ key \notin DOMAIN data.servers /\ legacy \in DOMAIN data.servers
            => old = data.servers[legacy]
      /\ key \notin DOMAIN data.servers /\ legacy \notin DOMAIN data.servers => old = NONE
  BY DEF GetServerPin
<1>4. old = NONE \/ old \in Pin
  BY <1>1, <1>3
<1>5. pin \in Pin /\ (pin.first = IF old = NONE THEN when ELSE old.first)
  BY <1>4 DEF Renewed, Pin
<1> HIDE DEF pin, old
<1>6. kept \cup {key} \subseteq Keys /\ next \in [kept \cup {key} -> Pin]
  BY <1>1, <1>5
<1>7. PinServer(data, key, given, when) \in Store
  BY <1>1, <1>2, <1>6, StoreMade
<1>8. ASSUME NEW k \in kept, next[k].first = 0, next[key].first = 0, k # key PROVE FALSE
  <2>1. /\ k \in DOMAIN data.servers /\ k \notin moved
        /\ data.servers[k].first = 0 /\ pin.first = 0
    BY <1>8
  <2>2. data # EmptyStore
    BY <2>1 DEF EmptyStore
  <2>3. old # NONE /\ old.first = 0
    BY <1>5, <2>1, <2>2
  <2>4. CASE key \in DOMAIN data.servers
    BY <1>3, <1>8, <2>1, <2>3, <2>4 DEF OneFromBefore
  <2>5. CASE key \notin DOMAIN data.servers
    <3>1. legacy \in DOMAIN data.servers /\ data.servers[legacy].first = 0
      BY <1>3, <2>3, <2>5
    <3>2. k # legacy
      BY <2>1, <2>5
    <3> QED BY <2>1, <3>1, <3>2 DEF OneFromBefore
  <2> QED BY <2>4, <2>5
<1>9. ASSUME NEW k \in kept \cup {key}, NEW l \in kept \cup {key},
             next[k].first = 0, next[l].first = 0
      PROVE  k = l
  <2>1. CASE k = key \/ l = key
    BY <1>8, <1>9, <2>1
  <2>2. CASE k # key /\ l # key
    BY <1>9, <2>2 DEF OneFromBefore
  <2> QED BY <2>1, <2>2
<1> QED
  <2>1. /\ PinServer(data, key, given, when).servers = next
        /\ PinServer(data, key, given, when).publishers = data.publishers
    BY <1>2
  <2>2. DOMAIN next = kept \cup {key}
    OBVIOUS
  <2> HIDE DEF next, kept
  <2>3. OneFromBefore(PinServer(data, key, given, when))
    BY <1>9, <2>1, <2>2 DEF OneFromBefore
  <2> QED BY <1>7, <2>1, <2>3

LEMMA RemoveIsSound ==
    ASSUME NEW data \in Store, OneFromBefore(data), NEW key
    PROVE  /\ RemoveServerPin(data, key) \in Store
           /\ RemoveServerPin(data, key).publishers = data.publishers
           /\ OneFromBefore(RemoveServerPin(data, key))
<1> DEFINE kept == DOMAIN data.servers \ {key, LegacyKeyOf(key)}
           next == [k \in kept |-> data.servers[k]]
<1>1. RemoveServerPin(data, key) = [servers |-> next, publishers |-> data.publishers]
  BY StoreFields DEF RemoveServerPin, Without, Restrict
<1>2. kept \subseteq Keys /\ next \in [kept -> Pin] /\ data.publishers \subseteq Publishers
  BY StoreFields
<1>3. RemoveServerPin(data, key) \in Store
  BY <1>1, <1>2, StoreMade
<1>4. OneFromBefore(RemoveServerPin(data, key))
  BY <1>1 DEF OneFromBefore
<1> QED BY <1>1, <1>3, <1>4

LEMMA TofuIsSound ==
    ASSUME NEW data \in Store, OneFromBefore(data), NEW key \in Publishers
    PROVE  /\ PinPublisherTofu(data, key) \in Store
           /\ PinPublisherTofu(data, key).publishers = data.publishers \cup {key}
           /\ OneFromBefore(PinPublisherTofu(data, key))
<1>1. PinPublisherTofu(data, key)
         = [servers |-> data.servers, publishers |-> data.publishers \cup {key}]
  <2>1. PinPublisherTofu(data, key) = [data EXCEPT !.publishers = data.publishers \cup {key}]
    BY DEF PinPublisherTofu
  <2> QED BY <2>1, StoreChanged
<1>2. PICK K \in SUBSET Keys : data.servers \in [K -> Pin]
  BY DEF Store
<1>3. PinPublisherTofu(data, key) \in Store
  BY <1>1, <1>2, StoreFields, StoreMade
<1>4. OneFromBefore(PinPublisherTofu(data, key))
  BY <1>1 DEF OneFromBefore
<1> QED BY <1>1, <1>3, <1>4

-----------------------------------------------------------------------------
(* Commands. *)
LEMMA IdleIsSound ==
    /\ Idle \in Command
    /\ Idle.verb = NONE /\ Idle.pins = EmptyStore /\ Idle.manifest = NONE /\ Idle.seen = NONE
    /\ Idle.stage = "unused" /\ ~Idle.passed /\ Idle.named = {} /\ ~Idle.pinned
  BY EmptyIsSound DEF Idle, Command, Stages

LEMMA ExitedIsSound ==
    ASSUME NEW c \in Command, NEW attests, NEW keys
    PROVE  /\ Exited(c) \in Command
           /\ Exited(c).stage = "done"
           /\ Exited(c).pins = EmptyStore
           /\ Passes(Exited(c))
           /\ Backed(c, attests, keys) => Backed(Exited(c), attests, keys)
<1>1. CASE c.passed /\ c.manifest # NONE
  <2> DEFINE x == [Idle EXCEPT !.stage = "done", !.manifest = c.manifest, !.seen = c.seen,
                                !.passed = TRUE, !.named = c.named, !.pinned = c.pinned]
  <2>1. Exited(c) = x
    BY <1>1 DEF Exited
  <2>2. /\ x \in Command /\ x.stage = "done" /\ x.pins = EmptyStore /\ x.passed
        /\ x.manifest = c.manifest /\ x.seen = c.seen
        /\ x.named = c.named /\ x.pinned = c.pinned
    BY IdleIsSound, ZenonT(40) DEF Command, Stages
  <2> HIDE DEF x
  <2>3. Passes(x)
    BY <2>2 DEF Passes
  <2>4. Backed(c, attests, keys) => Backed(x, attests, keys)
    BY <1>1, <2>2 DEF Backed
  <2> QED BY <2>1, <2>2, <2>3, <2>4
<1>2. CASE ~(c.passed /\ c.manifest # NONE)
  <2> DEFINE x == [Idle EXCEPT !.stage = "done"]
  <2>1. Exited(c) = x
    BY <1>2 DEF Exited
  <2>2. x \in Command /\ x.stage = "done" /\ x.pins = EmptyStore /\ x.manifest = NONE
    BY IdleIsSound DEF Command, Stages
  <2> HIDE DEF x
  <2> QED BY <2>1, <2>2 DEF Passes, Backed
<1> QED BY <1>1, <1>2

LEMMA FinishedIsSound ==
    /\ [Idle EXCEPT !.stage = "done"] \in Command
    /\ [Idle EXCEPT !.stage = "done"].stage = "done"
    /\ [Idle EXCEPT !.stage = "done"].pins = EmptyStore
    /\ [Idle EXCEPT !.stage = "done"].manifest = NONE
  BY IdleIsSound DEF Command, Stages

LEMMA LoadedIsSound ==
    ASSUME PinsInv
    PROVE  /\ Loaded \in Store
           /\ Sound(Loaded, known)
           /\ ~raced => Loaded = acked
  BY PinAssumption, EmptyIsSound DEF PinsInv, TypeOK, Loaded, StoresAreSound, Sound, SaverIsAlone

(* A step of command i that leaves the files alone. *)
LEMMA CommandStep ==
    ASSUME PinsInv, NEW i \in Commands, NEW c \in Command,
           command' = [command EXCEPT ![i] = c],
           UNCHANGED <<worldVars, fileVars>>, kills' \in Nat,
           known \subseteq known', known' \subseteq Publishers,
           raced' \in BOOLEAN, acked' \in Store,
           Ready(c), Sound(c.pins, known'), Backed(c, attested, known'), Passes(c),
           command[i].stage \in {"writing", "written", "done"} =>
               c.stage \in {"writing", "written", "done"},
           ~raced' =>
               /\ ~raced /\ acked' = acked
               /\ Saves(c) => /\ \A j \in Commands : Saves(command[j]) => j = i
                              /\ \/ c.stage = "probing" /\ c.pins = acked
                                 \/ c.stage = "opening" /\ c.pins = Effect(acked, c, i)
    PROVE  PinsInv'
<1>1. /\ command' \in [Commands -> Command]
      /\ command'[i] = c
      /\ \A j \in Commands : j # i => command'[j] = command[j]
  BY DEF PinsInv, TypeOK
<1>2. TypeOK'
  BY <1>1 DEF PinsInv, TypeOK, worldVars, fileVars
<1>3. AllReady'
  BY <1>1 DEF PinsInv, AllReady
<1>4. StoresAreSound'
  <2>1. \A data : Sound(data, known) => Sound(data, known')
    BY DEF Sound
  <2> QED BY <1>1, <2>1 DEF PinsInv, StoresAreSound, fileVars
<1>5. FilesAreMade'
  <2>1. \A f \in {pinFile, tmpFile} \ {0, NONE} : f \in Commands
    BY DEF PinsInv, TypeOK, Files, Commands
  <2> QED BY <1>1, <2>1 DEF PinsInv, FilesAreMade, fileVars
<1>6. SaverIsAlone'
  <2> SUFFICES ASSUME ~raced' PROVE SaverIsAlone'
    BY DEF SaverIsAlone
  <2>1. /\ content' = content /\ pinFile' = pinFile /\ tmpFile' = tmpFile /\ acked' = acked
        /\ ~raced
    BY DEF fileVars
  <2>2. content'[pinFile'] = acked'
    BY <2>1 DEF PinsInv, SaverIsAlone
  <2>3. ASSUME NEW j \in Commands, NEW k \in Commands, Saves(command'[j]), Saves(command'[k])
        PROVE  j = k
    BY <1>1, <2>1, <2>3 DEF PinsInv, SaverIsAlone
  <2>4. ASSUME NEW j \in Commands, Saves(command'[j])
        PROVE  HasFile(command'[j], j, acked', tmpFile', content')
    <3>1. CASE j = i
      BY <1>1, <2>1, <2>4, <3>1 DEF HasFile
    <3>2. CASE j # i
      <4>1. HasFile(command[j], j, acked, tmpFile, content)
        BY <1>1, <2>1, <2>4, <3>2 DEF PinsInv, SaverIsAlone
      <4> QED BY <1>1, <2>1, <3>2, <4>1 DEF HasFile
    <3> QED BY <3>1, <3>2
  <2> QED BY <2>2, <2>3, <2>4 DEF SaverIsAlone
<1>7. SignedIsAttested'
  BY DEF PinsInv, SignedIsAttested, worldVars
<1>8. PassesAreBacked'
  <2>1. \A x : Backed(x, attested, known) => Backed(x, attested, known')
    BY DEF Backed
  <2> QED BY <1>1, <2>1 DEF PinsInv, PassesAreBacked, worldVars
<1> QED BY <1>2, <1>3, <1>4, <1>5, <1>6, <1>7, <1>8 DEF PinsInv

-----------------------------------------------------------------------------
(* Manifests. *)
LEMMA DigestedIsManifest ==
    ASSUME NEW given \in Toolsets, NEW digest \in Toolsets,
           NEW name \in {self.name : self \in Selves},
           NEW key \in Publishers \cup {NONE}, NEW keyId \in Publishers \cup {NONE},
           NEW expires \in BOOLEAN, NEW d, NEW signature \in Signature \cup {NONE},
           NEW m, m = [tools |-> given, digest |-> digest, server |-> name, key |-> key,
                       keyId |-> keyId, expires |-> expires, manifestDigest |-> d,
                       signature |-> signature]
    PROVE  /\ Digested(m) \in Manifest
           /\ Digested(m).tools = given /\ Digested(m).signature = signature
           /\ Payload(Digested(m)) \in Contents
           /\ Payload(Digested(m)).tools = given
  BY DEF Digested, Payload, Manifest, Contents

LEMMA BuiltIsManifest ==
    ASSUME NEW x \in Observed, NEW key \in Publishers \cup {NONE}, NEW expires \in BOOLEAN
    PROVE  /\ BuildManifest(x, key, expires) \in Manifest
           /\ BuildManifest(x, key, expires).signature = NONE
  BY DigestedIsManifest DEF BuildManifest, Observed

LEMMA SignedIsManifest ==
    ASSUME NEW m \in Manifest, NEW secret \in Publishers
    PROVE  /\ SignManifest(m, secret) \in Manifest
           /\ SignManifest(m, secret).signature.by = secret
           /\ SignManifest(m, secret).signature.of.tools = m.tools
<1> DEFINE n == [m EXCEPT !.key = secret, !.keyId = secret]
           u == Digested(n)
<1>1. u \in Manifest /\ u.tools = m.tools /\ Payload(u) \in Contents /\ Payload(u).tools = m.tools
  BY ZenonT(40) DEF Digested, Payload, Manifest, Contents
<1>2. SignManifest(m, secret) = [u EXCEPT !.signature = [by |-> secret, of |-> Payload(u)]]
  BY DEF SignManifest
<1> HIDE DEF u
<1>3. [by |-> secret, of |-> Payload(u)] \in Signature
  BY <1>1 DEF Signature
<1> QED BY <1>1, <1>2, <1>3 DEF Manifest

Tampered(m, t, digest) == [m EXCEPT !.tools = t, !.digest = digest]

LEMMA TamperedIsManifest ==
    ASSUME NEW m \in Manifest, NEW t \in Toolsets, NEW digest \in Toolsets,
           NEW n \in {Tampered(m, t, digest), Digested(Tampered(m, t, digest))}
    PROVE  n \in Manifest /\ n.signature = m.signature
<1> DEFINE w == Tampered(m, t, digest)
<1>1. w \in Manifest /\ w.signature = m.signature
  BY DEF Tampered, Manifest
<1> HIDE DEF w
<1>2. Payload(w) \in Contents
  BY <1>1 DEF Payload, Manifest, Contents
<1>3. Digested(w) \in Manifest /\ Digested(w).signature = m.signature
  BY <1>1, <1>2 DEF Digested, Manifest
<1> QED BY <1>1, <1>3 DEF w

(* What verifies was signed. *)
LEMMA VerifiedIsAttested ==
    ASSUME PinsInv, manifest # NONE, VerifyManifest(manifest, late)
    PROVE  /\ manifest \in Manifest /\ manifest.key \in Publishers
           /\ <<manifest.key, manifest.tools>> \in attested
           /\ manifest.digest = manifest.tools
<1>1. manifest \in Manifest
  BY DEF PinsInv, TypeOK
<1>2. /\ manifest.key \in Publishers \cup {NONE} /\ manifest.digest \in Toolsets
  BY <1>1 DEF Manifest
<1>3. /\ manifest.key # NONE /\ manifest.signature # NONE
      /\ manifest.signature = [by |-> manifest.key, of |-> Payload(manifest)]
      /\ manifest.digest \in {NONE, manifest.tools}
  BY DEF VerifyManifest, SignatureHolds
<1>4. manifest.signature.by = manifest.key /\ manifest.signature.of.tools = manifest.tools
  BY <1>3 DEF Payload
<1> QED BY <1>1, <1>2, <1>3, <1>4, PinAssumption DEF PinsInv, SignedIsAttested

LEMMA WorldKeepsPinsInv == ASSUME PinsInv, World PROVE PinsInv'
<1>1. /\ UNCHANGED <<fileVars, command, kills, ghosts>>
      /\ edits' \in Nat
  <2>1. Edits
    BY DEF World, Update, Expire, Build, Sign, Tamper
  <2> QED BY <2>1 DEF Edits, PinsInv, TypeOK
<1>2. /\ serves' \in [Origins -> Observed] /\ late' \in BOOLEAN
      /\ manifest' \in Manifest \cup {NONE}
      /\ attested \subseteq attested' /\ attested' \subseteq Publishers \X Toolsets
      /\ SignedIsAttested'
  <2>0. /\ serves \in [Origins -> Observed] /\ late \in BOOLEAN
        /\ manifest \in Manifest \cup {NONE}
        /\ attested \subseteq Publishers \X Toolsets
        /\ SignedIsAttested
    BY DEF PinsInv, TypeOK
  <2>1. CASE Update \/ Expire
    BY <2>0, <2>1 DEF Update, Expire, SignedIsAttested
  <2>2. CASE Build
    <3>1. PICK o \in Origins, key \in Publishers \cup {NONE}, expires \in Expiries :
             manifest' = BuildManifest(serves[o], key, expires)
      BY <2>2 DEF Build
    <3>2. manifest' \in Manifest /\ manifest'.signature = NONE
      BY <2>0, <3>1, BuiltIsManifest, PinAssumption
    <3>3. late' \in BOOLEAN /\ UNCHANGED <<serves, attested>>
      BY <2>2 DEF Build
    <3> QED BY <2>0, <3>2, <3>3 DEF SignedIsAttested
  <2>3. CASE Sign
    <3>1. PICK secret \in Publishers :
             /\ manifest' = SignManifest(manifest, secret)
             /\ attested' = attested \cup {<<secret, manifest.tools>>}
      BY <2>3 DEF Sign
    <3>2. manifest \in Manifest /\ UNCHANGED <<serves, late>>
      BY <2>0, <2>3 DEF Sign
    <3>3. manifest.tools \in Toolsets
      BY <3>2 DEF Manifest
    <3>4. <<manifest'.signature.by, manifest'.signature.of.tools>> \in attested'
      BY <3>1, <3>2, SignedIsManifest
    <3> QED BY <2>0, <3>1, <3>2, <3>3, <3>4, SignedIsManifest DEF SignedIsAttested
  <2>4. CASE Tamper
    <3>1. manifest \in Manifest /\ manifest # NONE /\ UNCHANGED <<serves, late, attested>>
      BY <2>0, <2>4 DEF Tamper
    <3>2. manifest.tools \in Toolsets /\ manifest.digest \in Toolsets
      BY <3>1 DEF Manifest
    <3>3. PICK t \in Toolsets, digest \in Toolsets :
             manifest' \in {Tampered(manifest, t, digest), Digested(Tampered(manifest, t, digest))}
      BY <2>4, <3>2 DEF Tamper, Tampered
    <3>4. manifest' \in Manifest /\ manifest'.signature = manifest.signature
      BY <3>1, <3>3, TamperedIsManifest
    <3> QED BY <2>0, <3>1, <3>4 DEF SignedIsAttested
  <2> QED BY <2>1, <2>2, <2>3, <2>4 DEF World
<1>3. TypeOK'
  BY <1>1, <1>2 DEF PinsInv, TypeOK, fileVars, ghosts
<1>4. AllReady' /\ StoresAreSound' /\ FilesAreMade' /\ SaverIsAlone'
  BY <1>1 DEF PinsInv, AllReady, StoresAreSound, FilesAreMade, SaverIsAlone, fileVars, ghosts
<1>5. PassesAreBacked'
  <2>1. \A c : Backed(c, attested, known) => Backed(c, attested', known)
    BY <1>2 DEF Backed
  <2> QED BY <1>1, <2>1 DEF PinsInv, PassesAreBacked, ghosts
<1> QED BY <1>2, <1>3, <1>4, <1>5 DEF PinsInv

-----------------------------------------------------------------------------
(* Commands start. *)
LEMMA RacesKeep ==
    ASSUME PinsInv, Races
    PROVE  /\ raced' \in BOOLEAN /\ acked' \in Store
           /\ ~raced' => /\ ~raced /\ acked' = acked
                         /\ \A j \in Commands : ~Saves(command[j])
<1>1. acked \in Store /\ raced \in BOOLEAN
  BY DEF PinsInv, TypeOK
<1>2. CASE \E j \in Commands : Saving(j)
  BY <1>2, EmptyIsSound DEF Races
<1>3. CASE ~\E j \in Commands : Saving(j)
  BY <1>1, <1>3 DEF Races, Saving, Saves
<1> QED BY <1>2, <1>3

(* A command that has not started is idle. *)
LEMMA Unused ==
    ASSUME PinsInv, NEW i \in Commands, Starts(i)
    PROVE  /\ command[i] = Idle
           /\ UNCHANGED <<worldVars, fileVars>> /\ kills' \in Nat /\ known' = known
           /\ known \subseteq Publishers
  BY DEF Starts, PinsInv, AllReady, Ready, TypeOK

(* Commands that load the pins to save them. *)
LEMMA LoadKeepsPinsInv ==
    ASSUME PinsInv, NEW i \in Commands, Starts(i), Races,
           NEW verb \in {"pin", "fingerprint"}, NEW o \in Origins,
           command' = [command EXCEPT ![i] =
                         [@ EXCEPT !.stage = "probing", !.verb = verb, !.origin = o, !.pins = Loaded]]
    PROVE  PinsInv'
<1> DEFINE c == [Idle EXCEPT !.stage = "probing", !.verb = verb, !.origin = o, !.pins = Loaded]
<1>1. command' = [command EXCEPT ![i] = c]
  BY Unused DEF PinsInv, TypeOK
<1>2. /\ c \in Command /\ c.stage = "probing" /\ c.verb = verb /\ c.origin = o
      /\ c.pins = Loaded /\ c.manifest = NONE /\ c.named = {} /\ ~c.pinned
  BY IdleIsSound, LoadedIsSound DEF Command, Stages, Verbs
<1> HIDE DEF c
<1>3. Ready(c) /\ Backed(c, attested, known') /\ Passes(c)
  BY <1>2, PinAssumption DEF Ready, Backed, Passes
<1>4. Sound(c.pins, known')
  BY <1>2, LoadedIsSound, Unused
<1>5. command[i].stage = "unused"
  BY Unused, IdleIsSound
<1>6. ~raced' => c.pins = acked
  BY <1>2, LoadedIsSound, RacesKeep
<1> QED BY <1>1, <1>2, <1>3, <1>4, <1>5, <1>6, Unused, RacesKeep, CommandStep

LEMMA StartUnpinKeepsPinsInv ==
    ASSUME PinsInv, NEW i \in Commands, StartUnpin(i)
    PROVE  PinsInv'
<1>1. PICK key \in {<<self>> : self \in Selves} \cup DOMAIN Loaded.servers :
         command' = [command EXCEPT ![i] =
                       [@ EXCEPT !.stage = "opening", !.verb = "unpin", !.key = key,
                                 !.pins = RemoveServerPin(Loaded, key)]]
  BY DEF StartUnpin
<1> DEFINE c == [Idle EXCEPT !.stage = "opening", !.verb = "unpin", !.key = key,
                             !.pins = RemoveServerPin(Loaded, key)]
<1>2. Starts(i) /\ Races
  BY DEF StartUnpin
<1>3. command' = [command EXCEPT ![i] = c]
  BY <1>1, <1>2, Unused DEF PinsInv, TypeOK
<1>4. key \in Keys
  BY LoadedIsSound, StoreFields DEF Keys
<1>5. /\ RemoveServerPin(Loaded, key) \in Store
      /\ Sound(RemoveServerPin(Loaded, key), known)
  BY LoadedIsSound, RemoveIsSound DEF Sound
<1>6. /\ c \in Command /\ c.stage = "opening" /\ c.verb = "unpin" /\ c.key = key
      /\ c.pins = RemoveServerPin(Loaded, key) /\ c.manifest = NONE
  BY IdleIsSound, <1>4, <1>5 DEF Command, Stages, Verbs
<1> HIDE DEF c
<1>7. Ready(c) /\ Backed(c, attested, known') /\ Passes(c)
  BY <1>4, <1>6 DEF Ready, Backed, Passes
<1>8. Sound(c.pins, known')
  BY <1>2, <1>5, <1>6, Unused
<1>9. command[i].stage = "unused"
  BY <1>2, Unused, IdleIsSound
<1>10. ~raced' => c.pins = Effect(acked, c, i)
  BY <1>2, <1>6, LoadedIsSound, RacesKeep DEF Effect
<1> QED BY <1>2, <1>3, <1>6, <1>7, <1>8, <1>9, <1>10, Unused, RacesKeep, CommandStep

(* verify saves nothing, so it is no part of a race. *)
LEMMA StartVerifyKeepsPinsInv ==
    ASSUME PinsInv, NEW i \in Commands, StartVerify(i)
    PROVE  PinsInv'
<1>1. PICK o \in Origins \cup {NONE}, named \in SUBSET Publishers, pinned \in BOOLEAN :
         LET anchors == named \cup IF pinned THEN Loaded.publishers ELSE {}
             c == [command[i] EXCEPT !.verb = "verify", !.origin = o, !.manifest = manifest,
                                     !.named = named, !.pinned = pinned,
                                     !.passed = Accepted(manifest, late, anchors)]
         IN  /\ pinned => Loaded.publishers # {}
             /\ command' = [command EXCEPT ![i] =
                 IF o # NONE /\ VerifyManifest(manifest, late) THEN [c EXCEPT !.stage = "probing"]
                 ELSE Exited(c)]
  BY DEF StartVerify
<1>2. Starts(i) /\ manifest # NONE /\ UNCHANGED <<raced, acked>>
  BY DEF StartVerify
<1> DEFINE anchors == named \cup IF pinned THEN Loaded.publishers ELSE {}
           passed == Accepted(manifest, late, anchors)
           c == [Idle EXCEPT !.verb = "verify", !.origin = o, !.manifest = manifest,
                             !.named = named, !.pinned = pinned, !.passed = passed]
           p == [c EXCEPT !.stage = "probing"]
           x == IF o # NONE /\ VerifyManifest(manifest, late) THEN p ELSE Exited(c)
<1>3. command' = [command EXCEPT ![i] = x]
  BY <1>1, <1>2, Unused
<1>4. manifest \in Manifest /\ raced \in BOOLEAN /\ acked \in Store
  BY <1>2 DEF PinsInv, TypeOK
<1>5. passed \in BOOLEAN
  BY DEF Accepted, VerifyManifest, SignatureHolds
<1>a. pinned => anchors = named \cup Loaded.publishers /\ Loaded.publishers # {}
  BY <1>1
<1>b. ~pinned => anchors = named
  OBVIOUS
<1> HIDE DEF anchors
<1>6. passed => /\ <<manifest.key, manifest.tools>> \in attested
                /\ manifest.digest = manifest.tools
                /\ anchors = {} \/ manifest.key \in anchors
  BY <1>2, VerifiedIsAttested DEF Accepted
<1>c. passed => (pinned \/ named # {} =>
                    manifest.key \in named \/ (pinned /\ manifest.key \in known))
  BY <1>6, <1>a, <1>b, LoadedIsSound DEF Sound
<1> HIDE DEF passed
<1>7. /\ c \in Command /\ c.verb = "verify" /\ c.origin = o /\ c.manifest = manifest
      /\ c.passed = passed /\ c.pins = EmptyStore /\ c.seen = NONE
      /\ c.named = named /\ c.pinned = pinned
  BY IdleIsSound, <1>4, <1>5 DEF Command, Verbs
<1> HIDE DEF c
<1>8. /\ p \in Command /\ p.stage = "probing" /\ p.verb = "verify" /\ p.origin = o
      /\ p.manifest = manifest /\ p.passed = passed /\ p.pins = EmptyStore /\ p.seen = NONE
      /\ p.named = named /\ p.pinned = pinned
  BY <1>7 DEF Command, Stages
<1> HIDE DEF p
<1>9. Backed(c, attested, known) /\ Backed(p, attested, known)
  BY <1>6, <1>c, <1>7, <1>8 DEF Backed
<1>10. /\ x \in Command /\ Ready(x) /\ x.pins = EmptyStore /\ Backed(x, attested, known)
       /\ Passes(x) /\ ~Saves(x)
  <2>1. CASE o # NONE /\ VerifyManifest(manifest, late)
    BY <1>2, <1>8, <1>9, <2>1 DEF Ready, Passes, Saves
  <2>2. CASE ~(o # NONE /\ VerifyManifest(manifest, late))
    BY <1>7, <1>9, <2>2, ExitedIsSound DEF Ready, Saves
  <2> QED BY <2>1, <2>2
<1> HIDE DEF x
<1>11. Sound(x.pins, known)
  BY <1>10, EmptyIsSound DEF Sound
<1>12. command[i].stage = "unused"
  BY <1>2, Unused, IdleIsSound
<1> QED BY <1>2, <1>3, <1>4, <1>10, <1>11, <1>12, Unused, CommandStep

-----------------------------------------------------------------------------
(* Probes end, and commands with them, or they go on to save. *)
LEMMA FinishKeepsPinsInv ==
    ASSUME PinsInv, NEW i \in Commands, Finish(i), UNCHANGED <<worldVars, fileVars, ghosts>>,
           kills' \in Nat
    PROVE  PinsInv'
<1> DEFINE c == [Idle EXCEPT !.stage = "done"]
<1>1. command' = [command EXCEPT ![i] = c]
  BY DEF Finish
<1>2. c \in Command /\ c.stage = "done" /\ c.pins = EmptyStore /\ c.manifest = NONE
  BY FinishedIsSound
<1> HIDE DEF c
<1>3. Ready(c) /\ Backed(c, attested, known) /\ Passes(c) /\ ~Saves(c)
  BY <1>2 DEF Ready, Backed, Passes, Saves
<1>4. Sound(c.pins, known)
  BY <1>2, EmptyIsSound DEF Sound
<1>5. known \subseteq Publishers /\ raced \in BOOLEAN /\ acked \in Store
  BY DEF PinsInv, TypeOK
<1>6. known' = known /\ raced' = raced /\ acked' = acked
  BY DEF ghosts
<1> QED BY <1>1, <1>2, <1>3, <1>4, <1>5, <1>6, CommandStep

(* What is so of a command whose probe ends. *)
LEMMA Probing ==
    ASSUME PinsInv, NEW i \in Commands, NEW verb \in Verbs, Probes(i, verb)
    PROVE  /\ command[i] \in Command /\ command[i].stage = "probing" /\ command[i].verb = verb
           /\ Ready(command[i]) /\ Backed(command[i], attested, known)
           /\ command[i].pins \in Store /\ Sound(command[i].pins, known)
           /\ command[i].origin \in Origins
           /\ serves[command[i].origin] \in Observed
           /\ UNCHANGED <<worldVars, fileVars>> /\ kills' \in Nat
           /\ raced' = raced /\ raced \in BOOLEAN /\ acked' = acked /\ acked \in Store
           /\ known \subseteq Publishers
           /\ ~raced /\ verb # "verify" =>
                 /\ command[i].pins = acked
                 /\ \A j \in Commands : Saves(command[j]) => j = i
<1>1. /\ command[i].stage = "probing" /\ command[i].verb = verb
      /\ UNCHANGED <<worldVars, fileVars, kills, acked, raced>>
  BY DEF Probes
<1>2. command[i] \in Command /\ Ready(command[i])
  BY DEF PinsInv, TypeOK, AllReady
<1>3. command[i].pins \in Store /\ command[i].origin \in Origins
  BY <1>1, <1>2 DEF Command, Ready
<1>4. Sound(command[i].pins, known) /\ Backed(command[i], attested, known)
  BY DEF PinsInv, StoresAreSound, PassesAreBacked
<1>5. ~raced /\ verb # "verify" =>
         /\ command[i].pins = acked
         /\ \A j \in Commands : Saves(command[j]) => j = i
  BY <1>1 DEF PinsInv, SaverIsAlone, Saves, HasFile
<1> QED BY <1>1, <1>2, <1>3, <1>4, <1>5 DEF PinsInv, TypeOK

LEMMA ProbeStep ==
    ASSUME PinsInv, NEW i \in Commands, NEW verb \in Verbs, Probes(i, verb),
           NEW c \in Command, command' = [command EXCEPT ![i] = c],
           known \subseteq known', known' \subseteq Publishers,
           Ready(c), Sound(c.pins, known'), Backed(c, attested, known'), Passes(c),
           Saves(c) => /\ verb # "verify" /\ c.stage = "opening"
                       /\ command[i].pins = acked => c.pins = Effect(acked, c, i)
    PROVE  PinsInv'
<1>1. /\ command[i].stage = "probing"
      /\ UNCHANGED <<worldVars, fileVars>> /\ kills' \in Nat
      /\ raced' = raced /\ raced \in BOOLEAN /\ acked' = acked /\ acked \in Store
  BY Probing
<1>2. ~raced /\ verb # "verify" =>
         /\ command[i].pins = acked
         /\ \A j \in Commands : Saves(command[j]) => j = i
  BY Probing
<1>3. ~raced' => /\ ~raced /\ acked' = acked
                 /\ Saves(c) => /\ \A j \in Commands : Saves(command[j]) => j = i
                                /\ \/ c.stage = "probing" /\ c.pins = acked
                                   \/ c.stage = "opening" /\ c.pins = Effect(acked, c, i)
  BY <1>1, <1>2
<1> QED BY <1>1, <1>3, CommandStep

LEMMA PinProbedKeepsPinsInv ==
    ASSUME PinsInv, NEW i \in Commands, PinProbed(i)
    PROVE  PinsInv'
<1> DEFINE x == serves[command[i].origin]
           key == ServerKey(x.self, command[i].origin)
           pins == PinServer(command[i].pins, key, x.tools, i)
           c == [command[i] EXCEPT !.stage = "opening", !.key = key, !.seen = x, !.pins = pins]
<1>1. Probes(i, "pin") /\ known' = known
  BY DEF PinProbed
<1>2. "pin" \in Verbs
  BY DEF Verbs
<1>3. /\ command[i] \in Command /\ command[i].stage = "probing" /\ command[i].verb = "pin"
      /\ Ready(command[i])
      /\ command[i].pins \in Store /\ Sound(command[i].pins, known)
      /\ command[i].origin \in Origins /\ x \in Observed
  BY <1>1, <1>2, Probing
<1>4. CASE Finish(i)
  BY <1>1, <1>2, <1>4, Probing, FinishKeepsPinsInv DEF ghosts
<1>5. CASE command' = [command EXCEPT ![i] = c]
  <2>1. x.self \in Selves /\ x.tools \in Toolsets
    BY <1>3 DEF Observed
  <2>2. key \in Keys
    BY <1>3, <2>1 DEF ServerKey, Keys
  <2>3. i \in Nat /\ i # 0
    BY PinAssumption DEF Commands
  <2> HIDE DEF x, key
  <2>4. pins \in Store /\ Sound(pins, known)
    BY <1>3, <2>1, <2>2, <2>3, PinServerIsSound DEF Sound
  <2> HIDE DEF pins
  <2>5. /\ c \in Command /\ c.stage = "opening" /\ c.verb = "pin" /\ c.key = key /\ c.seen = x
        /\ c.pins = pins /\ c.manifest = command[i].manifest
        /\ c.named = command[i].named /\ c.pinned = command[i].pinned
    BY <1>3, <2>2, <2>4 DEF Command, Stages
  <2> HIDE DEF c
  <2>6. c.manifest = NONE
    BY <1>3, <2>5 DEF Ready
  <2>7. Ready(c) /\ Backed(c, attested, known) /\ Passes(c)
    BY <1>3, <2>2, <2>5, <2>6 DEF Ready, Backed, Passes
  <2>8. command[i].pins = acked => c.pins = Effect(acked, c, i)
    BY <2>5 DEF Effect, pins
  <2>9. known \subseteq Publishers
    BY DEF PinsInv, TypeOK
  <2>10. Sound(c.pins, known') /\ Backed(c, attested, known')
    BY <1>1, <2>4, <2>5, <2>7
  <2>11. known \subseteq known' /\ known' \subseteq Publishers
    BY <1>1, <2>9
  <2>12. Probes(i, "pin")
    BY <1>1
  <2>13. Saves(c) => /\ "pin" # "verify" /\ c.stage = "opening"
                     /\ command[i].pins = acked => c.pins = Effect(acked, c, i)
    BY <2>5, <2>8
  <2> QED BY <1>2, <1>5, <2>5, <2>7, <2>10, <2>11, <2>12, <2>13, ProbeStep
<1>6. \/ Finish(i)
      \/ command' = [command EXCEPT ![i] =
                       [@ EXCEPT !.stage = "opening", !.key = key, !.seen = x, !.pins = pins]]
  BY DEF PinProbed
<1> QED BY <1>4, <1>5, <1>6

LEMMA VerifyProbedKeepsPinsInv ==
    ASSUME PinsInv, NEW i \in Commands, VerifyProbed(i)
    PROVE  PinsInv'
<1>1. Probes(i, "verify") /\ known' = known
  BY DEF VerifyProbed
<1>2. "verify" \in Verbs
  BY DEF Verbs
<1>3. /\ command[i] \in Command /\ Ready(command[i])
      /\ Backed(command[i], attested, known)
      /\ serves[command[i].origin] \in Observed
      /\ command[i].stage = "probing"
  BY <1>1, <1>2, Probing
<1>4. PICK x \in {serves[command[i].origin], NONE} :
         command' = [command EXCEPT ![i] =
             Exited([command[i] EXCEPT !.seen = x,
                !.passed = command[i].passed /\ x # NONE /\ BindingConsistent(command[i].manifest, x)])]
  BY DEF VerifyProbed
<1> DEFINE passed == command[i].passed /\ x # NONE /\ BindingConsistent(command[i].manifest, x)
           c == [command[i] EXCEPT !.seen = x, !.passed = passed]
<1>5. command' = [command EXCEPT ![i] = Exited(c)]
  BY <1>4
<1>6. passed \in BOOLEAN
  BY DEF BindingConsistent
<1>7. passed => command[i].passed /\ command[i].manifest.digest = x.tools
  BY DEF BindingConsistent
<1> HIDE DEF passed
<1>8. /\ c \in Command /\ c.seen = x /\ c.passed = passed /\ c.manifest = command[i].manifest
      /\ c.named = command[i].named /\ c.pinned = command[i].pinned
  BY <1>3, <1>4, <1>6 DEF Command
<1> HIDE DEF c
<1>9. Backed(c, attested, known)
  BY <1>3, <1>7, <1>8 DEF Backed
<1>10. /\ Exited(c) \in Command /\ Exited(c).stage = "done" /\ Exited(c).pins = EmptyStore
       /\ Backed(Exited(c), attested, known) /\ Passes(Exited(c))
  BY <1>8, <1>9, ExitedIsSound
<1>11. Ready(Exited(c)) /\ ~Saves(Exited(c)) /\ Sound(Exited(c).pins, known)
  BY <1>10, EmptyIsSound DEF Ready, Saves, Sound
<1>12. known \subseteq Publishers
  BY DEF PinsInv, TypeOK
<1> QED BY <1>1, <1>2, <1>5, <1>10, <1>11, <1>12, ProbeStep

LEMMA FingerprintProbedKeepsPinsInv ==
    ASSUME PinsInv, NEW i \in Commands, FingerprintProbed(i)
    PROVE  PinsInv'
<1>1. Probes(i, "fingerprint")
  BY DEF FingerprintProbed
<1>2. "fingerprint" \in Verbs
  BY DEF Verbs
<1>3. /\ command[i] \in Command /\ Ready(command[i])
      /\ serves[command[i].origin] \in Observed
      /\ command[i].stage = "probing" /\ command[i].verb = "fingerprint"
      /\ command[i].pins \in Store /\ Sound(command[i].pins, known)
      /\ known \subseteq Publishers
  BY <1>1, <1>2, Probing
<1>4. PICK x \in {serves[command[i].origin], NONE}, m \in {manifest, NONE} : Fingerprints(i, x, m)
  BY DEF FingerprintProbed
<1> DEFINE valid == m # NONE /\ VerifyManifest(m, late)
           passed == /\ x # NONE /\ Matches(command[i].pins, x, command[i].origin)
                     /\ m = NONE \/ (valid /\ BindingConsistent(m, x))
           c == [command[i] EXCEPT !.manifest = m, !.seen = x, !.passed = passed]
           pins == PinPublisherTofu(command[i].pins, m.key)
           d == [c EXCEPT !.stage = "opening", !.pins = pins]
           y == IF valid /\ m.key \notin command[i].pins.publishers THEN d ELSE Exited(c)
<1>5. /\ command' = [command EXCEPT ![i] =
             IF valid /\ m.key \notin c.pins.publishers
             THEN [c EXCEPT !.stage = "opening", !.pins = PinPublisherTofu(@, m.key)] ELSE Exited(c)]
      /\ known' = IF valid THEN known \cup {m.key} ELSE known
  BY <1>4 DEF Fingerprints
<1>6. passed \in BOOLEAN
  BY DEF Matches, BindingConsistent, VerifyManifest, SignatureHolds
<1>7. m \in Manifest \cup {NONE} /\ x \in Observed \cup {NONE}
  BY <1>3, <1>4 DEF PinsInv, TypeOK
<1>8. valid => /\ m \in Manifest /\ m.key \in Publishers
               /\ <<m.key, m.tools>> \in attested /\ m.digest = m.tools
  BY <1>4, VerifiedIsAttested
<1>9. passed /\ m # NONE => valid /\ m.digest = x.tools
  BY DEF BindingConsistent
<1> HIDE DEF passed, valid
<1>10. /\ c \in Command /\ c.stage = "probing" /\ c.verb = "fingerprint" /\ c.manifest = m
       /\ c.seen = x /\ c.passed = passed /\ c.pins = command[i].pins
       /\ c.named = {} /\ ~c.pinned
  <2>1. command[i] \in Command /\ passed \in BOOLEAN
        /\ m \in Manifest \cup {NONE} /\ x \in Observed \cup {NONE}
    BY <1>3, <1>6, <1>7
  <2>2. c \in Command
    BY <2>1 DEF Command
  <2>3. /\ c.stage = command[i].stage /\ c.verb = command[i].verb /\ c.manifest = m
        /\ c.seen = x /\ c.passed = passed /\ c.pins = command[i].pins
        /\ c.named = command[i].named /\ c.pinned = command[i].pinned
    BY <2>1 DEF Command
  <2> QED BY <1>3, <2>2, <2>3 DEF Ready
<1> HIDE DEF c
<1>11. command' = [command EXCEPT ![i] = y]
  BY <1>5, <1>10
<1>12. known \subseteq known' /\ known' \subseteq Publishers /\ (valid => m.key \in known')
  BY <1>3, <1>5, <1>8
<1>13. Backed(c, attested, known')
  BY <1>8, <1>9, <1>10, <1>12 DEF Backed
<1>14. /\ y \in Command /\ Ready(y) /\ Sound(y.pins, known')
       /\ Backed(y, attested, known') /\ Passes(y)
       /\ Saves(y) => y.stage = "opening"
                      /\ (command[i].pins = acked => y.pins = Effect(acked, y, i))
  <2>1. CASE valid /\ m.key \notin command[i].pins.publishers
    <3>1. pins \in Store /\ Sound(pins, known')
      BY <1>3, <1>8, <1>12, <2>1, TofuIsSound DEF Sound
    <3> HIDE DEF pins
    <3>2. /\ d \in Command /\ d.stage = "opening" /\ d.verb = "fingerprint" /\ d.manifest = m
          /\ d.seen = x /\ d.passed = passed /\ d.pins = pins
          /\ d.named = {} /\ ~d.pinned
      BY <1>10, <3>1 DEF Command, Stages
    <3> HIDE DEF d
    <3>3. m # NONE
      BY <2>1 DEF valid
    <3>4. Ready(d) /\ Passes(d)
      BY <1>8, <2>1, <3>2, <3>3 DEF Ready, Passes
    <3>5. Backed(d, attested, known')
      BY <1>10, <1>13, <3>2 DEF Backed
    <3>6. command[i].pins = acked => d.pins = Effect(acked, d, i)
      BY <3>2 DEF Effect, pins
    <3> QED BY <2>1, <3>1, <3>2, <3>4, <3>5, <3>6
  <2>2. CASE ~(valid /\ m.key \notin command[i].pins.publishers)
    <3>1. /\ Exited(c) \in Command /\ Exited(c).stage = "done" /\ Exited(c).pins = EmptyStore
          /\ Backed(Exited(c), attested, known') /\ Passes(Exited(c))
      BY <1>10, <1>13, ExitedIsSound
    <3>2. Ready(Exited(c)) /\ ~Saves(Exited(c)) /\ Sound(Exited(c).pins, known')
      BY <3>1, EmptyIsSound DEF Ready, Saves, Sound
    <3> QED BY <2>2, <3>1, <3>2
  <2> QED BY <2>1, <2>2
<1> HIDE DEF y
<1> QED BY <1>1, <1>2, <1>11, <1>12, <1>14, ProbeStep

-----------------------------------------------------------------------------
(* Saves. *)
LEMMA SaveStep ==
    ASSUME PinsInv, NEW i \in Commands, NEW c \in Command,
           command' = [command EXCEPT ![i] = c],
           UNCHANGED <<worldVars, pinFile, kills, ghosts>>,
           command[i].stage \in {"opening", "writing"}, c.stage \in {"writing", "written"},
           c.verb = command[i].verb, c.key = command[i].key, c.seen = command[i].seen,
           c.manifest = command[i].manifest, c.pins = command[i].pins,
           c.passed = command[i].passed, c.named = command[i].named,
           c.pinned = command[i].pinned, c.file \in Files,
           tmpFile' \in {tmpFile, i}, tmpFile' # pinFile,
           content' \in [Files -> Store \cup {PART}],
           \A f \in Files : content'[f] # PART => Sound(content'[f], known),
           ~raced => /\ content'[pinFile] = acked
                     /\ tmpFile' \in Files /\ c.file = tmpFile'
                     /\ c.stage = "writing" => content'[tmpFile'] = PART
                     /\ c.stage = "written" => content'[tmpFile'] = c.pins
    PROVE  PinsInv'
<1>1. /\ command' \in [Commands -> Command]
      /\ command'[i] = c
      /\ \A j \in Commands : j # i => command'[j] = command[j]
  BY DEF PinsInv, TypeOK
<1>2. i \in Files /\ pinFile \in Files
  BY DEF Commands, Files, PinsInv, TypeOK
<1>3. TypeOK'
  BY <1>1, <1>2 DEF PinsInv, TypeOK, worldVars, ghosts
<1>4. Ready(command[i]) /\ Ready(c)
  BY DEF PinsInv, AllReady, Ready
<1>5. AllReady'
  BY <1>1, <1>4 DEF PinsInv, AllReady
<1>6. StoresAreSound'
  BY <1>1 DEF PinsInv, StoresAreSound, ghosts
<1>7. FilesAreMade'
  <2>1. \A f \in {pinFile, tmpFile} \ {0, NONE} : f \in Commands
    BY DEF PinsInv, TypeOK, Files, Commands
  <2>2. \A f \in Commands : command[f].stage \in {"writing", "written", "done"} =>
                               command'[f].stage \in {"writing", "written", "done"}
    BY <1>1
  <2> QED BY <1>1, <2>1, <2>2 DEF PinsInv, FilesAreMade
<1>8. SaverIsAlone'
  <2> SUFFICES ASSUME ~raced' PROVE SaverIsAlone'
    BY DEF SaverIsAlone
  <2>1. ~raced /\ acked' = acked /\ pinFile' = pinFile
    BY DEF ghosts
  <2>2. Saves(command[i])
    BY <1>4 DEF Saves, Ready
  <2>3. \A j \in Commands : Saves(command'[j]) => j = i
    BY <1>1, <2>1, <2>2 DEF PinsInv, SaverIsAlone
  <2>4. HasFile(command[i], i, acked, tmpFile, content)
    BY <2>1, <2>2 DEF PinsInv, SaverIsAlone
  <2>5. c.pins = Effect(acked, c, i)
    BY <2>4 DEF HasFile, Effect
  <2>6. HasFile(c, i, acked, tmpFile', content')
    BY <2>1, <2>5 DEF HasFile
  <2>7. \A j \in Commands : Saves(command'[j]) => HasFile(command'[j], j, acked', tmpFile', content')
    BY <1>1, <2>1, <2>3, <2>6
  <2> QED BY <2>1, <2>3, <2>7 DEF SaverIsAlone
<1>9. SignedIsAttested'
  BY DEF PinsInv, SignedIsAttested, worldVars
<1>10. PassesAreBacked'
  <2>1. Backed(c, attested, known) /\ Passes(c)
    BY DEF PinsInv, PassesAreBacked, Backed, Passes
  <2> QED BY <1>1, <2>1 DEF PinsInv, PassesAreBacked, worldVars, ghosts
<1> QED BY <1>3, <1>5, <1>6, <1>7, <1>8, <1>9, <1>10 DEF PinsInv

LEMMA OpenTmpKeepsPinsInv == ASSUME PinsInv, NEW i \in Commands, OpenTmp(i) PROVE PinsInv'
<1> DEFINE f == IF tmpFile = NONE THEN i ELSE tmpFile
           c == [command[i] EXCEPT !.stage = "writing", !.file = f]
<1>1. /\ command[i].stage = "opening" /\ tmpFile' = f
      /\ content' = [content EXCEPT ![f] = PART]
      /\ command' = [command EXCEPT ![i].stage = "writing", ![i].file = f]
      /\ UNCHANGED <<worldVars, pinFile, kills, ghosts>>
  BY DEF OpenTmp
<1>2. command[i] \in Command /\ command \in [Commands -> Command]
  BY DEF PinsInv, TypeOK
<1>3. i \in Files /\ i # 0 /\ f \in Files /\ tmpFile' \in {tmpFile, i}
  BY <1>1 DEF Commands, Files, PinsInv, TypeOK
<1>4. f # pinFile
  <2>1. CASE tmpFile = NONE
    BY <1>1, <1>3, <2>1, PinAssumption DEF PinsInv, FilesAreMade
  <2>2. CASE tmpFile # NONE
    BY <2>2 DEF PinsInv, FilesAreMade
  <2> QED BY <2>1, <2>2
<1> HIDE DEF f
<1>5. command' = [command EXCEPT ![i] = c]
  BY <1>1, <1>2
<1>6. /\ c \in Command /\ c.stage = "writing" /\ c.file = f
      /\ c.verb = command[i].verb /\ c.key = command[i].key /\ c.seen = command[i].seen
      /\ c.manifest = command[i].manifest /\ c.pins = command[i].pins
      /\ c.passed = command[i].passed
      /\ c.named = command[i].named /\ c.pinned = command[i].pinned
  BY <1>2, <1>3 DEF Command, Stages
<1> HIDE DEF c
<1>7. /\ content' \in [Files -> Store \cup {PART}]
      /\ content'[f] = PART /\ content'[pinFile] = content[pinFile]
      /\ \A g \in Files : g # f => content'[g] = content[g]
  BY <1>1, <1>3, <1>4 DEF PinsInv, TypeOK
<1>8. \A g \in Files : content'[g] # PART => Sound(content'[g], known)
  BY <1>7 DEF PinsInv, StoresAreSound
<1>9. ~raced => content'[pinFile] = acked
  BY <1>7 DEF PinsInv, SaverIsAlone
<1> QED BY <1>1, <1>3, <1>4, <1>5, <1>6, <1>7, <1>8, <1>9, SaveStep

LEMMA WriteTmpKeepsPinsInv ==
    ASSUME PinsInv, NEW i \in Commands, WriteTmp(i)
    PROVE  PinsInv'
<1> DEFINE f == command[i].file
           c == [command[i] EXCEPT !.stage = "written"]
<1>1. PICK d \in {command[i].pins} \cup IF content[f] = PART THEN {} ELSE {PART} :
         content' = [content EXCEPT ![f] = d]
  BY DEF WriteTmp
<1>2. /\ command[i].stage = "writing"
      /\ command' = [command EXCEPT ![i].stage = "written"]
      /\ UNCHANGED <<worldVars, pinFile, tmpFile, kills, ghosts>>
  BY DEF WriteTmp
<1>3. command[i] \in Command /\ command \in [Commands -> Command]
  BY DEF PinsInv, TypeOK
<1>4. Ready(command[i]) /\ f \in Files
  BY <1>2 DEF PinsInv, AllReady, Ready
<1>5. /\ d = command[i].pins \/ (d = PART /\ content[f] # PART)
      /\ d \in Store \cup {PART}
  BY <1>1, <1>3 DEF Command
<1>6. /\ content' \in [Files -> Store \cup {PART}]
      /\ content'[f] = d
      /\ \A g \in Files : g # f => content'[g] = content[g]
  BY <1>1, <1>4, <1>5 DEF PinsInv, TypeOK
<1>7. command' = [command EXCEPT ![i] = c]
  BY <1>2, <1>3
<1>8. /\ c \in Command /\ c.stage = "written" /\ c.file = f
      /\ c.verb = command[i].verb /\ c.key = command[i].key /\ c.seen = command[i].seen
      /\ c.manifest = command[i].manifest /\ c.pins = command[i].pins
      /\ c.passed = command[i].passed
      /\ c.named = command[i].named /\ c.pinned = command[i].pinned
  BY <1>3 DEF Command, Stages
<1> HIDE DEF c
<1>9. \A g \in Files : content'[g] # PART => Sound(content'[g], known)
  BY <1>5, <1>6 DEF PinsInv, StoresAreSound
<1>10. tmpFile' # pinFile /\ tmpFile' \in {tmpFile, i}
  BY <1>2 DEF PinsInv, FilesAreMade
<1>11. ASSUME ~raced
       PROVE  /\ content'[pinFile] = acked
              /\ tmpFile' \in Files /\ c.file = tmpFile' /\ content'[tmpFile'] = c.pins
  <2>1. Saves(command[i])
    BY <1>2, <1>4 DEF Saves, Ready
  <2>2. HasFile(command[i], i, acked, tmpFile, content)
    BY <1>11, <2>1 DEF PinsInv, SaverIsAlone
  <2>3. tmpFile \in Files /\ f = tmpFile /\ content[tmpFile] = PART
    BY <1>2, <2>2 DEF HasFile
  <2>4. content'[pinFile] = content[pinFile]
    BY <1>6, <2>3 DEF PinsInv, FilesAreMade, TypeOK
  <2> QED BY <1>2, <1>5, <1>6, <1>8, <1>11, <2>3, <2>4 DEF PinsInv, SaverIsAlone
<1> QED BY <1>2, <1>4, <1>6, <1>7, <1>8, <1>9, <1>10, <1>11, SaveStep

LEMMA RenameTmpKeepsPinsInv ==
    ASSUME PinsInv, NEW i \in Commands, RenameTmp(i)
    PROVE  PinsInv'
<1> DEFINE c == Exited(command[i])
<1>1. /\ command[i].stage = "written" /\ tmpFile # NONE
      /\ pinFile' = tmpFile /\ tmpFile' = NONE
      /\ content' = [content EXCEPT ![pinFile] = PART]
      /\ acked' = IF raced THEN acked ELSE Applied(i)
      /\ command' = [command EXCEPT ![i] = c]
      /\ UNCHANGED <<worldVars, kills, raced, known>>
  BY DEF RenameTmp
<1>2. command[i] \in Command /\ Ready(command[i])
  BY DEF PinsInv, TypeOK, AllReady
<1>3. Backed(command[i], attested, known)
  BY DEF PinsInv, PassesAreBacked
<1>4. /\ c \in Command /\ c.stage = "done" /\ c.pins = EmptyStore
      /\ Passes(c) /\ Backed(c, attested, known)
  BY <1>2, <1>3, ExitedIsSound
<1> HIDE DEF c
<1>5. /\ command' \in [Commands -> Command]
      /\ command'[i] = c
      /\ \A j \in Commands : j # i => command'[j] = command[j]
  BY <1>1, <1>4 DEF PinsInv, TypeOK
<1>6. tmpFile \in Files /\ pinFile \in Files /\ tmpFile # pinFile
  BY <1>1 DEF PinsInv, TypeOK, FilesAreMade
<1>7. /\ content' \in [Files -> Store \cup {PART}]
      /\ content'[pinFile] = PART
      /\ \A f \in Files : f # pinFile => content'[f] = content[f]
  BY <1>1, <1>6 DEF PinsInv, TypeOK
<1>8. ASSUME ~raced
      PROVE  /\ acked' = command[i].pins /\ content'[pinFile'] = acked'
             /\ \A j \in Commands : Saves(command[j]) => j = i
  <2>1. Saves(command[i])
    BY <1>1, <1>2 DEF Saves, Ready
  <2>2. HasFile(command[i], i, acked, tmpFile, content)
    BY <1>8, <2>1 DEF PinsInv, SaverIsAlone
  <2>3. command[i].pins = Effect(acked, command[i], i) /\ content[tmpFile] = command[i].pins
    BY <1>1, <2>2 DEF HasFile
  <2>4. Applied(i) = Effect(acked, command[i], i)
    BY DEF Applied, Effect
  <2> QED BY <1>1, <1>6, <1>7, <1>8, <2>1, <2>3, <2>4 DEF PinsInv, SaverIsAlone
<1>9. acked' \in Store
  BY <1>1, <1>2, <1>8 DEF PinsInv, TypeOK, Command
<1>10. TypeOK'
  BY <1>1, <1>5, <1>6, <1>7, <1>9 DEF PinsInv, TypeOK, worldVars
<1>11. AllReady'
  BY <1>4, <1>5 DEF PinsInv, AllReady, Ready
<1>12. StoresAreSound'
  <2>1. Sound(c.pins, known)
    BY <1>4, EmptyIsSound DEF Sound
  <2> QED BY <1>1, <1>5, <1>7, <2>1 DEF PinsInv, StoresAreSound
<1>13. FilesAreMade'
  <2>1. pinFile' # tmpFile'
    BY <1>1
  <2>2. ASSUME NEW f \in {pinFile', tmpFile'} \ {0, NONE}
        PROVE  command'[f].stage \in {"writing", "written", "done"}
    <3>1. f = tmpFile /\ f \in Commands
      BY <1>1, <1>6, <2>2 DEF Files, Commands
    <3>2. command[f].stage \in {"writing", "written", "done"}
      BY <2>2, <3>1 DEF PinsInv, FilesAreMade
    <3> QED BY <1>4, <1>5, <3>1, <3>2
  <2> QED BY <2>1, <2>2 DEF FilesAreMade
<1>14. SaverIsAlone'
  <2> SUFFICES ASSUME ~raced' PROVE SaverIsAlone'
    BY DEF SaverIsAlone
  <2>1. \A j \in Commands : ~Saves(command'[j])
    BY <1>1, <1>4, <1>5, <1>8 DEF Saves
  <2> QED BY <1>1, <1>8, <2>1 DEF SaverIsAlone
<1>15. SignedIsAttested'
  BY <1>1 DEF PinsInv, SignedIsAttested, worldVars
<1>16. PassesAreBacked'
  BY <1>1, <1>4, <1>5 DEF PinsInv, PassesAreBacked, worldVars
<1> QED BY <1>10, <1>11, <1>12, <1>13, <1>14, <1>15, <1>16 DEF PinsInv

-----------------------------------------------------------------------------
LEMMA RunKeepsPinsInv == ASSUME PinsInv, NEW i \in Commands, Run(i) PROVE PinsInv'
<1>1. CASE StartPin(i)
  BY <1>1, LoadKeepsPinsInv DEF StartPin
<1>2. CASE StartFingerprint(i)
  BY <1>2, LoadKeepsPinsInv DEF StartFingerprint
<1>3. CASE RenameFails(i)
  BY <1>3, FinishKeepsPinsInv DEF RenameFails, PinsInv, TypeOK
<1>4. CASE Kill(i)
  BY <1>4, FinishKeepsPinsInv DEF Kill, PinsInv, TypeOK
<1> QED BY <1>1, <1>2, <1>3, <1>4, StartUnpinKeepsPinsInv, StartVerifyKeepsPinsInv,
          PinProbedKeepsPinsInv,
           FingerprintProbedKeepsPinsInv, VerifyProbedKeepsPinsInv, OpenTmpKeepsPinsInv,
           WriteTmpKeepsPinsInv, RenameTmpKeepsPinsInv DEF Run

LEMMA FirstStoreIsSound ==
    ASSUME NEW data \in {EmptyStore} \cup {LegacyStore(s, t) : s \in Selves, t \in Toolsets}
    PROVE  data \in Store /\ Sound(data, {})
<1>1. CASE data = EmptyStore
  BY <1>1, EmptyIsSound DEF Sound
<1>2. ASSUME NEW s \in Selves, NEW t \in Toolsets, data = LegacyStore(s, t)
      PROVE  data \in Store /\ Sound(data, {})
  <2>1. <<s>> \in Keys
    BY DEF Keys
  <2> DEFINE key == <<s>>
  <2> HIDE DEF key
  <2>2. /\ PinServer(EmptyStore, key, t, 0) \in Store
        /\ PinServer(EmptyStore, key, t, 0).publishers = EmptyStore.publishers
        /\ OneFromBefore(PinServer(EmptyStore, key, t, 0))
    BY <2>1, EmptyIsSound, PinServerIsSound DEF key
  <2>3. data = PinServer(EmptyStore, key, t, 0)
    BY <1>2 DEF LegacyStore, key
  <2> QED BY <2>2, <2>3, EmptyIsSound DEF Sound
<1> QED BY <1>1, <1>2

LEMMA InitPinsInv == Init => PinsInv
<1> SUFFICES ASSUME Init PROVE PinsInv
  OBVIOUS
<1>1. late = FALSE /\ raced = FALSE
  BY DEF Init
<1>2. late \in BOOLEAN /\ raced \in BOOLEAN
  BY <1>1
<1>3. PICK data \in {EmptyStore} \cup {LegacyStore(s, t) : s \in Selves, t \in Toolsets} :
         /\ content = [f \in Files |-> IF f = 0 THEN data ELSE PART]
         /\ acked = data
  BY DEF Init
<1>4. data \in Store /\ Sound(data, {})
  BY FirstStoreIsSound
<1>5. 0 \in Files /\ NONE # 0 /\ NONE \notin Files
  BY PinAssumption DEF Files
<1>6. /\ command = [i \in Commands |-> Idle] /\ pinFile = 0 /\ tmpFile = NONE
      /\ manifest = NONE /\ known = {} /\ attested = {} /\ late = FALSE /\ edits = 0
      /\ kills = 0 /\ raced = FALSE /\ serves \in [Origins -> Observed]
  BY DEF Init
<1>7. TypeOK
  <2>1. content \in [Files -> Store \cup {PART}] /\ acked \in Store
    BY <1>3, <1>4
  <2>2. command \in [Commands -> Command]
    BY <1>6, IdleIsSound
  <2>3. manifest \in Manifest \cup {NONE} /\ pinFile \in Files /\ tmpFile \in Files \cup {NONE}
    BY <1>5, <1>6
  <2>4. attested \subseteq Publishers \X Toolsets /\ known \subseteq Publishers
    BY <1>6
  <2>5. edits \in Nat /\ kills \in Nat
    BY <1>6
  <2>6. serves \in [Origins -> Observed]
    BY DEF Init
  <2> QED BY <1>2, <2>1, <2>2, <2>3, <2>4, <2>5, <2>6 DEF TypeOK
<1>8. AllReady /\ PassesAreBacked
  BY <1>6, IdleIsSound DEF AllReady, Ready, PassesAreBacked, Backed, Passes
<1>9. StoresAreSound
  <2>1. Sound(Idle.pins, {})
    BY IdleIsSound, EmptyIsSound DEF Sound
  <2> QED BY <1>3, <1>4, <1>6, <2>1 DEF StoresAreSound
<1>10. FilesAreMade
  BY <1>5, <1>6 DEF FilesAreMade
<1>11. SaverIsAlone
  BY <1>3, <1>5, <1>6, IdleIsSound DEF SaverIsAlone, Saves
<1>12. SignedIsAttested
  BY <1>6 DEF SignedIsAttested
<1> QED BY <1>7, <1>8, <1>9, <1>10, <1>11, <1>12 DEF PinsInv

LEMMA StutterKeepsPinsInv == ASSUME PinsInv, UNCHANGED vars PROVE PinsInv'
<1>1. UNCHANGED <<serves, manifest, late, edits, attested, content, pinFile, tmpFile,
                  command, kills, acked, raced, known>>
  BY DEF vars, worldVars, fileVars, ghosts
<1> QED BY <1>1 DEF PinsInv, TypeOK, AllReady, StoresAreSound, FilesAreMade, SaverIsAlone,
                    SignedIsAttested, PassesAreBacked

LEMMA NextPinsInv == PinsInv /\ [Next]_vars => PinsInv'
  BY WorldKeepsPinsInv, RunKeepsPinsInv, StutterKeepsPinsInv DEF Next

LEMMA PinsInvariance == Spec => []PinsInv
  BY InitPinsInv, NextPinsInv, PTL DEF Spec

(* Everything is of its type: the pin file, whatever was killed, holds a     *)
(* store or does not parse, and the commands what they loaded or changed.    *)
THEOREM PinsTyped == Spec => []TypeOK
<1>1. PinsInv => TypeOK
  BY DEF PinsInv
<1> QED BY <1>1, PinsInvariance, PTL

(* Without a race a completed save is kept and a killed one leaves nothing.  *)
THEOREM PinsSoleWriter == Spec => []SoleWriterKeepsPins
<1>1. PinsInv => SoleWriterKeepsPins
  BY DEF PinsInv, SaverIsAlone, SoleWriterKeepsPins
<1> QED BY <1>1, PinsInvariance, PTL

(* A legacy pin is taken over by one origin at most.                         *)
THEOREM PinsContinuity == Spec => []ContinuityIsUnique
<1>1. PinsInv => ContinuityIsUnique
  BY DEF PinsInv, StoresAreSound, Sound, OneFromBefore, ContinuityIsUnique
<1> QED BY <1>1, PinsInvariance, PTL

(* What passes was signed, and under the keys or pins verify was given.      *)
THEOREM PinsPassedIsAttested == Spec => []PassedIsAttested
<1>1. PinsInv => PassedIsAttested
  BY DEF PinsInv, PassesAreBacked, Backed, Passes, PassedIsAttested
<1> QED BY <1>1, PinsInvariance, PTL

-----------------------------------------------------------------------------
(* The scan.                                                                 *)

(* What a probe may have seen. *)
ProbeStages == {"queued", "installing", "starting", "initializing", "listing", "pinging",
                "stopping", "scored"}

Sightings ==
    [transport : {s.transport : s \in Servers},
     package : {s.package : s \in Servers} \cup {"refused"},
     handshake : {"skipped", "quick", "slow", "slower", "needsConfig", "failed", "broken"},
     protocol : {s.protocol : s \in Servers} \cup {NONE},
     listing : {"unasked", "listed", "failed"},
     tools : {s.tools : s \in Servers} \cup {NoTools}, hint : BOOLEAN,
     leak : {s.leak : s \in Servers}, pings : {"quick", "slow", "failing", NONE}]

ScanTypes == /\ list \in Seq(Servers)
             /\ queue \in Seq(Indices)
             /\ Workers # {} /\ worker \in [Workers -> {0, Ended} \cup Indices]
             /\ stage \in [Indices -> ProbeStages]
             /\ child \in [Indices -> {"absent", "running", "exited", "gone"}]
             /\ seen \in [Indices -> Sightings]
             /\ answered \subseteq Indices
             /\ results \in Seq(Indices)
             /\ exit \in {0, 1, NONE}

(* The workers have taken the first entries of the list, in order. *)
Taken == Len(list) - Len(queue)

QueueIsTheRest == /\ Len(queue) <= Len(list)
                  /\ \A k \in DOMAIN queue : queue[k] = Taken + k
                  /\ \A i \in Indices : stage[i] = "queued" <=> i > Taken \/ Drops(i)

(* Each of them has a worker until its card is among the results, once. *)
InHand == \A i \in Indices : \/ stage[i] \in {"queued", "scored"}
                             \/ \E w \in Workers : worker[w] = i

(* While there are entries left, one worker has ended for each dropped one. *)
EndedWorkers == {w \in Workers : worker[w] = Ended}

DropsEndWorkers ==
    /\ IsFiniteSet(Workers)
    /\ queue # <<>> => Cardinality(EndedWorkers) = Cardinality(DroppedBefore(Taken + 1))
    /\ \A i \in Indices : stage[i] # "queued" => ~Lost(i)

CardsAreScored ==
    /\ \A i \in Indices : stage[i] = "scored" <=> \E n \in DOMAIN results : results[n] = i
    /\ \A m, n \in DOMAIN results : results[m] = results[n] => m = n

(* What has been seen by a probe that waits for s, and of whom. *)
Tells(o, s, spoke) ==
    /\ Ok(o) \/ o.handshake = "broken" => spoke
    /\ ~Ok(o) /\ o.handshake # "broken" => o.listing = "unasked"
    /\ o.listing # "listed" => o.tools = NoTools
    /\ s \in {"queued", "installing", "starting", "initializing"} => o.handshake = "skipped"
    /\ s \in {"listing", "pinging"} => Ok(o)
    /\ s = "listing" => o.listing = "unasked"

ProbesTell == \A i \in Indices : Tells(seen[i], stage[i], i \in answered)

(* A scan that passes is over, and none of its cards has less than 50 points. *)
PassIsEarned == exit = 0 => /\ \A w \in Workers : worker[w] = Ended
                            /\ \A n \in DOMAIN results : Score(CardOf(results[n])) >= 50

ScanInv == /\ ScanTypes /\ QueueIsTheRest /\ InHand /\ DropsEndWorkers
           /\ CardsAreScored /\ ProbesTell /\ PassIsEarned

-----------------------------------------------------------------------------
(* Cards.  A check that is not made gives nothing, and of a probe that did   *)
(* not get through the handshake the card has less than 50 points.           *)
LEMMA UnknownPays ==
    ASSUME NEW o, NEW max
    PROVE  Unless(o, max).score = 0 /\ Unknown(max).score = 0
  BY DEF Unless, Unknown, Check

LEMMA NoToolsPay ==
    ASSUME NEW o, o.tools = NoTools
    PROVE  Schema(o).score = 0 /\ Destructive(o).score = 0 /\ SecretExposure(o).score = 0
<1>1. o.tools.total = 0
  BY DEF NoTools
<1>2. Schema(o).score = 0
  BY <1>1, UnknownPays DEF Schema, Check
<1>3. Destructive(o).score = 0
  <2>1. Destructive(o) = Unless(o, 10)
    BY <1>1 DEF Destructive
  <2> QED BY <2>1, UnknownPays
<1>4. SecretExposure(o).score = 0
  <2>1. NoLeak(o).score = 0
    BY <1>1, UnknownPays DEF NoLeak
  <2>2. Check("FAIL", 0, 10).score = 0
    BY DEF Check
  <2> QED BY <2>1, <2>2 DEF SecretExposure
<1> QED BY <1>2, <1>3, <1>4

LEMMA PointsAreNat ==
    ASSUME NEW o
    PROVE  /\ Installability(o).score \in Nat /\ Handshake(o).score \in Nat
           /\ Schema(o).score \in Nat /\ Destructive(o).score \in Nat
           /\ Authentication(o).score \in Nat /\ SecretExposure(o).score \in Nat
           /\ Protocol(o).score \in Nat /\ Latency(o).score \in Nat
<1>1. Installability(o).score \in Nat /\ Handshake(o).score \in Nat
  BY DEF Installability, Lookup, Handshake, Check
<1>2. Schema(o).score \in Nat
  BY DEF Schema, Check, Unless, Unknown
<1>3. Destructive(o).score \in Nat
  BY DEF Destructive, DangerWarning, NoDanger, Check, Unless, Unknown
<1>4. Authentication(o).score \in Nat
  <2>1. RemoteAuthentication(o).score \in Nat
    BY DEF RemoteAuthentication, Check, Unknown
  <2>2. LocalAuthentication(o).score \in Nat
    BY DEF LocalAuthentication, Check, Unless, Unknown
  <2> QED BY <2>1, <2>2 DEF Authentication
<1>5. SecretExposure(o).score \in Nat
  <2>1. NoLeak(o).score \in Nat
    BY DEF NoLeak, Check, Unless, Unknown
  <2> QED BY <2>1 DEF SecretExposure, Check
<1>6. Protocol(o).score \in Nat /\ Latency(o).score \in Nat
  BY DEF Protocol, Latency, Check, Unless, Unknown
<1> QED BY <1>1, <1>2, <1>3, <1>4, <1>5, <1>6

LEMMA Unanswered ==
    ASSUME NEW o \in Sightings, ~Ok(o), o.handshake # "broken", o.tools = NoTools
    PROVE  Score(Card(o)) < 50
<1>1. Reported(o) = o
  BY DEF Reported
<1>2. o.handshake \in {"skipped", "needsConfig", "failed"}
  BY DEF Sightings, Ok
<1>3. Installability(o).score \in 0..15
  BY DEF Installability, Lookup, Check
<1>4. Handshake(o).score \in 0..15
  BY <1>2 DEF Handshake, Check
<1>5. Schema(o).score = 0 /\ Destructive(o).score = 0 /\ SecretExposure(o).score = 0
  BY NoToolsPay
<1>6. Authentication(o).score \in 0..10
  <2>1. RemoteAuthentication(o).score \in 0..10
    BY DEF RemoteAuthentication, Check, Unknown
  <2>2. LocalAuthentication(o).score \in 0..10
    BY DEF LocalAuthentication, Check, Unless, Unknown
  <2> QED BY <2>1, <2>2 DEF Authentication
<1>7. Protocol(o).score = 0
  BY UnknownPays DEF Protocol
<1>8. Latency(o).score = 0
  BY UnknownPays DEF Latency
<1>9. /\ Card(o).installability = Installability(o) /\ Card(o).handshake = Handshake(o)
      /\ Card(o).schema = Schema(o) /\ Card(o).destructive = Destructive(o)
      /\ Card(o).authentication = Authentication(o)
      /\ Card(o).secretExposure = SecretExposure(o)
      /\ Card(o).protocol = Protocol(o) /\ Card(o).latency = Latency(o)
  BY <1>1 DEF Card
<1> QED BY <1>3, <1>4, <1>5, <1>6, <1>7, <1>8, <1>9 DEF Score

(* Tools that are listed take no point away. *)
LEMMA ListingPays ==
    ASSUME NEW o \in Sightings, NEW given, o.tools = NoTools
    PROVE  Score(Card(o)) <= Score(Card([o EXCEPT !.listing = "listed", !.tools = given]))
<1> DEFINE p == [o EXCEPT !.listing = "listed", !.tools = given]
<1>1. /\ p.transport = o.transport /\ p.package = o.package /\ p.handshake = o.handshake
      /\ p.protocol = o.protocol /\ p.hint = o.hint /\ p.pings = o.pings
  BY DEF Sightings
<1>2. Reported(o) = o
  <2>1. [o EXCEPT !.tools = NoTools] = o
    BY DEF Sightings
  <2> QED BY <2>1 DEF Reported
<1> HIDE DEF p
<1>3. (Remote(p) <=> Remote(o)) /\ (Ok(p) <=> Ok(o))
  BY <1>1 DEF Remote, Ok
<1>4. /\ Installability(p).score = Installability(o).score
      /\ Handshake(p).score = Handshake(o).score
  BY <1>1, <1>3 DEF Installability, Lookup, Handshake, Check
<1>5. Protocol(p).score = Protocol(o).score
  BY <1>1, <1>3 DEF Protocol, Check, Unless, Unknown
<1>6. Latency(p).score = Latency(o).score
  BY <1>1, <1>3 DEF Latency, Check, Unless, Unknown
<1>7. Authentication(p).score >= Authentication(o).score
  <2>1. o.tools.total = 0 /\ (Requires(p) <=> Requires(o))
    BY <1>1 DEF NoTools, Requires
  <2>2. RemoteAuthentication(p).score = RemoteAuthentication(o).score
    BY <1>1, <1>3 DEF RemoteAuthentication, Check, Unknown
  <2>3. CASE Requires(o)
    <3>1. LocalAuthentication(p).score = LocalAuthentication(o).score
      BY <2>1, <2>3 DEF LocalAuthentication
    <3> QED BY <1>3, <2>2, <3>1, PointsAreNat DEF Authentication
  <2>4. CASE ~Requires(o)
    <3>1. LocalAuthentication(o).score = 0
      BY <2>1, <2>4, UnknownPays DEF LocalAuthentication
    <3> QED BY <1>3, <2>2, <3>1, PointsAreNat DEF Authentication
  <2> QED BY <2>3, <2>4
<1>8. Schema(o).score = 0 /\ Destructive(o).score = 0 /\ SecretExposure(o).score = 0
  BY NoToolsPay
<1>9. /\ Card(o).installability = Installability(o) /\ Card(o).handshake = Handshake(o)
      /\ Card(o).schema = Schema(o) /\ Card(o).destructive = Destructive(o)
      /\ Card(o).authentication = Authentication(o)
      /\ Card(o).secretExposure = SecretExposure(o)
      /\ Card(o).protocol = Protocol(o) /\ Card(o).latency = Latency(o)
  BY <1>2 DEF Card
<1>10. /\ Card(p).installability = Installability(p) /\ Card(p).handshake = Handshake(p)
       /\ Card(p).schema = Schema(Reported(p)) /\ Card(p).destructive = Destructive(Reported(p))
       /\ Card(p).authentication = Authentication(p)
       /\ Card(p).secretExposure = SecretExposure(Reported(p))
       /\ Card(p).protocol = Protocol(p) /\ Card(p).latency = Latency(p)
  BY DEF Card
<1>11. Score(Card(o)) <= Score(Card(p))
  <2>1. /\ Schema(Reported(p)).score \in Nat /\ Destructive(Reported(p)).score \in Nat
        /\ SecretExposure(Reported(p)).score \in Nat
    BY PointsAreNat
  <2> QED BY <1>4, <1>5, <1>6, <1>7, <1>8, <1>9, <1>10, <2>1, PointsAreNat DEF Score
<1> QED BY <1>11 DEF p
-----------------------------------------------------------------------------
(* The steps. *)
Frozen == UNCHANGED <<list, pool, stage, child, seen, answered, results>>

(* Entries are dropped as the list and the number of workers have it. *)
LEMMA SameDrops ==
    ASSUME UNCHANGED list, Workers' = Workers
    PROVE  /\ \A i : Drops(i)' <=> Drops(i)
           /\ \A i : DroppedBefore(i)' = DroppedBefore(i)
           /\ \A i : Lost(i)' <=> Lost(i)
<1>1. \A i : Drops(i)' <=> Drops(i)
  BY DEF Drops, Parallel
<1>2. \A i : DroppedBefore(i)' = DroppedBefore(i)
  BY <1>1 DEF DroppedBefore
<1> QED BY <1>1, <1>2 DEF Lost

LEMMA DroppedAreFinite ==
    ASSUME NEW n \in Nat
    PROVE  IsFiniteSet(DroppedBefore(n)) /\ Cardinality(DroppedBefore(n)) \in Nat
<1>1. IsFiniteSet(1..(n - 1))
  <2>1. 1 \in Int /\ n - 1 \in Int
    OBVIOUS
  <2> QED BY <2>1, FS_Interval
<1>2. DroppedBefore(n) \subseteq 1..(n - 1)
  BY DEF DroppedBefore
<1> QED BY <1>1, <1>2, FS_Subset, FS_CardinalityType

LEMMA DroppedGrow ==
    ASSUME NEW m \in Nat, NEW n \in Nat, m <= n
    PROVE  DroppedBefore(m) \subseteq DroppedBefore(n)
<1>1. 1..(m - 1) \subseteq 1..(n - 1)
  OBVIOUS
<1> QED BY <1>1 DEF DroppedBefore

LEMMA NextDropped ==
    ASSUME NEW n \in Nat
    PROVE  /\ ~Drops(n + 1) => DroppedBefore(n + 1 + 1) = DroppedBefore(n + 1)
           /\ Drops(n + 1) => /\ DroppedBefore(n + 1 + 1) = DroppedBefore(n + 1) \cup {n + 1}
                              /\ n + 1 \notin DroppedBefore(n + 1)
<1>1. 1..(n + 1 - 1) = 1..n /\ 1..(n + 1 + 1 - 1) = 1..n \cup {n + 1} /\ n + 1 \notin 1..n
  OBVIOUS
<1>2. DroppedBefore(n + 1) = {j \in 1..n : Drops(j)}
  BY <1>1 DEF DroppedBefore
<1>3. DroppedBefore(n + 1 + 1) = {j \in 1..n \cup {n + 1} : Drops(j)}
  BY <1>1 DEF DroppedBefore
<1> QED BY <1>1, <1>2, <1>3

LEMMA SameEnded ==
    ASSUME ScanInv, UNCHANGED <<list, queue>>, Workers' = Workers, EndedWorkers' = EndedWorkers,
           \A i \in Indices : stage'[i] = "queued" <=> stage[i] = "queued"
    PROVE  DropsEndWorkers'
<1>1. Indices' = Indices /\ Taken' = Taken
  BY DEF Indices, Taken
<1> QED BY <1>1, SameDrops DEF ScanInv, DropsEndWorkers

LEMMA ExitKeepsScanInv ==
    ASSUME ScanInv, Frozen, exit' \in {0, 1}, PassIsEarned'
    PROVE  ScanInv'
<1> USE DEF Frozen, pool
<1>1. ScanTypes'
  BY DEF ScanInv, ScanTypes, Workers, Indices
<1>2. Workers' = Workers /\ Indices' = Indices /\ EndedWorkers' = EndedWorkers
  BY DEF Workers, Indices, EndedWorkers
<1>3. QueueIsTheRest'
  BY <1>2, SameDrops DEF ScanInv, QueueIsTheRest, Taken
<1>4. InHand' /\ CardsAreScored' /\ ProbesTell'
  BY DEF ScanInv, InHand, CardsAreScored, ProbesTell, Workers, Indices
<1>5. DropsEndWorkers'
  BY <1>2, SameEnded
<1> QED BY <1>1, <1>3, <1>4, <1>5 DEF ScanInv

LEMMA CrashKeepsScanInv == ASSUME ScanInv, Crash PROVE ScanInv'
<1>1. exit' = 1 /\ Frozen
  BY DEF Crash, Frozen
<1>2. PassIsEarned'
  BY <1>1 DEF PassIsEarned
<1> QED BY <1>1, <1>2, ExitKeepsScanInv

LEMMA ReportKeepsScanInv == ASSUME ScanInv, Report PROVE ScanInv'
<1>1. PICK strict \in BOOLEAN : exit' = IF MeetsCi(strict) THEN 0 ELSE 1
  BY DEF Report
<1>2. Frozen /\ \A w \in Workers : worker[w] = Ended
  BY DEF Report, Frozen
<1>3. PassIsEarned'
  BY <1>1, <1>2 DEF PassIsEarned, MeetsCi, Frozen, pool, Workers, CardOf
<1> QED BY <1>1, <1>2, <1>3, ExitKeepsScanInv

(* A probe that goes on: `i` is in the hands of a worker and stays there. *)
LEMMA ProbeKeepsScanInv ==
    ASSUME ScanInv, exit = NONE, NEW i \in Indices, stage[i] \notin {"queued", "scored"},
           NEW s \in ProbeStages, s \notin {"queued", "scored"}, NEW o \in Sightings,
           Tells(o, s, i \in answered'),
           UNCHANGED <<list, pool, results, exit>>,
           seen' = [seen EXCEPT ![i] = o], stage' = [stage EXCEPT ![i] = s],
           answered' \in {answered, answered \cup {i}},
           child' \in [Indices -> {"absent", "running", "exited", "gone"}]
    PROVE  ScanInv'
<1> USE DEF pool
<1>1. ScanTypes
  BY DEF ScanInv
<1>2. /\ \A j \in Indices : j # i => stage'[j] = stage[j] /\ seen'[j] = seen[j]
      /\ stage'[i] = s /\ seen'[i] = o
      /\ \A j \in Indices : j # i => (j \in answered' <=> j \in answered)
      /\ Indices' = Indices /\ Workers' = Workers
  BY <1>1 DEF ScanTypes, Indices, Workers
<1>3. ScanTypes'
  BY <1>1, <1>2 DEF ScanTypes, Workers, Indices
<1>4. QueueIsTheRest'
  BY <1>2, SameDrops DEF ScanInv, QueueIsTheRest, Taken
<1>5. InHand'
  BY <1>2 DEF ScanInv, InHand
<1>6. CardsAreScored'
  BY <1>2 DEF ScanInv, CardsAreScored
<1>7. ProbesTell'
  BY <1>2 DEF ScanInv, ProbesTell
<1>8. PassIsEarned'
  BY ScanAssumption DEF PassIsEarned
<1>9. DropsEndWorkers'
  <2>1. EndedWorkers' = EndedWorkers
    BY DEF EndedWorkers, Workers
  <2> QED BY <1>2, <2>1, SameEnded
<1> QED BY <1>3, <1>4, <1>5, <1>6, <1>7, <1>8, <1>9 DEF ScanInv

(* The head of the queue is the first entry that is not taken. *)
LEMMA HeadIsNext ==
    ASSUME ScanInv, queue # <<>>
    PROVE  /\ Head(queue) = Taken + 1 /\ Head(queue) \in Indices /\ Taken \in Nat
           /\ Indices = 1..Len(list) /\ Len(list) \in Nat
           /\ Tail(queue) \in Seq(Indices) /\ Len(Tail(queue)) = Len(queue) - 1
           /\ Len(list) - Len(Tail(queue)) = Taken + 1
           /\ Len(Tail(queue)) <= Len(list)
           /\ \A k \in DOMAIN Tail(queue) : Tail(queue)[k] = Taken + 1 + k
<1>1. ScanTypes
  BY DEF ScanInv
<1>2. /\ Head(queue) \in Indices /\ Len(queue) \in Nat /\ Len(queue) > 0
      /\ Head(queue) = queue[1] /\ 1 \in DOMAIN queue
      /\ Tail(queue) \in Seq(Indices) /\ Len(Tail(queue)) = Len(queue) - 1
      /\ \A k \in DOMAIN Tail(queue) :
            Tail(queue)[k] = queue[k + 1] /\ k + 1 \in DOMAIN queue /\ k \in Nat
  BY <1>1, HeadTailProperties DEF ScanTypes
<1>3. Len(list) \in Nat /\ Indices = 1..Len(list)
  BY <1>1 DEF ScanTypes, Indices
<1>4. Len(queue) <= Len(list) /\ \A k \in DOMAIN queue : queue[k] = Taken + k
  BY DEF ScanInv, QueueIsTheRest
<1>5. Taken \in Nat
  BY <1>2, <1>3, <1>4 DEF Taken
<1>6. queue[1] = Taken + 1
  BY <1>2, <1>4
<1>7. ASSUME NEW k \in DOMAIN Tail(queue) PROVE Tail(queue)[k] = Taken + 1 + k
  <2>1. k \in Nat /\ Tail(queue)[k] = Taken + (k + 1)
    BY <1>2, <1>4
  <2> QED BY <2>1, <1>5
<1> QED BY <1>2, <1>3, <1>4, <1>5, <1>6, <1>7 DEF Taken

(* The worker that takes entry i has not ended, so that it is not lost. *)
LEMMA TakenIsNotLost ==
    ASSUME ScanInv, queue # <<>>, NEW w \in Workers, worker[w] # Ended, ~Drops(Head(queue))
    PROVE  ~Lost(Head(queue))
<1>1. Head(queue) = Taken + 1
  BY HeadIsNext
<1>2. IsFiniteSet(Workers) /\ Cardinality(EndedWorkers) = Cardinality(DroppedBefore(Taken + 1))
  BY DEF ScanInv, DropsEndWorkers
<1>3. /\ EndedWorkers \subseteq Workers /\ EndedWorkers # Workers
  BY DEF EndedWorkers
<1>4. /\ Cardinality(EndedWorkers) \in Nat /\ Cardinality(Workers) \in Nat
      /\ Cardinality(EndedWorkers) < Cardinality(Workers)
  BY <1>2, <1>3, FS_Subset, FS_CardinalityType
<1> QED BY <1>1, <1>2, <1>4 DEF Lost

LEMMA TakeKeepsScanInv ==
    ASSUME ScanInv, NEW w \in Workers, Take(w), ~Crash
    PROVE  ScanInv'
<1>1. ScanTypes
  BY DEF ScanInv
<1> DEFINE i == Head(queue)
           s == FirstStage(list[i])
<1>2. /\ queue # <<>> /\ worker[w] = 0 /\ exit = NONE /\ ~Drops(i)
      /\ worker' = [worker EXCEPT ![w] = i] /\ queue' = Tail(queue)
      /\ stage' = [stage EXCEPT ![i] = s]
      /\ UNCHANGED <<list, child, seen, answered, results, exit>>
  BY DEF Take, Takes, Running
<1>3. s \in {"installing", "starting", "initializing"}
  BY DEF FirstStage
<1>4. /\ i = Taken + 1 /\ i \in Indices /\ Taken \in Nat
      /\ Indices = 1..Len(list) /\ Len(list) \in Nat
      /\ queue' \in Seq(Indices) /\ Len(queue') <= Len(list)
      /\ Taken' = Taken + 1
      /\ \A k \in DOMAIN queue' : queue'[k] = Taken' + k
  BY <1>2, HeadIsNext DEF Taken
<1> HIDE DEF s
<1>5. stage[i] = "queued"
  BY <1>4 DEF ScanInv, QueueIsTheRest
<1>6. ~Lost(i)
  BY <1>2, TakenIsNotLost DEF Ended
<1> HIDE DEF i
<1>7. /\ \A j \in Indices : j # i => stage'[j] = stage[j]
      /\ stage'[i] = s
      /\ \A v \in Workers : v # w => worker'[v] = worker[v]
      /\ worker'[w] = i /\ Indices' = Indices /\ Workers' = Workers
  BY <1>1, <1>2, <1>4 DEF ScanTypes, Workers, Indices
<1>8. ScanTypes'
  <2>1. stage' \in [Indices -> ProbeStages]
    BY <1>1, <1>2, <1>3 DEF ScanTypes, ProbeStages
  <2>2. worker' \in [Workers -> {0, Ended} \cup Indices]
    BY <1>1, <1>2, <1>4 DEF ScanTypes
  <2> QED BY <1>1, <1>2, <1>4, <1>7, <2>1, <2>2 DEF ScanTypes
<1>9. QueueIsTheRest'
  <2>1. ASSUME NEW j \in Indices PROVE stage'[j] = "queued" <=> j > Taken' \/ Drops(j)
    BY <1>2, <1>3, <1>4, <1>7, <2>1 DEF ScanInv, QueueIsTheRest
  <2> QED BY <1>2, <1>4, <1>7, <2>1, SameDrops DEF QueueIsTheRest
<1>10. InHand'
  <2>1. ASSUME NEW j \in Indices, stage'[j] \notin {"queued", "scored"}
        PROVE  \E v \in Workers : worker'[v] = j
    <3>1. CASE j = i
      BY <1>7, <3>1
    <3>2. CASE j # i
      <4>1. PICK v \in Workers : worker[v] = j
        BY <1>7, <2>1, <3>2 DEF ScanInv, InHand
      <4>2. v # w
        BY <1>2, <1>4, <4>1
      <4> QED BY <1>7, <4>1, <4>2
    <3> QED BY <3>1, <3>2
  <2> QED BY <1>7, <2>1 DEF InHand
<1>11. DropsEndWorkers'
  <2>1. EndedWorkers' = EndedWorkers
    BY <1>2, <1>4, <1>7 DEF EndedWorkers, Ended
  <2>2. DroppedBefore(Taken' + 1) = DroppedBefore(Taken + 1)
    BY <1>2, <1>4, NextDropped
  <2>3. IsFiniteSet(Workers) /\ Cardinality(EndedWorkers) = Cardinality(DroppedBefore(Taken + 1))
    BY <1>2 DEF ScanInv, DropsEndWorkers
  <2>4. ASSUME NEW j \in Indices, stage'[j] # "queued" PROVE ~Lost(j)
    BY <1>6, <1>7, <2>4 DEF ScanInv, DropsEndWorkers
  <2> QED BY <1>2, <1>7, <2>1, <2>2, <2>3, <2>4, SameDrops DEF DropsEndWorkers
<1>12. CardsAreScored'
  BY <1>2, <1>3, <1>5, <1>7 DEF ScanInv, CardsAreScored
<1>13. ProbesTell'
  <2>1. ASSUME NEW j \in Indices PROVE Tells(seen'[j], stage'[j], j \in answered')
    <3>1. Tells(seen[j], stage[j], j \in answered)
      BY DEF ScanInv, ProbesTell
    <3> QED BY <1>2, <1>3, <1>5, <1>7, <3>1 DEF Tells
  <2> QED BY <1>7, <2>1 DEF ProbesTell
<1>14. PassIsEarned'
  BY <1>2, ScanAssumption DEF PassIsEarned
<1> QED BY <1>8, <1>9, <1>10, <1>11, <1>12, <1>13, <1>14 DEF ScanInv

(* A worker that ends leaves the probes of the others alone. *)
LEMMA EndingKeepsTheRest ==
    ASSUME ScanInv, NEW w \in Workers, worker[w] = 0, exit = NONE,
           worker' = [worker EXCEPT ![w] = Ended], queue' \in Seq(Indices),
           UNCHANGED <<list, stage, child, seen, answered, results, exit>>
    PROVE  /\ Workers' = Workers /\ Indices' = Indices
           /\ EndedWorkers' = EndedWorkers \cup {w} /\ w \notin EndedWorkers
           /\ ScanTypes' /\ InHand' /\ CardsAreScored' /\ ProbesTell' /\ PassIsEarned'
<1>1. ScanTypes
  BY DEF ScanInv
<1>2. /\ Indices' = Indices /\ Workers' = Workers
      /\ \A v \in Workers : v # w => worker'[v] = worker[v]
      /\ worker'[w] = Ended
  BY <1>1 DEF ScanTypes, Workers, Indices
<1>3. ScanTypes'
  BY <1>1, <1>2 DEF ScanTypes
<1>4. InHand'
  <2>1. 0 \notin Indices
    BY <1>1 DEF ScanTypes, Indices
  <2> QED BY <1>2, <2>1 DEF ScanInv, InHand
<1>5. CardsAreScored' /\ ProbesTell'
  BY <1>2 DEF ScanInv, CardsAreScored, ProbesTell
<1>6. PassIsEarned'
  BY ScanAssumption DEF PassIsEarned
<1>7. EndedWorkers' = EndedWorkers \cup {w} /\ w \notin EndedWorkers
  BY <1>2 DEF EndedWorkers, Ended
<1> QED BY <1>2, <1>3, <1>4, <1>5, <1>6, <1>7

LEMMA BreakKeepsScanInv == ASSUME ScanInv, NEW w \in Workers, Break(w) PROVE ScanInv'
<1> DEFINE i == Head(queue)
<1>1. /\ queue # <<>> /\ worker[w] = 0 /\ exit = NONE /\ Drops(i)
      /\ worker' = [worker EXCEPT ![w] = Ended] /\ queue' = Tail(queue)
      /\ UNCHANGED <<list, stage, child, seen, answered, results, exit>>
  BY DEF Break, Takes, Running
<1>2. /\ i = Taken + 1 /\ i \in Indices /\ Taken \in Nat
      /\ Indices = 1..Len(list) /\ Len(list) \in Nat
      /\ queue' \in Seq(Indices) /\ Len(queue') <= Len(list)
      /\ Taken' = Taken + 1
      /\ \A k \in DOMAIN queue' : queue'[k] = Taken' + k
  BY <1>1, HeadIsNext DEF Taken
<1> HIDE DEF i
<1>3. /\ Workers' = Workers /\ Indices' = Indices
      /\ EndedWorkers' = EndedWorkers \cup {w} /\ w \notin EndedWorkers
      /\ ScanTypes' /\ InHand' /\ CardsAreScored' /\ ProbesTell' /\ PassIsEarned'
  BY <1>1, <1>2, EndingKeepsTheRest
<1>4. QueueIsTheRest'
  <2>1. ASSUME NEW j \in Indices PROVE stage'[j] = "queued" <=> j > Taken' \/ Drops(j)
    BY <1>1, <1>2 DEF ScanInv, QueueIsTheRest
  <2> QED BY <1>1, <1>2, <1>3, <2>1, SameDrops DEF QueueIsTheRest
<1>5. IsFiniteSet(Workers) /\ Cardinality(EndedWorkers) = Cardinality(DroppedBefore(Taken + 1))
  BY <1>1 DEF ScanInv, DropsEndWorkers
<1>6. Cardinality(EndedWorkers') = Cardinality(EndedWorkers) + 1
  <2>1. IsFiniteSet(EndedWorkers)
    BY <1>5, FS_Subset DEF EndedWorkers
  <2> QED BY <1>3, <2>1, FS_AddElement
<1>7. Cardinality(DroppedBefore(Taken' + 1)) = Cardinality(DroppedBefore(Taken + 1)) + 1
  <2>1. DroppedBefore(Taken' + 1) = DroppedBefore(Taken + 1) \cup {i}
    BY <1>1, <1>2, NextDropped
  <2>2. i \notin DroppedBefore(Taken + 1)
    BY <1>1, <1>2, NextDropped
  <2>3. IsFiniteSet(DroppedBefore(Taken + 1))
    BY <1>2, DroppedAreFinite
  <2> QED BY <2>1, <2>2, <2>3, FS_AddElement
<1>8. DropsEndWorkers'
  <2>1. \A j \in Indices : stage'[j] # "queued" => ~Lost(j)
    BY <1>1 DEF ScanInv, DropsEndWorkers
  <2> QED BY <1>1, <1>3, <1>5, <1>6, <1>7, <2>1, SameDrops DEF DropsEndWorkers
<1> QED BY <1>3, <1>4, <1>8 DEF ScanInv

LEMMA WorkerEndsKeepsScanInv ==
    ASSUME ScanInv, NEW w \in Workers, WorkerEnds(w)
    PROVE  ScanInv'
<1>1. /\ queue = <<>> /\ worker[w] = 0 /\ exit = NONE
      /\ worker' = [worker EXCEPT ![w] = Ended]
      /\ UNCHANGED <<list, queue, stage, child, seen, answered, results, exit>>
  BY DEF WorkerEnds, Running
<1>2. queue' \in Seq(Indices)
  BY <1>1 DEF ScanInv, ScanTypes
<1>3. /\ Workers' = Workers /\ Indices' = Indices
      /\ ScanTypes' /\ InHand' /\ CardsAreScored' /\ ProbesTell' /\ PassIsEarned'
  BY <1>1, <1>2, EndingKeepsTheRest
<1>4. QueueIsTheRest'
  BY <1>1, <1>3, SameDrops DEF ScanInv, QueueIsTheRest, Taken
<1>5. DropsEndWorkers'
  BY <1>1, <1>3, SameDrops DEF ScanInv, DropsEndWorkers
<1> QED BY <1>3, <1>4, <1>5 DEF ScanInv

LEMMA StoppedKeepsScanInv ==
    ASSUME ScanInv, NEW i \in Indices, NEW w \in Workers, Stopped(i, w), ~Crash
    PROVE  ScanInv'
<1>1. ScanTypes
  BY DEF ScanInv
<1>2. /\ stage[i] = "stopping" /\ worker[w] = i /\ exit = NONE
      /\ child' = [child EXCEPT ![i] = IF child[i] = "absent" THEN child[i] ELSE "gone"]
      /\ stage' = [stage EXCEPT ![i] = "scored"]
      /\ results' = Append(results, i)
      /\ worker' = [worker EXCEPT ![w] = 0]
      /\ UNCHANGED <<list, queue, seen, answered, exit>>
  BY DEF Stopped, Waits, Running
<1>3. /\ Indices' = Indices /\ Workers' = Workers /\ Taken' = Taken
      /\ \A v \in Workers : v # w => worker'[v] = worker[v]
      /\ worker'[w] = 0
      /\ \A j \in Indices : j # i => stage'[j] = stage[j]
      /\ stage'[i] = "scored"
  BY <1>1, <1>2 DEF ScanTypes, Workers, Indices, Taken
<1>4. /\ results' \in Seq(Indices)
      /\ DOMAIN results' = DOMAIN results \cup {Len(results) + 1}
      /\ \A n \in DOMAIN results : n # Len(results) + 1 /\ results'[n] = results[n]
      /\ results'[Len(results) + 1] = i
  BY <1>1, <1>2, AppendProperties DEF ScanTypes
<1>5. ScanTypes'
  <2>1. child' \in [Indices -> {"absent", "running", "exited", "gone"}]
    BY <1>1, <1>2 DEF ScanTypes
  <2>2. stage' \in [Indices -> ProbeStages]
    BY <1>1, <1>2 DEF ScanTypes, ProbeStages
  <2>3. worker' \in [Workers -> {0, Ended} \cup Indices]
    BY <1>1, <1>2 DEF ScanTypes
  <2> QED BY <1>1, <1>2, <1>3, <1>4, <2>1, <2>2, <2>3 DEF ScanTypes
<1>6. QueueIsTheRest'
  BY <1>2, <1>3, SameDrops DEF ScanInv, QueueIsTheRest
<1>7. InHand'
  <2>2. ASSUME NEW j \in Indices, stage'[j] \notin {"queued", "scored"}
        PROVE  \E v \in Workers : worker'[v] = j
    <3>1. j # i
      BY <1>3, <2>2
    <3>2. PICK v \in Workers : worker[v] = j
      BY <1>3, <2>2, <3>1 DEF ScanInv, InHand
    <3> QED BY <1>2, <1>3, <3>1, <3>2
  <2> QED BY <1>3, <2>2 DEF InHand
<1>8. CardsAreScored'
  <2>1. \A n \in DOMAIN results : results[n] # i
    BY <1>2 DEF ScanInv, CardsAreScored
  <2>2. ASSUME NEW j \in Indices
        PROVE  stage'[j] = "scored" <=> \E n \in DOMAIN results' : results'[n] = j
    <3>1. CASE j = i
      BY <1>3, <1>4, <3>1
    <3>2. CASE j # i
      <4>1. stage'[j] = stage[j]
        BY <1>3, <3>2
      <4>2. (\E n \in DOMAIN results' : results'[n] = j)
               <=> \E n \in DOMAIN results : results[n] = j
        BY <1>4, <3>2
      <4> QED BY <4>1, <4>2 DEF ScanInv, CardsAreScored
    <3> QED BY <3>1, <3>2
  <2>3. ASSUME NEW m \in DOMAIN results', NEW n \in DOMAIN results', results'[m] = results'[n]
        PROVE  m = n
    BY <1>4, <2>1, <2>3 DEF ScanInv, CardsAreScored
  <2> QED BY <1>3, <2>2, <2>3 DEF CardsAreScored
<1>9. ProbesTell'
  <2>1. ASSUME NEW j \in Indices PROVE Tells(seen'[j], stage'[j], j \in answered')
    <3>1. Tells(seen[j], stage[j], j \in answered)
      BY DEF ScanInv, ProbesTell
    <3> QED BY <1>2, <1>3, <3>1 DEF Tells
  <2> QED BY <1>3, <2>1 DEF ProbesTell
<1>10. PassIsEarned'
  BY <1>2, ScanAssumption DEF PassIsEarned
<1>11. DropsEndWorkers'
  <2>1. i # Ended /\ Ended # 0
    BY <1>1 DEF ScanTypes, Indices, Ended
  <2>2. EndedWorkers' = EndedWorkers
    BY <1>2, <1>3, <2>1 DEF EndedWorkers
  <2>3. \A j \in Indices : stage'[j] = "queued" <=> stage[j] = "queued"
    BY <1>2, <1>3
  <2> QED BY <1>2, <1>3, <2>2, <2>3, SameEnded
<1> QED BY <1>5, <1>6, <1>7, <1>8, <1>9, <1>10, <1>11 DEF ScanInv

LEMMA ChildExitsKeepsScanInv ==
    ASSUME ScanInv, NEW i \in Indices, ChildExits(i)
    PROVE  ScanInv'
<1>1. /\ exit = NONE /\ UNCHANGED <<list, pool, stage, seen, answered, results, exit>>
      /\ \E c \in {"exited", "gone"} : child' = [child EXCEPT ![i] = c]
  BY DEF ChildExits, Running
<1>2. ScanTypes'
  BY <1>1 DEF ScanInv, ScanTypes, Workers, Indices, pool
<1>3. Workers' = Workers /\ Indices' = Indices /\ EndedWorkers' = EndedWorkers
  BY <1>1 DEF Workers, Indices, EndedWorkers, pool
<1>4. QueueIsTheRest'
  BY <1>1, <1>3, SameDrops DEF ScanInv, QueueIsTheRest, Taken, pool
<1>5. InHand' /\ CardsAreScored' /\ ProbesTell'
  BY <1>1 DEF ScanInv, InHand, CardsAreScored, ProbesTell, Workers, Indices, pool
<1>6. DropsEndWorkers'
  BY <1>1, <1>3, SameEnded DEF pool
<1>7. PassIsEarned'
  BY <1>1, ScanAssumption DEF PassIsEarned
<1> QED BY <1>2, <1>4, <1>5, <1>6, <1>7 DEF ScanInv
-----------------------------------------------------------------------------
(* What a probe sees, and where it goes on. *)
LEMMA SeesKeepsScanInv ==
    ASSUME ScanInv, exit = NONE, NEW i \in Indices, stage[i] \notin {"queued", "scored"},
           NEW o \in Sightings, NEW s \in ProbeStages, s \notin {"queued", "scored"},
           Sees(i, o, s), Tells(o, s, i \in answered'),
           answered' \in {answered, answered \cup {i}}, UNCHANGED <<child, exit>>
    PROVE  ScanInv'
<1>1. child' \in [Indices -> {"absent", "running", "exited", "gone"}]
  BY DEF ScanInv, ScanTypes
<1> QED BY <1>1, ProbeKeepsScanInv DEF Sees

(* The probe of server i, which waits for s. *)
LEMMA WaitingTells ==
    ASSUME ScanInv, NEW i \in Indices, NEW s, Waits(i, s)
    PROVE  /\ exit = NONE /\ stage[i] = s
           /\ seen[i] \in Sightings /\ list[i] \in Servers
           /\ Tells(seen[i], s, i \in answered)
  BY DEF ScanInv, ScanTypes, ProbesTell, Waits, Running, Indices

LEMMA InstalledKeepsScanInv ==
    ASSUME ScanInv, NEW i \in Indices, Installed(i)
    PROVE  ScanInv'
<1>1. /\ exit = NONE /\ stage[i] = "installing"
      /\ seen[i] \in Sightings /\ list[i] \in Servers
      /\ Tells(seen[i], "installing", i \in answered)
  BY WaitingTells DEF Installed
<1>2. PICK p \in {list[i].package, "refused"} :
          Sees(i, [seen[i] EXCEPT !.package = p, !.hint = seen[i].hint /\ p # "refused"],
               IF p \in {"noBin", "refused"} THEN "stopping" ELSE "starting")
  BY DEF Installed
<1> DEFINE o == [seen[i] EXCEPT !.package = p, !.hint = seen[i].hint /\ p # "refused"]
           s == IF p \in {"noBin", "refused"} THEN "stopping" ELSE "starting"
<1>3. o \in Sightings
  <2> DEFINE h == seen[i].hint /\ p # "refused"
  <2>1. h \in BOOLEAN
    OBVIOUS
  <2> HIDE DEF h
  <2>2. p \in {v.package : v \in Servers} \cup {"refused"}
    BY <1>1
  <2>3. ASSUME NEW q \in Sightings PROVE [q EXCEPT !.package = p, !.hint = h] \in Sightings
    BY <2>1, <2>2 DEF Sightings
  <2> QED BY <1>1, <2>3 DEF h
<1>4. /\ o.handshake = seen[i].handshake /\ o.listing = seen[i].listing
      /\ o.tools = seen[i].tools
  BY <1>1 DEF Sightings
<1>5. UNCHANGED <<child, answered, exit>>
  BY DEF Installed
<1>6. Tells(o, s, i \in answered')
  <2>1. Tells(seen[i], "installing", i \in answered)
    BY <1>1
  <2> HIDE DEF o
  <2> QED BY <1>4, <1>5, <2>1 DEF Tells, Ok
<1> HIDE DEF o
<1> QED BY <1>1, <1>2, <1>3, <1>5, <1>6, SeesKeepsScanInv DEF ProbeStages, o

LEMMA StartChildKeepsScanInv ==
    ASSUME ScanInv, NEW i \in Indices, StartChild(i)
    PROVE  ScanInv'
<1>1. Waits(i, "starting")
  BY DEF StartChild
<1>2. exit = NONE /\ stage[i] = "starting" /\ Tells(seen[i], "starting", i \in answered)
      /\ seen[i] \in Sightings
  BY <1>1, WaitingTells
<1>3. CASE Crash
  BY <1>3, CrashKeepsScanInv
<1>4. CASE ~Crash
  <2>1. PICK c \in {"running", "gone"} : child' = [child EXCEPT ![i] = c]
    BY <1>4 DEF StartChild
  <2>2. /\ stage' = [stage EXCEPT ![i] = "initializing"]
        /\ UNCHANGED <<list, pool, seen, answered, results, exit>>
    BY <1>4 DEF StartChild
  <2>3. /\ child' \in [Indices -> {"absent", "running", "exited", "gone"}]
        /\ seen' = [seen EXCEPT ![i] = seen[i]]
    BY <2>1, <2>2 DEF ScanInv, ScanTypes
  <2>4. Tells(seen[i], "initializing", i \in answered')
    BY <1>2, <2>2 DEF Tells
  <2> QED BY <1>2, <2>2, <2>3, <2>4, ProbeKeepsScanInv DEF ProbeStages
<1> QED BY <1>3, <1>4

LEMMA InitializedKeepsScanInv ==
    ASSUME ScanInv, NEW i \in Indices, Initialized(i) \/ RemoteInitialized(i)
    PROVE  ScanInv'
<1>1. Waits(i, "initializing")
  BY DEF Initialized, RemoteInitialized
<1>2. /\ exit = NONE /\ stage[i] = "initializing"
      /\ seen[i] \in Sightings /\ list[i] \in Servers
      /\ Tells(seen[i], "initializing", i \in answered)
  BY <1>1, WaitingTells
<1>3. CASE Crash
  BY <1>3, CrashKeepsScanInv
<1>4. CASE ~Crash
  <2>1. PICK h \in {"quick", "slow", "slower"} :
            Sees(i, [seen[i] EXCEPT !.handshake = h, !.protocol = list[i].protocol], "listing")
    BY <1>4 DEF Initialized, RemoteInitialized, Crashes
  <2>2. answered' = answered \cup {i} /\ UNCHANGED <<child, exit>>
    BY <1>4 DEF Initialized, RemoteInitialized, Crashes
  <2> DEFINE o == [seen[i] EXCEPT !.handshake = h, !.protocol = list[i].protocol]
  <2>3. o \in Sightings
    BY <1>2 DEF Sightings
  <2>4. o.handshake = h /\ o.listing = seen[i].listing /\ o.tools = seen[i].tools
    BY <1>2 DEF Sightings
  <2> HIDE DEF o
  <2>5. Tells(o, "listing", i \in answered')
    BY <1>2, <2>2, <2>4 DEF Tells, Ok
  <2> QED BY <1>2, <2>1, <2>2, <2>3, <2>5, SeesKeepsScanInv DEF ProbeStages, o
<1> QED BY <1>3, <1>4

LEMMA HandshakeFailsKeepsScanInv ==
    ASSUME ScanInv, NEW i \in Indices, HandshakeFails(i)
    PROVE  ScanInv'
<1>1. Waits(i, "initializing") /\ UNCHANGED <<child, answered, exit>>
  BY DEF HandshakeFails
<1>2. /\ exit = NONE /\ stage[i] = "initializing" /\ seen[i] \in Sightings
      /\ Tells(seen[i], "initializing", i \in answered)
  BY <1>1, WaitingTells
<1>3. PICK h \in {"failed", "needsConfig"} :
          Sees(i, [seen[i] EXCEPT !.handshake = h], "stopping")
  BY DEF HandshakeFails
<1> DEFINE o == [seen[i] EXCEPT !.handshake = h]
<1>4. /\ o \in Sightings /\ o.handshake = h /\ o.listing = seen[i].listing
      /\ o.tools = seen[i].tools
  BY <1>2 DEF Sightings
<1> HIDE DEF o
<1>5. Tells(o, "stopping", i \in answered')
  BY <1>1, <1>2, <1>4 DEF Tells, Ok
<1> QED BY <1>1, <1>2, <1>3, <1>4, <1>5, SeesKeepsScanInv DEF ProbeStages, o

(* tools/list, answered or not. *)
LEMMA ListingKeepsScanInv ==
    ASSUME ScanInv, NEW i \in Indices,
           \/ Listed(i) \/ ListFails(i) \/ RemoteListed(i) \/ RemoteListFails(i)
    PROVE  ScanInv'
<1>1. Waits(i, "listing")
  BY DEF Listed, ListFails, RemoteListed, RemoteListFails
<1>2. /\ exit = NONE /\ stage[i] = "listing" /\ seen[i] \in Sightings /\ list[i] \in Servers
      /\ Tells(seen[i], "listing", i \in answered)
  BY <1>1, WaitingTells
<1>3. CASE Crash
  BY <1>3, CrashKeepsScanInv
<1>4. ASSUME NEW o \in Sightings, NEW s \in {"pinging", "stopping"},
             Sees(i, o, s), UNCHANGED <<child, answered, exit>>,
             o.listing # "listed" => o.tools = seen[i].tools /\ o.listing = "failed",
             o.handshake # seen[i].handshake => o.handshake = "broken" /\ s = "stopping"
      PROVE  ScanInv'
  <2>1. Tells(o, s, i \in answered')
    BY <1>2, <1>4 DEF Tells, Ok
  <2> QED BY <1>2, <1>4, <2>1, SeesKeepsScanInv DEF ProbeStages
<1>5. CASE ~Crash /\ Listed(i)
  <2> DEFINE o == [seen[i] EXCEPT !.listing = "listed", !.tools = list[i].tools]
  <2>1. Sees(i, o, "pinging") /\ UNCHANGED <<child, answered, exit>>
    BY <1>5 DEF Listed, Crashes
  <2>2. o \in Sightings /\ o.listing = "listed" /\ o.handshake = seen[i].handshake
    BY <1>2 DEF Sightings
  <2> HIDE DEF o
  <2> QED BY <1>4, <2>1, <2>2
<1>6. CASE ~Crash /\ ListFails(i)
  <2> DEFINE o == [seen[i] EXCEPT !.listing = "failed"]
  <2>1. Sees(i, o, "pinging") /\ UNCHANGED <<child, answered, exit>>
    BY <1>6 DEF ListFails, Crashes
  <2>2. /\ o \in Sightings /\ o.listing = "failed" /\ o.handshake = seen[i].handshake
        /\ o.tools = seen[i].tools
    BY <1>2 DEF Sightings
  <2> HIDE DEF o
  <2> QED BY <1>4, <2>1, <2>2
<1>7. CASE RemoteListed(i)
  <2>1. PICK p \in {"quick", "slow", "failing"} :
            Sees(i, [seen[i] EXCEPT !.listing = "listed", !.tools = list[i].tools, !.pings = p,
                        !.handshake = IF Raises(i) THEN "broken" ELSE seen[i].handshake],
                 "stopping")
    BY <1>7 DEF RemoteListed
  <2> DEFINE h == IF Raises(i) THEN "broken" ELSE seen[i].handshake
             o == [seen[i] EXCEPT !.listing = "listed", !.tools = list[i].tools, !.pings = p,
                                  !.handshake = h]
  <2>2. h \in {"broken", seen[i].handshake}
    OBVIOUS
  <2>3. Sees(i, o, "stopping") /\ UNCHANGED <<child, answered, exit>>
    BY <1>7, <2>1 DEF RemoteListed
  <2> HIDE DEF h
  <2>4. o \in Sightings /\ o.listing = "listed" /\ o.handshake = h
    BY <1>2, <2>2 DEF Sightings
  <2> HIDE DEF o
  <2> QED BY <1>4, <2>2, <2>3, <2>4
<1>8. CASE RemoteListFails(i)
  <2>1. PICK p \in {"quick", "slow", "failing"} :
            Sees(i, [seen[i] EXCEPT !.listing = "failed", !.pings = p], "stopping")
    BY <1>8 DEF RemoteListFails
  <2> DEFINE o == [seen[i] EXCEPT !.listing = "failed", !.pings = p]
  <2>2. Sees(i, o, "stopping") /\ UNCHANGED <<child, answered, exit>>
    BY <1>8, <2>1 DEF RemoteListFails
  <2>3. /\ o \in Sightings /\ o.listing = "failed" /\ o.handshake = seen[i].handshake
        /\ o.tools = seen[i].tools
    BY <1>2 DEF Sightings
  <2> HIDE DEF o
  <2> QED BY <1>4, <2>2, <2>3
<1> QED BY <1>3, <1>5, <1>6, <1>7, <1>8

LEMMA PingsKeepScanInv ==
    ASSUME ScanInv, NEW i \in Indices, Pinged(i) \/ PingsFail(i)
    PROVE  ScanInv'
<1>1. Waits(i, "pinging") /\ UNCHANGED <<child, answered, exit>>
  BY DEF Pinged, PingsFail
<1>2. /\ exit = NONE /\ stage[i] = "pinging" /\ seen[i] \in Sightings
      /\ Tells(seen[i], "pinging", i \in answered)
  BY <1>1, WaitingTells
<1>3. PICK p \in {"quick", "slow", "failing"} : Sees(i, [seen[i] EXCEPT !.pings = p], "stopping")
  BY DEF Pinged, PingsFail
<1> DEFINE o == [seen[i] EXCEPT !.pings = p]
<1>4. /\ o \in Sightings /\ o.handshake = seen[i].handshake /\ o.listing = seen[i].listing
      /\ o.tools = seen[i].tools
  BY <1>2 DEF Sightings
<1> HIDE DEF o
<1>5. Tells(o, "stopping", i \in answered')
  BY <1>1, <1>2, <1>4 DEF Tells, Ok
<1> QED BY <1>1, <1>2, <1>3, <1>4, <1>5, SeesKeepsScanInv DEF ProbeStages, o
-----------------------------------------------------------------------------
LEMMA InitScanInv == ScanInit => ScanInv
<1> SUFFICES ASSUME ScanInit PROVE ScanInv
  OBVIOUS
<1>1. PICK n \in 1..MaxWorkers : worker = [w \in 1..n |-> 0]
  BY DEF ScanInit
<1>2. /\ list \in Seq(Servers) /\ Len(list) \in Nat /\ Indices = 1..Len(list)
      /\ \A i \in Indices : list[i] \in Servers
  BY ScanAssumption DEF ScanInit, Indices
<1>3. queue \in Seq(Indices) /\ Len(queue) = Len(list) /\ DOMAIN queue = Indices
  BY <1>2 DEF ScanInit, Indices
<1>4. \A i \in Indices : seen[i] = Blank(list[i]) /\ stage[i] = "queued" /\ queue[i] = i
  BY <1>2 DEF ScanInit, Indices
<1>5. \A i \in Indices : Blank(list[i]) \in Sightings
  BY <1>2, ScanAssumption DEF Blank, Sightings
<1>6. ScanTypes
  <2>1. Workers = 1..n /\ Workers # {} /\ worker \in [Workers -> {0, Ended} \cup Indices]
    BY <1>1, ScanAssumption DEF Workers
  <2>2. stage \in [Indices -> ProbeStages] /\ seen \in [Indices -> Sightings]
    BY <1>4, <1>5 DEF ScanInit, Indices, ProbeStages
  <2> QED BY <1>2, <1>3, <2>1, <2>2 DEF ScanInit, ScanTypes, Indices
<1>7. QueueIsTheRest
  BY <1>2, <1>3, <1>4 DEF QueueIsTheRest, Taken
<1>8. InHand
  BY <1>1, <1>4 DEF InHand, Workers, Ended
<1>9. CardsAreScored
  <2>1. DOMAIN results = {}
    BY DEF ScanInit
  <2> QED BY <1>4, <2>1 DEF CardsAreScored
<1>10. ProbesTell
  <2>1. ASSUME NEW s
        PROVE  /\ Blank(s).handshake = "skipped" /\ Blank(s).listing = "unasked"
               /\ Blank(s).tools = NoTools
    BY DEF Blank
  <2> QED BY <1>4, <2>1 DEF ProbesTell, Tells, Ok
<1>11. PassIsEarned
  BY ScanAssumption DEF ScanInit, PassIsEarned
<1>12. DropsEndWorkers
  <2>1. Workers = 1..n /\ n \in Nat
    BY <1>1, ScanAssumption DEF Workers
  <2>2. IsFiniteSet(Workers)
    BY <2>1, FS_Interval
  <2>3. EndedWorkers = {}
    BY <1>1 DEF EndedWorkers, Workers, Ended
  <2>4. DroppedBefore(Taken + 1) = {}
    BY <1>2, <1>3 DEF DroppedBefore, Taken
  <2> QED BY <1>4, <2>2, <2>3, <2>4 DEF DropsEndWorkers
<1> QED BY <1>6, <1>7, <1>8, <1>9, <1>10, <1>11, <1>12 DEF ScanInv

LEMMA StutterKeepsScanInv == ASSUME ScanInv, UNCHANGED scanVars PROVE ScanInv'
<1>1. Workers' = Workers /\ Indices' = Indices /\ EndedWorkers' = EndedWorkers
  BY DEF scanVars, Workers, Indices, EndedWorkers
<1>2. DropsEndWorkers' /\ QueueIsTheRest'
  BY <1>1, SameEnded, SameDrops DEF ScanInv, QueueIsTheRest, Taken, scanVars
<1>3. ScanTypes' /\ InHand' /\ CardsAreScored' /\ ProbesTell' /\ PassIsEarned'
  BY DEF ScanInv, ScanTypes, InHand, CardsAreScored, ProbesTell, PassIsEarned, CardOf,
         Workers, Indices, scanVars
<1> QED BY <1>2, <1>3 DEF ScanInv

LEMMA NextScanInv == ScanInv /\ [ScanNext]_scanVars => ScanInv'
<1> SUFFICES ASSUME ScanInv, [ScanNext]_scanVars PROVE ScanInv'
  OBVIOUS
<1>1. ASSUME NEW w \in Workers, Works(w) PROVE ScanInv'
  BY <1>1, TakeKeepsScanInv, CrashKeepsScanInv, BreakKeepsScanInv, WorkerEndsKeepsScanInv
     DEF Works
<1>2. ASSUME NEW i \in Indices, Progresses(i) PROVE ScanInv'
  BY <1>2, InitializedKeepsScanInv, ListingKeepsScanInv, PingsKeepScanInv DEF Progresses
<1>3. ASSUME NEW i \in Indices, Goes(i) PROVE ScanInv'
  BY <1>3, InstalledKeepsScanInv, StartChildKeepsScanInv, HandshakeFailsKeepsScanInv,
     ListingKeepsScanInv, PingsKeepScanInv, StoppedKeepsScanInv, CrashKeepsScanInv
     DEF Goes, GivesUp
<1>4. ASSUME NEW i \in Indices, ChildExits(i) \/ PingCrashes(i) PROVE ScanInv'
  BY <1>4, ChildExitsKeepsScanInv, CrashKeepsScanInv DEF PingCrashes, Crashes
<1>5. CASE Report
  BY <1>5, ReportKeepsScanInv
<1>6. CASE UNCHANGED scanVars
  BY <1>6, StutterKeepsScanInv
<1> QED BY <1>1, <1>2, <1>3, <1>4, <1>5, <1>6 DEF ScanNext

LEMMA ScanInvariance == ScanSpec => []ScanInv
  BY InitScanInv, NextScanInv, PTL DEF ScanSpec

(* When all workers have ended, every server that is not lost has its card. *)
LEMMA EndedIsScored ==
    ASSUME ScanInv, \A w \in Workers : worker[w] = Ended, NEW i \in Indices, ~Lost(i)
    PROVE  stage[i] = "scored"
<1>1. ScanTypes
  BY DEF ScanInv
<1>2. Len(list) \in Nat /\ Indices = 1..Len(list) /\ ~Drops(i)
  BY <1>1 DEF ScanTypes, Indices, Lost
<1>3. SUFFICES ASSUME stage[i] # "scored" PROVE FALSE
  OBVIOUS
<1>4. stage[i] = "queued"
  <2>1. SUFFICES ASSUME stage[i] # "queued" PROVE FALSE
    OBVIOUS
  <2>2. PICK w \in Workers : worker[w] = i
    BY <1>3, <2>1 DEF ScanInv, InHand
  <2> QED BY <1>2, <2>2 DEF Ended
<1>5. i > Taken
  BY <1>2, <1>4 DEF ScanInv, QueueIsTheRest
<1>6. queue # <<>>
  BY <1>2, <1>5 DEF Taken
<1>7. Taken \in Nat
  BY <1>6, HeadIsNext
<1>8. /\ IsFiniteSet(DroppedBefore(i)) /\ DroppedBefore(Taken + 1) \subseteq DroppedBefore(i)
  <2>1. i \in Nat /\ Taken + 1 \in Nat /\ Taken + 1 <= i
    BY <1>2, <1>5, <1>7
  <2> QED BY <2>1, DroppedAreFinite, DroppedGrow
<1>9. /\ Cardinality(DroppedBefore(Taken + 1)) <= Cardinality(DroppedBefore(i))
      /\ Cardinality(DroppedBefore(i)) \in Nat
  BY <1>8, FS_Subset, FS_CardinalityType
<1>10. Cardinality(Workers) = Cardinality(DroppedBefore(Taken + 1))
  <2>1. EndedWorkers = Workers
    BY DEF EndedWorkers
  <2> QED BY <1>6, <2>1 DEF ScanInv, DropsEndWorkers
<1> QED BY <1>9, <1>10 DEF Lost

-----------------------------------------------------------------------------
(* The scan's types. *)
THEOREM ScanTyped == ScanSpec => []ScanTypes
<1>1. ScanInv => ScanTypes
  BY DEF ScanInv
<1> QED BY <1>1, ScanInvariance, PTL

(* For any list and any number of workers, CI goes on only if every server   *)
(* answered initialize, but for the entries that are lost.                   *)
THEOREM ScanPassAnswered == ScanSpec => []PassAnswered
<1>1. ASSUME ScanInv PROVE PassAnswered
  <2>1. SUFFICES ASSUME exit = 0, NEW i \in Indices, ~Lost(i) PROVE i \in answered
    BY <1>1 DEF PassAnswered, ScanInv, ScanTypes
  <2>2. \A n \in DOMAIN results : Score(CardOf(results[n])) >= 50
    BY <1>1, <2>1 DEF ScanInv, PassIsEarned
  <2>3. stage[i] = "scored"
    BY <1>1, <2>1, EndedIsScored DEF ScanInv, PassIsEarned
  <2>4. Score(Card(seen[i])) >= 50
    BY <1>1, <2>2, <2>3 DEF ScanInv, CardsAreScored, CardOf
  <2>5. seen[i] \in Sightings /\ Tells(seen[i], stage[i], i \in answered)
    BY <1>1 DEF ScanInv, ScanTypes, ProbesTell
  <2>6. CASE Ok(seen[i]) \/ seen[i].handshake = "broken"
    BY <2>5, <2>6 DEF Tells
  <2>7. CASE ~Ok(seen[i]) /\ seen[i].handshake # "broken"
    <3>1. seen[i].tools = NoTools
      BY <2>5, <2>7 DEF Tells
    <3>2. Score(Card(seen[i])) < 50
      BY <2>5, <2>7, <3>1, Unanswered
    <3>3. Score(Card(seen[i])) \in Nat
      BY PointsAreNat DEF Score, Card
    <3> QED BY <2>4, <3>2, <3>3
  <2> QED BY <2>6, <2>7
<1> QED BY <1>1, ScanInvariance, PTL

(* Of any server whose list is analysed without an exception, a probe that   *)
(* lists its tools scores no less than the same probe with tools/list        *)
(* failing.                                                                  *)
THEOREM ScanHidingNeverPays == ScanSpec => []HidingNeverPays
<1>1. ASSUME ScanInv PROVE HidingNeverPays
  <2>1. SUFFICES ASSUME NEW i \in Indices, seen[i].listing = "failed"
                 PROVE  Score(CardOf(i)) <=
                           Score(Card([seen[i] EXCEPT !.listing = "listed",
                                                      !.tools = list[i].tools]))
    BY DEF HidingNeverPays
  <2>2. seen[i] \in Sightings /\ seen[i].tools = NoTools
    BY <1>1, <2>1 DEF ScanInv, ScanTypes, ProbesTell, Tells
  <2> QED BY <2>2, ListingPays DEF CardOf
<1> QED BY <1>1, ScanInvariance, PTL

(* A scan whose workers have all ended has one card of each entry of its     *)
(* list that is not lost and none of the others, whatever the list and       *)
(* however many workers shared it.                                           *)
THEOREM ScanCardsAreTheList == ScanSpec => []CardsAreTheList
<1>1. ASSUME ScanInv, \A w \in Workers : worker[w] = Ended, NEW i \in Indices
      PROVE  (\E n \in DOMAIN results : results[n] = i) <=> ~Lost(i)
  <2>1. (\E n \in DOMAIN results : results[n] = i) <=> stage[i] = "scored"
    BY <1>1 DEF ScanInv, CardsAreScored
  <2>2. stage[i] = "scored" => ~Lost(i)
    BY <1>1 DEF ScanInv, DropsEndWorkers
  <2> QED BY <1>1, <2>1, <2>2, EndedIsScored
<1>2. ScanInv => CardsAreTheList
  BY <1>1 DEF CardsAreTheList, ScanInv, CardsAreScored
<1> QED BY <1>2, ScanInvariance, PTL

-----------------------------------------------------------------------------
(* The replay.                                                               *)

(* A set of numbers that is not empty has a least one. *)
LEMMA LeastNat ==
    ASSUME NEW T \in SUBSET Nat, T # {}
    PROVE  \E n \in T : \A m \in T : n <= m
<1> DEFINE R == OpToRel(<, Nat)
<1>1. \A m, n \in Nat : m < n => <<m, n>> \in R
  BY DEF OpToRel
<1>2. PICK n \in T : \A m \in T : <<m, n>> \notin R
  <2> HIDE DEF R
  <2>1. IsWellFoundedOn(R, Nat)
    BY NatLessThanWellFounded DEF R
  <2> QED BY <2>1, WFMin
<1> HIDE DEF R
<1>3. \A m \in T : m \in Nat /\ n \in Nat /\ ~(m < n)
  BY <1>1, <1>2
<1> QED BY <1>3

(* No element comes twice, in one of the sequences or in two of them. *)
Apart(seqs) ==
    \A a, b \in DOMAIN seqs : \A i \in DOMAIN seqs[a], j \in DOMAIN seqs[b] :
        seqs[a][i] = seqs[b][j] => a = b /\ i = j

Distinct(s) == \A i, j \in DOMAIN s : s[i] = s[j] => i = j

(* The elements of s are of the first n sequences. *)
Among(s, seqs, n) ==
    \A k \in DOMAIN s : \E a \in 1..n : \E j \in DOMAIN seqs[a] : s[k] = seqs[a][j]

Flattening(seqs, n, f) ==
    f = [i \in 1..n |-> IF i = 1 THEN seqs[i] ELSE f[i - 1] \o seqs[i]]

LEMMA FlatteningExists ==
    ASSUME NEW seqs, NEW m \in Nat
    PROVE  \E f : Flattening(seqs, m, f)
<1> DEFINE Bad == {k \in Nat : ~ \E f : Flattening(seqs, k, f)}
<1>1. SUFFICES ASSUME Bad # {} PROVE FALSE
  OBVIOUS
<1>2. PICK n \in Bad : \A k \in Bad : n <= k
  <2>1. Bad \in SUBSET Nat
    OBVIOUS
  <2> HIDE DEF Bad
  <2> QED BY <1>1, <2>1, LeastNat
<1>3. n \in Nat /\ ~ \E f : Flattening(seqs, n, f)
  OBVIOUS
<1>4. n # 0
  <2> DEFINE f == [i \in 1..0 |-> <<>>]
  <2>1. \A i \in 1..0 : FALSE
    OBVIOUS
  <2>2. f = [i \in 1..0 |-> IF i = 1 THEN seqs[i] ELSE f[i - 1] \o seqs[i]]
    BY <2>1
  <2>3. Flattening(seqs, 0, f)
    BY <2>2 DEF Flattening
  <2> QED BY <1>3, <2>3
<1>5. n - 1 \in Nat /\ n - 1 < n
  BY <1>3, <1>4
<1>6. PICK f : Flattening(seqs, n - 1, f)
  <2>1. n - 1 \notin Bad
    BY <1>2, <1>5
  <2> QED BY <1>5, <2>1
<1> DEFINE last == IF n = 1 THEN seqs[n] ELSE f[n - 1] \o seqs[n]
           g == [i \in 1..n |-> IF i = n THEN last ELSE f[i]]
<1>7. \A i \in 1..n : g[i] = IF i = 1 THEN seqs[i] ELSE g[i - 1] \o seqs[i]
  <2>1. \A i \in 1..(n - 1) : f[i] = IF i = 1 THEN seqs[i] ELSE f[i - 1] \o seqs[i]
    BY <1>6 DEF Flattening
  <2>2. \A i \in 1..n : i = n \/ i \in 1..(n - 1)
    BY <1>3
  <2>3. \A i \in 1..(n - 1) : g[i] = f[i] /\ i \in 1..n /\ i # n
    BY <1>3
  <2>4. \A i \in 1..n : i # 1 => i - 1 \in 1..(n - 1)
    BY <1>3
  <2>5. g[n] = last
    BY <1>3, <1>4
  <2> HIDE DEF g
  <2> SUFFICES ASSUME NEW i \in 1..n
               PROVE  g[i] = IF i = 1 THEN seqs[i] ELSE g[i - 1] \o seqs[i]
    OBVIOUS
  <2>6. CASE i = n
    BY <2>3, <2>4, <2>5, <2>6
  <2>7. CASE i # n
    <3>1. i \in 1..(n - 1) /\ g[i] = f[i]
      BY <2>2, <2>3, <2>7
    <3>2. i # 1 => g[i - 1] = f[i - 1]
      BY <2>3, <2>4
    <3> QED BY <2>1, <3>1, <3>2
  <2> QED BY <2>6, <2>7
<1>8. g = [i \in 1..n |-> IF i = 1 THEN seqs[i] ELSE g[i - 1] \o seqs[i]]
  BY <1>7, Zenon
<1> QED BY <1>3, <1>8 DEF Flattening

LEMMA JoinedApart ==
    ASSUME NEW S, NEW seqs \in Seq(Seq(S)), Apart(seqs), NEW k \in 2..Len(seqs),
           NEW s \in Seq(S), Distinct(s), Among(s, seqs, k - 1)
    PROVE  LET t == s \o seqs[k] IN t \in Seq(S) /\ Distinct(t) /\ Among(t, seqs, k)
<1> DEFINE u == seqs[k]
           t == s \o u
           a == Len(s)
           b == Len(u)
<1>1. /\ k \in 1..Len(seqs) /\ DOMAIN seqs = 1..Len(seqs) /\ k \in Nat /\ Len(seqs) \in Nat
      /\ \A i \in 1..(k - 1) : i \in 1..Len(seqs) /\ i # k /\ i \in 1..k
      /\ k \in 1..k
  BY LenProperties
<1>2. u \in Seq(S)
  BY <1>1, ElementOfSeq
<1>3. a \in Nat /\ b \in Nat /\ DOMAIN s = 1..a /\ DOMAIN u = 1..b
  BY <1>2, LenProperties
<1>4. /\ t \in Seq(S) /\ DOMAIN t = 1..(a + b)
      /\ \A i \in 1..(a + b) : t[i] = IF i <= a THEN s[i] ELSE u[i - a]
  <2>1. t \in Seq(S) /\ Len(t) = a + b
    BY <1>2, ConcatProperties
  <2>2. \A i \in 1..(a + b) : t[i] = IF i <= a THEN s[i] ELSE u[i - a]
    BY <1>2, ConcatProperties
  <2> QED BY <2>1, <2>2, LenProperties
<1>5. \A i \in 1..a, j \in 1..b : s[i] # u[j]
  <2> SUFFICES ASSUME NEW i \in 1..a, NEW j \in 1..b, s[i] = u[j] PROVE FALSE
    OBVIOUS
  <2>1. PICK c \in 1..(k - 1) : \E l \in DOMAIN seqs[c] : s[i] = seqs[c][l]
    BY <1>3 DEF Among
  <2>2. PICK l \in DOMAIN seqs[c] : s[i] = seqs[c][l]
    BY <2>1
  <2>3. c \in DOMAIN seqs /\ k \in DOMAIN seqs /\ c # k /\ j \in DOMAIN seqs[k]
    BY <1>1, <1>3
  <2> QED BY <2>2, <2>3 DEF Apart
<1>6. \A i, j \in 1..b : u[i] = u[j] => i = j
  BY <1>1, <1>3 DEF Apart
<1>7. \A i, j \in 1..a : s[i] = s[j] => i = j
  BY <1>3 DEF Distinct
<1> HIDE DEF t, u, a, b
<1>8. \A i \in 1..(a + b) : \/ i \in 1..a /\ t[i] = s[i]
                            \/ i > a /\ i - a \in 1..b /\ t[i] = u[i - a]
  BY <1>3, <1>4
<1>9. Distinct(t)
  <2> SUFFICES ASSUME NEW i \in 1..(a + b), NEW j \in 1..(a + b), t[i] = t[j] PROVE i = j
    BY <1>4 DEF Distinct
  <2>1. CASE i \in 1..a /\ t[i] = s[i]
    BY <1>5, <1>7, <1>8, <2>1
  <2>2. CASE i > a /\ i - a \in 1..b /\ t[i] = u[i - a]
    <3>1. j > a /\ j - a \in 1..b /\ t[j] = u[j - a]
      BY <1>5, <1>8, <2>2
    <3>2. i - a = j - a
      BY <1>6, <2>2, <3>1
    <3> QED BY <1>3, <3>2
  <2> QED BY <1>8, <2>1, <2>2
<1>10. Among(t, seqs, k)
  <2> SUFFICES ASSUME NEW i \in 1..(a + b)
               PROVE  \E c \in 1..k : \E j \in DOMAIN seqs[c] : t[i] = seqs[c][j]
    BY <1>4 DEF Among
  <2>1. CASE i \in 1..a /\ t[i] = s[i]
    <3>1. PICK c \in 1..(k - 1) : \E j \in DOMAIN seqs[c] : s[i] = seqs[c][j]
      BY <1>3, <2>1 DEF Among
    <3>2. c \in 1..k
      BY <1>1
    <3> QED BY <2>1, <3>1, <3>2
  <2>2. CASE i - a \in 1..b /\ t[i] = u[i - a]
    BY <1>1, <1>3, <2>2 DEF u
  <2> QED BY <1>8, <2>1, <2>2
<1> QED BY <1>4, <1>9, <1>10 DEF t, u

(* Flattening sequences whose elements are all distinct. *)
LEMMA FlattenedApart ==
    ASSUME NEW S, NEW seqs \in Seq(Seq(S)), Apart(seqs)
    PROVE  /\ FlattenSeq(seqs) \in Seq(S)
           /\ Distinct(FlattenSeq(seqs))
           /\ Among(FlattenSeq(seqs), seqs, Len(seqs))
<1> DEFINE N == Len(seqs)
<1>1. N \in Nat /\ DOMAIN seqs = 1..N
  BY LenProperties
<1>2. CASE N = 0
  <2>1. FlattenSeq(seqs) = seqs
    BY <1>2 DEF FlattenSeq
  <2>2. seqs = <<>>
    BY <1>2, EmptySeq
  <2>3. DOMAIN seqs = {}
    BY <1>1, <1>2
  <2>4. seqs \in Seq(S)
    BY <2>2, EmptySeq
  <2> QED BY <2>1, <2>3, <2>4 DEF Distinct, Among
<1>3. CASE N # 0
  <2> DEFINE f == CHOOSE f : Flattening(seqs, N, f)
  <2>1. Flattening(seqs, N, f)
    BY <1>1, FlatteningExists
  <2>2. FlattenSeq(seqs) = f[N]
    BY <1>3 DEF FlattenSeq, Flattening
  <2> HIDE DEF f
  <2>3. \A i \in 1..N : f[i] = IF i = 1 THEN seqs[i] ELSE f[i - 1] \o seqs[i]
    BY <2>1 DEF Flattening
  <2> DEFINE Good(i) == f[i] \in Seq(S) /\ Distinct(f[i]) /\ Among(f[i], seqs, i)
             Bad == {i \in 1..N : ~Good(i)}
  <2>4. SUFFICES Bad = {}
    <3>1. N \in 1..N
      BY <1>1, <1>3
    <3> QED BY <2>2, <2>4, <3>1
  <2>5. SUFFICES ASSUME Bad # {} PROVE FALSE
    OBVIOUS
  <2>6. PICK k \in Bad : \A i \in Bad : k <= i
    <3>1. Bad \in SUBSET Nat
      OBVIOUS
    <3> HIDE DEF Bad
    <3> QED BY <2>5, <3>1, LeastNat
  <2>7. k \in 1..N /\ ~Good(k)
    OBVIOUS
  <2>8. k # 1
    <3> SUFFICES ASSUME k = 1 PROVE Good(1)
      BY <2>7
    <3>1. f[1] = seqs[1] /\ 1 \in 1..N
      BY <2>3, <2>7
    <3>2. seqs[1] \in Seq(S)
      BY <3>1, ElementOfSeq
    <3> HIDE DEF Bad, N
    <3>3. 1 \in DOMAIN seqs /\ 1 \in 1..1
      BY <1>1, <3>1
    <3>4. Distinct(seqs[1])
      BY <3>3 DEF Distinct, Apart
    <3>5. Among(seqs[1], seqs, 1)
      BY <3>3 DEF Among
    <3> QED BY <3>1, <3>2, <3>4, <3>5
  <2>9. k \in 2..N /\ k - 1 \in 1..N /\ k - 1 < k /\ f[k] = f[k - 1] \o seqs[k]
    <3>1. k \in 1..N /\ k # 1
      BY <2>7, <2>8
    <3>2. f[k] = f[k - 1] \o seqs[k]
      BY <2>3, <3>1, Zenon
    <3> HIDE DEF N, Bad
    <3>3. k \in 2..N /\ k - 1 \in 1..N /\ k - 1 < k
      BY <1>1, <3>1
    <3> QED BY <3>2, <3>3
  <2>10. Good(k - 1)
    <3>1. k - 1 \notin Bad
      BY <1>1, <2>6, <2>7, <2>9
    <3> QED BY <2>9, <3>1
  <2>11. Good(k)
    <3> HIDE DEF Bad
    <3> QED BY <2>9, <2>10, JoinedApart
  <2> QED BY <2>7, <2>11
<1> QED BY <1>2, <1>3

-----------------------------------------------------------------------------
(* The probes of a list of tools are of its tools, and no two are the same. *)
ProbeNames == {"valid", "boundary", "malformed_missing_required", "malformed_wrong_type",
               "long_string", "unicode", "path_like", "url_like", "prompt_injection",
               "secret_canary", "number_boundary"}

ProbeSet(l) == [tool : {t.name : t \in Range(l)}, type : ProbeNames, index : Nat]

LEMMA IfIsSeq == ASSUME NEW S, NEW c, NEW s \in Seq(S) PROVE If(c, s) \in Seq(S)
  BY EmptySeq DEF If

LEMMA TuplesAreSeq ==
    ASSUME NEW S, NEW a \in S, NEW b \in S, NEW c \in S, NEW d \in S, NEW e \in S
    PROVE  <<a>> \in Seq(S) /\ <<a, b>> \in Seq(S) /\ <<a, b, c, d, e>> \in Seq(S)
  OBVIOUS

LEMMA ProbeTypesAreSeq == ASSUME NEW t PROVE ProbeTypes(t) \in Seq(ProbeNames)
<1> DEFINE first == <<"valid", "boundary">>
           missing == If(\E f \in t.fields : f.required, <<"malformed_missing_required">>)
           wrong == If(t.fields # {}, <<"malformed_wrong_type">>)
           five == <<"long_string", "unicode", "path_like", "url_like", "prompt_injection">>
           secret == If(\E f \in t.fields : f.hasSecretText, <<"secret_canary">>)
           strings == If(Strings(t) # {}, five \o secret)
           number == If(\E f \in t.fields : f.type = "number", <<"number_boundary">>)
<1>0. /\ "valid" \in ProbeNames
      /\ "boundary" \in ProbeNames
      /\ "malformed_missing_required" \in ProbeNames
      /\ "malformed_wrong_type" \in ProbeNames
      /\ "long_string" \in ProbeNames
      /\ "unicode" \in ProbeNames
      /\ "path_like" \in ProbeNames
      /\ "url_like" \in ProbeNames
      /\ "prompt_injection" \in ProbeNames
      /\ "secret_canary" \in ProbeNames
      /\ "number_boundary" \in ProbeNames
  BY DEF ProbeNames
<1>1. /\ \A x \in ProbeNames : <<x>> \in Seq(ProbeNames)
      /\ \A x, y \in ProbeNames : <<x, y>> \in Seq(ProbeNames)
      /\ \A x, y, z, u, v \in ProbeNames : <<x, y, z, u, v>> \in Seq(ProbeNames)
  BY TuplesAreSeq
<1>2. first \in Seq(ProbeNames) /\ five \in Seq(ProbeNames)
  BY <1>0, <1>1
<1>3. missing \in Seq(ProbeNames)
  <2>1. <<"malformed_missing_required">> \in Seq(ProbeNames)
    BY <1>0, <1>1
  <2> QED BY <2>1, IfIsSeq
<1>4. wrong \in Seq(ProbeNames) /\ secret \in Seq(ProbeNames) /\ number \in Seq(ProbeNames)
  BY <1>0, <1>1, EmptySeq DEF If
<1>5. ProbeTypes(t) = first \o missing \o wrong \o strings \o number
  BY DEF ProbeTypes
<1> HIDE DEF first, missing, wrong, five, secret, number
<1>7. five \o secret \in Seq(ProbeNames)
  BY <1>2, <1>4, ConcatProperties
<1>8. strings \in Seq(ProbeNames)
  BY <1>7, IfIsSeq
<1> HIDE DEF strings
<1>9. first \o missing \in Seq(ProbeNames)
  BY <1>2, <1>3, ConcatProperties
<1>10. first \o missing \o wrong \in Seq(ProbeNames)
  BY <1>4, <1>9, ConcatProperties
<1>11. first \o missing \o wrong \o strings \in Seq(ProbeNames)
  BY <1>8, <1>10, ConcatProperties
<1> QED BY <1>4, <1>5, <1>11, ConcatProperties

LEMMA ProbesOfTool ==
    ASSUME NEW t
    PROVE  LET ps == ProbesOf(t)
           IN  /\ ps \in Seq([tool : {t.name}, type : ProbeNames, index : Nat])
               /\ \A j \in DOMAIN ps : ps[j].tool = t.name /\ ps[j].index = j
<1> DEFINE types == ProbeTypes(t)
           m == Min({Len(types), ProbesPerTool})
           P == [tool : {t.name}, type : ProbeNames, index : Nat]
           ps == [j \in 1..m |-> [tool |-> t.name, type |-> types[j], index |-> j]]
<1>1. types \in Seq(ProbeNames) /\ Len(types) \in Nat /\ ProbesPerTool \in Nat
  BY ProbeTypesAreSeq, LenProperties, ProbesAssumption
<1>2. m \in Nat /\ m <= Len(types)
  <2> HIDE DEF types
  <2>1. \E x \in {Len(types), ProbesPerTool} : \A y \in {Len(types), ProbesPerTool} : x <= y
    BY <1>1
  <2>2. /\ m \in {Len(types), ProbesPerTool}
        /\ \A y \in {Len(types), ProbesPerTool} : m <= y
    BY <2>1, Zenon DEF Min
  <2> QED BY <1>1, <2>2
<1>3. ProbesOf(t) = ps
  BY DEF ProbesOf
<1> HIDE DEF m, types
<1>4. \A j \in 1..m : j \in Nat /\ j \in 1..Len(types)
  BY <1>1, <1>2
<1>5. \A j \in 1..m : types[j] \in ProbeNames
  BY <1>1, <1>4, ElementOfSeq
<1>6. \A j \in 1..m : [tool |-> t.name, type |-> types[j], index |-> j] \in P
  BY <1>4, <1>5
<1>7. ps \in Seq(P)
  BY <1>2, <1>6, IsASeq
<1> QED BY <1>3, <1>7

LEMMA GeneratedApart ==
    ASSUME NEW l \in ToolLists
    PROVE  Generate(l) \in Seq(ProbeSet(l)) /\ Distinct(Generate(l))
<1> DEFINE n == Len(l)
           seqs == [i \in 1..n |-> ProbesOf(l[i])]
<1>1. /\ n \in Nat /\ DOMAIN l = 1..n
      /\ \A i \in 1..n : l[i] \in Range(l)
      /\ \A i, j \in 1..n : l[i].name = l[j].name => i = j
  <2>1. l \in Seq(Range(l)) /\ \A i, j \in DOMAIN l : l[i].name = l[j].name => i = j
    BY ToolListsAssumption
  <2>2. n \in Nat /\ DOMAIN l = 1..n
    BY <2>1, LenProperties
  <2> QED BY <2>1, <2>2 DEF Range
<1>2. \A i \in 1..n : ProbesOf(l[i]) \in Seq(ProbeSet(l))
  <2> SUFFICES ASSUME NEW i \in 1..n PROVE ProbesOf(l[i]) \in Seq(ProbeSet(l))
    OBVIOUS
  <2> DEFINE P == [tool : {l[i].name}, type : ProbeNames, index : Nat]
  <2>1. ProbesOf(l[i]) \in Seq(P)
    BY ProbesOfTool
  <2>2. P \subseteq ProbeSet(l)
    BY <1>1 DEF ProbeSet
  <2> HIDE DEF P
  <2> QED BY <2>1, <2>2, SeqMonotonic
<1>3. seqs \in Seq(Seq(ProbeSet(l)))
  BY <1>1, <1>2, IsASeq
<1>4. Apart(seqs)
  <2> SUFFICES ASSUME NEW a \in 1..n, NEW b \in 1..n,
                      NEW i \in DOMAIN seqs[a], NEW j \in DOMAIN seqs[b],
                      seqs[a][i] = seqs[b][j]
               PROVE  a = b /\ i = j
    BY DEF Apart
  <2>1. seqs[a] = ProbesOf(l[a]) /\ seqs[b] = ProbesOf(l[b])
    OBVIOUS
  <2>2. seqs[a][i].tool = l[a].name /\ seqs[a][i].index = i
    BY <2>1, ProbesOfTool
  <2>3. seqs[b][j].tool = l[b].name /\ seqs[b][j].index = j
    BY <2>1, ProbesOfTool
  <2> QED BY <1>1, <2>2, <2>3
<1>5. Generate(l) = FlattenSeq(seqs)
  BY <1>1 DEF Generate
<1> HIDE DEF seqs
<1> QED BY <1>3, <1>4, <1>5, FlattenedApart

LEMMA SelectedApart ==
    ASSUME NEW l \in ToolLists
    PROVE  /\ Selected(l) \in Seq(ProbeSet(l)) /\ Distinct(Selected(l))
           /\ Range(Selected(l)) \subseteq Ids
<1> DEFINE all == Generate(l)
           n == Len(all)
           S == ProbeSet(l)
           seqs == [k \in 1..n |-> If(all[k].type \in Types, <<all[k]>>)]
<1>1. all \in Seq(S) /\ Distinct(all) /\ n \in Nat /\ DOMAIN all = 1..n
  BY GeneratedApart, LenProperties
<1>2. \A k \in 1..n : all[k] \in S
  BY <1>1, ElementOfSeq
<1> HIDE DEF all, n, S
<1>3. \A k \in 1..n : <<all[k]>> \in Seq(S)
  BY <1>2
<1>4. seqs \in Seq(Seq(S))
  <2>1. \A k \in 1..n : If(all[k].type \in Types, <<all[k]>>) \in Seq(S)
    BY <1>3, IfIsSeq
  <2> QED BY <1>1, <2>1, IsASeq
<1>5. Apart(seqs)
  <2> SUFFICES ASSUME NEW a \in 1..n, NEW b \in 1..n,
                      NEW i \in DOMAIN seqs[a], NEW j \in DOMAIN seqs[b],
                      seqs[a][i] = seqs[b][j]
               PROVE  a = b /\ i = j
    BY DEF Apart
  <2>1. \A k \in 1..n : seqs[k] = <<all[k]>> \/ DOMAIN seqs[k] = {}
    BY DEF If
  <2>2. seqs[a] = <<all[a]>> /\ seqs[b] = <<all[b]>>
    BY <2>1
  <2> HIDE DEF seqs
  <2>3. i = 1 /\ j = 1
    BY <2>2
  <2>4. all[a] = all[b]
    BY <2>2, <2>3
  <2> QED BY <1>1, <2>3, <2>4 DEF Distinct
<1>6. Selected(l) = FlattenSeq(seqs)
  BY <1>1 DEF Selected, all
<1> HIDE DEF seqs
<1>7. Selected(l) \in Seq(S) /\ Distinct(Selected(l))
  BY <1>4, <1>5, <1>6, FlattenedApart
<1>8. Range(Selected(l)) \subseteq Ids
  BY DEF Ids
<1> QED BY <1>7, <1>8 DEF S

-----------------------------------------------------------------------------
(* The invariant of the two runs. *)
Piece == [mark : {Noise, Event} \cup {Canary(n) : n \in Nat}, part : {"whole", "head", "tail"},
          during : Nat]

Marring == {"critical", "high", "medium"}

ReplayTypes ==
    /\ run \in 1..2
    /\ answers \in [1..2 -> [Ids -> Answers \cup {NONE}]]
    /\ probes \in Seq(Range(probes))
    /\ current \in Nat \ {0}
    /\ asked \subseteq DOMAIN probes
    /\ pipe \in Seq(DOMAIN probes)
    /\ printed \in Seq(Piece)
    /\ read \in Nat
    /\ observed \in [DOMAIN observed -> Observations]
    /\ reference \in [DOMAIN reference -> Observations]

(* Every probe has an id of its own. *)
IdsAreUnique == /\ \A n \in DOMAIN probes : probes[n].id \in Ids
                /\ \A m, n \in DOMAIN probes : probes[m].id = probes[n].id => m = n

(* The server answers a call once, and none that was not made. *)
CallsAreMade ==
    /\ \A n \in asked : n <= current /\ \A k \in DOMAIN pipe : pipe[k] # n
    /\ \A k \in DOMAIN pipe : pipe[k] <= current /\ AnswerTo(pipe[k]) \in Answers
    /\ step = "starting" => current = 1 /\ asked = {} /\ pipe = <<>>

(* An observation that is not a timeout is of the answer that was given. *)
IsOf(o, a) == a \in Answers /\ o.ok = a.ok /\ (a.ok => o.text = a.text)

ObservedIsAnswered ==
    run = 1 => \A id \in DOMAIN observed :
                  \E n \in DOMAIN probes :
                     /\ probes[n].id = id /\ n < current
                     /\ observed[id].timeout \/ (n \notin asked /\ IsOf(observed[id], answers[1][id]))

ReferenceIsAnswered ==
    \A id \in DOMAIN reference :
        /\ run = 2 /\ id \in Ids
        /\ reference[id].timeout \/ IsOf(reference[id], answers[1][id])

(* A call that gave no finding was answered, and its answer is harmless. *)
Shows(a, canary) ==
    a.ok => /\ {"marker", "url"} \cap a.text.shows = {}
            /\ "canary" \in a.text.shows /\ canary # NONE => canary.narrow \/ ~canary.hasSecretName

Harmless(n) ==
    /\ n \notin asked
    /\ AnswerTo(n) \in Answers
    /\ Shows(AnswerTo(n), probes[n].canary)
    /\ probes[n].id \in DOMAIN reference => /\ ~reference[probes[n].id].timeout
                                            /\ IsOf(reference[probes[n].id], AnswerTo(n))

CallsAreJudged ==
    \A n \in DOMAIN probes : n < current => findings \cap Marring # {} \/ Harmless(n)

(* Halves follow each other, and a canary is that of a probe which has one. *)
PiecesAreRead ==
    /\ step = "starting" => printed = <<>>
    /\ \A k \in DOMAIN printed :
          /\ printed[k].part = "tail" => /\ k > 1 /\ printed[k - 1].part = "head"
                                         /\ printed[k - 1].mark = printed[k].mark
          /\ \A n \in Nat : printed[k].mark = Canary(n) =>
                                n \in DOMAIN probes /\ probes[n].canary # NONE
                                /\ ~probes[n].canary.narrow

(* Pieces that the call they were read during must find. *)
Telling(k) == Legible(k) /\ printed[k].mark \in {Event, Canary(printed[k].during)}

LinesAreJudged ==
    Len(printed) <= StderrCap =>
        /\ read <= Len(printed)
        /\ \A k \in DOMAIN printed :
              /\ k <= read => printed[k].during < current
              /\ ~(k <= read) => printed[k].during = current
              /\ k <= read /\ Telling(k) => "high" \in findings

PassIsClean == Passed => findings \cap Marring = {} /\ current > Len(probes)

ReplayInv == /\ ReplayTypes /\ IdsAreUnique /\ CallsAreMade
             /\ ObservedIsAnswered /\ ReferenceIsAnswered
             /\ CallsAreJudged /\ PiecesAreRead /\ LinesAreJudged /\ PassIsClean

-----------------------------------------------------------------------------
(* What the types and the calls made so far give. *)
LEMMA Ranges ==
    ASSUME ReplayInv
    PROVE  /\ Len(probes) \in Nat /\ DOMAIN probes = 1..Len(probes)
           /\ Len(pipe) \in Nat /\ DOMAIN pipe = 1..Len(pipe)
           /\ \A k \in DOMAIN pipe : pipe[k] \in DOMAIN probes
           /\ Len(printed) \in Nat /\ DOMAIN printed = 1..Len(printed)
           /\ current \in Nat
<1>1. probes \in Seq(Range(probes)) /\ pipe \in Seq(DOMAIN probes)
      /\ printed \in Seq(Piece) /\ current \in Nat
  BY DEF ReplayInv, ReplayTypes
<1>2. \A k \in 1..Len(pipe) : pipe[k] \in DOMAIN probes
  BY <1>1, ElementOfSeq
<1> QED BY <1>1, <1>2, LenProperties

LEMMA StderrKept ==
    ASSUME PiecesAreRead, LinesAreJudged, UNCHANGED <<printed, probes, read, current, findings>>,
           step' = step \/ step' # "starting"
    PROVE  PiecesAreRead' /\ LinesAreJudged'
<1>1. PiecesAreRead'
  BY DEF PiecesAreRead
<1>2. LinesAreJudged'
  BY DEF LinesAreJudged, Telling, Legible
<1> QED BY <1>1, <1>2

LEMMA NothingObserved == DOMAIN None = {} /\ None \in [{} -> Observations]
  BY DEF None

LEMMA InitReplayInv == ReplayInit => ReplayInv
<1> SUFFICES ASSUME ReplayInit PROVE ReplayInv
  OBVIOUS
<1>1. /\ probes = <<>> /\ DOMAIN probes = {} /\ pipe = <<>> /\ DOMAIN pipe = {} /\ asked = {}
      /\ printed = <<>> /\ DOMAIN printed = {} /\ Len(printed) = 0 /\ read = 0
      /\ current = 1 /\ run = 1 /\ step = "starting"
      /\ observed = None /\ reference = None
  BY DEF ReplayInit
<1>2. ReplayTypes
  <2>1. answers \in [1..2 -> [Ids -> Answers \cup {NONE}]]
    BY DEF ReplayInit
  <2>2. probes \in Seq(Range(probes)) /\ pipe \in Seq(DOMAIN probes)
        /\ printed \in Seq(Piece)
    BY <1>1, EmptySeq
  <2> QED BY <1>1, <2>1, <2>2, NothingObserved DEF ReplayTypes
<1>3. IdsAreUnique /\ CallsAreMade
  BY <1>1 DEF IdsAreUnique, CallsAreMade
<1>4. ObservedIsAnswered /\ ReferenceIsAnswered
  BY <1>1, NothingObserved DEF ObservedIsAnswered, ReferenceIsAnswered
<1>5. CallsAreJudged /\ PiecesAreRead /\ LinesAreJudged /\ PassIsClean
  BY <1>1 DEF CallsAreJudged, PiecesAreRead, LinesAreJudged, PassIsClean, Passed
<1> QED BY <1>2, <1>3, <1>4, <1>5 DEF ReplayInv

LEMMA StartKeepsReplayInv == ASSUME ReplayInv, Start PROVE ReplayInv'
<1> USE DEF server, stderr, made
<1>1. PICK l \in ToolLists : l = tools'
  BY DEF Start
<1> DEFINE all == Selected(l)
<1>2. PICK canary : probes' = [n \in DOMAIN all |-> [id |-> all[n], canary |-> canary[n]]]
  BY <1>1 DEF Start
<1>3. /\ all \in Seq(ProbeSet(l)) /\ Distinct(all) /\ Range(all) \subseteq Ids
  BY SelectedApart
<1>4. Len(all) \in Nat /\ DOMAIN all = 1..Len(all)
  BY <1>3, LenProperties
<1> HIDE DEF all
<1>5. /\ DOMAIN probes' = 1..Len(all)
      /\ \A n \in DOMAIN probes' : probes'[n].id = all[n]
      /\ probes' \in Seq(Range(probes')) /\ Len(probes') = Len(all)
  <2> DEFINE probe(n) == [id |-> all[n], canary |-> canary[n]]
  <2>1. probes' = [n \in 1..Len(all) |-> probe(n)]
    BY <1>2, <1>4
  <2>2. \A n \in 1..Len(all) : probes'[n].id = all[n] /\ probes'[n] = probe(n)
    BY <2>1
  <2> HIDE DEF probe
  <2>3. \A n \in 1..Len(all) : probe(n) \in Range(probes')
    BY <2>1, <2>2 DEF Range
  <2>4. [n \in 1..Len(all) |-> probe(n)] \in Seq(Range(probes'))
    BY <1>4, <2>3, IsASeq
  <2>5. probes' \in Seq(Range(probes')) /\ DOMAIN probes' = 1..Len(all)
    BY <2>1, <2>4
  <2>6. Len(probes') = Len(all)
    BY <1>4, <2>5, LenProperties
  <2> QED BY <2>2, <2>5, <2>6
<1>6. /\ step = "starting" /\ step' = "calling" /\ current = 1 /\ current' = 1
      /\ asked' \subseteq {1} /\ asked' \subseteq DOMAIN probes'
      /\ pipe = <<>> /\ pipe' = <<>> /\ DOMAIN pipe' = {}
  <2>1. step = "starting" /\ step' = "calling" /\ asked' = Begun(probes')
        /\ UNCHANGED <<current, pipe>>
    BY DEF Start
  <2>2. current = 1 /\ pipe = <<>>
    BY <2>1 DEF ReplayInv, CallsAreMade
  <2>3. probes' # <<>> => 1 \in DOMAIN probes'
    BY <1>4, <1>5, EmptySeq
  <2> QED BY <2>1, <2>2, <2>3 DEF Begun
<1>7. UNCHANGED <<run, answers, printed, read, observed, findings, reference, report>>
  BY DEF Start
<1>8. ReplayTypes'
  <2>1. pipe' \in Seq(DOMAIN probes')
    BY <1>6, EmptySeq
  <2> QED BY <1>5, <1>6, <1>7, <2>1 DEF ReplayInv, ReplayTypes
<1>9. IdsAreUnique'
  <2>1. \A n \in DOMAIN all : all[n] \in Ids
    BY <1>3 DEF Range
  <2> QED BY <1>3, <1>4, <1>5, <2>1 DEF IdsAreUnique, Distinct
<1>10. CallsAreMade'
  BY <1>6 DEF CallsAreMade
<1>11. ObservedIsAnswered'
  <2>1. run = 1 => DOMAIN observed = {}
    <3>1. \A n \in DOMAIN probes : ~(n < 1)
      BY Ranges
    <3> QED BY <1>6, <3>1 DEF ReplayInv, ObservedIsAnswered
  <2> QED BY <1>7, <2>1 DEF ObservedIsAnswered
<1>12. ReferenceIsAnswered' /\ PiecesAreRead' /\ LinesAreJudged'
  <2>1. ReferenceIsAnswered'
    BY <1>7 DEF ReplayInv, ReferenceIsAnswered
  <2>2. printed' = <<>> /\ DOMAIN printed' = {}
    BY <1>6, <1>7 DEF ReplayInv, PiecesAreRead
  <2>3. PiecesAreRead'
    BY <1>6, <2>2 DEF PiecesAreRead
  <2>4. LinesAreJudged'
    BY <1>6, <1>7, <2>2 DEF ReplayInv, LinesAreJudged
  <2> QED BY <2>1, <2>3, <2>4
<1>13. CallsAreJudged'
  <2>1. \A n \in DOMAIN probes' : ~(n < 1)
    BY <1>4, <1>5
  <2> QED BY <1>6, <2>1 DEF CallsAreJudged
<1>14. PassIsClean'
  BY <1>6 DEF PassIsClean, Passed
<1> QED BY <1>8, <1>9, <1>10, <1>11, <1>12, <1>13, <1>14 DEF ReplayInv

LEMMA StartFailsKeepsReplayInv == ASSUME ReplayInv, StartFails PROVE ReplayInv'
<1> USE DEF server, stderr, made
<1>1. /\ UNCHANGED <<run, answers, probes, asked, pipe, printed, read, current, observed,
                     findings, reference>>
      /\ step' = "over" /\ report' = "aborted"
  BY DEF StartFails
<1>2. ReplayTypes' /\ IdsAreUnique' /\ CallsAreMade'
  BY <1>1 DEF ReplayInv, ReplayTypes, IdsAreUnique, CallsAreMade, AnswerTo
<1>3. /\ ObservedIsAnswered' /\ ReferenceIsAnswered'
      /\ PiecesAreRead' /\ LinesAreJudged'
  <2>1. ObservedIsAnswered' /\ ReferenceIsAnswered'
    BY <1>1 DEF ReplayInv, ObservedIsAnswered, ReferenceIsAnswered
  <2> QED BY <1>1, <2>1, StderrKept DEF ReplayInv
<1>4. CallsAreJudged'
  BY <1>1 DEF ReplayInv, CallsAreJudged, Harmless, AnswerTo
<1>5. PassIsClean'
  BY <1>1 DEF PassIsClean, Passed
<1> QED BY <1>2, <1>3, <1>4, <1>5 DEF ReplayInv

LEMMA ExitsKeepsReplayInv == ASSUME ReplayInv, Exits PROVE ReplayInv'
<1> USE DEF server, stderr, made
<1>1. UNCHANGED <<run, step, answers, probes, asked, pipe, printed, read, current, observed,
                  findings, reference, report>>
  BY DEF Exits
<1>2. ReplayTypes' /\ IdsAreUnique' /\ CallsAreMade'
  BY <1>1 DEF ReplayInv, ReplayTypes, IdsAreUnique, CallsAreMade, AnswerTo
<1>3. /\ ObservedIsAnswered' /\ ReferenceIsAnswered'
      /\ PiecesAreRead' /\ LinesAreJudged'
  <2>1. ObservedIsAnswered' /\ ReferenceIsAnswered'
    BY <1>1 DEF ReplayInv, ObservedIsAnswered, ReferenceIsAnswered
  <2> QED BY <1>1, <2>1, StderrKept DEF ReplayInv
<1>4. CallsAreJudged' /\ PassIsClean'
  BY <1>1 DEF ReplayInv, CallsAreJudged, Harmless, AnswerTo, PassIsClean, Passed
<1> QED BY <1>2, <1>3, <1>4 DEF ReplayInv

LEMMA PrintsKeepsReplayInv == ASSUME ReplayInv, Prints PROVE ReplayInv'
<1> USE DEF server, stderr, made
<1>1. UNCHANGED <<run, step, answers, probes, asked, pipe, read, current, observed,
                  findings, reference, report>>
  BY DEF Prints
<1>2. PICK mark \in Marks, part \in {"whole", "head", "tail"} :
         /\ part = "tail" => Continues(mark)
         /\ printed' = Append(printed, [mark |-> mark, part |-> part, during |-> current])
  BY DEF Prints
<1> DEFINE piece == [mark |-> mark, part |-> part, during |-> current]
<1>3. printed \in Seq(Piece) /\ read \in Nat /\ StderrCap \in Nat
  BY BehaviorAssumption DEF ReplayInv, ReplayTypes
<1>a. mark \in {Noise, Event} \cup {Canary(n) : n \in Nat} /\ current \in Nat
  BY Ranges DEF Marks
<1>b. piece \in Piece
  BY <1>a DEF Piece
<1>c. piece.mark = mark /\ piece.part = part /\ piece.during = current
  OBVIOUS
<1> HIDE DEF piece
<1>d. printed' = Append(printed, piece)
  BY <1>2 DEF piece
<1>4. /\ printed' \in Seq(Piece)
      /\ Len(printed') = Len(printed) + 1 /\ DOMAIN printed' = 1..(Len(printed) + 1)
      /\ Len(printed) \in Nat /\ DOMAIN printed = 1..Len(printed)
      /\ \A k \in 1..Len(printed) : printed'[k] = printed[k]
      /\ printed'[Len(printed) + 1] = piece
  BY <1>b, <1>d, <1>3
<1>5. ReplayTypes' /\ IdsAreUnique' /\ CallsAreMade'
  BY <1>1, <1>4 DEF ReplayInv, ReplayTypes, IdsAreUnique, CallsAreMade, AnswerTo
<1>6. ObservedIsAnswered' /\ ReferenceIsAnswered'
  BY <1>1 DEF ReplayInv, ObservedIsAnswered, ReferenceIsAnswered
<1>7. CallsAreJudged' /\ PassIsClean'
  BY <1>1 DEF ReplayInv, CallsAreJudged, Harmless, AnswerTo, PassIsClean, Passed
<1>8. PiecesAreRead'
  <2>1. step' # "starting"
    BY <1>1 DEF Prints
  <2>2. ASSUME NEW k \in DOMAIN printed', printed'[k].part = "tail"
        PROVE  /\ k > 1 /\ printed'[k - 1].part = "head"
               /\ printed'[k - 1].mark = printed'[k].mark
    <3>1. CASE k \in 1..Len(printed)
      <4>1. k > 1 /\ printed[k - 1].part = "head" /\ printed[k - 1].mark = printed[k].mark
        BY <1>4, <2>2, <3>1 DEF ReplayInv, PiecesAreRead
      <4>2. k - 1 \in 1..Len(printed)
        BY <1>4, <3>1, <4>1
      <4> QED BY <1>4, <3>1, <4>1, <4>2
    <3>2. CASE k = Len(printed) + 1
      <4>1. printed # <<>> /\ Last(printed).mark = mark /\ Last(printed).part = "head"
        BY <1>2, <1>4, <1>c, <2>2, <3>2 DEF Continues
      <4>2. Len(printed) \in 1..Len(printed) /\ Last(printed) = printed[Len(printed)]
        BY <1>3, <1>4, <4>1, EmptySeq DEF Last
      <4>3. k > 1 /\ k - 1 = Len(printed) /\ printed'[k - 1] = printed[Len(printed)]
        BY <1>4, <3>2, <4>2
      <4> QED BY <1>4, <1>c, <3>2, <4>1, <4>2, <4>3
    <3> QED BY <1>4, <3>1, <3>2
  <2>3. ASSUME NEW k \in DOMAIN printed', NEW n \in Nat, printed'[k].mark = Canary(n)
        PROVE  n \in DOMAIN probes /\ probes[n].canary # NONE /\ ~probes[n].canary.narrow
    <3>1. CASE k \in 1..Len(printed)
      BY <1>4, <2>3, <3>1 DEF ReplayInv, PiecesAreRead
    <3>2. CASE k = Len(printed) + 1
      <4>1. mark = Canary(n)
        BY <1>4, <1>c, <2>3, <3>2
      <4>2. PICK m \in DOMAIN probes : /\ mark = Canary(m) /\ probes[m].canary # NONE
                                       /\ ~probes[m].canary.narrow
        BY <4>1 DEF Marks, Canary, Noise, Event
      <4>3. m = n
        BY <4>1, <4>2 DEF Canary
      <4> QED BY <4>2, <4>3
    <3> QED BY <1>4, <3>1, <3>2
  <2> QED BY <1>1, <2>1, <2>2, <2>3 DEF PiecesAreRead
<1>9. LinesAreJudged'
  <2> SUFFICES ASSUME Len(printed') <= StderrCap
               PROVE  /\ read <= Len(printed')
                      /\ \A k \in DOMAIN printed' :
                            /\ k <= read => printed'[k].during < current
                            /\ ~(k <= read) => printed'[k].during = current
                            /\ k <= read /\ Telling(k)' => "high" \in findings
    BY <1>1 DEF LinesAreJudged
  <2>1. Len(printed) <= StderrCap
    BY <1>3, <1>4
  <2>2. /\ read <= Len(printed)
        /\ \A k \in DOMAIN printed :
              /\ k <= read => printed[k].during < current
              /\ ~(k <= read) => printed[k].during = current
              /\ k <= read /\ Telling(k) => "high" \in findings
    BY <2>1 DEF ReplayInv, LinesAreJudged
  <2>3. read <= Len(printed')
    BY <1>3, <1>4, <2>2
  <2>4. ASSUME NEW k \in 1..Len(printed), Telling(k)' PROVE Telling(k)
    <3>1. printed'[k] = printed[k]
      BY <1>4
    <3>2. printed[k].part = "tail" => k - 1 \in 1..Len(printed)
      BY <1>4 DEF ReplayInv, PiecesAreRead
    <3>3. printed[k].part = "tail" => printed'[k - 1] = printed[k - 1]
      BY <1>4, <3>2
    <3> QED BY <2>4, <3>1, <3>3 DEF Telling, Legible
  <2>5. ASSUME NEW k \in DOMAIN printed'
        PROVE  /\ k <= read => printed'[k].during < current
               /\ ~(k <= read) => printed'[k].during = current
               /\ k <= read /\ Telling(k)' => "high" \in findings
    <3>1. CASE k \in 1..Len(printed)
      BY <1>4, <2>2, <2>4, <3>1
    <3>2. CASE k = Len(printed) + 1
      <4>1. ~(k <= read)
        BY <1>3, <1>4, <2>2, <3>2
      <4> QED BY <1>4, <1>c, <3>2, <4>1
    <3> QED BY <1>4, <3>1, <3>2
  <2> QED BY <2>3, <2>5
<1> QED BY <1>5, <1>6, <1>7, <1>8, <1>9 DEF ReplayInv

LEMMA RepliesKeepsReplayInv == ASSUME ReplayInv, Replies PROVE ReplayInv'
<1> USE DEF server, stderr, made
<1>1. UNCHANGED <<run, step, probes, printed, read, current, observed, findings,
                  reference, report>> /\ step = "calling"
  BY DEF Replies
<1>2. PICK n \in asked, a \in Answers :
         /\ pipe' = Append(pipe, n)
         /\ asked' = asked \ {n}
         /\ answers' = [answers EXCEPT ![run][probes[n].id] = a]
  BY DEF Replies
<1>3. n \in DOMAIN probes /\ probes[n].id \in Ids /\ run \in 1..2
  BY DEF ReplayInv, ReplayTypes, IdsAreUnique
<1>4. /\ answers' \in [1..2 -> [Ids -> Answers \cup {NONE}]]
      /\ \A r \in 1..2, id \in Ids :
            r # run \/ id # probes[n].id => answers'[r][id] = answers[r][id]
      /\ answers'[run][probes[n].id] = a
  <2>1. answers \in [1..2 -> [Ids -> Answers \cup {NONE}]]
    BY DEF ReplayInv, ReplayTypes
  <2> QED BY <1>2, <1>3, <2>1
<1>5. /\ pipe' \in Seq(DOMAIN probes) /\ DOMAIN pipe' = 1..(Len(pipe) + 1)
      /\ pipe'[Len(pipe) + 1] = n /\ \A k \in DOMAIN pipe : pipe'[k] = pipe[k]
  <2>1. pipe \in Seq(DOMAIN probes)
    BY DEF ReplayInv, ReplayTypes
  <2> QED BY <1>2, <1>3, <2>1
<1>6. \A k \in DOMAIN pipe' : (k \in DOMAIN pipe /\ pipe'[k] = pipe[k]) \/ pipe'[k] = n
  BY <1>5, Ranges
<1>7. \A m \in DOMAIN probes : m # n => AnswerTo(m)' = AnswerTo(m)
  BY <1>1, <1>3, <1>4 DEF AnswerTo, ReplayInv, IdsAreUnique
<1>8. AnswerTo(n)' = a
  BY <1>1, <1>4 DEF AnswerTo
<1>9. \A k \in DOMAIN pipe : pipe[k] # n /\ pipe[k] \in DOMAIN probes
  BY Ranges DEF ReplayInv, CallsAreMade
<1>10. ReplayTypes' /\ IdsAreUnique'
  BY <1>1, <1>2, <1>4, <1>5 DEF ReplayInv, ReplayTypes, IdsAreUnique
<1>11. CallsAreMade'
  <2>1. \A m \in asked' : m <= current' /\ \A k \in DOMAIN pipe' : pipe'[k] # m
    BY <1>1, <1>2, <1>6 DEF ReplayInv, CallsAreMade
  <2>2. ASSUME NEW k \in DOMAIN pipe'
        PROVE  pipe'[k] <= current /\ answers'[run][probes[pipe'[k]].id] \in Answers
    <3>1. CASE pipe'[k] = n
      BY <1>1, <1>8, <3>1 DEF ReplayInv, CallsAreMade, AnswerTo
    <3>2. CASE k \in DOMAIN pipe /\ pipe'[k] = pipe[k]
      <4>1. answers'[run][probes[pipe[k]].id] = AnswerTo(pipe[k])
        BY <1>1, <1>7, <1>9, <3>2 DEF AnswerTo
      <4> QED BY <3>2, <4>1 DEF ReplayInv, CallsAreMade
    <3> QED BY <1>6, <3>1, <3>2
  <2> QED BY <1>1, <2>1, <2>2 DEF CallsAreMade, AnswerTo
<1>12. ObservedIsAnswered'
  <2> SUFFICES ASSUME run = 1, NEW id \in DOMAIN observed
               PROVE  \E m \in DOMAIN probes :
                         /\ probes[m].id = id /\ m < current
                         /\ \/ observed[id].timeout
                            \/ m \notin asked' /\ IsOf(observed[id], answers'[1][id])
    BY <1>1 DEF ObservedIsAnswered
  <2>1. PICK m \in DOMAIN probes :
           /\ probes[m].id = id /\ m < current
           /\ observed[id].timeout \/ (m \notin asked /\ IsOf(observed[id], answers[1][id]))
    BY DEF ReplayInv, ObservedIsAnswered
  <2>2. CASE m = n
    BY <2>1, <2>2
  <2>3. CASE m # n
    <3>1. id # probes[n].id /\ id \in Ids
      BY <1>3, <2>1, <2>3 DEF ReplayInv, IdsAreUnique
    <3>2. answers'[1][id] = answers[1][id]
      BY <1>4, <3>1
    <3> QED BY <1>2, <2>1, <3>2
  <2> QED BY <2>2, <2>3
<1>13. ReferenceIsAnswered'
  BY <1>1, <1>4 DEF ReplayInv, ReferenceIsAnswered
<1>14. CallsAreJudged'
  <2> SUFFICES ASSUME NEW m \in DOMAIN probes, m < current, Harmless(m) PROVE Harmless(m)'
    BY <1>1 DEF ReplayInv, CallsAreJudged
  <2>1. m # n /\ m \notin asked'
    BY <1>2 DEF Harmless
  <2>2. AnswerTo(m)' = AnswerTo(m)
    BY <1>7, <2>1
  <2> QED BY <1>1, <2>1, <2>2 DEF Harmless
<1>15. PiecesAreRead' /\ LinesAreJudged' /\ PassIsClean'
  <2>1. PassIsClean'
    BY <1>1 DEF ReplayInv, PassIsClean, Passed
  <2> QED BY <1>1, <2>1, StderrKept DEF ReplayInv
<1> QED BY <1>10, <1>11, <1>12, <1>13, <1>14, <1>15 DEF ReplayInv

(* What is left to read when the first answer is. *)
LEMMA RestOfPipe ==
    ASSUME ReplayInv, pipe # <<>>
    PROVE  /\ Tail(pipe) \in Seq(DOMAIN probes)
           /\ \A k \in DOMAIN Tail(pipe) : \E j \in DOMAIN pipe : Tail(pipe)[k] = pipe[j]
           /\ 1 \in DOMAIN pipe /\ Head(pipe) = pipe[1]
<1>1. pipe \in Seq(DOMAIN probes)
  BY DEF ReplayInv, ReplayTypes
<1>2. /\ Tail(pipe) \in Seq(DOMAIN probes)
      /\ Len(Tail(pipe)) = Len(pipe) - 1
      /\ \A k \in 1..Len(Tail(pipe)) : Tail(pipe)[k] = pipe[k + 1]
  BY <1>1, HeadTailProperties
<1>3. Len(pipe) \in Nat \ {0} /\ DOMAIN pipe = 1..Len(pipe)
  BY <1>1, EmptySeq, LenProperties
<1>4. DOMAIN Tail(pipe) = 1..(Len(pipe) - 1)
  BY <1>2, LenProperties
<1>5. \A k \in 1..(Len(pipe) - 1) : k + 1 \in 1..Len(pipe)
  BY <1>3
<1> QED BY <1>1, <1>2, <1>3, <1>4, <1>5

LEMMA DroppedKeepsReplayInv == ASSUME ReplayInv, Dropped PROVE ReplayInv'
<1> USE DEF server, stderr, made
<1>1. /\ UNCHANGED <<run, step, answers, probes, asked, printed, read, current, observed,
                     findings, reference, report>>
      /\ pipe # <<>> /\ pipe' = Tail(pipe) /\ step = "calling"
  BY DEF Dropped, Calling
<1>2. ReplayTypes' /\ IdsAreUnique'
  BY <1>1, RestOfPipe DEF ReplayInv, ReplayTypes, IdsAreUnique
<1>3. CallsAreMade'
  <2>1. \A m \in asked' : m <= current' /\ \A k \in DOMAIN pipe' : pipe'[k] # m
    BY <1>1, RestOfPipe DEF ReplayInv, CallsAreMade
  <2>2. ASSUME NEW k \in DOMAIN pipe'
        PROVE  pipe'[k] <= current /\ answers[run][probes[pipe'[k]].id] \in Answers
    <3>1. PICK j \in DOMAIN pipe : pipe'[k] = pipe[j]
      BY <1>1, RestOfPipe
    <3> QED BY <3>1 DEF ReplayInv, CallsAreMade, AnswerTo
  <2> QED BY <1>1, <2>1, <2>2 DEF CallsAreMade, AnswerTo
<1>4. /\ ObservedIsAnswered' /\ ReferenceIsAnswered'
      /\ PiecesAreRead' /\ LinesAreJudged'
  <2>1. ObservedIsAnswered' /\ ReferenceIsAnswered'
    BY <1>1 DEF ReplayInv, ObservedIsAnswered, ReferenceIsAnswered
  <2> QED BY <1>1, <2>1, StderrKept DEF ReplayInv
<1>5. CallsAreJudged' /\ PassIsClean'
  BY <1>1 DEF ReplayInv, CallsAreJudged, Harmless, AnswerTo, PassIsClean, Passed
<1> QED BY <1>2, <1>3, <1>4, <1>5 DEF ReplayInv

-----------------------------------------------------------------------------
(* The end of a call: what the observation finds.                            *)
LEMMA ObservationTypes ==
    ASSUME NEW o \in Observations
    PROVE  o.ok \in BOOLEAN /\ o.timeout \in BOOLEAN /\ o # NONE
  BY BehaviorAssumption DEF Observations

(* An observation with nothing of medium severity or above is of an answer   *)
(* that shows nothing, and like that of the reference.                       *)
LEMMA NoFinding ==
    ASSUME NEW o \in Observations, NEW pieces, NEW ref \in Observations \cup {NONE}, NEW canary,
           NEW n, NEW a, IsOf(o, a), Compare(o, pieces, ref, canary, n) \cap Marring = {}
    PROVE  /\ Shows(a, canary)
           /\ ref # NONE => ref.timeout = o.timeout /\ IsOf(ref, a)
<1>1. /\ "critical" \in Marring /\ "high" \in Marring /\ "medium" \in Marring
  BY DEF Marring
<1>2. /\ TextFindings(o) \cap Marring = {}
      /\ CanaryFindings(o, canary, Bears(pieces, Canary(n))) \cap Marring = {}
      /\ ref # NONE => ReferenceFindings(o, ref) \cap Marring = {}
  BY DEF Compare
<1>3. a.ok => o.text = a.text
  BY DEF IsOf
<1>4. Shows(a, canary)
  <2>1. {"marker", "url"} \cap o.text.shows = {}
    BY <1>1, <1>2 DEF TextFindings
  <2>2. "canary" \in o.text.shows /\ canary # NONE => canary.narrow \/ ~canary.hasSecretName
    BY <1>1, <1>2 DEF CanaryFindings
  <2> QED BY <1>3, <2>1, <2>2 DEF Shows
<1>5. ASSUME ref # NONE PROVE ref.timeout = o.timeout /\ IsOf(ref, a)
  <2>1. o.ok = ref.ok /\ o.timeout = ref.timeout
    BY <1>1, <1>2, <1>5 DEF ReferenceFindings
  <2>2. o.ok /\ ref.ok => o.text = ref.text
    BY <1>1, <1>2, <1>5 DEF ReferenceFindings
  <2> QED BY <2>1, <2>2 DEF IsOf
<1> QED BY <1>4, <1>5

(* The pieces that the client kept. *)
LEMMA KeptLines ==
    ASSUME ReplayInv
    PROVE  /\ Len(Kept) \in Nat
           /\ Len(printed) <= StderrCap => Kept = printed
<1> DEFINE a == Len(printed)
           from == Max({0, a - StderrCap})
<1>1. a \in Nat /\ StderrCap \in Nat /\ printed \in Seq(Piece)
      /\ \A k \in 1..a : printed[k] \in Piece
  BY BehaviorAssumption, ElementOfSeq, LenProperties DEF ReplayInv, ReplayTypes
<1> HIDE DEF a
<1>2. /\ from \in Nat /\ (a <= StderrCap => from = 0)
  <2>1. \E x \in {0, a - StderrCap} : \A y \in {0, a - StderrCap} : x >= y
    BY <1>1
  <2>2. from \in {0, a - StderrCap} /\ \A y \in {0, a - StderrCap} : from >= y
    BY <2>1, Zenon DEF Max
  <2> HIDE DEF from
  <2> QED BY <1>1, <2>2
<1>3. Kept = SubSeq(printed, from + 1, a)
  BY DEF Kept, a
<1> HIDE DEF from
<1>4. \A k \in (from + 1)..a : printed[k] \in Piece
  BY <1>1, <1>2
<1>5. Len(Kept) \in Nat
  <2>1. from + 1 \in Int /\ a \in Int
    BY <1>1, <1>2
  <2>2. SubSeq(printed, from + 1, a) \in Seq(Piece)
    BY <1>4, <2>1, SubSeqProperties
  <2> QED BY <1>3, <2>2, LenProperties
<1>6. a <= StderrCap => Kept = printed
  BY <1>1, <1>2, <1>3, SubSeqFull DEF a
<1> QED BY <1>5, <1>6 DEF a

(* No telling piece is passed over as long as all were kept. *)
LEMMA DeltaShows ==
    ASSUME ReplayInv, Len(printed) <= StderrCap,
           NEW k \in DOMAIN printed, Telling(k), ~(k <= read)
    PROVE  Bears(Delta, printed[k].mark) /\ printed[k].during = current
<1> DEFINE a == Len(printed)
           b == read
<1>1. a \in Nat /\ b \in Nat /\ DOMAIN printed = 1..a /\ k \in Nat
      /\ \A m \in 1..a : printed[m] \in Piece
  BY Ranges, ElementOfSeq DEF ReplayInv, ReplayTypes
<1>2. Delta = SubSeq(printed, b + 1, a)
  BY KeptLines DEF Delta
<1>3. b + 1 \in Int /\ a \in Int /\ b + 1 <= k /\ k <= a
  BY <1>1
<1>4. \A m \in DOMAIN printed : /\ m <= b => printed[m].during < current
                                /\ ~(m <= b) => printed[m].during = current
  BY DEF ReplayInv, LinesAreJudged
<1>5. current \in Nat
  BY Ranges
<1> HIDE DEF a, b
<1>6. \A m \in (b + 1)..a : printed[m] \in Piece
  BY <1>1
<1>7. /\ Delta \in Seq(Piece) /\ Len(Delta) = IF b + 1 <= a THEN a - (b + 1) + 1 ELSE 0
      /\ \A m \in 1..(a - (b + 1) + 1) : Delta[m] = printed[b + 1 + m - 1]
  BY <1>2, <1>3, <1>6, SubSeqProperties
<1>8. DOMAIN Delta = 1..(a - b)
  <2>1. b + 1 <= a /\ a - (b + 1) + 1 = a - b
    BY <1>1, <1>3
  <2> QED BY <1>7, <2>1, LenProperties
<1>9. \A m \in 1..(a - b) : Delta[m] = printed[b + m]
  <2>1. a - (b + 1) + 1 = a - b
    BY <1>1
  <2>2. \A m \in 1..(a - b) : b + 1 + m - 1 = b + m
    BY <1>1
  <2> QED BY <1>7, <2>1, <2>2
<1>10. k - b \in 1..(a - b) /\ b + (k - b) = k
  BY <1>1, <1>3
<1>11. Delta[k - b] = printed[k] /\ k - b \in DOMAIN Delta
  BY <1>8, <1>9, <1>10
<1>12. printed[k].during = current
  BY <1>4 DEF b
<1>13. CASE printed[k].part = "whole"
  BY <1>11, <1>12, <1>13 DEF Bears
<1>14. CASE printed[k].part = "tail" /\ printed[k - 1].during = printed[k].during
  <2>1. /\ k > 1 /\ printed[k - 1].part = "head"
        /\ printed[k - 1].mark = printed[k].mark
    BY <1>14 DEF ReplayInv, PiecesAreRead
  <2>2. k - 1 \in DOMAIN printed
    BY <1>1, <1>3, <2>1
  <2>3. ~(k - 1 <= b)
    <3> SUFFICES ASSUME k - 1 <= b PROVE FALSE
      OBVIOUS
    <3>1. printed[k - 1].during < current
      <4> DEFINE m == k - 1
      <4>1. m \in DOMAIN printed /\ m <= b
        BY <2>2
      <4> HIDE DEF m
      <4>2. printed[m].during < current
        BY <1>4, <4>1
      <4> QED BY <4>2 DEF m
    <3>2. printed[k - 1].during = current
      BY <1>12, <1>14
    <3> QED BY <1>5, <3>1, <3>2
  <2>4. (k - b) - 1 \in 1..(a - b) /\ b + ((k - b) - 1) = k - 1 /\ k - b > 1
    BY <1>1, <1>3, <2>3
  <2>5. Delta[(k - b) - 1] = printed[k - 1]
    BY <1>9, <2>4
  <2> QED BY <1>11, <1>12, <1>14, <2>1, <2>4, <2>5 DEF Bears
<1> QED BY <1>12, <1>13, <1>14 DEF Telling, Legible

(* call() returns with an observation, of a timeout or of the answer. *)
LEMMA ObserveKeepsReplayInv ==
    ASSUME ReplayInv, Calling, NEW o \in Observations, Observe(o, Delta),
           \/ o.timeout
           \/ current \notin asked /\ IsOf(o, AnswerTo(current)),
           CallFindings(o) \cap Marring # {} \/ ~o.timeout,
           pipe' \in Seq(DOMAIN probes),
           \A k \in DOMAIN pipe' : \E j \in DOMAIN pipe : pipe'[k] = pipe[j]
    PROVE  ReplayInv'
<1> DEFINE canary == probes[current].canary
           name == probes[current].id
           found == Compare(o, Delta, ReferenceOf(name), canary, current)
<1>1. /\ UNCHANGED <<run, step, answers, probes, printed, reference, report>>
      /\ observed' = IF run = 1 THEN With(observed, name, o) ELSE observed
      /\ findings' = findings \cup found
      /\ read' = Len(Kept)
      /\ asked' = IF current < Len(probes) /\ alive THEN asked \cup {current + 1} ELSE asked
      /\ current' = current + 1
  BY DEF Observe
<1>2. /\ step = "calling" /\ current \in 1..Len(probes) /\ current \in Nat \ {0}
      /\ current \in DOMAIN probes
  BY Ranges DEF Calling, ReplayInv, ReplayTypes
<1>3. asked' \subseteq asked \cup {current + 1} /\ asked' \subseteq DOMAIN probes
  <2>1. asked \subseteq DOMAIN probes
    BY DEF ReplayInv, ReplayTypes
  <2>2. current < Len(probes) => current + 1 \in DOMAIN probes
    BY <1>2, Ranges
  <2> QED BY <1>1, <2>1, <2>2
<1>4. \A n \in DOMAIN probes : n < current + 1 => n = current \/ n < current
  BY <1>2, Ranges
<1>5. \A n \in DOMAIN probes : n < current + 1 /\ n \notin asked => n \notin asked'
  BY <1>2, <1>3, Ranges
<1> HIDE DEF canary, name, found
<1>6. ReplayTypes'
  <2>1. read' \in Nat
    BY <1>1, KeptLines
  <2>2. current' \in Nat \ {0}
    BY <1>1, <1>2
  <2>3. observed \in [DOMAIN observed -> Observations]
    BY DEF ReplayInv, ReplayTypes
  <2>4. With(observed, name, o) \in [DOMAIN With(observed, name, o) -> Observations]
    BY <2>3 DEF With
  <2>5. observed' \in [DOMAIN observed' -> Observations]
    BY <1>1, <2>3, <2>4
  <2> QED BY <1>1, <1>3, <2>1, <2>2, <2>5 DEF ReplayInv, ReplayTypes
<1>7. IdsAreUnique' /\ ReferenceIsAnswered' /\ PassIsClean'
  BY <1>1, <1>2 DEF ReplayInv, IdsAreUnique, ReferenceIsAnswered, PassIsClean, Passed
<1>8. CallsAreMade'
  <2>1. ASSUME NEW k \in DOMAIN pipe'
        PROVE  pipe'[k] <= current /\ pipe'[k] \in Nat
               /\ answers[run][probes[pipe'[k]].id] \in Answers
    <3>1. PICK j \in DOMAIN pipe : pipe'[k] = pipe[j]
      OBVIOUS
    <3>2. pipe[j] <= current /\ AnswerTo(pipe[j]) \in Answers
      BY DEF ReplayInv, CallsAreMade
    <3>3. pipe[j] \in Nat
      BY Ranges
    <3> QED BY <3>1, <3>2, <3>3 DEF AnswerTo
  <2>2. \A n \in asked' : n <= current + 1
    <3>1. \A n \in asked : n <= current /\ n \in DOMAIN probes
      BY DEF ReplayInv, ReplayTypes, CallsAreMade
    <3>2. \A n \in asked : n <= current + 1
      BY <1>2, <3>1, Ranges
    <3> QED BY <1>2, <1>3, <3>2
  <2>3. ASSUME NEW n \in asked', NEW k \in DOMAIN pipe' PROVE pipe'[k] # n
    <3>1. CASE n = current + 1
      BY <1>2, <2>1, <3>1
    <3>2. CASE n \in asked
      BY <3>2 DEF ReplayInv, CallsAreMade
    <3> QED BY <1>3, <3>1, <3>2
  <2>4. \A k \in DOMAIN pipe' : pipe'[k] <= current + 1
    BY <1>2, <2>1
  <2> QED BY <1>1, <1>2, <2>1, <2>2, <2>3, <2>4 DEF CallsAreMade, AnswerTo
<1>9. ObservedIsAnswered'
  <2> SUFFICES ASSUME run = 1, NEW id \in DOMAIN observed'
               PROVE  \E n \in DOMAIN probes :
                         /\ probes[n].id = id /\ n < current + 1
                         /\ \/ observed'[id].timeout
                            \/ n \notin asked' /\ IsOf(observed'[id], answers[1][id])
    BY <1>1 DEF ObservedIsAnswered
  <2>1. /\ id = name \/ id \in DOMAIN observed
        /\ observed'[id] = IF id = name THEN o ELSE observed[id]
    BY <1>1 DEF With
  <2>2. CASE id = name
    <3>1. probes[current].id = id /\ AnswerTo(current) = answers[1][id]
      BY <2>2 DEF name, AnswerTo
    <3>2. current < current + 1
      BY <1>2
    <3> QED BY <1>2, <1>5, <2>1, <2>2, <3>1, <3>2
  <2>3. CASE id # name
    <3>1. PICK n \in DOMAIN probes :
             /\ probes[n].id = id /\ n < current
             /\ observed[id].timeout \/ (n \notin asked /\ IsOf(observed[id], answers[1][id]))
      BY <2>1, <2>3 DEF ReplayInv, ObservedIsAnswered
    <3>2. n < current + 1
      BY <1>2, <3>1, Ranges
    <3> QED BY <1>5, <2>1, <2>3, <3>1, <3>2
  <2> QED BY <2>2, <2>3
<1>10. CallsAreJudged'
  <2> SUFFICES ASSUME NEW n \in DOMAIN probes, n < current + 1, findings' \cap Marring = {}
               PROVE  Harmless(n)'
    BY <1>1 DEF CallsAreJudged
  <2>1. findings \cap Marring = {} /\ found \cap Marring = {}
    BY <1>1
  <2>2. SUFFICES Harmless(n)
    BY <1>1, <1>5, <2>2 DEF Harmless, AnswerTo
  <2>3. CASE n < current
    BY <2>1, <2>3 DEF ReplayInv, CallsAreJudged
  <2>4. CASE n = current
    <3>1. CallFindings(o) \cap Marring = {}
      BY <2>1 DEF found, Compare
    <3>2. ~o.timeout /\ current \notin asked /\ IsOf(o, AnswerTo(current))
      BY <3>1
    <3>3. ReferenceOf(name) \in Observations \cup {NONE}
      BY DEF ReferenceOf, ReplayInv, ReplayTypes
    <3>4. /\ Shows(AnswerTo(current), canary)
          /\ ReferenceOf(name) # NONE => /\ ReferenceOf(name).timeout = o.timeout
                                         /\ IsOf(ReferenceOf(name), AnswerTo(current))
      BY <2>1, <3>2, <3>3, NoFinding DEF found
    <3>5. name \in DOMAIN reference =>
             ReferenceOf(name) = reference[name] /\ reference[name] # NONE
      BY ObservationTypes DEF ReferenceOf, ReplayInv, ReplayTypes
    <3> QED BY <2>4, <3>2, <3>4, <3>5 DEF Harmless, IsOf, name, canary
  <2> QED BY <1>4, <2>3, <2>4
<1>11. PiecesAreRead'
  BY <1>1, <1>2 DEF ReplayInv, PiecesAreRead
<1>12. LinesAreJudged'
  <2> SUFFICES ASSUME Len(printed) <= StderrCap
               PROVE  /\ Len(Kept) <= Len(printed)
                      /\ \A k \in DOMAIN printed :
                            /\ k <= Len(Kept) /\ printed[k].during < current + 1
                            /\ Telling(k) => "high" \in findings'
    BY <1>1 DEF LinesAreJudged, Telling, Legible
  <2>1. Kept = printed /\ \A k \in DOMAIN printed : k <= Len(Kept)
    BY KeptLines, Ranges
  <2>2. \A k \in DOMAIN printed : /\ k <= read => printed[k].during < current
                                  /\ ~(k <= read) => printed[k].during = current
                                  /\ k <= read /\ Telling(k) => "high" \in findings
    BY DEF ReplayInv, LinesAreJudged
  <2>3. \A k \in DOMAIN printed : printed[k].during \in Nat
    <3>1. \A k \in DOMAIN printed : printed[k] \in Piece
      BY Ranges, ElementOfSeq DEF ReplayInv, ReplayTypes
    <3> QED BY <3>1 DEF Piece
  <2>4. ASSUME NEW k \in DOMAIN printed, Telling(k), ~(k <= read) PROVE "high" \in findings'
    <3>1. Bears(Delta, printed[k].mark) /\ printed[k].during = current
      BY <2>4, DeltaShows
    <3>2. CASE printed[k].mark = Event
      BY <1>1, <3>1, <3>2 DEF found, Compare, StderrFindings
    <3>3. CASE printed[k].mark = Canary(current)
      <4>1. canary # NONE /\ ~canary.narrow
        BY <1>2, <3>3 DEF ReplayInv, PiecesAreRead, canary
      <4>2. "high" \in CanaryFindings(o, canary, Bears(Delta, Canary(current)))
        BY <3>1, <3>3, <4>1 DEF CanaryFindings
      <4> QED BY <1>1, <4>2 DEF found, Compare
    <3> QED BY <2>4, <3>1, <3>2, <3>3 DEF Telling
  <2>5. ASSUME NEW k \in DOMAIN printed PROVE printed[k].during < current + 1
    <3>1. printed[k].during < current \/ printed[k].during = current
      BY <2>2, Zenon
    <3> QED BY <1>2, <2>3, <3>1
  <2>6. Len(Kept) <= Len(printed)
    BY <2>1, Ranges
  <2>7. ASSUME NEW k \in DOMAIN printed, Telling(k) PROVE "high" \in findings'
    <3>1. CASE k <= read
      BY <1>1, <2>2, <2>7, <3>1, Zenon
    <3> QED BY <2>4, <2>7, <3>1, Zenon
  <2> QED BY <2>1, <2>5, <2>6, <2>7
<1> QED BY <1>6, <1>7, <1>8, <1>9, <1>10, <1>11, <1>12 DEF ReplayInv

LEMMA AnsweredKeepsReplayInv == ASSUME ReplayInv, Answered PROVE ReplayInv'
<1> DEFINE a == AnswerTo(current)
           o == Result(a)
<1>1. /\ Calling /\ pipe # <<>> /\ Head(pipe) = current /\ Observe(o, Delta)
      /\ pipe' = Tail(pipe)
  BY DEF Answered
<1>2. a \in Answers /\ current \notin asked
  <2>1. pipe[1] = current /\ 1 \in DOMAIN pipe
    BY <1>1, RestOfPipe
  <2> QED BY <2>1 DEF ReplayInv, CallsAreMade
<1> HIDE DEF a
<1>3. o \in Observations /\ ~o.timeout /\ IsOf(o, a)
  BY <1>2, BehaviorAssumption DEF Result, Observations, IsOf
<1> HIDE DEF o
<1> QED BY <1>1, <1>2, <1>3, RestOfPipe, ObserveKeepsReplayInv DEF a

LEMMA TimesOutKeepsReplayInv == ASSUME ReplayInv, TimesOut PROVE ReplayInv'
<1> DEFINE o == [ok |-> FALSE, text |-> Nothing, timeout |-> TRUE, crash |-> FALSE]
<1>1. Calling /\ Observe(o, Delta) /\ pipe' = pipe
  BY DEF TimesOut
<1>2. o \in Observations /\ o.timeout /\ CallFindings(o) \cap Marring # {}
  BY DEF Observations, CallFindings, Marring
<1> HIDE DEF o
<1>3. pipe' \in Seq(DOMAIN probes)
  BY <1>1 DEF ReplayInv, ReplayTypes
<1> QED BY <1>1, <1>2, <1>3, ObserveKeepsReplayInv

LEMMA ConcludesKeepsReplayInv == ASSUME ReplayInv, Concludes PROVE ReplayInv'
<1> USE DEF server, stderr, made
<1>1. /\ UNCHANGED <<run, answers, probes, printed, read, current, observed, findings,
                     reference>>
      /\ step' = "over" /\ report' = Summary(findings)
      /\ asked' = {} /\ pipe' = <<>> /\ DOMAIN pipe' = {} /\ current > Len(probes)
  BY DEF Concludes
<1>2. ReplayTypes' /\ IdsAreUnique' /\ CallsAreMade'
  <2>1. pipe' \in Seq(DOMAIN probes)
    BY <1>1, EmptySeq
  <2> QED BY <1>1, <2>1 DEF ReplayInv, ReplayTypes, IdsAreUnique, CallsAreMade
<1>3. /\ ObservedIsAnswered' /\ ReferenceIsAnswered'
      /\ PiecesAreRead' /\ LinesAreJudged'
  <2>1. ObservedIsAnswered' /\ ReferenceIsAnswered'
    BY <1>1 DEF ReplayInv, ObservedIsAnswered, ReferenceIsAnswered
  <2> QED BY <1>1, <2>1, StderrKept DEF ReplayInv
<1>4. CallsAreJudged'
  BY <1>1 DEF ReplayInv, CallsAreJudged, Harmless, AnswerTo
<1>5. PassIsClean'
  <2>1. Summary(findings) = "pass" => findings \cap Marring = {}
    BY DEF Summary, Marring
  <2> QED BY <1>1, <2>1 DEF PassIsClean, Passed
<1> QED BY <1>2, <1>3, <1>4, <1>5 DEF ReplayInv

LEMMA NextRunKeepsReplayInv == ASSUME ReplayInv, NextRun PROVE ReplayInv'
<1> USE DEF server, stderr, made
<1>1. /\ run = 1 /\ run' = 2 /\ step' = "starting" /\ reference' = observed
      /\ probes' = <<>> /\ DOMAIN probes' = {} /\ current' = 1 /\ observed' = None
      /\ findings' = {} /\ asked' = {} /\ pipe' = <<>> /\ DOMAIN pipe' = {}
      /\ printed' = <<>> /\ DOMAIN printed' = {} /\ Len(printed') = 0 /\ read' = 0
      /\ answers' = answers
  BY DEF NextRun
<1>2. ReplayTypes'
  <2>1. probes' \in Seq(Range(probes')) /\ pipe' \in Seq(DOMAIN probes')
        /\ printed' \in Seq(Piece)
    BY <1>1, EmptySeq
  <2> QED BY <1>1, <2>1, NothingObserved DEF ReplayInv, ReplayTypes
<1>3. IdsAreUnique' /\ CallsAreMade' /\ ObservedIsAnswered'
  BY <1>1 DEF IdsAreUnique, CallsAreMade, ObservedIsAnswered
<1>4. ReferenceIsAnswered'
  BY <1>1 DEF ReplayInv, ReferenceIsAnswered, ObservedIsAnswered, IdsAreUnique
<1>5. CallsAreJudged' /\ PiecesAreRead' /\ LinesAreJudged' /\ PassIsClean'
  BY <1>1 DEF CallsAreJudged, PiecesAreRead, LinesAreJudged, PassIsClean, Passed
<1> QED BY <1>2, <1>3, <1>4, <1>5 DEF ReplayInv

LEMMA NextReplayInv == ReplayInv /\ [ReplayNext]_replayVars => ReplayInv'
<1> SUFFICES ASSUME ReplayInv, [ReplayNext]_replayVars PROVE ReplayInv'
  OBVIOUS
<1>1. CASE UNCHANGED replayVars
  <2>1. UNCHANGED <<run, step, answers, probes, asked, pipe, printed, read, current, observed,
                    findings, reference, report>>
    BY <1>1 DEF replayVars, server, stderr, made
  <2>2. PiecesAreRead' /\ LinesAreJudged'
    BY <2>1, StderrKept DEF ReplayInv
  <2> QED BY <2>1, <2>2 DEF ReplayInv, ReplayTypes, IdsAreUnique, CallsAreMade,
                      ObservedIsAnswered, ReferenceIsAnswered, CallsAreJudged, Harmless, AnswerTo,
                      PassIsClean, Passed
<1>2. CASE ReplayNext
  BY <1>2, StartKeepsReplayInv, StartFailsKeepsReplayInv, RepliesKeepsReplayInv,
     PrintsKeepsReplayInv, ExitsKeepsReplayInv, AnsweredKeepsReplayInv, DroppedKeepsReplayInv,
     TimesOutKeepsReplayInv, ConcludesKeepsReplayInv, NextRunKeepsReplayInv DEF ReplayNext
<1> QED BY <1>1, <1>2

LEMMA ReplayInvariance == ReplaySpec => []ReplayInv
  BY InitReplayInv, NextReplayInv, PTL DEF ReplaySpec

-----------------------------------------------------------------------------
(* For any two servers, a run that passes was of one that answers as the     *)
(* reference's did, to every probe that both made.                           *)
THEOREM ReplayPassedAsReference == ReplaySpec => []PassedAsReference
<1>1. ASSUME ReplayInv PROVE PassedAsReference
  <2> SUFFICES ASSUME Passed, run = 2, NEW n \in DOMAIN probes,
                      probes[n].id \in DOMAIN reference
               PROVE  LET id == probes[n].id
                      IN  /\ {answers[1][id], answers[2][id]} \subseteq Answers
                          /\ answers[2][id].ok = answers[1][id].ok
                          /\ answers[1][id].ok => answers[2][id].text = answers[1][id].text
    BY DEF PassedAsReference
  <2> DEFINE id == probes[n].id
  <2>1. Harmless(n)
    <3>1. findings \cap Marring = {} /\ n < current
      BY <1>1, Ranges DEF ReplayInv, PassIsClean
    <3> QED BY <1>1, <3>1 DEF ReplayInv, CallsAreJudged
  <2>2. AnswerTo(n) = answers[2][id]
    BY DEF AnswerTo
  <2>3. answers[2][id] \in Answers /\ ~reference[id].timeout /\ IsOf(reference[id], answers[2][id])
    BY <2>1, <2>2 DEF Harmless
  <2>4. IsOf(reference[id], answers[1][id])
    BY <1>1, <2>3 DEF ReplayInv, ReferenceIsAnswered
  <2> QED BY <2>3, <2>4 DEF IsOf
<1> QED BY <1>1, ReplayInvariance, PTL

(* For any tools, answers and pieces of stderr, a run that passes has missed *)
(* nothing that it looks for where it looks for it.                          *)
THEOREM ReplayPassedMissedNothing == ReplaySpec => []PassedMissedNothing
<1>1. ASSUME ReplayInv PROVE PassedMissedNothing
  <2> SUFFICES ASSUME Passed PROVE PassedMissedNothing
    BY DEF PassedMissedNothing
  <2>1. findings \cap Marring = {} /\ current > Len(probes)
    BY <1>1 DEF ReplayInv, PassIsClean
  <2>2. ASSUME Len(printed) <= StderrCap, NEW k \in DOMAIN printed, Legible(k)
        PROVE  /\ printed[k].mark = Event => printed[k].during > Len(probes)
               /\ printed[k].mark # Canary(printed[k].during)
    <3>1. "high" \notin findings
      BY <2>1 DEF Marring
    <3>2. Telling(k) => ~(k <= read) /\ printed[k].during = current
      BY <1>1, <2>2, <3>1 DEF ReplayInv, LinesAreJudged
    <3>3. printed[k].mark = Event => printed[k].during > Len(probes)
      BY <2>1, <2>2, <3>2 DEF Telling
    <3>4. ASSUME printed[k].mark = Canary(printed[k].during) PROVE FALSE
      <4>1. printed[k].during = current
        BY <2>2, <3>2, <3>4 DEF Telling
      <4>2. current \in Nat /\ DOMAIN probes = 1..Len(probes) /\ Len(probes) \in Nat
        BY <1>1, Ranges
      <4>3. current \in DOMAIN probes
        BY <1>1, <3>4, <4>1, <4>2 DEF ReplayInv, PiecesAreRead
      <4> QED BY <2>1, <4>2, <4>3
    <3> QED BY <3>3, <3>4
  <2>3. ASSUME NEW n \in DOMAIN probes PROVE Shows(AnswerTo(n), probes[n].canary)
    <3>1. n < current
      BY <1>1, <2>1, Ranges
    <3> QED BY <1>1, <2>1, <3>1 DEF ReplayInv, CallsAreJudged, Harmless
  <2> QED BY <2>2, <2>3 DEF PassedMissedNothing, Shows
<1> QED BY <1>1, ReplayInvariance, PTL
=============================================================================
