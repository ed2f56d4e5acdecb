------------------------ MODULE ManifestPolicyProofs ------------------------
(* What every way of making a manifest from an old one keeps, for any names, *)
(* contracts, scopes and detector.                                           *)
EXTENDS ManifestPolicy, TLAPS

(* A listing's names are tools, and its values live tools. *)
LEMMA ListingShape ==
    ASSUME NEW listing \in Listing
    PROVE  /\ DOMAIN listing \in SUBSET Tools
           /\ \A n \in DOMAIN listing : listing[n] \in LiveTool
  BY DEF Listing

(* Manifests are built piece by piece: this puts the pieces together. *)
LEMMA ManifestShape ==
    ASSUME NEW m, NEW N \in SUBSET Tools,
           m.tools \in [N -> Entry], m.expires \in Nat, m.valid \in BOOLEAN,
           m = [tools |-> m.tools, expires |-> m.expires, valid |-> m.valid]
    PROVE  m \in Manifest
  BY DEF Manifest

LEMMA ManifestParts ==
    ASSUME NEW m \in Manifest
    PROVE  /\ Names(m) \in SUBSET Tools
           /\ m.tools \in [Names(m) -> Entry]
           /\ m.expires \in Nat
           /\ m.valid \in BOOLEAN
           /\ m = [tools |-> m.tools, expires |-> m.expires, valid |-> m.valid]
  BY DEF Manifest, Names

LEMMA BuildEntryType ==
    ASSUME NEW n \in Tools, NEW t \in LiveTool, NEW allow
    PROVE  BuildEntry(n, t, allow) \in Entry
  BY DEF BuildEntry, LiveTool, Entry, Contract, ContractOf

LEMMA BuildManifestType ==
    ASSUME NEW listing \in Listing, NEW allow, NEW expires \in Nat
    PROVE  BuildManifest(listing, allow, expires) \in Manifest
<1> DEFINE m == BuildManifest(listing, allow, expires)
<1>1. DOMAIN listing \in SUBSET Tools
  BY ListingShape
<1>2. m.tools \in [DOMAIN listing -> Entry]
  BY ListingShape, BuildEntryType DEF BuildManifest
<1>3. /\ m.expires \in Nat /\ m.valid \in BOOLEAN
      /\ m = [tools |-> m.tools, expires |-> m.expires, valid |-> m.valid]
  BY DEF BuildManifest
<1> HIDE DEF m
<1>4. m \in Manifest
  BY <1>1, <1>2, <1>3, ManifestShape
<1> QED BY <1>4 DEF m

(* A fresh build lists exactly the listing. *)
LEMMA BuildNames ==
    ASSUME NEW listing, NEW allow, NEW expires
    PROVE  /\ Names(BuildManifest(listing, allow, expires)) = DOMAIN listing
           /\ \A n \in DOMAIN listing :
                 BuildManifest(listing, allow, expires).tools[n]
                     = BuildEntry(n, listing[n], allow)
           /\ BuildManifest(listing, allow, expires).expires = expires
           /\ BuildManifest(listing, allow, expires).valid = TRUE
  BY DEF BuildManifest, Names

-----------------------------------------------------------------------------
(* Renewal changes the expiry and nothing else. *)
LEMMA RenewTightens ==
    ASSUME NEW m \in Manifest, NEW expires
    PROVE  /\ Tightens(m, RenewManifest(m, expires))
           /\ NoNewOverride(m, RenewManifest(m, expires))
<1>1. RenewManifest(m, expires).tools = m.tools
  BY ManifestParts DEF RenewManifest, Manifest
<1> QED BY <1>1 DEF Tightens, NoNewOverride, Names, SameContract

(* A built entry carries an override exactly for a name the operator allowed; *)
(* the rest is the live tool's.                                               *)
LEMMA BuildEntryFields ==
    ASSUME NEW n, NEW t, NEW allow
    PROVE  /\ BuildEntry(n, t, allow).override <=> n \in allow
           /\ BuildEntry(n, t, allow).shape = t.shape
           /\ BuildEntry(n, t, allow).digest = ContractOf(t)
           /\ BuildEntry(n, t, allow).declared = t.declared
           /\ BuildEntry(n, t, allow).scopes = t.declared
  BY DEF BuildEntry

(* Only the names allowed change the detector's verdict. *)
LEMMA BuildEntryAllowed ==
    ASSUME NEW n, NEW t, NEW allow
    PROVE  BuildEntry(n, t, allow).allowed
              <=> n \in allow \/ BuildEntry(n, t, {}).allowed
  BY DEF BuildEntry

(* The fields of an entry after an automatic update, and after reapproval. *)
LEMMA PreservedFields ==
    ASSUME NEW p \in Entry, NEW t \in Entry
    PROVE  /\ Preserved(p, t) \in Entry
           /\ Preserved(p, t).override
                 = (t.override \/ (p.override /\ SameContract(p, t)))
           /\ Preserved(p, t).allowed
                 = (p.allowed /\ ((p.override /\ SameContract(p, t)) \/ t.allowed))
           /\ Preserved(p, t).scopes = p.scopes \cup t.scopes
           /\ Preserved(p, t).shape = t.shape
           /\ Preserved(p, t).digest = t.digest
           /\ Preserved(p, t).declared = t.declared
<1> DEFINE c == p.override /\ SameContract(p, t)
<1>1. c \in BOOLEAN
  BY DEF Entry, SameContract
<1>2. Preserved(p, t) = [t EXCEPT !.override = t.override \/ c,
                                 !.allowed  = p.allowed /\ (c \/ t.allowed),
                                 !.scopes   = p.scopes \cup t.scopes]
  BY DEF Preserved
<1> HIDE DEF c
<1>3. /\ Preserved(p, t) \in Entry
      /\ Preserved(p, t).override = (t.override \/ c)
      /\ Preserved(p, t).allowed = (p.allowed /\ (c \/ t.allowed))
      /\ Preserved(p, t).scopes = p.scopes \cup t.scopes
      /\ Preserved(p, t).shape = t.shape
      /\ Preserved(p, t).digest = t.digest
      /\ Preserved(p, t).declared = t.declared
  BY <1>1, <1>2 DEF Entry
<1> QED BY <1>3 DEF c

LEMMA RestrictedFields ==
    ASSUME NEW p \in Entry, NEW t \in Entry
    PROVE  /\ Restricted(p, t) \in Entry
           /\ Restricted(p, t).override = t.override
           /\ Restricted(p, t).allowed = (p.allowed /\ t.allowed)
           /\ Restricted(p, t).scopes = p.scopes \cup t.scopes
           /\ Restricted(p, t).shape = t.shape
           /\ Restricted(p, t).digest = t.digest
           /\ Restricted(p, t).declared = t.declared
  BY DEF Restricted, Entry

(* What an automatic update makes of one listed tool. *)
LEMMA PreservedTightens ==
    ASSUME NEW p \in Entry, NEW n \in Tools, NEW t \in LiveTool
    PROVE  /\ Preserved(p, BuildEntry(n, t, {})).allowed => p.allowed
           /\ p.scopes \subseteq Preserved(p, BuildEntry(n, t, {})).scopes
           /\ Preserved(p, BuildEntry(n, t, {})).override
                 => p.override /\ SameContract(p, Preserved(p, BuildEntry(n, t, {})))
<1> DEFINE b == BuildEntry(n, t, {})
<1>1. b \in Entry
  BY BuildEntryType
<1>2. ~b.override
  BY BuildEntryFields
<1> HIDE DEF b
<1>3. /\ Preserved(p, b).allowed => p.allowed
      /\ p.scopes \subseteq Preserved(p, b).scopes
      /\ Preserved(p, b).override => p.override /\ SameContract(p, b)
  BY <1>1, <1>2, PreservedFields
<1>4. SameContract(p, Preserved(p, b)) <=> SameContract(p, b)
  BY <1>1, PreservedFields DEF SameContract
<1> QED BY <1>3, <1>4 DEF b

LEMMA AutoUpdateTightens ==
    ASSUME NEW m \in Manifest, NEW listing \in Listing, NEW expires
    PROVE  /\ Tightens(m, AutoUpdated(m, listing, expires))
           /\ NoNewOverride(m, AutoUpdated(m, listing, expires))
<1> DEFINE built == BuildManifest(listing, {}, expires)
           new   == AutoUpdated(m, listing, expires)
<1>1. new.tools = [n \in Names(built) |->
                     IF n \in Names(m) THEN Preserved(m.tools[n], built.tools[n])
                                       ELSE built.tools[n]]
  BY DEF AutoUpdated, PreserveProxyPolicy, BuildManifest
<1>2. Names(built) = DOMAIN listing
  BY BuildNames
<1>3. \A n \in DOMAIN listing : built.tools[n] = BuildEntry(n, listing[n], {})
  BY DEF BuildManifest
<1> HIDE DEF built, new
<1>4. Names(new) = DOMAIN listing
  BY <1>1, <1>2 DEF Names
<1>5. ASSUME NEW n \in Names(m) \cap Names(new)
      PROVE  new.tools[n] = Preserved(m.tools[n], BuildEntry(n, listing[n], {}))
  BY <1>1, <1>2, <1>3, <1>4, <1>5
<1>6. Tightens(m, new)
  <2>1. \A n \in Names(m) \cap Names(new) :
           m.tools[n] \in Entry /\ n \in Tools /\ listing[n] \in LiveTool
    BY <1>4, ManifestParts, ListingShape
  <2> QED BY <2>1, <1>5, PreservedTightens DEF Tightens
<1>7. ASSUME NEW n \in Names(new) \ Names(m)
      PROVE  new.tools[n] = BuildEntry(n, listing[n], {})
  BY <1>1, <1>2, <1>3, <1>4, <1>7
<1>8. NoNewOverride(m, new)
  BY <1>7, BuildEntryFields DEF NoNewOverride
<1> QED BY <1>6, <1>8 DEF new

(* What a reapproval makes of one listed tool. *)
LEMMA RestrictedTightens ==
    ASSUME NEW p \in Entry, NEW n \in Tools, NEW t \in LiveTool, NEW allow,
           n \in allow => p.override /\ SameContract(p, BuildEntry(n, t, {}))
    PROVE  /\ Restricted(p, BuildEntry(n, t, allow)).allowed => p.allowed
           /\ p.scopes \subseteq Restricted(p, BuildEntry(n, t, allow)).scopes
           /\ Restricted(p, BuildEntry(n, t, allow)).override
                 => p.override /\ SameContract(p, Restricted(p, BuildEntry(n, t, allow)))
<1> DEFINE b == BuildEntry(n, t, allow)
           c == BuildEntry(n, t, {})
<1>1. b \in Entry
  BY BuildEntryType
<1>2. b.override <=> n \in allow
  BY BuildEntryFields
<1>3. b.shape = c.shape /\ b.digest = c.digest /\ b.declared = c.declared
  BY BuildEntryFields
<1>4. n \in allow => p.override /\ SameContract(p, c)
  OBVIOUS
<1> HIDE DEF b, c
<1>5. /\ Restricted(p, b).allowed = (p.allowed /\ b.allowed)
      /\ Restricted(p, b).scopes = p.scopes \cup b.scopes
      /\ Restricted(p, b).override = b.override
  BY <1>1, RestrictedFields
<1>6. SameContract(p, Restricted(p, b)) <=> SameContract(p, c)
  <2>1. /\ Restricted(p, b).shape = c.shape
        /\ Restricted(p, b).digest = c.digest
        /\ Restricted(p, b).declared = c.declared
    BY <1>1, <1>3, RestrictedFields
  <2> QED BY <2>1 DEF SameContract
<1>7. Restricted(p, b).allowed => p.allowed
  BY <1>5
<1>8. p.scopes \subseteq Restricted(p, b).scopes
  BY <1>5
<1>9. Restricted(p, b).override => p.override /\ SameContract(p, Restricted(p, b))
  BY <1>2, <1>4, <1>5, <1>6
<1> QED BY <1>7, <1>8, <1>9 DEF b

LEMMA ReapprovalTightens ==
    ASSUME NEW m \in Manifest, NEW listing \in Listing, NEW expires
    PROVE  /\ Tightens(m, Reapproved(m, listing, expires))
           /\ NoNewOverride(m, Reapproved(m, listing, expires))
<1> DEFINE probe == BuildManifest(listing, {}, expires)
           allow == Carried(m, probe)
           built == BuildManifest(listing, allow, expires)
           new   == Reapproved(m, listing, expires)
<1>1. new.tools = [n \in Names(built) |->
                     IF n \in Names(m) THEN Restricted(m.tools[n], built.tools[n])
                                       ELSE built.tools[n]]
  BY DEF Reapproved, BuildManifest
<1>2. Names(built) = DOMAIN listing
  BY BuildNames
<1>3. \A n \in DOMAIN listing : built.tools[n] = BuildEntry(n, listing[n], allow)
  BY DEF BuildManifest
<1>4. \A n \in DOMAIN listing : probe.tools[n] = BuildEntry(n, listing[n], {})
  BY DEF BuildManifest
<1>5. \A n \in allow : /\ n \in Names(m)
                       /\ m.tools[n].override
                       /\ SameContract(m.tools[n], probe.tools[n])
  BY DEF Carried
<1> HIDE DEF probe, allow, built, new
<1>6. Names(new) = DOMAIN listing
  BY <1>1, <1>2 DEF Names
<1>7. ASSUME NEW n \in Names(m) \cap Names(new)
      PROVE  new.tools[n] = Restricted(m.tools[n], BuildEntry(n, listing[n], allow))
  BY <1>1, <1>2, <1>3, <1>6, <1>7
<1>8. ASSUME NEW n \in Names(m) \cap Names(new), n \in allow
      PROVE  /\ m.tools[n].override
             /\ SameContract(m.tools[n], BuildEntry(n, listing[n], {}))
  BY <1>4, <1>5, <1>6, <1>8
<1>9. Tightens(m, new)
  <2>1. \A n \in Names(m) \cap Names(new) :
           m.tools[n] \in Entry /\ n \in Tools /\ listing[n] \in LiveTool
    BY <1>6, ManifestParts, ListingShape
  <2> QED BY <2>1, <1>7, <1>8, RestrictedTightens DEF Tightens
<1>10. ASSUME NEW n \in Names(new) \ Names(m)
       PROVE  new.tools[n] = BuildEntry(n, listing[n], allow) /\ n \notin allow
  BY <1>1, <1>2, <1>3, <1>5, <1>6, <1>10
<1>11. NoNewOverride(m, new)
  BY <1>10, BuildEntryFields DEF NoNewOverride
<1> QED BY <1>9, <1>11 DEF new

(* A manifest with other entries for its tools is a manifest. *)
LEMMA ToolsReplaced ==
    ASSUME NEW m \in Manifest, NEW f \in [Names(m) -> Entry]
    PROVE  /\ [m EXCEPT !.tools = f] \in Manifest
           /\ [m EXCEPT !.tools = f].expires = m.expires
<1> DEFINE r == [m EXCEPT !.tools = f]
<1>1. m = [tools |-> m.tools, expires |-> m.expires, valid |-> m.valid]
  BY ManifestParts
<1>2. r = [tools |-> f, expires |-> m.expires, valid |-> m.valid]
  BY <1>1
<1>3. /\ Names(m) \in SUBSET Tools /\ r.tools \in [Names(m) -> Entry]
      /\ r.expires = m.expires /\ r.expires \in Nat /\ r.valid \in BOOLEAN
      /\ r = [tools |-> r.tools, expires |-> r.expires, valid |-> r.valid]
  BY <1>2, ManifestParts
<1> HIDE DEF r
<1>4. r \in Manifest
  BY <1>3, ManifestShape
<1> QED BY <1>3, <1>4 DEF r

(* An automatic update makes a manifest ... *)
LEMMA AutoUpdatedType ==
    ASSUME NEW m \in Manifest, NEW listing \in Listing, NEW expires \in Nat
    PROVE  /\ AutoUpdated(m, listing, expires) \in Manifest
           /\ AutoUpdated(m, listing, expires).expires = expires
<1> DEFINE b == BuildManifest(listing, {}, expires)
           f == [n \in Names(b) |-> IF n \in Names(m) THEN Preserved(m.tools[n], b.tools[n])
                                                     ELSE b.tools[n]]
<1>1. b \in Manifest /\ b.expires = expires
  BY BuildManifestType, BuildNames, ZenonT(40)
<1>2. AutoUpdated(m, listing, expires) = [b EXCEPT !.tools = f]
  BY DEF AutoUpdated, PreserveProxyPolicy
<1> HIDE DEF b
<1>3. \A n \in Names(b) : b.tools[n] \in Entry
  BY <1>1, ManifestParts
<1>4. \A n \in Names(m) : m.tools[n] \in Entry
  BY ManifestParts
<1>5. \A n \in Names(b) : f[n] \in Entry
  BY <1>3, <1>4, PreservedFields
<1>6. f \in [Names(b) -> Entry]
  BY <1>5
<1> HIDE DEF f
<1> QED BY <1>1, <1>2, <1>6, ToolsReplaced

(* ... that lists what the server lists, as it lists it. *)
LEMMA AutoUpdateMatches ==
    ASSUME NEW m \in Manifest, NEW listing \in Listing, NEW expires \in Nat
    PROVE  /\ Names(AutoUpdated(m, listing, expires)) = DOMAIN listing
           /\ \A n \in DOMAIN listing :
                 ~Differs(AutoUpdated(m, listing, expires).tools[n], listing[n])
           /\ Drifted(AutoUpdated(m, listing, expires), listing) = {}
<1> DEFINE built == BuildManifest(listing, {}, expires)
           new   == AutoUpdated(m, listing, expires)
<1>1. new.tools = [n \in Names(built) |->
                     IF n \in Names(m) THEN Preserved(m.tools[n], built.tools[n])
                                       ELSE built.tools[n]]
  BY DEF AutoUpdated, PreserveProxyPolicy, BuildManifest
<1>2. Names(built) = DOMAIN listing
  BY BuildNames
<1>3. \A n \in DOMAIN listing : built.tools[n] = BuildEntry(n, listing[n], {})
  BY DEF BuildManifest
<1> HIDE DEF built, new
<1>4. Names(new) = DOMAIN listing
  BY <1>1, <1>2 DEF Names
<1>5. ASSUME NEW n \in DOMAIN listing
      PROVE  ~Differs(new.tools[n], listing[n])
  <2> DEFINE b == BuildEntry(n, listing[n], {})
  <2>1. b \in Entry
    BY ListingShape, BuildEntryType
  <2>2. /\ b.shape = listing[n].shape
        /\ b.digest = ContractOf(listing[n])
        /\ b.declared = listing[n].declared
    BY BuildEntryFields
  <2>3. new.tools[n] = IF n \in Names(m) THEN Preserved(m.tools[n], b) ELSE b
    BY <1>1, <1>2, <1>3
  <2>4. n \in Names(m) => m.tools[n] \in Entry
    BY ManifestParts
  <2> HIDE DEF b
  <2>5. /\ new.tools[n].shape = b.shape
        /\ new.tools[n].digest = b.digest
        /\ new.tools[n].declared = b.declared
    BY <2>1, <2>3, <2>4, PreservedFields
  <2> QED BY <2>2, <2>5 DEF Differs
<1>6. Drifted(new, listing) = {}
  BY <1>4, <1>5 DEF Drifted
<1> QED BY <1>4, <1>5, <1>6 DEF new

(* Whichever way an automatic writer maintains a manifest, no decision about *)
(* a tool that stays listed is loosened (fleet.js:2-3, manifest.js:212-213). *)
THEOREM MaintenanceNeverLoosens ==
    ASSUME NEW m \in Manifest, NEW next, NEW listing \in Listing,
           Maintains(m, next, listing)
    PROVE  Tightens(m, next) /\ NoNewOverride(m, next)
  BY RenewTightens, ReapprovalTightens, AutoUpdateTightens DEF Maintains

(* reapproveServer and preserveProxyPolicy, written apart, agree: a reapproval *)
(* and an automatic update on the same listing make the same policy.           *)
THEOREM ReapprovalIsPreservation ==
    ASSUME NEW m \in Manifest, NEW listing \in Listing, NEW expires \in Nat
    PROVE  Reapproved(m, listing, expires).tools = AutoUpdated(m, listing, expires).tools
<1> DEFINE probe == BuildManifest(listing, {}, expires)
           allow == Carried(m, probe)
           built == BuildManifest(listing, allow, expires)
<1>1. Reapproved(m, listing, expires).tools =
         [n \in Names(built) |->
             IF n \in Names(m) THEN Restricted(m.tools[n], built.tools[n])
                               ELSE built.tools[n]]
  BY DEF Reapproved, BuildManifest
<1>2. AutoUpdated(m, listing, expires).tools =
         [n \in Names(probe) |->
             IF n \in Names(m) THEN Preserved(m.tools[n], probe.tools[n])
                               ELSE probe.tools[n]]
  BY DEF AutoUpdated, PreserveProxyPolicy, BuildManifest
<1>3. Names(built) = DOMAIN listing /\ Names(probe) = DOMAIN listing
  BY BuildNames
<1>4. \A n \in DOMAIN listing : /\ built.tools[n] = BuildEntry(n, listing[n], allow)
                                /\ probe.tools[n] = BuildEntry(n, listing[n], {})
  BY DEF BuildManifest
<1>5. \A n \in DOMAIN listing :
         n \in allow <=> /\ n \in Names(m)
                         /\ m.tools[n].override
                         /\ SameContract(m.tools[n], BuildEntry(n, listing[n], {}))
  BY <1>3, <1>4 DEF Carried
<1>6. \A n \in Names(m) : m.tools[n] \in Entry
  BY ManifestParts
<1> HIDE DEF probe, allow, built
<1>7. ASSUME NEW n \in DOMAIN listing, n \in Names(m)
      PROVE  Restricted(m.tools[n], BuildEntry(n, listing[n], allow))
                = Preserved(m.tools[n], BuildEntry(n, listing[n], {}))
  <2> DEFINE p == m.tools[n]
             x == BuildEntry(n, listing[n], allow)
             y == BuildEntry(n, listing[n], {})
             r == Restricted(p, x)
             q == Preserved(p, y)
  <2>1. p \in Entry /\ x \in Entry /\ y \in Entry
    BY <1>6, <1>7, ListingShape, BuildEntryType
  <2>2. /\ x.override <=> n \in allow
        /\ ~y.override
        /\ x.shape = y.shape /\ x.digest = y.digest
        /\ x.declared = y.declared /\ x.scopes = y.scopes
    BY BuildEntryFields
  <2>9. x.allowed <=> n \in allow \/ y.allowed
    BY BuildEntryAllowed
  <2>3. n \in allow <=> p.override /\ SameContract(p, y)
    BY <1>5, <1>7
  <2> HIDE DEF p, x, y
  <2>4. /\ r \in Entry
        /\ r.override = x.override
        /\ r.allowed = (p.allowed /\ x.allowed)
        /\ r.scopes = p.scopes \cup x.scopes
        /\ r.shape = x.shape /\ r.digest = x.digest /\ r.declared = x.declared
    BY <2>1, RestrictedFields
  <2>5. /\ q \in Entry
        /\ q.override = (y.override \/ (p.override /\ SameContract(p, y)))
        /\ q.allowed = (p.allowed /\ ((p.override /\ SameContract(p, y)) \/ y.allowed))
        /\ q.scopes = p.scopes \cup y.scopes
        /\ q.shape = y.shape /\ q.digest = y.digest /\ q.declared = y.declared
    BY <2>1, PreservedFields
  <2> HIDE DEF r, q
  <2>6. /\ r.override <=> q.override
        /\ r.allowed <=> q.allowed
        /\ r.scopes = q.scopes /\ r.shape = q.shape /\ r.digest = q.digest
        /\ r.declared = q.declared
    BY <2>2, <2>3, <2>4, <2>5, <2>9
  <2>7. r.override = q.override /\ r.allowed = q.allowed
    BY <2>4, <2>5, <2>6 DEF Entry
  <2>8. r = q
    BY <2>4, <2>5, <2>6, <2>7, SMTT(30) DEF Entry
  <2> QED BY <2>8 DEF r, q, p, x, y
<1>8. ASSUME NEW n \in DOMAIN listing, n \notin Names(m)
      PROVE  BuildEntry(n, listing[n], allow) = BuildEntry(n, listing[n], {})
  <2>1. n \notin allow
    BY <1>5, <1>8
  <2> QED BY <2>1 DEF BuildEntry
<1> QED BY <1>1, <1>2, <1>3, <1>4, <1>7, <1>8
=============================================================================
