--------------------------- MODULE ManifestPolicy ---------------------------
(* The enforcement manifest of lib/manifest.js and the ways a new one is     *)
(* made from an old one and a tools/list listing: a fresh build, a renewal,  *)
(* an explicit reapproval (lib/fleet.js) and an automatic update (proxies).  *)
(*                                                                           *)
(* A contract is its shape (inputSchema and description, hashed by every     *)
(* manifest) and its extra (the other fields of identity.js's projection,    *)
(* seen only by contractDigest).  A hash stands for what it hashes.          *)
EXTENDS Naturals

CONSTANTS Tools,      \* tool names
          Shapes,     \* inputSchema and description
          Extras,     \* outputSchema, annotations, execution
          Scopes,     \* OAuth scopes
          Dangerous,  \* the <<name, shape>> the danger detector flags
          NONE        \* a hash a legacy manifest did not record

ASSUME PolicyAssumption == /\ Dangerous \subseteq Tools \X Shapes
                           /\ NONE \notin [shape : Shapes, extra : Extras]
                           /\ \A S \in SUBSET Scopes : NONE # S

Contract == [shape : Shapes, extra : Extras]
LiveTool == [shape : Shapes, extra : Extras, declared : SUBSET Scopes]

(* A complete tools/list: listLiveTools rejects a repeated name. *)
Listing == UNION {[N -> LiveTool] : N \in SUBSET Tools}

Entry == [shape    : Shapes,                      \* schemaHash, descriptionHash
          digest   : {NONE} \cup Contract,       \* contractDigest
          declared : {NONE} \cup SUBSET Scopes,  \* declaredScopesHash
          allowed  : BOOLEAN,
          override : BOOLEAN,                     \* manualOverride
          scopes   : SUBSET Scopes]               \* requiredScopes

(* valid: the file passes assertProxyManifest, its recorded manifestHash     *)
(* among the rest; an edit that does not reseal the hash leaves it FALSE.    *)
Manifest == [tools   : UNION {[N -> Entry] : N \in SUBSET Tools},
             expires : Nat,
             valid   : BOOLEAN]

Names(m) == DOMAIN m.tools
ContractOf(t) == [shape |-> t.shape, extra |-> t.extra]

-----------------------------------------------------------------------------
BuildEntry(n, t, allow) ==
    [shape    |-> t.shape,
     digest   |-> ContractOf(t),
     declared |-> t.declared,
     allowed  |-> n \in allow \/ <<n, t.shape>> \notin Dangerous,
     override |-> n \in allow,
     scopes   |-> t.declared]

BuildManifest(listing, allow, expires) ==
    [tools   |-> [n \in DOMAIN listing |-> BuildEntry(n, listing[n], allow)],
     expires |-> expires,
     valid   |-> TRUE]

(* Has the live tool t left what entry e approved? *)
Differs(e, t) == \/ t.shape # e.shape
                 \/ e.digest # NONE /\ e.digest # ContractOf(t)
                 \/ e.declared # NONE /\ e.declared # t.declared

Added(m, listing)   == DOMAIN listing \ Names(m)
Removed(m, listing) == Names(m) \ DOMAIN listing
Drifted(m, listing) ==
    {n \in Names(m) \cap DOMAIN listing : Differs(m.tools[n], listing[n])}

Matches(m, listing) == /\ Added(m, listing) = {}
                       /\ Removed(m, listing) = {}
                       /\ Drifted(m, listing) = {}

(* What the next manifest's entry t has of the contract entry p approved. *)
SameContract(p, t) == /\ p.shape = t.shape
                      /\ p.digest \in {NONE, t.digest}
                      /\ p.declared \in {NONE, t.declared}

-----------------------------------------------------------------------------
(* renewManifest *)
Renewable(m, listing) == /\ \A n \in Names(m) : m.tools[n].digest # NONE
                         /\ m.valid
                         /\ Matches(m, listing)

RenewManifest(m, expires) == [m EXCEPT !.expires = expires]

(* preserveProxyPolicy: the proxies' automatic update. *)
Reanalysed(p, t) ==   \* mutant: the detector's verdict replaces a denial
    LET carried == p.override /\ SameContract(p, t)
    IN  [t EXCEPT !.override = t.override \/ carried,
                  !.allowed  = (carried /\ p.allowed) \/ t.allowed,
                  !.scopes   = p.scopes \cup t.scopes]

Preserved(p, t) ==
    LET carried == p.override /\ SameContract(p, t)
    IN  [t EXCEPT !.override = t.override \/ carried,
                  !.allowed  = p.allowed /\ (carried \/ t.allowed),
                  !.scopes   = p.scopes \cup t.scopes]

PreserveProxyPolicy(old, next) ==
    [next EXCEPT !.tools = [n \in Names(next) |->
        IF n \in Names(old) THEN Preserved(old.tools[n], next.tools[n])
                            ELSE next.tools[n]]]

AutoUpdated(m, listing, expires) ==
    PreserveProxyPolicy(m, BuildManifest(listing, {}, expires))

(* reapproveServer: the overrides whose contract is unchanged are approved   *)
(* again, then denials and scopes are put back.                              *)
Carried(m, probe) ==
    {n \in Names(m) \cap Names(probe) :
        m.tools[n].override /\ SameContract(m.tools[n], probe.tools[n])}

Restricted(p, t) == [t EXCEPT !.allowed = p.allowed /\ t.allowed,
                              !.scopes  = p.scopes \cup t.scopes]

Reapproved(m, listing, expires) ==
    LET probe == BuildManifest(listing, {}, expires)
        next  == BuildManifest(listing, Carried(m, probe), expires)
    IN  [next EXCEPT !.tools = [n \in Names(next) |->
            IF n \in Names(m) THEN Restricted(m.tools[n], next.tools[n])
                              ELSE next.tools[n]]]

-----------------------------------------------------------------------------
(* Is next what an automatic writer may make of m, given this listing? *)
Maintains(m, next, listing) ==
    \/ Renewable(m, listing) /\ next = RenewManifest(m, next.expires)
    \/ next = Reapproved(m, listing, next.expires)
    \/ next = AutoUpdated(m, listing, next.expires)

(* Of a tool both manifests list: a denial stays, no required scope is       *)
(* dropped, and an override is there only if it was and the contract is the  *)
(* one it was given for.                                                     *)
Tightens(old, new) ==
    \A n \in Names(old) \cap Names(new) :
        LET p == old.tools[n]  t == new.tools[n]
        IN  /\ t.allowed => p.allowed
            /\ p.scopes \subseteq t.scopes
            /\ t.override => p.override /\ SameContract(p, t)

NoNewOverride(old, new) ==
    \A n \in Names(new) \ Names(old) : ~new.tools[n].override

(* checkCall, for a caller that presents the scopes held, or NONE if it      *)
(* presents no valid token.  `allowAll` is the proxies' --allow-all.         *)
CheckCall(m, n, held, now, allowAll) ==
    /\ m.expires > now
    /\ IF n \notin Names(m) THEN allowAll
       ELSE /\ m.tools[n].allowed \/ allowAll
            /\ \/ m.tools[n].scopes = {}
               \/ held # NONE /\ m.tools[n].scopes \subseteq held
=============================================================================
