----------------------------- MODULE Provenance -----------------------------
(* lib/provenance.js: manifests, their signatures and what a verifier makes  *)
(* of them.  A digest is collision-free and stands for what it is of; a key  *)
(* id, the digest of a public key, stands for the key.                       *)
EXTENDS Naturals, NoValue

CONSTANT Publishers  \* their key pairs

(* A manifest: its tools, the tools toolsetDigest is of, the publisher's     *)
(* declared key and key id, an expiry date that will pass or null, the       *)
(* payload manifestDigest is of, and the signature: who made it, of what.    *)
Payload(m) == [tools |-> m.tools, digest |-> m.digest, key |-> m.key, keyId |-> m.keyId,
               expires |-> m.expires, server |-> m.server]

Digested(m) == [m EXCEPT !.manifestDigest = Payload(m)]

(* buildManifest, for an observed server; without --key the publisher is a   *)
(* placeholder.                                                              *)
BuildManifest(observed, key, expires) ==
    Digested([tools |-> observed.tools, digest |-> observed.tools, server |-> observed.self.name,
              key |-> key, keyId |-> key, expires |-> expires,
              manifestDigest |-> NONE, signature |-> NONE])

(* signManifest refuses a manifest that declares someone else. *)
MaySign(m, secret) == {m.key, m.keyId} \subseteq {NONE, secret}

SignManifest(m, secret) ==
    LET unsigned == Digested([m EXCEPT !.key = secret, !.keyId = secret])
    IN  [unsigned EXCEPT !.signature = [by |-> secret, of |-> Payload(unsigned)]]

SignedByAny(m) ==   \* mutant: what the signature is of is not compared
    NONE \notin {m.key, m.signature} /\ m.signature.by = m.key

SignatureHolds(m) == /\ NONE \notin {m.key, m.signature}
                     /\ m.signature = [by |-> m.key, of |-> Payload(m)]

(* verifyManifest: `ok`, at a time when expiry dates have passed or not. *)
VerifyManifest(m, late) == /\ m.keyId \in {NONE, m.key}
                           /\ m.manifestDigest \in {NONE, Payload(m)}
                           /\ m.digest \in {NONE, m.tools}
                           /\ SignatureHolds(m)
                           /\ ~(m.expires /\ late)

(* verify's exit code: without an anchor the key is self-asserted, and that  *)
(* is enough.                                                                *)
Accepted(m, late, anchors) == VerifyManifest(m, late) /\ (anchors = {} \/ m.key \in anchors)

(* bindingConsistency: a server that serves what its publisher signed. *)
BindingConsistent(m, observed) == m.digest = observed.tools /\ m.server = observed.self.name
=============================================================================
