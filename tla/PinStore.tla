------------------------------ MODULE PinStore ------------------------------
(* lib/pin.js: what the operations of a PinStore make of its data, which is  *)
(* the server pins by key and the publishers' keys pinned on first use.  A   *)
(* server's key is its self-report and the origin it was reached by, or, in  *)
(* a pin from before origins were bound, the self-report alone.              *)
EXTENDS Provenance, Sequences, SequencesExt

EmptyStore == [servers |-> [key \in {} |-> NONE], publishers |-> {}]

ServerKey(self, origin) == <<self, origin>>

LegacyKeyOf(key) == <<Head(key)>>

GetServerPin(data, key) ==
    CASE key \in DOMAIN data.servers -> data.servers[key]
      [] key \notin DOMAIN data.servers /\ LegacyKeyOf(key) \in DOMAIN data.servers
           -> data.servers[LegacyKeyOf(key)]
      [] OTHER -> NONE

Without(servers, keys) == Restrict(servers, DOMAIN servers \ keys)

Put(servers, key, pin) ==
    [k \in DOMAIN servers \cup {key} |-> IF k = key THEN pin ELSE servers[k]]

(* The pin an operation at time `when` puts at key; it replaces the pin read *)
(* there, which is moved from the legacy key if it was found under that.     *)
Renewed(pin, tools, when) ==
    IF pin = NONE THEN [tools |-> tools, first |-> when, repins |-> 0]
    ELSE [tools |-> tools, first |-> pin.first, repins |-> pin.repins + 1]

CopiesLegacy(data, key, tools, when) ==   \* mutant: the legacy pin stays
    [data EXCEPT !.servers = Put(@, key, Renewed(GetServerPin(data, key), tools, when))]

PinServer(data, key, tools, when) ==
    LET moved == IF key \in DOMAIN data.servers THEN {} ELSE {LegacyKeyOf(key)}
    IN  [data EXCEPT !.servers =
            Put(Without(@, moved), key, Renewed(GetServerPin(data, key), tools, when))]

RemoveServerPin(data, key) ==
    [data EXCEPT !.servers = Without(@, {key, LegacyKeyOf(key)})]

PinPublisherTofu(data, key) == [data EXCEPT !.publishers = @ \cup {key}]
=============================================================================
