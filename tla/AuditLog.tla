------------------------------ MODULE AuditLog ------------------------------
(* What a receipt file promises its reader: a log of authorized calls.  Each *)
(* entry is a call and the policy it was authorized under, on a line of its  *)
(* own after those before it; it is written while the call is open, which    *)
(* begins with its authorization and ends once; and no entry is ever changed *)
(* or taken out.                                                             *)
EXTENDS Naturals

VARIABLES authorized,  \* the <<call, policy>> authorized so far
          open,        \* the calls that are not over
          log          \* log[k]: the entry on line k, for the lines that have one

vars == <<authorized, open, log>>

Init == authorized = {} /\ open = {} /\ DOMAIN log = {}

Authorize(call, policy) ==
    /\ \A entry \in authorized : entry[1] # call
    /\ authorized' = authorized \cup {<<call, policy>>}
    /\ open' = open \cup {call}
    /\ UNCHANGED log

Record(k, entry) ==
    /\ entry \in authorized
    /\ entry[1] \in open
    /\ \A j \in DOMAIN log : j < k
    /\ log' = [j \in DOMAIN log \cup {k} |-> IF j = k THEN entry ELSE log[j]]
    /\ open' \subseteq open
    /\ UNCHANGED authorized

Close == open' \subseteq open /\ UNCHANGED <<authorized, log>>

Next == \/ \E entry \in authorized' \ authorized : Authorize(entry[1], entry[2])
        \/ \E k \in DOMAIN log' \ DOMAIN log : Record(k, log'[k])
        \/ Close

Spec == Init /\ [][Next]_vars
=============================================================================
