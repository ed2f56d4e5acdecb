--------------------------- MODULE Introspection ---------------------------
(* lib/auth.js: how a proxy learns whether a token is good.  Tokens of the   *)
(* built-in issuer are verified on the spot; others are sent to an identity  *)
(* provider, whose answers are cached.  Validations interleave where they    *)
(* await the provider, which may revoke a token at any time, and the proxy   *)
(* may be restarted.                                                         *)
EXTENDS Integers

CONSTANTS Tokens,    \* the tokens clients use
          Signed,    \* those with a good signature of the built-in issuer
          Expires,   \* Expires[t]: the last moment token t is good
          Ttl,       \* cacheTtlSeconds
          MaxCalls,  \* bound: validations, numbered as they begin
          MaxDelay,  \* how long an answer of the provider travels at most
          MaxNow, MaxStarts,  \* bounds
          NONE

Calls == 1..MaxCalls
Never == -1
Times == {Never} \cup Nat

ASSUME IntrospectionAssumption == /\ Signed \subseteq Tokens /\ NONE \notin Tokens
                                  /\ Expires \in [Tokens -> Nat]
                                  /\ Ttl \in Nat \ {0}
                                  /\ {MaxCalls, MaxDelay, MaxNow, MaxStarts} \subseteq Nat

VARIABLES now,      \* the clock
          revoked,  \* revoked[t]: when the provider revoked t, or Never
          cached,   \* cached[t]: cachedAt of the entry for t, or Never
          token,    \* token[i]: what call i is to be validated with
          stage,    \* stage[i]: where its validation is
          active,   \* active[i]: what the provider answered, on its way
          said,     \* said[i]: when, or Never
          starts    \* how often the proxy was started

callVars == <<token, stage, active, said>>
vars == <<now, revoked, cached, callVars, starts>>

(* asking: the provider has not seen it; answered: its answer travels.       *)
(* granted: the call holds the scopes of its token; refused: it holds none.  *)
Stages == {"unused", "asking", "answered", "granted", "refused"}

TypeOK == /\ now \in Nat
          /\ revoked \in [Tokens -> Times]
          /\ cached \in [Tokens -> Times]
          /\ token \in [Calls -> Tokens \cup {NONE}]
          /\ stage \in [Calls -> Stages]
          /\ active \in [Calls -> BOOLEAN]
          /\ said \in [Calls -> Times]
          /\ starts \in Nat

Init == /\ now = 0
        /\ revoked = [t \in Tokens |-> Never]
        /\ cached = [t \in Tokens |-> Never]
        /\ token = [i \in Calls |-> NONE]
        /\ stage = [i \in Calls |-> "unused"]
        /\ active = [i \in Calls |-> FALSE]
        /\ said = [i \in Calls |-> Never]
        /\ starts = 1

-----------------------------------------------------------------------------
(* The provider and the network. *)

(* An answer that has travelled for MaxDelay arrives before time goes on. *)
Tick == /\ now < MaxNow
        /\ \A i \in Calls : stage[i] = "answered" => now < said[i] + MaxDelay
        /\ now' = now + 1
        /\ UNCHANGED <<revoked, cached, callVars, starts>>

Revoke(t) == /\ t \notin Signed
             /\ revoked[t] = Never
             /\ revoked' = [revoked EXCEPT ![t] = now]
             /\ UNCHANGED <<now, cached, callVars, starts>>

Examine(i) ==
    /\ stage[i] = "asking"
    /\ stage' = [stage EXCEPT ![i] = "answered"]
    /\ active' = [active EXCEPT ![i] = revoked[token[i]] = Never /\ now <= Expires[token[i]]]
    /\ said' = [said EXCEPT ![i] = now]
    /\ UNCHANGED <<now, revoked, cached, token, starts>>

-----------------------------------------------------------------------------
(* The proxy. *)
Unexpired(t) == now <= Expires[t]

(* Validation i is over, or never had to wait. *)
Decided(i, place) == /\ stage' = [stage EXCEPT ![i] = place]
                     /\ active' = [active EXCEPT ![i] = FALSE]
                     /\ said' = [said EXCEPT ![i] = Never]

Begins(i, t) == /\ stage[i] = "unused"
                /\ \A j \in 1..(i - 1) : stage[j] # "unused"
                /\ token' = [token EXCEPT ![i] = t]

(* DevIssuer.verify: no await, no network, and no revocation. *)
Verify(i, t) ==
    /\ t \in Signed
    /\ Begins(i, t)
    /\ Decided(i, IF Unexpired(t) THEN "granted" ELSE "refused")
    /\ UNCHANGED <<now, revoked, cached, starts>>

(* The cache has an entry that is young enough for a token that is good. *)
Usable(t) == cached[t] # Never /\ now - cached[t] < Ttl /\ Unexpired(t)

SlidingHit(i, t) ==   \* mutant: a hit makes the entry young again
    /\ t \notin Signed
    /\ Usable(t)
    /\ Begins(i, t)
    /\ Decided(i, "granted")
    /\ cached' = [cached EXCEPT ![t] = now]
    /\ UNCHANGED <<now, revoked, starts>>

Hit(i, t) ==
    /\ t \notin Signed
    /\ Usable(t)
    /\ Begins(i, t)
    /\ Decided(i, "granted")
    /\ UNCHANGED <<now, revoked, cached, starts>>

(* An entry that is of no use is deleted, and the provider is asked, also    *)
(* when it is being asked about this token already.                          *)
Introspect(i, t) ==
    /\ t \notin Signed
    /\ ~Usable(t)
    /\ Begins(i, t)
    /\ stage' = [stage EXCEPT ![i] = "asking"]
    /\ cached' = [cached EXCEPT ![t] = Never]
    /\ UNCHANGED <<now, revoked, active, said, starts>>

(* The answer arrives, maybe after later ones: "active" is cached from now   *)
(* on, while "inactive" leaves the cache as it is.                           *)
Answered(i) ==
    /\ stage[i] = "answered"
    /\ IF active[i]
       THEN /\ cached' = [cached EXCEPT ![token[i]] = now]
            /\ Decided(i, IF Unexpired(token[i]) THEN "granted" ELSE "refused")
       ELSE /\ Decided(i, "refused")
            /\ UNCHANGED cached
    /\ UNCHANGED <<now, revoked, token, starts>>

(* The provider cannot be reached, answers with an error or with no JSON:    *)
(* the call fails.                                                           *)
Fails(i) == /\ stage[i] \in {"asking", "answered"}
            /\ Decided(i, "refused")
            /\ UNCHANGED <<now, revoked, cached, token, starts>>

(* The proxy ends, with its calls and its cache, and is started again. *)
Restart == /\ starts < MaxStarts
           /\ starts' = starts + 1
           /\ cached' = [t \in Tokens |-> Never]
           /\ stage' = [i \in Calls |-> IF stage[i] \in {"asking", "answered"} THEN "refused"
                                        ELSE stage[i]]
           /\ active' = [i \in Calls |-> FALSE]
           /\ said' = [i \in Calls |-> Never]
           /\ UNCHANGED <<now, revoked, token>>

-----------------------------------------------------------------------------
Next == \/ Tick \/ Restart
        \/ \E t \in Tokens : Revoke(t)
        \/ \E i \in Calls : \/ Examine(i) \/ Answered(i) \/ Fails(i)
                            \/ \E t \in Tokens : Verify(i, t) \/ Hit(i, t) \/ Introspect(i, t)

Spec == Init /\ [][Next]_vars

-----------------------------------------------------------------------------
(* This step grants call i the scopes of its token. *)
Grants(i) == stage[i] # "granted" /\ stage'[i] = "granted"

(* A revocation is in force once the answers that were on their way at that  *)
(* time have arrived and their cache entries are too old: no overlap of      *)
(* validations, no late answer and no number of hits makes it later.         *)
RevocationLapses ==
    [][\A i \in Calls : Grants(i) =>
          LET t == token'[i]
          IN  /\ now <= Expires[t]
              /\ revoked[t] # Never => now < revoked[t] + MaxDelay + Ttl]_vars
=============================================================================
