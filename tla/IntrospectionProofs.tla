------------------------- MODULE IntrospectionProofs -------------------------
(* Revocation reaches the proxy in time, for any number of tokens, of calls  *)
(* whose validations overlap and of restarts, without the bounds of a run.   *)
EXTENDS Introspection, TLAPS

(* A cache entry is no younger than an answer the provider may still give    *)
(* out of ignorance of the revocation.                                       *)
EntriesAge == \A t \in Tokens :
                 cached[t] # Never =>
                    /\ cached[t] <= now
                    /\ revoked[t] # Never => cached[t] <= revoked[t] + MaxDelay

(* An answer on its way is about a token, young, and was true.               *)
AnswersWereTrue ==
    \A i \in Calls :
       /\ stage[i] \in {"asking", "answered"} => token[i] \in Tokens
       /\ stage[i] = "answered" =>
             /\ said[i] \in Nat /\ said[i] <= now /\ now <= said[i] + MaxDelay
             /\ active[i] /\ revoked[token[i]] # Never => said[i] <= revoked[token[i]]

(* The built-in issuer revokes nothing. *)
SignedStay == \A t \in Signed : revoked[t] = Never

IInv == TypeOK /\ EntriesAge /\ AnswersWereTrue /\ SignedStay

-----------------------------------------------------------------------------
LEMMA InitIInv == Init => IInv
  BY IntrospectionAssumption
     DEF Init, IInv, TypeOK, Times, Stages, Never, EntriesAge, AnswersWereTrue, SignedStay

(* A call that is decided leaves no answer on its way, and the rest as it is. *)
LEMMA DecidedKeeps ==
    ASSUME TypeOK, AnswersWereTrue, NEW i \in Calls, NEW place \in {"granted", "refused"},
           Decided(i, place), UNCHANGED <<now, revoked>>,
           \A j \in Calls : j # i => token'[j] = token[j]
    PROVE  /\ stage' \in [Calls -> Stages]
           /\ active' \in [Calls -> BOOLEAN]
           /\ said' \in [Calls -> Times]
           /\ AnswersWereTrue'
<1>1. /\ stage' \in [Calls -> Stages] /\ active' \in [Calls -> BOOLEAN]
      /\ said' \in [Calls -> Times]
  BY DEF TypeOK, Decided, Stages, Times
<1>2. stage'[i] = place
  BY DEF TypeOK, Decided
<1>3. \A j \in Calls : j # i => /\ stage'[j] = stage[j] /\ active'[j] = active[j]
                                /\ said'[j] = said[j]
  BY DEF TypeOK, Decided
<1>4. AnswersWereTrue'
  BY <1>2, <1>3 DEF AnswersWereTrue
<1> QED BY <1>1, <1>4

LEMMA NextIInv == IInv /\ [Next]_vars => IInv'
<1> SUFFICES ASSUME IInv, [Next]_vars PROVE IInv'
  OBVIOUS
<1> USE IntrospectionAssumption DEF IInv
<1>1. CASE UNCHANGED vars
  BY <1>1 DEF vars, callVars, TypeOK, EntriesAge, AnswersWereTrue, SignedStay
<1>2. CASE Tick
  <2>1. TypeOK' /\ SignedStay'
    BY <1>2 DEF Tick, callVars, TypeOK, SignedStay
  <2>2. EntriesAge'
    BY <1>2 DEF Tick, TypeOK, Times, Never, EntriesAge
  <2>3. AnswersWereTrue'
    BY <1>2 DEF Tick, callVars, TypeOK, AnswersWereTrue
  <2> QED BY <2>1, <2>2, <2>3
<1>3. CASE Restart
  <2>1. TypeOK'
    BY <1>3 DEF Restart, TypeOK, Times, Stages
  <2>2. EntriesAge' /\ SignedStay'
    BY <1>3 DEF Restart, EntriesAge, SignedStay
  <2>3. \A i \in Calls : stage'[i] \notin {"asking", "answered"}
    BY <1>3 DEF Restart
  <2> QED BY <2>1, <2>2, <2>3 DEF AnswersWereTrue
<1>4. ASSUME NEW t \in Tokens, Revoke(t) PROVE IInv'
  <2>1. /\ TypeOK' /\ SignedStay'
        /\ revoked'[t] = now /\ \A u \in Tokens : u # t => revoked'[u] = revoked[u]
    BY <1>4 DEF Revoke, callVars, TypeOK, Times, SignedStay
  <2>2. EntriesAge'
    BY <1>4, <2>1 DEF Revoke, TypeOK, Times, Never, EntriesAge
  <2>3. AnswersWereTrue'
    BY <1>4, <2>1 DEF Revoke, callVars, TypeOK, Times, Never, AnswersWereTrue
  <2> QED BY <2>1, <2>2, <2>3
<1>5. ASSUME NEW i \in Calls, Examine(i) PROVE IInv'
  <2>1. TypeOK' /\ SignedStay' /\ EntriesAge'
    BY <1>5 DEF Examine, TypeOK, Times, Stages, SignedStay, EntriesAge
  <2>2. ASSUME NEW j \in Calls
        PROVE  /\ stage'[j] \in {"asking", "answered"} => token'[j] \in Tokens
               /\ stage'[j] = "answered" =>
                     /\ said'[j] \in Nat /\ said'[j] <= now' /\ now' <= said'[j] + MaxDelay
                     /\ active'[j] /\ revoked'[token'[j]] # Never
                           => said'[j] <= revoked'[token'[j]]
    <3>1. CASE j = i
      <4>1. active'[i] = (revoked[token[i]] = Never /\ now <= Expires[token[i]])
        BY <1>5 DEF Examine, TypeOK
      <4>2. active'[i] => revoked[token[i]] = Never
        BY <4>1
      <4>3. /\ token'[i] \in Tokens /\ said'[i] = now /\ now \in Nat
            /\ revoked' = revoked /\ token' = token /\ now' = now
        BY <1>5 DEF Examine, TypeOK, AnswersWereTrue
      <4> QED BY <3>1, <4>2, <4>3
    <3>2. CASE j # i
      BY <1>5, <3>2 DEF Examine, TypeOK, AnswersWereTrue
    <3> QED BY <3>1, <3>2
  <2>3. AnswersWereTrue'
    BY <2>2 DEF AnswersWereTrue
  <2> QED BY <2>1, <2>3
<1>6. ASSUME NEW i \in Calls, NEW t \in Tokens, Verify(i, t) \/ Hit(i, t) PROVE IInv'
  <2>1. /\ \E place \in {"granted", "refused"} : Decided(i, place)
        /\ UNCHANGED <<now, revoked, cached, starts>>
        /\ token' = [token EXCEPT ![i] = t]
    BY <1>6 DEF Verify, Hit, Begins
  <2>2. /\ stage' \in [Calls -> Stages] /\ active' \in [Calls -> BOOLEAN]
        /\ said' \in [Calls -> Times] /\ AnswersWereTrue'
    BY <2>1, DecidedKeeps DEF TypeOK
  <2> QED BY <2>1, <2>2 DEF TypeOK, EntriesAge, SignedStay
<1>7. ASSUME NEW i \in Calls, NEW t \in Tokens, Introspect(i, t) PROVE IInv'
  <2>1. TypeOK' /\ SignedStay' /\ EntriesAge'
    BY <1>7 DEF Introspect, Begins, TypeOK, Times, Stages, Never, SignedStay, EntriesAge
  <2>2. AnswersWereTrue'
    BY <1>7 DEF Introspect, Begins, TypeOK, AnswersWereTrue
  <2> QED BY <2>1, <2>2
<1>8. ASSUME NEW i \in Calls, Answered(i) PROVE IInv'
  <2>1. /\ \E place \in {"granted", "refused"} : Decided(i, place)
        /\ UNCHANGED <<now, revoked, token, starts>>
    BY <1>8 DEF Answered
  <2>2. /\ stage' \in [Calls -> Stages] /\ active' \in [Calls -> BOOLEAN]
        /\ said' \in [Calls -> Times] /\ AnswersWereTrue'
    BY <2>1, DecidedKeeps
  <2>3. token[i] \in Tokens
    BY <1>8 DEF Answered, AnswersWereTrue
  <2>4. TypeOK' /\ SignedStay'
    BY <1>8, <2>1, <2>2 DEF Answered, TypeOK, Times, SignedStay
  <2>5. CASE active[i]
    <3>1. cached' = [cached EXCEPT ![token[i]] = now]
      BY <1>8, <2>5 DEF Answered
    <3>2. revoked[token[i]] # Never => now <= revoked[token[i]] + MaxDelay
      <4>1. /\ said[i] \in Nat /\ now <= said[i] + MaxDelay
            /\ revoked[token[i]] # Never => said[i] <= revoked[token[i]]
        BY <1>8, <2>5 DEF Answered, AnswersWereTrue
      <4>2. revoked[token[i]] \in Times /\ now \in Nat
        BY <2>3 DEF TypeOK
      <4> QED BY <4>1, <4>2 DEF Times, Never
    <3>3. EntriesAge'
      BY <2>1, <2>3, <3>1, <3>2 DEF EntriesAge, TypeOK
    <3> QED BY <2>2, <2>4, <3>3
  <2>6. CASE ~active[i]
    BY <1>8, <2>1, <2>2, <2>4, <2>6 DEF Answered, EntriesAge
  <2> QED BY <2>5, <2>6
<1>9. ASSUME NEW i \in Calls, Fails(i) PROVE IInv'
  <2>1. Decided(i, "refused") /\ UNCHANGED <<now, revoked, cached, token, starts>>
    BY <1>9 DEF Fails
  <2>2. /\ stage' \in [Calls -> Stages] /\ active' \in [Calls -> BOOLEAN]
        /\ said' \in [Calls -> Times] /\ AnswersWereTrue'
    BY <2>1, DecidedKeeps
  <2> QED BY <2>1, <2>2 DEF TypeOK, EntriesAge, SignedStay
<1> QED BY <1>1, <1>2, <1>3, <1>4, <1>5, <1>6, <1>7, <1>8, <1>9 DEF Next

LEMMA SpecIInv == Spec => []IInv
  BY InitIInv, NextIInv, PTL DEF Spec

(* The state is well typed. *)
THEOREM IntrospectionTyped == Spec => []TypeOK
<1>1. IInv => TypeOK
  BY DEF IInv
<1> QED BY <1>1, SpecIInv, PTL

-----------------------------------------------------------------------------
(* A call is granted by a signature, by an entry that is young enough, or by *)
(* an answer that has just arrived.                                          *)
LEMMA GrantedInTime ==
    ASSUME IInv, Next, NEW j \in Calls, Grants(j)
    PROVE  LET t == token'[j]
           IN  /\ now <= Expires[t]
               /\ revoked[t] # Never => now < revoked[t] + MaxDelay + Ttl
<1> USE IntrospectionAssumption DEF IInv
<1>1. stage' # stage
  BY DEF Grants
<1>2. ASSUME NEW i \in Calls, NEW place, Decided(i, place)
      PROVE  i = j /\ place = "granted"
  BY <1>2 DEF Decided, Grants, TypeOK
<1>3. ASSUME NEW i \in Calls, NEW t \in Tokens, Verify(i, t)
      PROVE  token'[j] = t /\ t \in Signed /\ now <= Expires[t]
  <2>1. i = j /\ Unexpired(t)
    BY <1>2, <1>3 DEF Verify
  <2> QED BY <1>3, <2>1 DEF Verify, Begins, Unexpired, TypeOK
<1>4. ASSUME NEW i \in Calls, NEW t \in Tokens, Hit(i, t)
      PROVE  token'[j] = t /\ Usable(t)
  <2>1. i = j
    BY <1>2, <1>4 DEF Hit
  <2> QED BY <1>4, <2>1 DEF Hit, Begins, TypeOK
<1>5. ASSUME NEW i \in Calls, Answered(i)
      PROVE  /\ i = j /\ active[i] /\ stage[i] = "answered"
             /\ token'[j] = token[i] /\ Unexpired(token[i])
  BY <1>2, <1>5 DEF Answered
<1>6. ASSUME NEW t \in Tokens, token'[j] = t, Usable(t)
      PROVE  now <= Expires[t] /\ (revoked[t] # Never => now < revoked[t] + MaxDelay + Ttl)
  <2>1. /\ cached[t] \in Nat /\ now \in Nat /\ now - cached[t] < Ttl /\ now <= Expires[t]
        /\ revoked[t] # Never => cached[t] <= revoked[t] + MaxDelay
    BY <1>6 DEF Usable, Unexpired, EntriesAge, TypeOK, Times
  <2>2. revoked[t] # Never => revoked[t] \in Nat
    BY DEF TypeOK, Times
  <2> QED BY <2>1, <2>2
<1>7. ASSUME NEW i \in Calls, stage[i] = "answered", active[i]
      PROVE  revoked[token[i]] # Never => now < revoked[token[i]] + MaxDelay + Ttl
  <2>1. /\ token[i] \in Tokens /\ said[i] \in Nat /\ now \in Nat /\ now <= said[i] + MaxDelay
        /\ revoked[token[i]] # Never => said[i] <= revoked[token[i]]
    BY <1>7 DEF AnswersWereTrue, TypeOK
  <2>2. revoked[token[i]] # Never => revoked[token[i]] \in Nat
    BY <2>1 DEF TypeOK, Times
  <2> QED BY <2>1, <2>2
<1>8. CASE \E i \in Calls, t \in Tokens : Verify(i, t)
  BY <1>3, <1>8 DEF SignedStay
<1>9. CASE \E i \in Calls, t \in Tokens : Hit(i, t)
  BY <1>4, <1>6, <1>9
<1>10. CASE \E i \in Calls : Answered(i)
  BY <1>5, <1>7, <1>10 DEF Unexpired
<1>11. ASSUME NEW i \in Calls
       PROVE  ~Examine(i) /\ ~Fails(i) /\ \A t \in Tokens : ~Introspect(i, t)
  <2>1. ~Fails(i)
    BY <1>2 DEF Fails
  <2>2. ~Examine(i) /\ \A t \in Tokens : ~Introspect(i, t)
    BY DEF Examine, Introspect, Grants, TypeOK
  <2> QED BY <2>1, <2>2
<1>12. ~Tick /\ ~Restart /\ \A t \in Tokens : ~Revoke(t)
  BY <1>1 DEF Tick, Restart, Revoke, callVars, Grants
<1> QED BY <1>8, <1>9, <1>10, <1>11, <1>12 DEF Next

(* A revoked token is granted nothing once the answers then on their way     *)
(* have arrived and the entries they made are too old, nor an expired one    *)
(* anything at all (auth.js:171-197).                                        *)
THEOREM RevocationLapsesAlways == Spec => RevocationLapses
<1> DEFINE Lapses ==
        \A i \in Calls : Grants(i) =>
          LET t == token'[i]
          IN  /\ now <= Expires[t]
              /\ revoked[t] # Never => now < revoked[t] + MaxDelay + Ttl
<1>1. ASSUME IInv, Next PROVE Lapses
  BY <1>1, GrantedInTime
<1>2. IInv /\ [Next]_vars => [Lapses]_vars
  BY <1>1
<1> HIDE DEF Lapses
<1>3. Spec => [][Lapses]_vars
  BY <1>2, SpecIInv, PTL DEF Spec
<1> QED BY <1>3 DEF Lapses, RevocationLapses
=============================================================================
