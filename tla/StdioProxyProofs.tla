-------------------------- MODULE StdioProxyProofs --------------------------
(* The stdio proxy's safety, for any number of requests, tools, listings,    *)
(* tokens and edits of the manifest.                                         *)
EXTENDS StdioProxy, ManifestPolicyProofs

(* A call waits for a validation only when the proxy has a validator.        *)
ValidationIsOn == \A i \in Ids : stage[i] = "validating" => "auth" \in mode

(* The listing invariants are about the policy, the flags and the two        *)
(* listings together: none of them is inductive alone.                       *)
Gate == DriftIsCurrent /\ ShownIsCallable /\ StrictStops

IInv == TypeOK /\ OneAnswer /\ ValidationIsOn /\ Gate

-----------------------------------------------------------------------------
(* The operator's denials leave a manifest. *)
LEMMA DenyingType ==
    ASSUME NEW m \in Manifest, NEW deny
    PROVE  Denying(m, deny) \in Manifest
<1> DEFINE f == [n \in Names(m) |-> [m.tools[n] EXCEPT !.allowed = @ /\ n \notin deny]]
<1>1. \A n \in Names(m) : m.tools[n] \in Entry
  BY ManifestParts
<1>2. \A e \in Entry, b \in BOOLEAN : [e EXCEPT !.allowed = @ /\ b] \in Entry
  BY DEF Entry
<1>3. f \in [Names(m) -> Entry]
  BY <1>1, <1>2
<1>4. Denying(m, deny) = [m EXCEPT !.tools = f]
  BY DEF Denying
<1> HIDE DEF f
<1> QED BY <1>3, <1>4, ToolsReplaced

-----------------------------------------------------------------------------
(* What an action does to the request table, and that it stays well typed.   *)
LEMMA AnswerTyped ==
    ASSUME TypeOK, NEW i \in Ids, Answer(i)
    PROVE  /\ request' \in [Ids -> {NONE} \cup Request]
           /\ stage' \in [Ids -> Stages]
           /\ answers' \in [Ids -> Nat]
  BY DEF TypeOK, Answer, Enter, Stages

LEMMA ForwardTyped ==
    ASSUME TypeOK, NEW i \in Ids, NEW r \in Request, Forward(i, r)
    PROVE  /\ request' \in [Ids -> {NONE} \cup Request]
           /\ stage' \in [Ids -> Stages]
           /\ answers' \in [Ids -> Nat]
  BY DEF TypeOK, Forward, Enter, Stages

LEMMA DecideTyped ==
    ASSUME TypeOK, NEW i \in Ids, NEW r \in {NONE} \cup Request, NEW held, Decide(i, r, held)
    PROVE  /\ request' \in [Ids -> {NONE} \cup Request]
           /\ stage' \in [Ids -> Stages]
           /\ answers' \in [Ids -> Nat]
  BY DEF TypeOK, Decide, Answer, Forward, Enter, Stages

LEMMA CallTyped ==
    ASSUME NEW n \in Tools, NEW token \in {NONE} \cup Tokens
    PROVE  [method |-> "call", tool |-> n, token |-> token] \in Request
  BY DEF Request

LEMMA FilteredNames ==
    ASSUME NEW m, NEW names, NEW drift, NEW listing \in Listing
    PROVE  Filtered(m, names, drift, listing) \in SUBSET Tools
  BY ListingShape DEF Filtered

LEMMA InitTyped == Init => TypeOK
<1> SUFFICES ASSUME Init PROVE TypeOK
  OBVIOUS
<1> USE StdioAssumption
<1>1. file \in Manifest
  <2>1. PICK listing \in ServerListings : \E allow, deny \in SUBSET DOMAIN listing :
                file = Denying(BuildManifest(listing, allow, Validity), deny)
    BY DEF Init
  <2>2. PICK allow \in SUBSET DOMAIN listing, deny \in SUBSET DOMAIN listing :
                file = Denying(BuildManifest(listing, allow, Validity), deny)
    BY <2>1
  <2>3. BuildManifest(listing, allow, Validity) \in Manifest
    BY BuildManifestType
  <2> QED BY <2>2, <2>3, DenyingType
<1>2. approved \in SUBSET Tools
  BY <1>1, ManifestParts DEF Init
<1> QED BY <1>1, <1>2 DEF Init, TypeOK, Stages

(* The types hold at every step: one step per action. *)
LEMMA NextTyped == TypeOK /\ [Next]_vars => TypeOK'
<1> SUFFICES ASSUME TypeOK, [Next]_vars PROVE TypeOK'
  OBVIOUS
<1> USE StdioAssumption
<1>1. CASE UNCHANGED vars
  BY <1>1 DEF TypeOK, vars, policyVars, requestVars, serverVars, listVars
<1>2. CASE Tick
  BY <1>2 DEF Tick, TypeOK, policyVars, requestVars, serverVars, listVars
<1>3. CASE Edit
  <2>1. file' \in Manifest
    BY <1>3, DenyingType DEF Edit, TypeOK
  <2> QED BY <1>3, <2>1 DEF Edit, TypeOK, policyVars, requestVars, serverVars, listVars
<1>4. CASE Stop
  BY <1>4 DEF Stop, TypeOK, policyVars, requestVars, serverVars, listVars
<1>5. ASSUME NEW i \in Ids, Call(i) PROVE TypeOK'
  <2>1. PICK n \in Tools, token \in {NONE} \cup Tokens :
           LET r == [method |-> "call", tool |-> n, token |-> token]
           IN  IF "auth" \in mode /\ token # NONE
               THEN /\ request' = [request EXCEPT ![i] = r]
                    /\ Enter(i, "validating")
                    /\ UNCHANGED answers
               ELSE Decide(i, r, NONE)
    BY <1>5 DEF Call
  <2> DEFINE r == [method |-> "call", tool |-> n, token |-> token]
  <2>2. r \in Request
    BY CallTyped
  <2>3. \/ /\ request' = [request EXCEPT ![i] = r]
           /\ Enter(i, "validating")
           /\ UNCHANGED answers
        \/ Decide(i, r, NONE)
    BY <2>1
  <2> HIDE DEF r
  <2>4. /\ request' \in [Ids -> {NONE} \cup Request]
        /\ stage' \in [Ids -> Stages]
        /\ answers' \in [Ids -> Nat]
    BY <2>2, <2>3, DecideTyped DEF TypeOK, Enter, Stages
  <2> QED BY <1>5, <2>4 DEF Call, TypeOK, policyVars, serverVars, listVars
<1>6. ASSUME NEW i \in Ids, Ask(i) PROVE TypeOK'
  <2>1. PICK method \in {"list", "other"} : Forward(i, [method |-> method])
    BY <1>6 DEF Ask
  <2>2. [method |-> method] \in Request
    BY DEF Request
  <2> QED BY <1>6, <2>1, <2>2, ForwardTyped DEF Ask, TypeOK, policyVars, serverVars, listVars
<1>7. ASSUME NEW i \in Ids, TokenValidated(i) PROVE TypeOK'
  <2>1. PICK held \in {Held(request[i].token), NONE} : Decide(i, request[i], held)
    BY <1>7 DEF TokenValidated
  <2>2. request[i] \in {NONE} \cup Request
    BY DEF TypeOK
  <2> QED BY <1>7, <2>1, <2>2, DecideTyped
          DEF TokenValidated, TypeOK, policyVars, serverVars, listVars
<1>8. ASSUME NEW i \in Ids, ValidationFails(i) PROVE TypeOK'
  BY <1>8, AnswerTyped DEF ValidationFails, TypeOK, policyVars, serverVars, listVars
<1>9. ASSUME NEW i \in Ids, ListedStrictly(i) PROVE TypeOK'
  <2>1. /\ drifted' \in SUBSET Tools
        /\ seen' \in {NONE} \cup Listing
    BY <1>9, ManifestParts DEF ListedStrictly, Drifted, TypeOK
  <2> QED BY <1>9, <2>1, AnswerTyped DEF ListedStrictly, TypeOK, serverVars
<1>10. ASSUME NEW i \in Ids, ListedUpdating(i) PROVE TypeOK'
  <2>1. PICK listing \in ServerListings :
           LET new == AutoUpdated(manifest, listing, now + Validity)
           IN  /\ Updating(i, listing, new)
               /\ file' = new
               /\ manifest' = new
               /\ drifted' = {}
               /\ approved' = Names(new)
    BY <1>10 DEF ListedUpdating
  <2> DEFINE new == AutoUpdated(manifest, listing, now + Validity)
  <2>2. listing \in Listing /\ now + Validity \in Nat
    BY DEF TypeOK
  <2>3. new \in Manifest
    BY <2>2, AutoUpdatedType DEF TypeOK
  <2>4. /\ Updating(i, listing, new)
        /\ file' = new /\ manifest' = new /\ drifted' = {} /\ approved' = Names(new)
    BY <2>1
  <2> HIDE DEF new
  <2>5. approved' \in SUBSET Tools
    BY <2>3, <2>4, ManifestParts
  <2>6. shown' \in {NONE} \cup SUBSET Tools /\ seen' \in {NONE} \cup Listing
    BY <2>2, <2>4, FilteredNames DEF Updating
  <2> QED BY <2>3, <2>4, <2>5, <2>6, AnswerTyped DEF Updating, TypeOK, serverVars
<1>11. ASSUME NEW i \in Ids, Listed(i) PROVE TypeOK'
  <2>1. PICK listing \in ServerListings :
          /\ drifted' = Drifted(manifest, listing)
          /\ seen' = listing
          /\ shown' = Filtered(manifest, approved, drifted', listing)
    BY <1>11 DEF Listed
  <2>2. drifted' \in SUBSET Tools
    BY <2>1, ManifestParts DEF Drifted, TypeOK
  <2>3. shown' \in {NONE} \cup SUBSET Tools /\ seen' \in {NONE} \cup Listing
    BY <2>1, FilteredNames
  <2> QED BY <1>11, <2>2, <2>3, AnswerTyped DEF Listed, TypeOK, serverVars
<1>12. ASSUME NEW i \in Ids, Responded(i) PROVE TypeOK'
  BY <1>12, AnswerTyped DEF Responded, TypeOK, policyVars, serverVars, listVars
<1>13. ASSUME NEW s \in ServerIds, ServerRequests(s) PROVE TypeOK'
  BY <1>13 DEF ServerRequests, TypeOK, policyVars, requestVars, listVars
<1>14. ASSUME NEW s \in ServerIds, ClientReplies(s) PROVE TypeOK'
  BY <1>14 DEF ClientReplies, TypeOK, policyVars, requestVars, listVars
<1> QED
  BY <1>1, <1>2, <1>3, <1>4, <1>5, <1>6, <1>7, <1>8, <1>9, <1>10, <1>11, <1>12,
     <1>13, <1>14
     DEF Next, Validation, Response

-----------------------------------------------------------------------------
(* A step leaves the request table alone, or moves one request that is not   *)
(* over: it is answered, or enters another stage, validation only if there   *)
(* is a validator.                                                           *)
Moves(i) == /\ stage[i] # "done"
            /\ \/ Answer(i)
               \/ /\ \E place \in Stages \ {"done"} :
                        /\ Enter(i, place)
                        /\ place = "validating" => "auth" \in mode
                  /\ UNCHANGED answers

LEMMA DecideMoves ==
    ASSUME NEW i \in Ids, NEW r, NEW held, stage[i] # "done", Decide(i, r, held)
    PROVE  Moves(i)
  BY DEF Decide, Forward, Moves, Stages

LEMMA RequestSteps ==
    ASSUME Next
    PROVE  \/ UNCHANGED <<stage, answers>>
           \/ \E i \in Ids : Moves(i)
<1>1. CASE Tick \/ Edit \/ Stop \/ \E s \in ServerIds : ServerRequests(s) \/ ClientReplies(s)
  BY <1>1 DEF Tick, Edit, Stop, ServerRequests, ClientReplies, requestVars
<1>2. ASSUME NEW i \in Ids, Call(i) PROVE Moves(i)
  <2>1. PICK n \in Tools, token \in {NONE} \cup Tokens :
           LET r == [method |-> "call", tool |-> n, token |-> token]
           IN  IF "auth" \in mode /\ token # NONE
               THEN /\ request' = [request EXCEPT ![i] = r]
                    /\ Enter(i, "validating")
                    /\ UNCHANGED answers
               ELSE Decide(i, r, NONE)
    BY <1>2 DEF Call
  <2>2. stage[i] # "done"
    BY <1>2 DEF Call, Opens
  <2>3. CASE "auth" \in mode /\ token # NONE
    BY <2>1, <2>2, <2>3 DEF Moves, Stages
  <2>4. CASE ~("auth" \in mode /\ token # NONE)
    BY <2>1, <2>2, <2>4, DecideMoves
  <2> QED BY <2>3, <2>4
<1>3. ASSUME NEW i \in Ids, Ask(i) PROVE Moves(i)
  BY <1>3 DEF Ask, Opens, Forward, Moves, Stages
<1>4. ASSUME NEW i \in Ids, TokenValidated(i) PROVE Moves(i)
  BY <1>4, DecideMoves DEF TokenValidated
<1>5. ASSUME NEW i \in Ids, ValidationFails(i) \/ Response(i) PROVE Moves(i)
  BY <1>5 DEF ValidationFails, Response, Responded, Listed, ListedUpdating, ListedStrictly,
     Updating, Lists, Moves
<1> QED BY <1>1, <1>2, <1>3, <1>4, <1>5 DEF Next, Validation

(* The flags never change, and a stopped proxy stays stopped. *)
LEMMA Started == [Next]_vars => mode' = mode /\ (up' => up)
<1> SUFFICES ASSUME [Next]_vars PROVE mode' = mode /\ (up' => up)
  OBVIOUS
<1>1. CASE UNCHANGED vars
  BY <1>1 DEF vars
<1>2. CASE Tick \/ Edit \/ Stop \/ \E s \in ServerIds : ServerRequests(s) \/ ClientReplies(s)
  BY <1>2 DEF Tick, Edit, Stop, ServerRequests, ClientReplies
<1>3. CASE \E i \in Ids : Call(i) \/ Ask(i) \/ Validation(i) \/ Response(i)
  BY <1>3 DEF Call, Ask, Validation, TokenValidated, ValidationFails, Response,
     Responded, Listed, ListedUpdating, ListedStrictly, Updating
<1> QED BY <1>1, <1>2, <1>3 DEF Next

LEMMA InitOneAnswer == Init => OneAnswer /\ ValidationIsOn
  BY DEF Init, OneAnswer, ValidationIsOn

(* Answers are counted as stages are entered; the server's, as requests are  *)
(* relayed.                                                                  *)
LEMMA NextOneAnswer == TypeOK /\ OneAnswer /\ [Next]_vars => OneAnswer'
<1> SUFFICES ASSUME TypeOK, OneAnswer, [Next]_vars PROVE OneAnswer'
  OBVIOUS
<1>1. ASSUME NEW j \in Ids PROVE answers'[j] = IF stage'[j] = "done" THEN 1 ELSE 0
  <2>1. answers[j] = IF stage[j] = "done" THEN 1 ELSE 0
    BY DEF OneAnswer
  <2>2. CASE UNCHANGED vars \/ UNCHANGED <<stage, answers>>
    BY <2>1, <2>2 DEF vars, requestVars
  <2>3. ASSUME NEW i \in Ids, Moves(i) PROVE answers'[j] = IF stage'[j] = "done" THEN 1 ELSE 0
    <3>1. answers[i] = 0
      BY <2>3 DEF Moves, OneAnswer
    <3>2. CASE Answer(i)
      BY <2>1, <3>1, <3>2 DEF Answer, Enter, TypeOK
    <3>3. CASE UNCHANGED answers /\ \E place \in Stages \ {"done"} : Enter(i, place)
      BY <2>1, <3>1, <3>3 DEF Enter, TypeOK
    <3> QED BY <2>3, <3>2, <3>3 DEF Moves
  <2> QED BY <2>2, <2>3, RequestSteps
<1>2. ASSUME NEW s \in ServerIds
      PROVE  replied'[s] + (IF s \in relayed' THEN 1 ELSE 0) <= opened'[s]
  <2>1. /\ replied[s] + (IF s \in relayed THEN 1 ELSE 0) <= opened[s]
        /\ replied[s] \in Nat /\ opened[s] \in Nat
    BY StdioAssumption DEF OneAnswer, TypeOK
  <2>2. CASE UNCHANGED vars \/ UNCHANGED serverVars
    BY <2>1, <2>2 DEF vars, serverVars
  <2>3. ASSUME NEW q \in ServerIds, ServerRequests(q)
        PROVE  replied'[s] + (IF s \in relayed' THEN 1 ELSE 0) <= opened'[s]
    <3>1. CASE q = s
      BY <2>1, <2>3, <3>1 DEF ServerRequests, TypeOK
    <3>2. CASE q # s
      BY <2>1, <2>3, <3>2 DEF ServerRequests, TypeOK
    <3> QED BY <3>1, <3>2
  <2>4. ASSUME NEW q \in ServerIds, ClientReplies(q)
        PROVE  replied'[s] + (IF s \in relayed' THEN 1 ELSE 0) <= opened'[s]
    <3>1. CASE q = s
      BY <2>1, <2>4, <3>1 DEF ClientReplies, TypeOK
    <3>2. CASE q # s
      BY <2>1, <2>4, <3>2 DEF ClientReplies, TypeOK
    <3> QED BY <3>1, <3>2
  <2>5. CASE Tick \/ Edit \/ Stop
    <3>1. UNCHANGED serverVars
      BY <2>5 DEF Tick, Edit, Stop
    <3> QED BY <2>2, <3>1
  <2>6. CASE \E i \in Ids : Call(i) \/ Ask(i) \/ Validation(i) \/ Response(i)
    <3>1. UNCHANGED serverVars
      BY <2>6 DEF Call, Ask, Validation, TokenValidated, ValidationFails, Response,
         Responded, Listed, ListedUpdating, ListedStrictly, Updating
    <3> QED BY <2>2, <3>1
  <2> QED BY <2>2, <2>3, <2>4, <2>5, <2>6 DEF Next
<1> QED BY <1>1, <1>2 DEF OneAnswer

LEMMA NextValidationIsOn == TypeOK /\ ValidationIsOn /\ [Next]_vars => ValidationIsOn'
<1> SUFFICES ASSUME TypeOK, ValidationIsOn, [Next]_vars,
                    NEW j \in Ids, stage'[j] = "validating"
             PROVE  "auth" \in mode
  BY Started DEF ValidationIsOn
<1>1. CASE UNCHANGED vars \/ UNCHANGED <<stage, answers>>
  BY <1>1 DEF vars, requestVars, ValidationIsOn
<1>2. ASSUME NEW i \in Ids, Moves(i) PROVE "auth" \in mode
  BY <1>2 DEF Moves, Answer, Enter, ValidationIsOn, TypeOK
<1> QED BY <1>1, <1>2, RequestSteps

-----------------------------------------------------------------------------
(* Only an answer to tools/list moves the policy or the listings. *)
LEMMA PolicySteps ==
    ASSUME [Next]_vars
    PROVE  \/ UNCHANGED <<manifest, approved, drifted, seen, shown>>
           \/ \E i \in Ids : ListedStrictly(i) \/ ListedUpdating(i) \/ Listed(i)
<1>1. CASE UNCHANGED vars
  BY <1>1 DEF vars, policyVars, listVars
<1>2. CASE Tick \/ Edit \/ Stop \/ \E s \in ServerIds : ServerRequests(s) \/ ClientReplies(s)
  BY <1>2 DEF Tick, Edit, Stop, ServerRequests, ClientReplies, policyVars, listVars
<1>3. CASE \E i \in Ids : Call(i) \/ Ask(i) \/ Validation(i) \/ Responded(i)
  BY <1>3 DEF Call, Ask, Validation, TokenValidated, ValidationFails, Responded,
     policyVars, listVars
<1> QED BY <1>1, <1>2, <1>3 DEF Next, Response

LEMMA InitGate == Init => Gate
  BY DEF Init, Gate, DriftIsCurrent, ShownIsCallable, StrictStops

LEMMA NextGate == TypeOK /\ Gate /\ [Next]_vars => Gate'
<1> SUFFICES ASSUME TypeOK, Gate, [Next]_vars PROVE Gate'
  OBVIOUS
<1> USE StdioAssumption
<1>0. mode' = mode /\ (up' => up)
  BY Started
<1>1. CASE UNCHANGED <<manifest, approved, drifted, seen, shown>>
  <2>1. DriftIsCurrent'
    BY <1>1 DEF Gate, DriftIsCurrent, Names, Drifted
  <2>2. ShownIsCallable'
    BY <1>0, <1>1 DEF Gate, ShownIsCallable, Names
  <2>3. StrictStops'
    BY <1>0, <1>1 DEF Gate, StrictStops, Matches, Added, Removed, Drifted, Names
  <2> QED BY <2>1, <2>2, <2>3 DEF Gate
<1>2. ASSUME NEW i \in Ids, ListedStrictly(i) PROVE Gate'
  <2>1. ~up' /\ manifest' = manifest /\ approved' = approved
    BY <1>2 DEF ListedStrictly
  <2>2. PICK listing \in ServerListings :
           drifted' = Drifted(manifest, listing) /\ seen' = listing
    BY <1>2 DEF ListedStrictly
  <2>3. DriftIsCurrent'
    BY <2>1, <2>2 DEF Gate, DriftIsCurrent, Names, Drifted
  <2> QED BY <2>1, <2>3 DEF Gate, ShownIsCallable, StrictStops
<1>3. ASSUME NEW i \in Ids, ListedUpdating(i) PROVE Gate'
  <2>1. PICK listing \in ServerListings :
           LET new == AutoUpdated(manifest, listing, now + Validity)
           IN  /\ Updating(i, listing, new)
               /\ manifest' = new
               /\ drifted' = {}
               /\ approved' = Names(new)
    BY <1>3 DEF ListedUpdating
  <2> DEFINE new == AutoUpdated(manifest, listing, now + Validity)
  <2>2. listing \in Listing /\ now + Validity \in Nat
    BY DEF TypeOK
  <2>3. /\ Names(new) = DOMAIN listing
        /\ \A n \in DOMAIN listing : ~Differs(new.tools[n], listing[n])
        /\ Drifted(new, listing) = {}
    BY <2>2, AutoUpdateMatches DEF TypeOK
  <2>4. /\ Updating(i, listing, new)
        /\ manifest' = new /\ drifted' = {} /\ approved' = Names(new)
    BY <2>1
  <2> HIDE DEF new
  <2>5. seen' = listing /\ shown' = Filtered(new, Names(new), {}, listing)
    BY <2>4 DEF Updating
  <2>6. DriftIsCurrent'
    <3>1. approved' = Names(manifest')
      BY <2>4
    <3>2. drifted' = Drifted(manifest', seen') /\ seen' # NONE
      BY <2>2, <2>3, <2>4, <2>5
    <3> QED BY <3>1, <3>2 DEF DriftIsCurrent, Names, Drifted
  <2>7. ShownIsCallable'
    <3>1. "allowAll" \notin mode =>
             shown' = {n \in DOMAIN listing \cap Names(new) : new.tools[n].allowed}
      BY <2>5 DEF Filtered
    <3>2. \A n \in DOMAIN listing \cap Names(new) : ~Differs(new.tools[n], listing[n])
      BY <2>3
    <3>3. "allowAll" \notin mode' =>
             shown' = {n \in DOMAIN seen' \cap Names(manifest') :
                          manifest'.tools[n].allowed
                          /\ ~Differs(manifest'.tools[n], seen'[n])}
      BY <1>0, <2>4, <2>5, <3>1, <3>2
    <3> QED BY <3>3 DEF ShownIsCallable, Names
  <2>8. StrictStops'
    BY <1>0, <2>4 DEF Updating, Updates, Matches, StrictStops
  <2> QED BY <2>6, <2>7, <2>8 DEF Gate
<1>4. ASSUME NEW i \in Ids, Listed(i) PROVE Gate'
  <2>1. PICK listing \in ServerListings :
          /\ "strict" \in mode => Matches(manifest, listing)
          /\ drifted' = Drifted(manifest, listing)
          /\ seen' = listing
          /\ shown' = Filtered(manifest, approved, drifted', listing)
    BY <1>4 DEF Listed
  <2>2. manifest' = manifest /\ approved' = approved
    BY <1>4 DEF Listed
  <2>3. approved = Names(manifest)
    BY DEF Gate, DriftIsCurrent
  <2>4. listing # NONE
    OBVIOUS
  <2>5. DriftIsCurrent'
    BY <2>1, <2>2, <2>3, <2>4 DEF DriftIsCurrent, Names, Drifted
  <2>6. ShownIsCallable'
    <3>1. "allowAll" \notin mode =>
             shown' = {n \in DOMAIN listing \cap Names(manifest) :
                          n \notin Drifted(manifest, listing) /\ manifest.tools[n].allowed}
      BY <2>1, <2>3 DEF Filtered
    <3>2. \A n \in DOMAIN listing \cap Names(manifest) :
             n \in Drifted(manifest, listing) <=> Differs(manifest.tools[n], listing[n])
      BY DEF Drifted
    <3>3. "allowAll" \notin mode' =>
             shown' = {n \in DOMAIN seen' \cap Names(manifest') :
                          manifest'.tools[n].allowed
                          /\ ~Differs(manifest'.tools[n], seen'[n])}
      BY <1>0, <2>1, <2>2, <3>1, <3>2
    <3> QED BY <3>3 DEF ShownIsCallable, Names
  <2>7. StrictStops'
    BY <1>0, <2>1, <2>2 DEF StrictStops, Matches, Added, Removed, Drifted, Names
  <2> QED BY <2>5, <2>6, <2>7 DEF Gate
<1> QED BY <1>1, <1>2, <1>3, <1>4, PolicySteps

-----------------------------------------------------------------------------
LEMMA InitIInv == Init => IInv
  BY InitTyped, InitOneAnswer, InitGate DEF IInv

LEMMA NextIInv == IInv /\ [Next]_vars => IInv'
  BY NextTyped, NextOneAnswer, NextValidationIsOn, NextGate DEF IInv

LEMMA SpecIInv == Spec => []IInv
  BY InitIInv, NextIInv, PTL DEF Spec

(* The state is well typed. *)
THEOREM StdioTyped == Spec => []TypeOK
<1>1. IInv => TypeOK
  BY DEF IInv
<1> QED BY <1>1, SpecIInv, PTL

(* No request is answered twice, by the server or by the proxy, whatever ids *)
(* are made up on either side (mcp-proxy.js:354-358).                        *)
THEOREM StdioOneAnswer == Spec => []OneAnswer
<1>1. IInv => OneAnswer
  BY DEF IInv
<1> QED BY <1>1, SpecIInv, PTL

(* The cached drift set is what a fresh comparison of the enforced manifest  *)
(* and the last listing would say (mcp-proxy.js: driftedNames).              *)
THEOREM StdioDriftIsCurrent == Spec => []DriftIsCurrent
<1>1. IInv => DriftIsCurrent
  BY DEF IInv, Gate
<1> QED BY <1>1, SpecIInv, PTL

(* The client is shown the tools it may call as they were approved, also     *)
(* after an automatic update (mcp-proxy.js:437-438).                         *)
THEOREM StdioShownIsCallable == Spec => []ShownIsCallable
<1>1. IInv => ShownIsCallable
  BY DEF IInv, Gate
<1> QED BY <1>1, SpecIInv, PTL

(* A strict proxy serves nothing after a listing that is not its manifest's. *)
THEOREM StdioStrictStops == Spec => []StrictStops
<1>1. IInv => StrictStops
  BY DEF IInv, Gate
<1> QED BY <1>1, SpecIInv, PTL

(* The policy in memory moves only as the file moves (the write comes first, *)
(* the assignment after it).                                                 *)
THEOREM StdioEnforcedIsOnDisk == Spec => EnforcedIsOnDisk
<1>1. [Next]_vars => [manifest' # manifest => file = manifest /\ file' = manifest']_vars
  <2> SUFFICES ASSUME [Next]_vars, manifest' # manifest
               PROVE  file = manifest /\ file' = manifest'
    OBVIOUS
  <2>1. PICK i \in Ids : ListedStrictly(i) \/ ListedUpdating(i) \/ Listed(i)
    BY PolicySteps
  <2> QED BY <2>1 DEF ListedStrictly, ListedUpdating, Listed
<1> QED BY <1>1, PTL DEF Spec, EnforcedIsOnDisk

(* The step that forwards a call finds the policy and the token good then,   *)
(* not when the call came in: the decision follows the awaited validation.   *)
Good(n, token) ==
    /\ manifest.expires > now
    /\ n \in Names(manifest) /\ manifest.tools[n].scopes # {} =>
          /\ "auth" \in mode /\ token # NONE
          /\ token.expires >= now
          /\ manifest.tools[n].scopes \subseteq token.scopes
    /\ "allowAll" \notin mode =>
          /\ n \in Names(manifest) /\ manifest.tools[n].allowed
          /\ seen # NONE /\ n \in DOMAIN seen =>
                ~Differs(manifest.tools[n], seen[n])

LEMMA AdmittedIsGood ==
    ASSUME IInv, NEW n, NEW token, NEW held,
           held = NONE \/ (held = Held(token) /\ "auth" \in mode),
           Admits(n, held)
    PROVE  Good(n, token)
<1>1. /\ manifest.expires > now
      /\ "allowAll" \notin mode =>
            n \in Names(manifest) /\ manifest.tools[n].allowed /\ n \notin drifted
  BY DEF Admits, CheckCall
<1>2. ASSUME n \in Names(manifest), manifest.tools[n].scopes # {}
      PROVE  /\ "auth" \in mode /\ token # NONE
             /\ token.expires >= now
             /\ manifest.tools[n].scopes \subseteq token.scopes
  <2>1. held # NONE /\ manifest.tools[n].scopes \subseteq held
    BY <1>2 DEF Admits, CheckCall
  <2> QED BY <2>1 DEF Held
<1>3. ASSUME n \in Names(manifest), n \notin drifted, seen # NONE, n \in DOMAIN seen
      PROVE  ~Differs(manifest.tools[n], seen[n])
  BY <1>3 DEF IInv, Gate, DriftIsCurrent, Drifted
<1> QED BY <1>1, <1>2, <1>3 DEF Good

LEMMA ForwardedIsGood ==
    ASSUME IInv, Next, NEW j \in Ids, Forwards(j)
    PROVE  Good(request'[j].tool, request'[j].token)
<1>1. PICK i \in Ids : Call(i) \/ Ask(i) \/ Validation(i) \/ Response(i)
  <2>1. stage' # stage
    BY DEF Forwards
  <2>2. ~(Tick \/ Edit \/ Stop \/ \E s \in ServerIds : ServerRequests(s) \/ ClientReplies(s))
    BY <2>1 DEF Tick, Edit, Stop, ServerRequests, ClientReplies, requestVars
  <2> QED BY <2>2 DEF Next
<1>2. ASSUME NEW r, Forward(i, r)
      PROVE  i = j /\ request'[j] = r
  BY <1>2 DEF Forward, Enter, Forwards, IInv, TypeOK
<1>3. ~Answer(i)
  BY DEF Answer, Enter, Forwards, IInv, TypeOK
<1>4. CASE Call(i)
  <2>1. PICK n \in Tools, token \in {NONE} \cup Tokens :
           LET r == [method |-> "call", tool |-> n, token |-> token]
           IN  IF "auth" \in mode /\ token # NONE
               THEN /\ request' = [request EXCEPT ![i] = r]
                    /\ Enter(i, "validating")
                    /\ UNCHANGED answers
               ELSE Decide(i, r, NONE)
    BY <1>4 DEF Call
  <2> DEFINE r == [method |-> "call", tool |-> n, token |-> token]
  <2>2. ~Enter(i, "validating")
    BY DEF Enter, Forwards, IInv, TypeOK
  <2>3. Admits(n, NONE) /\ Forward(i, r)
    BY <1>3, <2>1, <2>2 DEF Decide
  <2>4. request'[j].tool = n /\ request'[j].token = token
    BY <1>2, <2>3
  <2> QED BY <2>3, <2>4, AdmittedIsGood
<1>5. CASE Ask(i)
  BY <1>2, <1>5 DEF Ask, Forwards
<1>6. CASE TokenValidated(i)
  <2>1. PICK held \in {Held(request[i].token), NONE} : Decide(i, request[i], held)
    BY <1>6 DEF TokenValidated
  <2>2. Admits(request[i].tool, held) /\ Forward(i, request[i])
    BY <1>3, <2>1 DEF Decide
  <2>3. "auth" \in mode
    BY <1>6 DEF TokenValidated, IInv, ValidationIsOn
  <2>4. request'[j] = request[i]
    BY <1>2, <2>2
  <2>5. Good(request[i].tool, request[i].token)
    BY <2>1, <2>2, <2>3, AdmittedIsGood
  <2> QED BY <2>4, <2>5
<1>7. CASE ValidationFails(i) \/ Response(i)
  BY <1>3, <1>7 DEF ValidationFails, Response, Responded, Listed, ListedUpdating,
     ListedStrictly, Updating
<1> QED BY <1>1, <1>4, <1>5, <1>6, <1>7 DEF Validation

THEOREM StdioForwardedIsCurrent == Spec => ForwardedIsCurrent
<1> DEFINE Current ==
        \A i \in Ids : Forwards(i) =>
          LET n == request'[i].tool  token == request'[i].token
          IN  /\ manifest.expires > now
              /\ n \in Names(manifest) /\ manifest.tools[n].scopes # {} =>
                    /\ "auth" \in mode /\ token # NONE
                    /\ token.expires >= now
                    /\ manifest.tools[n].scopes \subseteq token.scopes
              /\ "allowAll" \notin mode =>
                    /\ n \in Names(manifest) /\ manifest.tools[n].allowed
                    /\ seen # NONE /\ n \in DOMAIN seen =>
                          ~Differs(manifest.tools[n], seen[n])
<1>1. ASSUME IInv, Next PROVE Current
  BY <1>1, ForwardedIsGood DEF Good
<1>2. IInv /\ [Next]_vars => [Current]_vars
  BY <1>1
<1> HIDE DEF Current
<1>3. Spec => [][Current]_vars
  BY <1>2, SpecIInv, PTL DEF Spec
<1> QED BY <1>3 DEF Current, ForwardedIsCurrent
=============================================================================
