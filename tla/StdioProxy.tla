----------------------------- MODULE StdioProxy -----------------------------
(* bin/mcp-proxy.js: the gate between a client's pipe and a server's pipe.   *)
(* Every line either side writes is one callback; a tools/call that carries  *)
(* a token waits for its validation, and other callbacks run meanwhile.  A   *)
(* tools/list answer is compared with the manifest, may update the manifest  *)
(* on disk, and reaches the client filtered.                                 *)
EXTENDS ManifestPolicy

CONSTANTS MaxId,           \* the client numbers its requests 1..MaxId
          ServerIds,       \* ids of the server's own requests
          Tokens,          \* the tokens the client has
          ServerListings,  \* what the server may answer to tools/list
          Validity,        \* how long a manifest is valid
          MaxNow, MaxEdits, MaxOpened  \* bounds

Ids   == 1..MaxId
Flags == {"strict", "autoUpdate", "allowAll", "auth"}
Token == [scopes : SUBSET Scopes, expires : Nat]

ASSUME StdioAssumption == /\ {MaxId, Validity, MaxNow, MaxEdits, MaxOpened} \subseteq Nat
                          /\ Tokens \subseteq Token /\ NONE \notin Token
                          /\ ServerListings \subseteq Listing /\ NONE \notin Listing

VARIABLES now,       \* the clock
          mode,      \* the flags the proxy was started with
          up,        \* it is running
          file,      \* the manifest on disk
          edits,     \* how often it was edited
          manifest,  \* the manifest the proxy enforces
          approved,  \* approvedNames
          drifted,   \* driftedNames
          request,   \* request[i]: what the client asks with id i, till answered
          stage,     \* stage[i]: where request i is
          answers,   \* answers[i]: responses the client got to request i
          relayed,   \* pendingClient: the server's requests the client has
          opened,    \* opened[s]: requests the server opened under id s
          replied,   \* replied[s]: responses it got under id s
          seen,      \* the last listing the server answered with, or NONE
          shown      \* the names of the last listing the client got, or NONE

policyVars  == <<manifest, approved, drifted>>
requestVars == <<request, stage, answers>>
serverVars  == <<relayed, opened, replied>>
listVars    == <<seen, shown>>
vars == <<now, mode, up, file, edits, policyVars, requestVars, serverVars, listVars>>

(* validating: awaiting tokenValidator.validate; pending: in pendingServer.  *)
Stages == {"unused", "validating", "pending", "done"}

(* A request: a tools/call of a tool, with a token or none, or another one.  *)
Request == [method : {"call"}, tool : Tools, token : {NONE} \cup Tokens]
           \cup [method : {"list", "other"}]

TypeOK == /\ now \in 0..MaxNow
          /\ mode \in SUBSET Flags
          /\ up \in BOOLEAN
          /\ file \in Manifest
          /\ edits \in 0..MaxEdits
          /\ manifest \in Manifest
          /\ approved \in SUBSET Tools
          /\ drifted \in SUBSET Tools
          /\ request \in [Ids -> {NONE} \cup Request]
          /\ stage \in [Ids -> Stages]
          /\ answers \in [Ids -> Nat]
          /\ relayed \in SUBSET ServerIds
          /\ opened \in [ServerIds -> 0..MaxOpened]
          /\ replied \in [ServerIds -> Nat]
          /\ seen \in {NONE} \cup Listing
          /\ shown \in {NONE} \cup SUBSET Tools

(* The operator's denials. *)
Denying(m, deny) ==
    [m EXCEPT !.tools = [n \in Names(m) |->
        [m.tools[n] EXCEPT !.allowed = @ /\ n \notin deny]]]

(* The proxy has loaded a manifest that passes assertProxyManifest. *)
Init == /\ now = 0
        /\ mode \in SUBSET Flags
        /\ up = TRUE
        /\ \E listing \in ServerListings :
             \E allow, deny \in SUBSET DOMAIN listing :
                file = Denying(BuildManifest(listing, allow, Validity), deny)
        /\ edits = 0
        /\ manifest = file
        /\ approved = Names(file)
        /\ drifted = {}
        /\ request = [i \in Ids |-> NONE]
        /\ stage = [i \in Ids |-> "unused"]
        /\ answers = [i \in Ids |-> 0]
        /\ relayed = {}
        /\ opened = [s \in ServerIds |-> 0]
        /\ replied = [s \in ServerIds |-> 0]
        /\ seen = NONE
        /\ shown = NONE

-----------------------------------------------------------------------------
(* The environment, as long as the proxy runs. *)
Tick == /\ up
        /\ now < MaxNow
        /\ now' = now + 1
        /\ UNCHANGED <<mode, up, file, edits, policyVars, requestVars, serverVars, listVars>>

(* The operator, or another writer of the manifest, changes the file. *)
Edit == /\ up
        /\ edits < MaxEdits
        /\ \E n \in Names(file) :
              /\ file.tools[n].allowed
              /\ file' = Denying(file, {n})
        /\ edits' = edits + 1
        /\ UNCHANGED <<now, mode, up, policyVars, requestVars, serverVars, listVars>>

(* The client leaves, the server exits, or a signal comes. *)
Stop == /\ up
        /\ up' = FALSE
        /\ UNCHANGED <<now, mode, file, edits, policyVars, requestVars, serverVars, listVars>>

-----------------------------------------------------------------------------
Enter(i, place) == stage' = [stage EXCEPT ![i] = place]

(* The client gets a response to request i, which is over. *)
Answer(i) == /\ Enter(i, "done")
             /\ answers' = [answers EXCEPT ![i] = @ + 1]
             /\ request' = [request EXCEPT ![i] = NONE]

(* The client may open request i, numbering upwards. *)
Opens(i) == /\ up
            /\ stage[i] = "unused"
            /\ \A j \in 1..(i - 1) : stage[j] # "unused"

(* The request goes on to the server. *)
Forward(i, r) == /\ request' = [request EXCEPT ![i] = r]
                 /\ Enter(i, "pending")
                 /\ UNCHANGED answers

(* The scopes a validated token grants now, or NONE. *)
Held(token) == IF token # NONE /\ token.expires >= now THEN token.scopes ELSE NONE

AdmitsDrifted(n, held) ==   \* mutant: the drift set is not consulted
    CheckCall(manifest, n, held, now, "allowAll" \in mode)

Admits(n, held) ==
    /\ n \notin drifted \/ "allowAll" \in mode
    /\ CheckCall(manifest, n, held, now, "allowAll" \in mode)

(* The decision: what is not admitted, or has arguments that do not fit the  *)
(* schema, is answered by the proxy; the rest is forwarded.                  *)
Decide(i, r, held) == \/ Answer(i)
                      \/ Admits(r.tool, held) /\ Forward(i, r)

(* A tools/call is decided at once, unless it has a token to be validated.   *)
Call(i) ==
    /\ Opens(i)
    /\ \E n \in Tools, token \in {NONE} \cup Tokens :
          LET r == [method |-> "call", tool |-> n, token |-> token]
          IN  IF "auth" \in mode /\ token # NONE
              THEN /\ request' = [request EXCEPT ![i] = r]
                   /\ Enter(i, "validating")
                   /\ UNCHANGED answers
              ELSE Decide(i, r, NONE)
    /\ UNCHANGED <<now, mode, up, file, edits, policyVars, serverVars, listVars>>

(* The token is good, or it is not: bad signature, inactive, expired.  The   *)
(* decision reads the policy as it is now.                                   *)
TokenValidated(i) ==
    /\ up
    /\ stage[i] = "validating"
    /\ \E held \in {Held(request[i].token), NONE} : Decide(i, request[i], held)
    /\ UNCHANGED <<now, mode, up, file, edits, policyVars, serverVars, listVars>>

(* The introspection endpoint fails, and the proxy answers with an error. *)
ValidationForgets(i) ==   \* mutant: the error is logged, the call forgotten
    /\ up
    /\ stage[i] = "validating"
    /\ Enter(i, "unused")
    /\ request' = [request EXCEPT ![i] = NONE]
    /\ UNCHANGED <<now, mode, up, file, edits, policyVars, answers, serverVars, listVars>>

ValidationFails(i) ==
    /\ up
    /\ stage[i] = "validating"
    /\ Answer(i)
    /\ UNCHANGED <<now, mode, up, file, edits, policyVars, serverVars, listVars>>

(* Everything else is forwarded as it is. *)
Ask(i) ==
    /\ Opens(i)
    /\ \E method \in {"list", "other"} : Forward(i, [method |-> method])
    /\ UNCHANGED <<now, mode, up, file, edits, policyVars, serverVars, listVars>>

(* A response from the server: it consumes the pending request, so that a    *)
(* forged, second or late one finds none and is dropped.                     *)
RespondedTwice(i) ==   \* mutant: the pending entry stays
    /\ up
    /\ stage[i] = "pending"
    /\ answers' = [answers EXCEPT ![i] = @ + 1]
    /\ UNCHANGED <<now, mode, up, file, edits, policyVars, request, stage, serverVars, listVars>>

Responded(i) ==
    /\ up
    /\ stage[i] = "pending"
    /\ Answer(i)
    /\ UNCHANGED <<now, mode, up, file, edits, policyVars, serverVars, listVars>>

-----------------------------------------------------------------------------
(* The answer to a tools/list. *)
Lists(i) == stage[i] = "pending" /\ request[i].method = "list"

(* What of a listing the client is shown, by the policy after the answer. *)
Unfiltered(m, names, drift, listing) == DOMAIN listing   \* mutant

Filtered(m, names, drift, listing) ==
    IF "allowAll" \in mode THEN DOMAIN listing
    ELSE {n \in DOMAIN listing \cap names : n \notin drift /\ m.tools[n].allowed}

(* --strict: any difference is answered with an error, and the proxy exits.  *)
ListedStrictly(i) ==
    /\ up
    /\ Lists(i)
    /\ "strict" \in mode
    /\ \E listing \in ServerListings :
          /\ ~Matches(manifest, listing)
          /\ drifted' = Drifted(manifest, listing)
          /\ seen' = listing
    /\ Answer(i)
    /\ up' = FALSE
    /\ UNCHANGED <<now, mode, file, edits, manifest, approved, serverVars, shown>>

(* --auto-update: new tools make a new manifest, which replaces the file     *)
(* through atomicWriteJson if the file is the policy in memory.              *)
Updates(listing) == "autoUpdate" \in mode /\ Added(manifest, listing) # {}

(* The client sees the listing filtered by the new policy. *)
Updating(i, listing, new) ==
    /\ up
    /\ Lists(i)
    /\ Updates(listing)
    /\ "strict" \in mode => Matches(manifest, listing)
    /\ seen' = listing
    /\ shown' = Filtered(new, Names(new), {}, listing)
    /\ Answer(i)
    /\ UNCHANGED <<now, mode, up, edits, serverVars>>

HastyUpdate(i) ==   \* mutant: the policy in memory is replaced before the file
    \E listing \in ServerListings :
       LET new == AutoUpdated(manifest, listing, now + Validity)
       IN  /\ Updating(i, listing, new)
           /\ file' = IF file = manifest THEN new ELSE file
           /\ manifest' = new
           /\ drifted' = {}
           /\ approved' = Names(new)

OldNamesUpdate(i) ==   \* mutant: approvedNames is computed once, at the start
    \E listing \in ServerListings :
       LET new == AutoUpdated(manifest, listing, now + Validity)
       IN  /\ Updating(i, listing, new)
           /\ file = manifest
           /\ file' = new
           /\ manifest' = new
           /\ drifted' = {}
           /\ UNCHANGED approved

ListedUpdating(i) ==
    \E listing \in ServerListings :
       LET new == AutoUpdated(manifest, listing, now + Validity)
       IN  /\ Updating(i, listing, new)
           /\ file = manifest
           /\ file' = new
           /\ manifest' = new
           /\ drifted' = {}
           /\ approved' = Names(new)

ListedLeniently(i) ==   \* mutant: --strict overlooks new and missing tools
    /\ up
    /\ Lists(i)
    /\ \E listing \in ServerListings :
          /\ "strict" \in mode => Drifted(manifest, listing) = {}
          /\ drifted' = Drifted(manifest, listing)
          /\ seen' = listing
          /\ shown' = Filtered(manifest, approved, drifted', listing)
    /\ Answer(i)
    /\ UNCHANGED <<now, mode, up, file, edits, manifest, approved, serverVars>>

(* No update is due, or it fails: the file was changed, is locked, or cannot *)
(* be written.                                                               *)
Listed(i) ==
    /\ up
    /\ Lists(i)
    /\ \E listing \in ServerListings :
          /\ "strict" \in mode => Matches(manifest, listing)
          /\ drifted' = Drifted(manifest, listing)
          /\ seen' = listing
          /\ shown' = Filtered(manifest, approved, drifted', listing)
    /\ Answer(i)
    /\ UNCHANGED <<now, mode, up, file, edits, manifest, approved, serverVars>>

-----------------------------------------------------------------------------
(* The server's own requests (sampling, roots, elicitation). *)
ServerRequests(s) ==
    /\ up
    /\ opened[s] < MaxOpened
    /\ opened' = [opened EXCEPT ![s] = @ + 1]
    /\ relayed' = relayed \cup {s}
    /\ UNCHANGED <<now, mode, up, file, edits, policyVars, requestVars, replied, listVars>>

(* The client's response is forwarded if the request is out, else dropped. *)
ClientReplies(s) ==
    /\ up
    /\ s \in relayed
    /\ relayed' = relayed \ {s}
    /\ replied' = [replied EXCEPT ![s] = @ + 1]
    /\ UNCHANGED <<now, mode, up, file, edits, policyVars, requestVars, opened, listVars>>

-----------------------------------------------------------------------------
Validation(i) == TokenValidated(i) \/ ValidationFails(i)
Response(i)   == ListedStrictly(i) \/ ListedUpdating(i) \/ Listed(i) \/ Responded(i)

Next == \/ Tick \/ Edit \/ Stop
        \/ \E i \in Ids : Call(i) \/ Ask(i) \/ Validation(i) \/ Response(i)
        \/ \E s \in ServerIds : ServerRequests(s) \/ ClientReplies(s)

Spec == Init /\ [][Next]_vars

(* The introspection endpoint and the server answer. *)
Fairness == \A i \in Ids : WF_vars(Validation(i)) /\ WF_vars(Response(i))

FairSpec == Spec /\ Fairness

-----------------------------------------------------------------------------
(* The client gets one response to a request at most, from the server or     *)
(* from the proxy, none to a request it did not make, and the server gets no *)
(* more responses than it opened requests, whatever ids either side makes up *)
(* ("forged ids, duplicates, and late same-id messages are dropped here and  *)
(* NEVER reach the client", mcp-proxy.js:354-358).                           *)
OneAnswer ==
    /\ \A i \in Ids : answers[i] = IF stage[i] = "done" THEN 1 ELSE 0
    /\ \A s \in ServerIds :
          replied[s] + (IF s \in relayed THEN 1 ELSE 0) <= opened[s]

(* driftedNames and approvedNames are kept apart from the manifest and the   *)
(* listing they are about; through updates that succeed or fail, they stay   *)
(* what a fresh comparison of the two would say.                             *)
DriftIsCurrent ==
    /\ approved = Names(manifest)
    /\ drifted = IF seen = NONE THEN {} ELSE Drifted(manifest, seen)

(* What the client was last shown is what it may call: the listed tools the  *)
(* policy allows as they were listed, also after an automatic update         *)
(* ("so the client never sees them", mcp-proxy.js:437-438).                  *)
ShownIsCallable ==
    up /\ shown # NONE /\ "allowAll" \notin mode =>
        shown = {n \in DOMAIN seen \cap Names(manifest) :
                    manifest.tools[n].allowed /\ ~Differs(manifest.tools[n], seen[n])}

(* A strict proxy serves nothing after a listing that differs from its       *)
(* manifest in any way, and never changes the manifest.                      *)
StrictStops ==
    "strict" \in mode /\ seen # NONE => ~up \/ Matches(manifest, seen)

(* This step forwards the tools/call i. *)
Forwards(i) == /\ stage[i] # "pending" /\ stage'[i] = "pending"
               /\ request'[i].method = "call"

(* A forwarded call was good when it was forwarded, not when it came in: the *)
(* manifest and the token are unexpired, the scopes suffice, and, short of   *)
(* --allow-all, the tool is allowed and as approved in the last listing.     *)
ForwardedIsCurrent ==
    [][\A i \in Ids : Forwards(i) =>
          LET n == request'[i].tool  token == request'[i].token
          IN  /\ manifest.expires > now
              /\ n \in Names(manifest) /\ manifest.tools[n].scopes # {} =>
                    /\ "auth" \in mode /\ token # NONE
                    /\ token.expires >= now
                    /\ manifest.tools[n].scopes \subseteq token.scopes
              /\ "allowAll" \notin mode =>
                    /\ n \in Names(manifest) /\ manifest.tools[n].allowed
                    /\ seen # NONE /\ n \in DOMAIN seen =>
                          ~Differs(manifest.tools[n], seen[n])]_vars

(* The policy in memory changes only with the file, from one content of the  *)
(* file to the next: a failed update leaves the proxy on the old policy.     *)
EnforcedIsOnDisk ==
    [][manifest' # manifest => file = manifest /\ file' = manifest']_vars

(* Every request of the client is answered while the proxy runs: none is     *)
(* lost between the two pipes, the awaited validation and the pending table. *)
EveryRequestAnswered ==
    \A i \in Ids : stage[i] # "unused" ~> stage[i] = "done" \/ ~up

=============================================================================
