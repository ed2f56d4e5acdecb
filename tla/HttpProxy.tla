----------------------------- MODULE HttpProxy ------------------------------
(* bin/mcp-http-proxy.js: the gate between HTTP clients and an upstream      *)
(* server.  Every POST is a handler of its own; handlers interleave where    *)
(* they await (the token, the upstream, the next event of its stream) and    *)
(* share the policy and the receipt chain.  An upstream answers with one     *)
(* JSON body or a stream of events; either way an answer to tools/list is    *)
(* compared with the manifest, may update it and is filtered, and an answer  *)
(* to tools/call is receipted.                                               *)
EXTENDS ManifestPolicy, ReceiptChain

CONSTANTS MaxPosts,        \* POSTs clients make, numbered as they arrive
          Tokens,          \* the dev-issued tokens clients have
          ServerListings,  \* what the upstream may answer to tools/list
          Validity,        \* how long a manifest is valid
          MaxNow, MaxEdits, MaxStarts, MaxReceipts  \* bounds

Posts == 1..MaxPosts
Flags == {"strict", "autoUpdate", "allowAll", "auth", "receipts"}
Token == [scopes : SUBSET Scopes, expires : Nat]

ASSUME HttpAssumption == /\ {MaxPosts, Validity, MaxNow, MaxEdits, MaxReceipts} \subseteq Nat
                         /\ MaxStarts \in Nat \ {0}
                         /\ Tokens \subseteq Token /\ NONE \notin Token
                         /\ ServerListings \subseteq Listing
                         /\ NONE \notin Listing /\ NONE \notin Manifest

VARIABLES now,       \* the clock
          mode,      \* the flags the proxy is started with
          up,        \* it is running
          starts,    \* how often it was started
          file,      \* the manifest on disk
          edits,     \* how often the operator edited it
          manifest,  \* the manifest the proxy enforces
          approved,  \* approvedNames
          drifted,   \* driftedNames
          seen,      \* the last listing the upstream answered with, or NONE
          request,   \* request[i]: what POST i asks, till it ends
          stage,     \* stage[i]: where its handler is
          under,     \* under[i]: callManifest, the policy that admitted it
          shown,     \* the names of the last listing a client got, or NONE
          chain,     \* the receipt chain in memory
          lines      \* the receipt file

policyVars  == <<manifest, approved, drifted, seen, shown>>
postVars    == <<request, stage, under>>
receiptVars == <<chain, lines>>
vars == <<now, mode, up, starts, file, edits, policyVars, postVars, receiptVars>>

(* answered: a stream that has had its response. *)
Stages  == {"unused", "validating", "fetching", "streaming", "answered", "done"}
Request == [method : {"call"}, tool : Tools, token : {NONE} \cup Tokens]
           \cup [method : {"list", "other"}]

(* A receipt's number is its place in the chain. *)
Link    == Nat \X Posts
Receipt == {r \in [seq : Nat, parent : Seq(Link), call : Posts, policy : {NONE} \cup Manifest] :
               r.seq = Len(r.parent) + 1}

TypeOK == /\ now \in 0..MaxNow
          /\ mode \in SUBSET Flags
          /\ up \in BOOLEAN
          /\ starts \in 1..MaxStarts
          /\ file \in Manifest
          /\ edits \in 0..MaxEdits
          /\ manifest \in Manifest
          /\ approved \in SUBSET Tools
          /\ drifted \in SUBSET Tools
          /\ seen \in {NONE} \cup Listing
          /\ request \in [Posts -> {NONE} \cup Request]
          /\ stage \in [Posts -> Stages]
          /\ under \in [Posts -> {NONE} \cup Manifest]
          /\ shown \in {NONE} \cup SUBSET Tools
          /\ chain \in [seq : Nat, head : Seq(Link)] /\ chain.seq = Len(chain.head)
          /\ lines \in Seq(Receipt \cup {TORN, GARBLED})

Denying(m, deny) ==
    [m EXCEPT !.tools = [n \in Names(m) |->
        [m.tools[n] EXCEPT !.allowed = @ /\ n \notin deny]]]

Init == /\ now = 0
        /\ mode \in SUBSET Flags
        /\ up = TRUE
        /\ starts = 1
        /\ \E listing \in ServerListings :
             \E allow, deny \in SUBSET DOMAIN listing :
                file = Denying(BuildManifest(listing, allow, Validity), deny)
        /\ edits = 0
        /\ manifest = file
        /\ approved = Names(file)
        /\ drifted = {}
        /\ seen = NONE
        /\ request = [i \in Posts |-> NONE]
        /\ stage = [i \in Posts |-> "unused"]
        /\ under = [i \in Posts |-> NONE]
        /\ shown = NONE
        /\ chain = NewChain
        /\ lines = <<>>

-----------------------------------------------------------------------------
Tick == /\ up
        /\ now < MaxNow
        /\ now' = now + 1
        /\ UNCHANGED <<mode, up, starts, file, edits, policyVars, postVars, receiptVars>>

Edit == /\ edits < MaxEdits
        /\ \E n \in Names(file) :
              /\ file.tools[n].allowed
              /\ file' = Denying(file, {n})
        /\ edits' = edits + 1
        /\ UNCHANGED <<now, mode, up, starts, policyVars, postVars, receiptVars>>

(* A signal ends the process, whatever its handlers are doing. *)
Stop == /\ up
        /\ up' = FALSE
        /\ stage' = [i \in Posts |-> IF stage[i] = "unused" THEN "unused" ELSE "done"]
        /\ request' = [i \in Posts |-> NONE]
        /\ UNCHANGED <<now, mode, starts, file, edits, policyVars, under, receiptVars>>

(* The receipt chain is resumed and the manifest loaded, or nothing starts. *)
Start == /\ ~up
         /\ starts < MaxStarts
         /\ "receipts" \in mode => Resumable(lines)
         /\ up' = TRUE
         /\ starts' = starts + 1
         /\ manifest' = file
         /\ approved' = Names(file)
         /\ drifted' = {}
         /\ seen' = NONE
         /\ shown' = NONE
         /\ chain' = IF "receipts" \in mode THEN Resumed(lines) ELSE NewChain
         /\ UNCHANGED <<now, mode, file, edits, postVars, lines>>

-----------------------------------------------------------------------------
Goes(i, r, place) == /\ request' = [request EXCEPT ![i] = r]
                     /\ stage' = [stage EXCEPT ![i] = place]

(* The handler of POST i moves on, or is over: its response is complete. *)
Enter(i, place) == Goes(i, request[i], place)
Over(i) == Goes(i, NONE, "done")

Arrives(i) == /\ up
              /\ stage[i] = "unused"
              /\ \A j \in 1..(i - 1) : stage[j] # "unused"

(* The scopes a token with a good signature grants now, or NONE. *)
Held(token) == IF token # NONE /\ token.expires >= now THEN token.scopes ELSE NONE

Admits(n, held) == /\ n \notin drifted \/ "allowAll" \in mode
                   /\ CheckCall(manifest, n, held, now, "allowAll" \in mode)

(* What is not admitted, or has arguments that do not fit the schema, is     *)
(* answered by the proxy; the rest goes upstream.                            *)
Decide(i, r, held) ==
    \/ Over(i) /\ UNCHANGED under
    \/ /\ Admits(r.tool, held)
       /\ under' = [under EXCEPT ![i] = manifest]
       /\ Goes(i, r, "fetching")

(* A tools/call, which awaits the verification of its token if it has one. *)
Call(i) ==
    /\ Arrives(i)
    /\ \E n \in Tools, token \in {NONE} \cup Tokens :
          LET r == [method |-> "call", tool |-> n, token |-> token]
          IN  IF "auth" \in mode /\ token # NONE
              THEN Goes(i, r, "validating") /\ UNCHANGED under
              ELSE Decide(i, r, NONE)
    /\ UNCHANGED <<now, mode, up, starts, file, edits, policyVars, receiptVars>>

(* A bad or expired token is refused, even where none is needed. *)
Validated(i) ==
    /\ up
    /\ stage[i] = "validating"
    /\ LET held == Held(request[i].token)
       IN  IF held = NONE THEN Over(i) /\ UNCHANGED under
           ELSE Decide(i, request[i], held)
    /\ UNCHANGED <<now, mode, up, starts, file, edits, policyVars, receiptVars>>

Ask(i) == /\ Arrives(i)
          /\ \E method \in {"list", "other"} : Goes(i, [method |-> method], "fetching")
          /\ UNCHANGED <<now, mode, up, starts, file, edits, policyVars, under, receiptVars>>

-----------------------------------------------------------------------------
(* The upstream fails, or its body is no JSON: 502, or the body as it is. *)
Unanswered(i) ==
    /\ up
    /\ stage[i] = "fetching"
    /\ Over(i)
    /\ UNCHANGED <<now, mode, up, starts, file, edits, policyVars, under, receiptVars>>

(* The upstream opens a stream, which ends sooner or later, answer or not. *)
StreamOpens(i) ==
    /\ up
    /\ stage[i] = "fetching"
    /\ Enter(i, "streaming")
    /\ UNCHANGED <<now, mode, up, starts, file, edits, policyVars, under, receiptVars>>

StreamEnds(i) ==
    /\ up
    /\ stage[i] \in {"streaming", "answered"}
    /\ Over(i)
    /\ UNCHANGED <<now, mode, up, starts, file, edits, policyVars, under, receiptVars>>

(* The upstream's response to POST i: the JSON body, or the first event with *)
(* its id and no method.  Of the events without a method, those with other   *)
(* ids and later ones are dropped, which changes nothing.                    *)
Response(i) == \/ stage[i] = "fetching" /\ Over(i)
               \/ stage[i] = "streaming" /\ Enter(i, "answered")

(* An event that has a method next to its result is no response to that      *)
(* discipline: it uses up nothing, and may come again and after the response.*)
Passing(i) == stage[i] \in {"streaming", "answered"} /\ Enter(i, stage[i])

(* Either carries a result, and is treated alike. *)
Result(i) == Response(i) \/ Passing(i)

(* A JSON body with another id is replaced by an error, which ends the POST  *)
(* as any error or any other method's response does.                         *)
Responded(i) ==
    /\ up
    /\ Response(i)
    /\ UNCHANGED <<now, mode, up, starts, file, edits, policyVars, under, receiptVars>>

(* A result of a tools/call is sent once its receipt was appended to the     *)
(* chain and given to the sink, even if the sink fails.                      *)
Receipting(i, policy) ==
    /\ up
    /\ "receipts" \in mode
    /\ request[i] # NONE /\ request[i].method = "call"
    /\ chain.seq < MaxReceipts
    /\ Result(i)
    /\ LET r == NextReceipt(chain, i, policy)
       IN  chain' = After(r) /\ lines' \in Sunk(lines, r)
    /\ UNCHANGED <<now, mode, up, starts, file, edits, policyVars, under>>

ReceiptedNow(i) == Receipting(i, manifest)   \* mutant: the policy in force by now

Receipted(i) == Receipting(i, under[i])

-----------------------------------------------------------------------------
(* Answers to tools/list. *)
Lists(i) == /\ up
            /\ request[i] # NONE /\ request[i].method = "list"

(* What the client is shown.  A stream whose listing updated the manifest,   *)
(* or failed to, is filtered even under --allow-all.                         *)
Unfiltered(m, drift, listing, updating) ==   \* mutant: an update shows all it approved
    IF updating THEN DOMAIN listing
    ELSE {n \in DOMAIN listing \cap Names(m) : n \notin drift /\ m.tools[n].allowed}

Filtered(m, drift, listing, updating) ==
    IF "allowAll" \in mode /\ ~updating THEN DOMAIN listing
    ELSE {n \in DOMAIN listing \cap Names(m) : n \notin drift /\ m.tools[n].allowed}

(* --strict: any difference is answered with an error. *)
ListedStrictly(i) ==
    /\ "strict" \in mode
    /\ Lists(i)
    /\ stage[i] \in {"fetching", "streaming", "answered"}
    /\ \E listing \in ServerListings :
          /\ ~Matches(manifest, listing)
          /\ drifted' = Drifted(manifest, listing)
          /\ seen' = listing
    /\ shown' = NONE
    /\ Over(i)
    /\ UNCHANGED <<now, mode, up, starts, file, edits, manifest, approved, under, receiptVars>>

Updates(listing) == "autoUpdate" \in mode /\ Added(manifest, listing) # {}

(* The file is the policy in memory, and is replaced, with the policy. *)
Updating(i, listing, new) ==
    /\ Lists(i)
    /\ "strict" \in mode => Matches(manifest, listing)
    /\ Updates(listing)
    /\ file = manifest
    /\ file' = new
    /\ manifest' = new
    /\ seen' = listing
    /\ shown' = Filtered(new, {}, listing, stage[i] # "fetching")
    /\ Result(i)
    /\ UNCHANGED <<now, mode, up, starts, edits, under, receiptVars>>

StaleDriftUpdate(i) ==   \* mutant: driftedNames is not cleared
    \E listing \in ServerListings :
       LET new == AutoUpdated(manifest, listing, now + Validity)
       IN  /\ Updating(i, listing, new)
           /\ approved' = Names(new)
           /\ drifted' = Drifted(manifest, listing)

ListedUpdating(i) ==
    \E listing \in ServerListings :
       LET new == AutoUpdated(manifest, listing, now + Validity)
       IN  /\ Updating(i, listing, new)
           /\ approved' = Names(new)
           /\ drifted' = {}

(* No update is due, or it fails: the file was changed, or cannot be written. *)
Listed(i) ==
    /\ Lists(i)
    /\ \E listing \in ServerListings :
          /\ "strict" \in mode => Matches(manifest, listing)
          /\ drifted' = Drifted(manifest, listing)
          /\ seen' = listing
          /\ shown' = Filtered(manifest, drifted', listing,
                              stage[i] # "fetching" /\ Updates(listing))
    /\ Result(i)
    /\ UNCHANGED <<now, mode, up, starts, file, edits, manifest, approved, under, receiptVars>>

-----------------------------------------------------------------------------
Handles(i) == \/ Validated(i) \/ Unanswered(i) \/ StreamOpens(i) \/ StreamEnds(i)
              \/ Receipted(i) \/ Responded(i)
              \/ ListedStrictly(i) \/ ListedUpdating(i) \/ Listed(i)

Next == \/ Tick \/ Edit \/ Stop \/ Start
        \/ \E i \in Posts : Call(i) \/ Ask(i) \/ Handles(i)

Spec == Init /\ [][Next]_vars

-----------------------------------------------------------------------------
(* driftedNames and approvedNames follow the manifest and the listing they   *)
(* are about through updates that succeed or fail and through restarts,      *)
(* whichever handler wrote them last.                                        *)
DriftIsCurrent ==
    up => /\ approved = Names(manifest)
          /\ drifted = IF seen = NONE THEN {} ELSE Drifted(manifest, seen)

(* A receipt file that verifies tells the whole story up to its last line:   *)
(* it has every receipt the chain issued until then, in that order ("gaps    *)
(* detectable", receipts.js:60-62), across failed and torn writes.           *)
VerifiedIsComplete ==
    Resumable(lines) /\ lines # <<>> =>
        Digest(Last(lines)) = [k \in DOMAIN lines |-> <<lines[k].seq, lines[k].call>>]

(* The chain never forks: what a running proxy issues next commits to every  *)
(* receipt in the file, the ones of earlier processes among them.            *)
ChainCommitsToFile ==
    up /\ "receipts" \in mode =>
        \A k \in DOMAIN lines :
            lines[k] \notin {TORN, GARBLED} => IsPrefix(Digest(lines[k]), chain.head)

(* What the client was last shown is allowed and as approved, by the policy  *)
(* that answer left in force, a stream or a body, updated or not.            *)
ShownIsAllowed ==
    up /\ shown # NONE /\ "allowAll" \notin mode =>
        shown = {n \in DOMAIN seen \cap Names(manifest) :
                    manifest.tools[n].allowed /\ ~Differs(manifest.tools[n], seen[n])}

(* The receipts tell of calls that were authorized and not over, by the      *)
(* policy that admitted each and not the one in force when it is answered.   *)
(* There may be several of one call: a stream may bring its result again.    *)
Audit == INSTANCE AuditLog
            WITH authorized <- {<<i, under[i]>> : i \in {j \in Posts : under[j] # NONE}},
                 open <- {i \in Posts : under[i] # NONE /\ stage[i] # "done"},
                 log <- [k \in {j \in DOMAIN lines : lines[j] \notin {TORN, GARBLED}} |->
                            <<lines[k].call, lines[k].policy>>]

ReceiptsAreAudit == Audit!Spec
=============================================================================
