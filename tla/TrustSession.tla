---------------------------- MODULE TrustSession ----------------------------
(***************************************************************************)
(* A TrustSession (lib/session.js) over its stdio client (lib/client.js),  *)
(* with the Guard in front of its calls (lib/guard.js), the middleware     *)
(* that wraps a client (lib/middleware.js), the TrustStore it shares with  *)
(* later sessions to the same server, the program that owns them, and the  *)
(* server at the other end of the pipe.                                    *)
(*                                                                         *)
(* JavaScript runs one callback at a time and resumes awaits in the order  *)
(* they were settled, so the model's steps are the code between two        *)
(* awaits: `ready` is the microtask queue, a step of the owner may come    *)
(* between two of its entries, and several lines of one chunk may be       *)
(* handled before any entry runs.  An id is a request in flight; ids are   *)
(* reused once nothing of the earlier request is left anywhere.            *)
(***************************************************************************)
EXTENDS TrustStore

CONSTANTS
  ListIds, CallIds,      \* ids of the owner's tools/list and tools/call requests
  NoteIds,               \* ids of the listener's tools/list requests: one for
                         \* every announced change, so that none has to wait
  NoId,                  \* the id of a notification
  ServerToolsets,        \* the toolsets the server may come to publish
  Bindings,              \* the handshake bindings it may send, NoTools if none
  Notifies,              \* may a change be announced, be silent, or both
  Timeouts,              \* may requests time out
  Destructive,           \* the contracts hinted destructive
  AllowDestructive, AllowUnknownTools, RequirePinned,  \* Guard policy flags
  AllowedTools,          \* policy.allowedTools
  MaxCallsPerTool,       \* policy.maxCallsPerTool
  Mode,                  \* the guard's mode
  Versions,              \* bound: protocol versions connect() tries
  MaxChanges,            \* bound: changes of the server's toolset
  MaxSessions            \* bound: sessions over the same TrustStore

ASSUME SessionAssumption ==
  /\ ServerToolsets \subseteq Toolsets
  /\ Bindings \subseteq Toolsets \union {NoTools}
  /\ Notifies \subseteq BOOLEAN
  /\ {Timeouts, AllowDestructive, AllowUnknownTools, RequirePinned} \subseteq BOOLEAN
  /\ ListIds \intersect CallIds = {}
  /\ NoteIds \intersect (ListIds \union CallIds) = {}
  /\ NoId \notin ListIds \union NoteIds \union CallIds
  /\ NoTool \notin Names
  /\ Mode \in {"enforce", "audit"}
  /\ {MaxCallsPerTool, MaxChanges, MaxSessions} \subseteq Nat
  /\ Versions \in Nat \ {0}

VARIABLES
  trust,         \* the TrustStore's record of this server
  callCounts,    \* the guard's calls per tool
  receipts,      \* the receipts recorded
  phase,         \* how far connect() is, or how the session ended
  versionsLeft,  \* protocol versions connect() has not failed yet
  binding,       \* the handshake binding's toolset
  observation,   \* session.observation
  task,          \* what each id is awaited for
  ready,         \* settled awaits, not resumed yet
  inbox,         \* requests the server has not answered
  wire,          \* the server's stdout
  serverTools,   \* the toolset the server publishes
  changes, sessions,   \* counted for the bounds
  \* History, read by the properties only:
  drifted,       \* an incompatible change was judged, and nobody approved since
  unverified,    \* the pin was not compared with this session's first listing
  missed,        \* a list_changed came before the listener was registered
  served         \* calls the server executed, capped at MaxCallsPerTool + 1

ownerVars   == <<trust, callCounts, receipts>>
sessionVars == <<phase, versionsLeft, binding, observation, sessions>>
pipeVars    == <<inbox, wire>>
serverVars  == <<serverTools, changes, served>>
history     == <<drifted, unverified, missed>>
vars == <<ownerVars, sessionVars, task, ready, pipeVars, serverVars, history>>

Ids == ListIds \union NoteIds \union CallIds
Task == [kind: {"idle", "connect", "notified", "refresh", "enumerate", "call"},
         stage: {"idle", "authorized", "pending", "resolved"},
         tool: Names \union {NoTool}, seen: Contracts \union {NoTool}]
Message == [id: Ids \union {NoId}, tools: Toolsets \union {NoTools}]
Request == [id: Ids, tool: Names \union {NoTool}]
Receipt == [tool: Names, contract: Contracts \union {NoTool},
            authorized: Contracts \union {NoTool}]

Idle == [kind |-> "idle", stage |-> "idle", tool |-> NoTool, seen |-> NoTool]
Listing(kind) == [Idle EXCEPT !.kind = kind, !.stage = "pending"]

TypeOK ==
  /\ trust \in TrustRecord
  /\ callCounts \in [Names -> Nat]
  /\ receipts \subseteq Receipt
  /\ phase \in {"initialize", "list", "connected", "failed", "closed", "crashed"}
  /\ versionsLeft \in Nat
  /\ binding \in Toolsets \union {NoTools}
  /\ observation \in Toolsets \union {NoTools}
  /\ task \in [Ids -> Task]
  /\ ready \in Seq(Message)
  /\ inbox \subseteq Request
  /\ wire \in Seq(Message)
  /\ serverTools \in Toolsets
  /\ changes \in Nat /\ sessions \in Nat
  /\ {drifted, unverified, missed} \subseteq BOOLEAN
  /\ served \in [Names -> Nat]

Init ==
  /\ trust = NoRecord
  /\ callCounts = [t \in Names |-> 0]
  /\ receipts = {}
  /\ phase = "initialize"
  /\ versionsLeft = Versions
  /\ binding = NoTools
  /\ observation = NoTools
  /\ task = [i \in Ids |-> Idle]
  /\ ready = << >> /\ wire = << >> /\ inbox = {}
  /\ serverTools \in ServerToolsets
  /\ changes = 0 /\ sessions = 1
  /\ drifted = FALSE /\ unverified = FALSE /\ missed = FALSE
  /\ served = [t \in Names |-> 0]

-----------------------------------------------------------------------------
(* The stdio client *)

Fresh(i) ==
  /\ task[i] = Idle
  /\ \A m \in inbox : m.id # i
  /\ \A k \in DOMAIN wire : wire[k].id # i

\* request: the id is pending from now on, and the server will see it.
Ask(i, t) ==
  /\ task' = [task EXCEPT ![i] = t]
  /\ inbox' = inbox \union {[id |-> i, tool |-> t.tool]}

\* A closed session's stdin has ended: a request it still makes is lost, or
\* the error nobody listens for ends the process.
Send(i, t) ==
  \/ phase # "closed" /\ Ask(i, t) /\ UNCHANGED phase
  \/ phase = "closed" /\ task' = [task EXCEPT ![i] = t] /\ UNCHANGED <<inbox, phase>>
  \/ phase = "closed" /\ phase' = "crashed" /\ UNCHANGED <<task, inbox>>

\* An answer to a pending id settles its await; a late one is ignored.
DeliverResponse ==
  /\ wire # << >> /\ Head(wire).id # NoId
  /\ phase # "crashed"
  /\ wire' = Tail(wire)
  /\ LET i == Head(wire).id
     IN  IF task[i].stage = "pending"
         THEN /\ task' = [task EXCEPT ![i].stage = "resolved"]
              /\ ready' = Append(ready, Head(wire))
         ELSE UNCHANGED <<task, ready>>
  /\ UNCHANGED <<ownerVars, sessionVars, inbox, serverVars, history>>

\* A listener that skips the announcements that come during a refresh.
DebouncedNotification ==
  /\ wire # << >> /\ Head(wire).id = NoId
  /\ phase # "crashed"
  /\ wire' = Tail(wire)
  /\ IF phase \in {"connected", "closed"} /\ \A i \in NoteIds : task[i].kind # "notified"
     THEN /\ \E i \in NoteIds : Fresh(i) /\ Send(i, Listing("notified"))
          /\ UNCHANGED missed
     ELSE missed' = (missed \/ phase # "connected") /\ UNCHANGED <<task, inbox, phase>>
  /\ UNCHANGED <<ownerVars, versionsLeft, binding, observation, sessions, ready,
                 serverVars, drifted, unverified>>

\* The list_changed listener starts a refresh.  connect() registers it last.
DeliverNotification ==
  /\ wire # << >> /\ Head(wire).id = NoId
  /\ phase # "crashed"
  /\ wire' = Tail(wire)
  /\ IF phase \in {"connected", "closed"}
     THEN /\ \E i \in NoteIds : Fresh(i) /\ Send(i, Listing("notified"))
          /\ UNCHANGED missed
     ELSE missed' = TRUE /\ UNCHANGED <<task, inbox, phase>>
  /\ UNCHANGED <<ownerVars, versionsLeft, binding, observation, sessions, ready,
                 serverVars, drifted, unverified>>

\* The timer of a pending request rejects it.  connect() fails; a caller of
\* refresh(), of the middleware or of call() gets the error; nobody awaits
\* the listener's refresh, and an unhandled rejection ends the process.
Timeout(i) ==
  /\ Timeouts /\ phase # "crashed"
  /\ ready = << >>
  /\ task[i].stage = "pending"
  /\ task' = [task EXCEPT ![i] = Idle]
  /\ phase' = CASE task[i].kind = "connect"  -> "failed"
                [] task[i].kind = "notified" -> "crashed"
                [] OTHER                     -> phase
  /\ UNCHANGED <<ownerVars, versionsLeft, binding, observation, sessions, ready,
                 pipeVars, serverVars, history>>

-----------------------------------------------------------------------------
(* connect() *)

\* A handshake that never runs out of versions.
EndlessInitializeFails ==
  /\ phase = "initialize"
  /\ versionsLeft' = versionsLeft - 1
  /\ UNCHANGED <<ownerVars, phase, binding, observation, sessions, task, ready,
                 pipeVars, serverVars, history>>

InitializeFails ==
  /\ phase = "initialize"
  /\ versionsLeft' = versionsLeft - 1
  /\ phase' = IF versionsLeft = 1 THEN "failed" ELSE phase
  /\ UNCHANGED <<ownerVars, binding, observation, sessions, task, ready, pipeVars,
                 serverVars, history>>

Initialized(i, b) ==
  /\ phase = "initialize"
  /\ Fresh(i)
  /\ binding' = b
  /\ phase' = "list"
  /\ Ask(i, Listing("connect"))
  /\ UNCHANGED <<ownerVars, versionsLeft, observation, sessions, ready, wire,
                 serverVars, history>>

\* The head of the microtask queue resumes the await of id i with a result.
Resume(i, kind, stage) ==
  /\ ready # << >> /\ Head(ready).id = i
  /\ phase # "crashed"
  /\ task[i].kind = kind /\ task[i].stage = stage
  /\ ready' = Tail(ready)

Result == Head(ready).tools

BindingBroken(tools) == binding # NoTools /\ ~SameDigest(binding, tools)

ResumeConnect(i) ==
  /\ Resume(i, "connect", "resolved")
  /\ observation' = Result
  /\ trust' = IF BindingBroken(Result) THEN Suspected(trust, "BREAKING_CHANGE") ELSE trust
  /\ phase' = "connected"
  /\ task' = [task EXCEPT ![i] = Idle]
  /\ unverified' = (trust.pin # NoTools)
  /\ UNCHANGED <<callCounts, receipts, versionsLeft, binding, sessions, pipeVars,
                 serverVars, drifted, missed>>

-----------------------------------------------------------------------------
(* refresh() *)

CanStartListing(i) == phase = "connected" /\ Fresh(i)

Refresh(i) ==
  /\ CanStartListing(i)
  /\ Ask(i, Listing("refresh"))
  /\ UNCHANGED <<ownerVars, sessionVars, ready, wire, serverVars, history>>

\* A refresh that leaves an incompatible change at MISMATCH.
JudgedWithoutRevoking(tools) ==
  \E diff \in {DiffToolsets(observation, tools)} :
    /\ observation' = tools
    /\ trust' = Evaluated(trust, tools, diff)
    /\ drifted' = (drifted \/ (trust.pin # NoTools /\ ~IsCompatible(diff)))
    /\ unverified' = (unverified /\ Verdict(trust, diff) # "repinned")

\* After the await: the diff is with the previous observation, read now.
Judged(tools) ==
  \E diff \in {DiffToolsets(observation, tools)} :
    /\ observation' = tools
    /\ trust' = IF Mismatched(trust, diff) /\ ~IsCompatible(diff)
                THEN Revoked(Evaluated(trust, tools, diff), "BREAKING_CHANGE")
                ELSE Evaluated(trust, tools, diff)
    /\ drifted' = (drifted \/ (trust.pin # NoTools /\ ~IsCompatible(diff)))
    /\ unverified' = (unverified /\ Verdict(trust, diff) # "repinned")

ResumeRefresh(i) ==
  /\ Resume(i, "refresh", "resolved") \/ Resume(i, "notified", "resolved")
  /\ Judged(Result)
  /\ task' = [task EXCEPT ![i] = Idle]
  /\ UNCHANGED <<callCounts, receipts, phase, versionsLeft, binding, sessions,
                 pipeVars, serverVars, missed>>

-----------------------------------------------------------------------------
(* The middleware's tools/list: a digest it does not know forces a refresh. *)

Enumerate(i) ==
  /\ CanStartListing(i)
  /\ Ask(i, Listing("enumerate"))
  /\ UNCHANGED <<ownerVars, sessionVars, ready, wire, serverVars, history>>

ResumeEnumerate(i) ==
  /\ Resume(i, "enumerate", "resolved")
  /\ IF SameDigest(Result, observation)
     THEN task' = [task EXCEPT ![i] = Idle] /\ UNCHANGED <<inbox, phase>>
     ELSE Send(i, Listing("refresh"))
  /\ UNCHANGED <<ownerVars, versionsLeft, binding, observation, sessions, wire,
                 serverVars, history>>

-----------------------------------------------------------------------------
(* call() and the Guard *)

Unlisted(tool) == observation[tool] = NoTool

\* A guard that does not look at the trust state.
RefusedByPolicyOnly(tool, argsOk, allowed) ==
  \/ Unlisted(tool) /\ ~AllowUnknownTools
  \/ /\ ~Unlisted(tool)
     /\ \/ tool \notin AllowedTools
        \/ observation[tool] \in Destructive /\ ~AllowDestructive
        \/ callCounts[tool] >= MaxCallsPerTool
        \/ ~argsOk
        \/ ~allowed

\* A ceiling one call too high.
RefusedPastTheCeiling(tool, argsOk, allowed) ==
  \/ trust.state \in {"REVOKED", "MISMATCH"}
  \/ RequirePinned /\ trust.state # "PINNED"
  \/ Unlisted(tool) /\ ~AllowUnknownTools
  \/ /\ ~Unlisted(tool)
     /\ \/ tool \notin AllowedTools
        \/ observation[tool] \in Destructive /\ ~AllowDestructive
        \/ callCounts[tool] > MaxCallsPerTool
        \/ ~argsOk
        \/ ~allowed

\* authorizeCall, gate by gate.  argsOk is the strict-mode validation, and
\* allowed the invocation policy's verdict on these arguments.
Refused(tool, argsOk, allowed) ==
  \/ trust.state \in {"REVOKED", "MISMATCH"}
  \/ RequirePinned /\ trust.state # "PINNED"
  \/ Unlisted(tool) /\ ~AllowUnknownTools
  \/ /\ ~Unlisted(tool)
     /\ \/ tool \notin AllowedTools
        \/ observation[tool] \in Destructive /\ ~AllowDestructive
        \/ callCounts[tool] >= MaxCallsPerTool
        \/ ~argsOk
        \/ ~allowed

\* An unknown tool that policy lets through is not counted.
Counted(tool, argsOk, allowed) == ~Refused(tool, argsOk, allowed) /\ ~Unlisted(tool)

\* A refusal throws in enforce mode; in audit mode the call goes on.  The
\* request leaves in a later microtask.
Call(i, tool, argsOk, allowed) ==
  /\ phase = "connected"
  /\ Fresh(i)
  /\ Mode = "enforce" => ~Refused(tool, argsOk, allowed)
  /\ callCounts' = IF Counted(tool, argsOk, allowed)
                   THEN [callCounts EXCEPT ![tool] = @ + 1] ELSE callCounts
  /\ task' = [task EXCEPT ![i] = [kind |-> "call", stage |-> "authorized",
                                  tool |-> tool, seen |-> observation[tool]]]
  /\ ready' = Append(ready, [id |-> i, tools |-> NoTools])
  /\ UNCHANGED <<trust, receipts, sessionVars, pipeVars, serverVars, history>>

SendCall(i) ==
  /\ Resume(i, "call", "authorized")
  /\ Ask(i, [task[i] EXCEPT !.stage = "pending"])
  /\ UNCHANGED <<ownerVars, sessionVars, wire, serverVars, history>>

\* recordReceipt names the contract observed when the answer arrives.
ResumeCall(i) ==
  /\ Resume(i, "call", "resolved")
  /\ receipts' = receipts \union
       {[tool |-> task[i].tool, contract |-> observation[task[i].tool],
         authorized |-> task[i].seen]}
  /\ task' = [task EXCEPT ![i] = Idle]
  /\ UNCHANGED <<trust, callCounts, sessionVars, pipeVars, serverVars, history>>

-----------------------------------------------------------------------------
(* The program that owns the session *)

Observe ==
  /\ phase = "connected"
  /\ trust' = Observed(trust, observation)
  /\ UNCHANGED <<callCounts, receipts, sessionVars, task, ready, pipeVars,
                 serverVars, history>>

Pin ==
  /\ phase = "connected"
  /\ trust' = Pinned(trust, observation)
  /\ unverified' = FALSE
  /\ UNCHANGED <<callCounts, receipts, sessionVars, task, ready, pipeVars,
                 serverVars, drifted, missed>>

ManualRevoke ==
  /\ phase \in {"connected", "closed"}
  /\ trust' = Revoked(trust, "MANUAL_REVOKE")
  /\ UNCHANGED <<callCounts, receipts, sessionVars, task, ready, pipeVars,
                 serverVars, history>>

Approve ==
  /\ phase \in {"connected", "closed"}
  /\ trust.known
  /\ trust' = Approved(trust)
  /\ drifted' = FALSE /\ unverified' = TRUE
  /\ UNCHANGED <<callCounts, receipts, sessionVars, task, ready, pipeVars,
                 serverVars, missed>>

\* stop() ends stdin and signals the server, which may still answer until it
\* dies: what it leaves unanswered stays pending, to time out.  The owner
\* closes between two events, so nothing is left in `ready`.
Close ==
  /\ phase = "connected" /\ ready = << >>
  /\ phase' = "closed"
  /\ UNCHANGED <<ownerVars, versionsLeft, binding, observation, sessions, task,
                 ready, pipeVars, serverVars, history>>

\* A new session to the same server, over the same TrustStore and Guard, once
\* nothing more comes out of the old one's pipe.
Reconnect ==
  /\ phase \in {"closed", "failed"} /\ sessions < MaxSessions
  /\ ready = << >>
  /\ phase' = "initialize"
  /\ versionsLeft' = Versions
  /\ binding' = NoTools /\ observation' = NoTools
  /\ sessions' = sessions + 1
  /\ inbox' = {} /\ wire' = << >>
  /\ missed' = FALSE
  /\ UNCHANGED <<ownerVars, task, ready, serverVars, drifted, unverified>>

-----------------------------------------------------------------------------
(* The server *)

\* It answers in any order, with the toolset of that moment.
Answer(i) ==
  /\ \E m \in inbox :
       /\ m.id = i
       /\ inbox' = inbox \ {m}
       /\ wire' = Append(wire, [id |-> i,
                                tools |-> IF m.tool = NoTool THEN serverTools ELSE NoTools])
       /\ served' = IF m.tool # NoTool /\ served[m.tool] <= MaxCallsPerTool
                    THEN [served EXCEPT ![m.tool] = @ + 1] ELSE served
  /\ phase # "crashed"
  /\ UNCHANGED <<ownerVars, sessionVars, task, ready, serverTools, changes, history>>

Change(tools, announced) ==
  /\ phase \in {"list", "connected"} /\ changes < MaxChanges
  /\ tools # serverTools
  /\ serverTools' = tools
  /\ changes' = changes + 1
  /\ wire' = IF announced THEN Append(wire, [id |-> NoId, tools |-> NoTools]) ELSE wire
  /\ UNCHANGED <<ownerVars, sessionVars, task, ready, inbox, served, history>>

-----------------------------------------------------------------------------

Deliver == DeliverResponse \/ DeliverNotification

ResumeList(i) == ResumeConnect(i) \/ ResumeRefresh(i) \/ ResumeEnumerate(i)
ResumeAny == \/ \E i \in ListIds \union NoteIds : ResumeList(i)
             \/ \E i \in CallIds : SendCall(i) \/ ResumeCall(i)

Owner == Observe \/ Pin \/ ManualRevoke \/ Approve \/ Close \/ Reconnect

Next ==
  \/ InitializeFails
  \/ \E i \in ListIds, b \in Bindings : Initialized(i, b)
  \/ \E i \in ListIds : Refresh(i) \/ Enumerate(i)
  \/ \E i \in CallIds, tool \in Names, argsOk, allowed \in BOOLEAN :
       Call(i, tool, argsOk, allowed)
  \/ Deliver
  \/ ResumeAny
  \/ \E i \in Ids : Timeout(i)
  \/ Owner
  \/ \E i \in Ids : Answer(i)
  \/ \E tools \in ServerToolsets, announced \in Notifies : Change(tools, announced)

Spec == Init /\ [][Next]_vars

\* Node keeps draining its queues and the pipe, and the server answers what
\* it is asked.  Nothing obliges the owner, and nothing obliges a timer to
\* fire before an answer.
Fairness ==
  /\ WF_vars(Deliver)
  /\ WF_vars(ResumeAny)
  /\ \A i \in Ids : WF_vars(Answer(i))

FairSpec == Spec /\ Fairness

(* Properties *)

\* Once a change to a pinned server was judged incompatible, the server is
\* REVOKED until somebody approves it, whatever is pinned, refreshed,
\* suspected or reconnected in between (trust.js: REVOKED is sticky).
RevocationHolds == drifted => trust.state = "REVOKED"

NewCall(i) == task[i].kind # "call" /\ task'[i].kind = "call"

\* An enforcing guard admits no call between an incompatible change and the
\* approval that follows it, and under requirePinned it admits calls only to
\* the tools of a server that has a pin (authorizeCall against refresh()).
AdmissionStopsAtDrift ==
  [][\A i \in CallIds : NewCall(i) /\ Mode = "enforce" =>
       /\ ~drifted
       /\ RequirePinned => trust.pin # NoTools]_vars

\* evaluate() takes one toolset for the other and leaves the pin as it is.
\* Their digests may differ, where the differ does not look.
Quiet(s, t) == Overall(s, t) \in {"NONE", "SYNTACTIC"}

\* t can be reached from s by such steps: one leaves every set of toolsets
\* that has s and not t.  The two can be apart by what the differ would call
\* BREAKING, since a refresh is compared with the listing before it only.
Unnoticed(s, t) ==
  \A S \in SUBSET Toolsets :
    s \in S /\ t \notin S => \E u \in S, v \in Toolsets \ S : Quiet(u, v)

\* Under the default policy a PINNED server's pin leads to the toolset the
\* guard reads by steps without a finding: re-pinning keeps up with every
\* compatible change the differ sees (evaluate against refresh()), in whatever
\* order pins, refreshes, revocations and sessions come.  The pin an approval
\* restores, and the pin an earlier session left, are not covered until
\* something pins again.
PinTracksObservation ==
  /\ trust.state = "PINNED"
  /\ observation # NoTools
  /\ ~unverified
  => Unnoticed(trust.pin, observation)

\* However many calls are in flight at once, an enforcing guard lets no more
\* reach the server per tool than the ceiling it was given (maxCallsPerTool).
CeilingHolds == \A t \in Names : served[t] <= MaxCallsPerTool

\* Every listing the guard relies on becomes the server's: a change announced
\* to a connected session is observed, unless the announcement came before
\* connect() registered its listener (the stale-cache path of session.js).
AnnouncedChangesAreSeen ==
  <>[](phase = "connected" /\ ~missed => observation = serverTools)

=============================================================================
