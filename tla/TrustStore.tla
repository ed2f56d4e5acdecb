----------------------------- MODULE TrustStore -----------------------------
(***************************************************************************)
(* The trust state machine of lib/trust.js: the record a TrustStore keeps  *)
(* for one server, and what each of its operations makes of that record.   *)
(* The audit history is cut to the reason of its last event.               *)
(***************************************************************************)
EXTENDS ToolsetDiff

CONSTANTS
  NoTools,          \* "no toolset": an unset pin, observation, ...
  AllowAutoRepin,   \* policy.allowAutoRepin
  AllowNewTools     \* policy.allowNewTools

ASSUME StoreAssumption ==
  /\ NoTools \notin Toolsets
  /\ {AllowAutoRepin, AllowNewTools} \subseteq BOOLEAN

TrustStates == {"UNKNOWN", "OBSERVED", "PINNED", "MISMATCH", "SUSPECT", "REVOKED"}
Reasons ==
  {"NONE", "FIRST_OBSERVATION", "PIN_CREATED", "DIGEST_MATCH", "COMPATIBLE_REPIN",
   "TOOL_ADDED", "BREAKING_CHANGE", "PERMISSION_CHANGE", "ANNOTATION_DOWNGRADE",
   "MANUAL_APPROVAL", "MANUAL_REVOKE"}

\* known: the servers map has an entry; last: lastObservation.
TrustRecord ==
  [known: BOOLEAN, state: TrustStates, reason: Reasons,
   pin: Toolsets \union {NoTools}, last: Toolsets \union {NoTools}]

NoRecord ==
  [known |-> FALSE, state |-> "UNKNOWN", reason |-> "NONE",
   pin |-> NoTools, last |-> NoTools]

\* _transition: REVOKED is left for MANUAL_APPROVAL only.
Transition(r, to, reason) ==
  IF r.state = "REVOKED" /\ reason # "MANUAL_APPROVAL"
  THEN r
  ELSE [r EXCEPT !.known = TRUE, !.state = to, !.reason = reason]

\* observe
Observed(r, tools) ==
  LET seen == IF r.state = "UNKNOWN"
              THEN Transition(r, "OBSERVED", "FIRST_OBSERVATION")
              ELSE r
  IN  [seen EXCEPT !.last = tools]

\* pin: the pin is written before the transition, which may be refused.
Pinned(r, tools) ==
  LET seen == IF r.known THEN r ELSE Observed(r, tools)
  IN  Transition([seen EXCEPT !.pin = tools], "PINNED", "PIN_CREATED")

\* evaluate, as the action it returns (its "ok" split by whether the diff
\* matched, its "mismatch" by what was wrong) and the record it leaves.
OnlyAdded(diff) == diff.removed = {} /\ diff.changed \subseteq {"NON_BREAKING"}

Verdict(r, diff) ==
  IF r.pin = NoTools THEN "unpinned"
  ELSE IF diff.overall \in {"NONE", "SYNTACTIC"} THEN "match"
  ELSE IF ~IsCompatible(diff) THEN "incompatible"
  ELSE IF OnlyAdded(diff) /\ ~AllowNewTools /\ diff.added # {} THEN "tool-added"
  ELSE IF AllowAutoRepin THEN "repinned"
  ELSE "ok"

MismatchReason(diff) ==
  CASE diff.overall = "BREAKING"          -> "BREAKING_CHANGE"
    [] diff.overall = "PERMISSION_CHANGE" -> "PERMISSION_CHANGE"
    [] OTHER                              -> "ANNOTATION_DOWNGRADE"

\* A compatible change accepted, its pin left behind.
EvaluatedKeepingPin(r, tools, diff) ==
  CASE Verdict(r, diff) \in {"unpinned", "ok"} -> r
    [] Verdict(r, diff) = "match"      -> Transition(r, "PINNED", "DIGEST_MATCH")
    [] Verdict(r, diff) = "tool-added" -> Transition(r, "MISMATCH", "TOOL_ADDED")
    [] Verdict(r, diff) = "repinned"   -> Transition(r, "PINNED", "COMPATIBLE_REPIN")
    [] Verdict(r, diff) = "incompatible" ->
         Transition(r, "MISMATCH", MismatchReason(diff))

Evaluated(r, tools, diff) ==
  CASE Verdict(r, diff) \in {"unpinned", "ok"} -> r
    [] Verdict(r, diff) = "match"      -> Transition(r, "PINNED", "DIGEST_MATCH")
    [] Verdict(r, diff) = "tool-added" -> Transition(r, "MISMATCH", "TOOL_ADDED")
    [] Verdict(r, diff) = "repinned"   ->
         Transition([r EXCEPT !.pin = tools], "PINNED", "COMPATIBLE_REPIN")
    [] Verdict(r, diff) = "incompatible" ->
         Transition(r, "MISMATCH", MismatchReason(diff))

\* evaluate's action "mismatch"
Mismatched(r, diff) == Verdict(r, diff) \in {"tool-added", "incompatible"}

\* suspect and revoke
Suspected(r, reason) == Transition(r, "SUSPECT", reason)
Revoked(r, reason) == Transition(r, "REVOKED", reason)

\* approve: out of any state, then back to the pin of the last observe().
Approved(r) ==
  LET reset == Transition([r EXCEPT !.state = "UNKNOWN"], "OBSERVED", "MANUAL_APPROVAL")
  IN  CASE ~r.known                        -> r
        [] r.known /\ reset.last = NoTools -> reset
        [] r.known /\ reset.last # NoTools -> Pinned(reset, reset.last)

=============================================================================
