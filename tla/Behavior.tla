------------------------------ MODULE Behavior -------------------------------
(* lib/behavior.js: a reference run of the behaviour probes and a later run  *)
(* that is compared with it, of a server that may by then be another.  The   *)
(* server is a process that answers in its own time, prints to stderr when   *)
(* it likes, and may exit; the client is that of client.js.                  *)
EXTENDS Probes

CONSTANTS ToolLists,   \* sequences of tools, the toolsets of the two runs
          Answers,     \* what a server can answer: records ok, text
          Types,       \* the probe filter: the types of probes that are run
          StderrCap,   \* how much of stderr the client keeps, in pieces
          MaxPrints,   \* bound: the pieces a server prints in a run
          MaxLate      \* bound: the calls that time out in a run

Nothing == [value |-> NONE, shows |-> {}]

Observations == [ok : BOOLEAN, text : {Nothing} \cup {a.text : a \in Answers},
                 timeout : BOOLEAN, crash : BOOLEAN]

(* The names of a server's tools are theirs alone. *)
ASSUME ToolListsAssumption ==
    \A l \in ToolLists : /\ l \in Seq(Range(l))
                         /\ \A i, j \in DOMAIN l : l[i].name = l[j].name => i = j

ASSUME BehaviorAssumption == /\ {StderrCap, MaxPrints, MaxLate} \subseteq Nat
                             /\ \A a \in Answers : a.ok \in BOOLEAN
                             /\ NONE \notin Answers \cup Observations

VARIABLES run,        \* 1, the reference, or 2
          step,       \* "starting", "calling" or "over"
          tools,      \* the tools listed in this run
          answers,    \* answers[r]: what the server of run r answered to what, if it did
          probes,     \* the probes of this run, with their canaries
          alive,      \* the server runs
          noticed,    \* its exit was noticed
          asked,      \* the calls the server has yet to answer
          pipe,       \* the answers that were not read yet, in order
          printed,    \* all pieces of stderr so far, each with the call it was read during
          read,       \* lastStderrLength
          current,    \* the call in progress
          observed,   \* the observations of the reference run, by probe
          findings,   \* the severities of its findings
          reference,  \* the observations of the reference, by probe
          timeouts,   \* how many calls timed out
          report      \* the summary of a run that is over, "aborted" or NONE

server == <<alive, noticed, asked, pipe>>
stderr == <<printed, read>>
made   == <<current, observed, findings, timeouts>>
replayVars == <<run, step, tools, answers, probes, server, stderr, made, reference, report>>

(* The probes that are made and pass the filter, in order. *)
Selected(l) == LET all == Generate(l)
               IN  FlattenSeq([n \in DOMAIN all |-> If(all[n].type \in Types, <<all[n]>>)])

Ids  == UNION {Range(Selected(l)) : l \in ToolLists}
None == [id \in {} |-> NONE]   \* no observations

ReplayInit == /\ run = 1 /\ step = "starting"
              /\ tools = <<>>
              /\ answers = [r \in 1..2 |-> [id \in Ids |-> NONE]]
              /\ probes = <<>>
              /\ alive = TRUE /\ noticed = FALSE /\ asked = {} /\ pipe = <<>>
              /\ printed = <<>> /\ read = 0
              /\ current = 1 /\ observed = None /\ findings = {} /\ timeouts = 0
              /\ reference = None
              /\ report = NONE

-----------------------------------------------------------------------------
(* client.js keeps the last of what the server printed. *)
Kept == SubSeq(printed, Max({0, Len(printed) - StderrCap}) + 1, Len(printed))

Begun(ps) == IF ps = <<>> THEN {} ELSE {1}

(* The handshake and the listing succeed, and the first probe is called. *)
Start == /\ step = "starting" /\ alive
         /\ tools' \in ToolLists
         /\ LET all == Selected(tools')
                ToolOf(p) == CHOOSE t \in Range(tools') : t.name = p.tool
            IN  \E canary \in [DOMAIN all -> UNION {Plantings(ToolOf(p), p.type) : p \in Range(all)}] :
                   /\ \A n \in DOMAIN all : canary[n] \in Plantings(ToolOf(all[n]), all[n].type)
                   /\ probes' = [n \in DOMAIN all |-> [id |-> all[n], canary |-> canary[n]]]
         /\ asked' = Begun(probes')
         /\ step' = "calling"
         /\ UNCHANGED <<run, answers, alive, noticed, pipe, stderr, made, reference, report>>

(* They fail: the run ends without a report. *)
StartFails == /\ step = "starting"
              /\ step' = "over"
              /\ report' = "aborted"
              /\ UNCHANGED <<run, tools, answers, probes, server, stderr, made, reference>>

Calling == step = "calling" /\ current <= Len(probes)

(* What the server answers to the n-th call. *)
AnswerTo(n) == answers[run][probes[n].id]

Replies == /\ step = "calling" /\ alive
           /\ \E n \in asked, a \in Answers : /\ pipe' = Append(pipe, n)
                                              /\ asked' = asked \ {n}
                                              /\ answers' = [answers EXCEPT ![run][probes[n].id] = a]
           /\ UNCHANGED <<run, step, tools, probes, alive, noticed, stderr, made, reference, report>>

(* The marks stderr may bear: of canaries, those the server was given whole. *)
Marks == {Noise, Event} \cup
         {Canary(n) : n \in {m \in DOMAIN probes : /\ m <= current
                                                   /\ probes[m].canary # NONE
                                                   /\ ~probes[m].canary.narrow}}

(* A piece of stderr is read; the other half of a line may come with the     *)
(* next one.                                                                 *)
Continues(mark) == printed # <<>> /\ Last(printed).mark = mark /\ Last(printed).part = "head"

Prints == /\ step = "calling" /\ alive
          /\ Len(printed) < MaxPrints
          /\ \E mark \in Marks, part \in {"whole", "head", "tail"} :
                /\ part = "tail" => Continues(mark)
                /\ part = "head" => mark # Noise
                /\ printed' = Append(printed, [mark |-> mark, part |-> part, during |-> current])
          /\ UNCHANGED <<run, step, tools, answers, probes, server, read, made, reference, report>>

Exits == /\ step = "calling"
         /\ \/ alive /\ alive' = FALSE /\ noticed' = FALSE
            \/ ~alive /\ ~noticed /\ noticed' = TRUE /\ UNCHANGED alive
         /\ UNCHANGED <<run, step, tools, answers, probes, asked, pipe, stderr, made, reference, report>>

-----------------------------------------------------------------------------
SkipsOne ==   \* mutant: the slice starts one too late
    SubSeq(Kept, read + 2, Len(Kept))

(* What was read since the last call, unless the client has dropped some. *)
Delta == SubSeq(Kept, read + 1, Len(Kept))

With(kept, id, o) == [x \in DOMAIN kept \cup {id} |-> IF x = id THEN o ELSE kept[x]]

ReferenceOf(id) == IF id \in DOMAIN reference THEN reference[id] ELSE NONE

(* call() returns, its observation is compared, and the next call is made.   *)
(* Observations are kept for a reference; those of the later run are not     *)
(* compared with anything again.                                             *)
Observe(o, pieces) ==
    /\ observed' = IF run = 1 THEN With(observed, probes[current].id, o) ELSE observed
    /\ findings' = findings \cup
           Compare(o, pieces, ReferenceOf(probes[current].id), probes[current].canary, current)
    /\ read' = Len(Kept)
    /\ asked' = IF current < Len(probes) /\ alive THEN asked \cup {current + 1} ELSE asked
    /\ current' = current + 1
    /\ UNCHANGED <<run, step, tools, answers, probes, alive, noticed, printed, reference, report>>

Result(a) == [ok |-> a.ok, text |-> IF a.ok THEN a.text ELSE Nothing, timeout |-> FALSE,
              crash |-> ~a.ok /\ noticed]

(* An answer is read: one to a call that timed out is dropped. *)
AnyAnswer ==   \* mutant: an answer is taken for that of the call in progress
    /\ Calling /\ pipe # <<>>
    /\ Observe(Result(AnswerTo(Head(pipe))), Delta)
    /\ pipe' = Tail(pipe)
    /\ UNCHANGED timeouts

Answered == /\ Calling /\ pipe # <<>>
            /\ Head(pipe) = current
            /\ Observe(Result(AnswerTo(current)), Delta)
            /\ pipe' = Tail(pipe)
            /\ UNCHANGED timeouts

Dropped == /\ Calling /\ pipe # <<>>
           /\ Head(pipe) # current
           /\ pipe' = Tail(pipe)
           /\ UNCHANGED <<run, step, tools, answers, probes, alive, noticed, asked, stderr, made, reference, report>>

(* No answer in time, be it that the server is gone. *)
TimesOut == /\ Calling
            /\ timeouts < MaxLate
            /\ timeouts' = timeouts + 1
            /\ Observe([ok |-> FALSE, text |-> Nothing, timeout |-> TRUE, crash |-> FALSE], Delta)
            /\ UNCHANGED pipe

(* After the last probe the server is stopped and the report is made.        *)
Concludes == /\ step = "calling" /\ current > Len(probes)
             /\ step' = "over"
             /\ report' = Summary(findings)
             /\ alive' = FALSE /\ noticed' = TRUE /\ asked' = {} /\ pipe' = <<>>
             /\ UNCHANGED <<run, tools, answers, probes, stderr, made, reference>>

(* ReferenceObservation.fromReport, and later the run that is compared.      *)
NextRun == /\ run = 1 /\ step = "over" /\ report # "aborted"
           /\ run' = 2 /\ step' = "starting" /\ report' = NONE
           /\ reference' = observed
           /\ tools' = <<>> /\ probes' = <<>>
           /\ current' = 1 /\ observed' = None /\ findings' = {} /\ timeouts' = 0
           /\ alive' = TRUE /\ noticed' = FALSE /\ asked' = {} /\ pipe' = <<>>
           /\ printed' = <<>> /\ read' = 0
           /\ UNCHANGED answers

ReplayNext == \/ Start \/ StartFails \/ Replies \/ Prints \/ Exits
              \/ Answered \/ Dropped \/ TimesOut \/ Concludes \/ NextRun

ReplaySpec == ReplayInit /\ [][ReplayNext]_replayVars

-----------------------------------------------------------------------------

Passed == step = "over" /\ report = "pass"

(* A run that passes was of a server that answers as the one of the          *)
(* reference did, and refuses what that refused, for every probe both made,  *)
(* whatever came late in either run.                                         *)
PassedAsReference ==
    Passed /\ run = 2 =>
        \A n \in DOMAIN probes :
            LET id == probes[n].id
            IN  id \in DOMAIN reference =>
                    /\ {answers[1][id], answers[2][id]} \subseteq Answers
                    /\ answers[2][id].ok = answers[1][id].ok
                    /\ answers[1][id].ok => answers[2][id].text = answers[1][id].text

(* The mark of piece k was read during one call, to its end. *)
Legible(k) == \/ printed[k].part = "whole"
              \/ /\ printed[k].part = "tail"
                 /\ printed[k - 1].during = printed[k].during

(* A run that passes has missed nothing that it looks for.  As long as the   *)
(* client kept all of stderr, no event was read in one piece, or in pieces   *)
(* during the same call, before the last call was over, and no canary was    *)
(* during the call of its own probe; a canary that is read later, or with    *)
(* two calls, is not looked for.  And no canary was given back by a field    *)
(* that is secret-like by name, if it had room for the canary.               *)
PassedMissedNothing ==
    Passed =>
        /\ Len(printed) <= StderrCap =>
               \A k \in DOMAIN printed : Legible(k) =>
                   /\ printed[k].mark = Event => printed[k].during > Len(probes)
                   /\ printed[k].mark # Canary(printed[k].during)
        /\ \A n \in DOMAIN probes :
               LET a == AnswerTo(n)
               IN  a # NONE /\ a.ok =>
                       /\ {"marker", "url"} \cap a.text.shows = {}
                       /\ "canary" \in a.text.shows /\ probes[n].canary # NONE =>
                              probes[n].canary.narrow \/ ~probes[n].canary.hasSecretName
=============================================================================
