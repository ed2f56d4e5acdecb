------------------------------- MODULE Probes --------------------------------
(* lib/behavior.js: the probes that are made of a list of tools, and what is *)
(* found in the observation of one.  A tool has a name and fields, records   *)
(*   key, hasSecretName  its property name, and whether that is secret-like  *)
(*   hasSecretText  its title or description is                              *)
(*   type           "string", "number" or another                            *)
(*   required, narrow   must be given; its maxLength cuts a canary off       *)
(* An observation has ok, text (the value of the answer, what it shows that  *)
(* the arguments did not have: "marker", "url", and "canary", its own one),  *)
(* timeout and crash.  With it comes what was read of stderr meanwhile, in   *)
(* pieces with a mark: what a line is about, an event or the canary of a     *)
(* probe, or noise.  A read may end within a line, which makes two halves.   *)
EXTENDS Naturals, Sequences, FiniteSets, SequencesExt, NoValue

CONSTANT ProbesPerTool

ASSUME ProbesAssumption == ProbesPerTool \in Nat \ {0}

Strings(tool) == {f \in tool.fields : f.type = "string"}

If(condition, s) == IF condition THEN s ELSE <<>>

(* A canary is planted only if some title or description is secret-like; the *)
(* name of the property does not count.                                      *)
ProbeTypes(tool) ==
    <<"valid", "boundary">>
    \o If(\E f \in tool.fields : f.required, <<"malformed_missing_required">>)
    \o If(tool.fields # {}, <<"malformed_wrong_type">>)
    \o If(Strings(tool) # {},
          <<"long_string", "unicode", "path_like", "url_like", "prompt_injection">>
          \o If(\E f \in tool.fields : f.hasSecretText, <<"secret_canary">>))
    \o If(\E f \in tool.fields : f.type = "number", <<"number_boundary">>)

(* Where the canary of a probe can be: a string that is among the arguments, *)
(* which an optional one need not be; no string, no canary.                  *)
Plantings(tool, type) ==
    IF type # "secret_canary" THEN {NONE}
    ELSE Strings(tool) \cup IF \E f \in Strings(tool) : f.required THEN {} ELSE {NONE}

ProbesOf(tool) ==
    LET types == ProbeTypes(tool)
    IN  [j \in 1..Min({Len(types), ProbesPerTool}) |->
            [tool |-> tool.name, type |-> types[j], index |-> j]]

Generate(tools) == FlattenSeq([i \in DOMAIN tools |-> ProbesOf(tools[i])])

-----------------------------------------------------------------------------

(* What a call alone shows. *)
CallFindings(o) == (IF o.timeout THEN {"high"} ELSE {}) \cup (IF o.crash THEN {"critical"} ELSE {})

Event     == <<"event", 0>>   \* about the network, files or processes
Canary(n) == <<"canary", n>>  \* has the canary of the n-th probe
Noise     == <<"noise", 0>>

(* A mark is found if it is whole, or its halves are next to each other. *)
Bears(pieces, mark) ==
    \E k \in DOMAIN pieces :
        /\ pieces[k].mark = mark
        /\ \/ pieces[k].part = "whole"
           \/ /\ pieces[k].part = "tail" /\ k > 1
              /\ pieces[k - 1].mark = mark /\ pieces[k - 1].part = "head"

(* The canary of this probe, in the answer or in its own piece of stderr.    *)
(* It is looked for as it was meant, not as it was cut to fit the field.     *)
CanaryFindings(o, canary, spilt) ==
    IF canary = NONE \/ ~("canary" \in o.text.shows \/ spilt) THEN {}
    ELSE IF canary.narrow THEN {}
    ELSE IF canary.hasSecretName \/ spilt THEN {"high"} ELSE {"low"}

TextFindings(o) == IF {"marker", "url"} \cap o.text.shows # {} THEN {"high"} ELSE {}

StderrFindings(pieces) == IF Bears(pieces, Event) THEN {"high"} ELSE {}

(* Differing stderr is a finding of low severity, which changes no summary.  *)
ReferenceFindings(o, ref) ==
    LET Same == o.ok = ref.ok /\ o.timeout = ref.timeout /\ o.crash = ref.crash
    IN  (IF Same THEN {} ELSE IF o.ok THEN {"high"} ELSE {"medium"})
        \cup (IF o.ok /\ ref.ok /\ o.text # ref.text THEN {"medium"} ELSE {})

Compare(o, pieces, ref, canary, n) ==
    CallFindings(o) \cup CanaryFindings(o, canary, Bears(pieces, Canary(n)))
    \cup TextFindings(o) \cup StderrFindings(pieces)
    \cup (IF ref = NONE THEN {} ELSE ReferenceFindings(o, ref))

Summary(findings) == IF findings \cap {"critical", "high"} # {} THEN "fail"
                     ELSE IF "medium" \in findings THEN "warn" ELSE "pass"
=============================================================================
