------------------------------ MODULE LineFile -------------------------------
(* A file of JSON lines, written by appendFileSync: each call appends a line *)
(* and its line end, or, if it fails, any part of them.                      *)
EXTENDS Sequences, SequencesExt

CONSTANTS TORN,    \* the last line, when a write stopped half way through it
          GARBLED  \* what a torn line and the next line appended to it make

ASSUME LineAssumption == TORN # GARBLED

(* A torn line has no line end, so the next one continues it. *)
Written(lines, x) ==
    IF lines = <<>> \/ Last(lines) # TORN THEN Append(lines, x)
    ELSE IF x = TORN THEN lines ELSE Append(Front(lines), GARBLED)

(* Several lines in one call: the first may continue a torn one. *)
WrittenAll(lines, xs) == IF xs = <<>> THEN lines ELSE Written(lines, Head(xs)) \o Tail(xs)

(* The file after a write of xs that fails, with or without a trace. *)
WrittenInPart(lines, xs) ==
    LET whole == {SubSeq(xs, 1, k) : k \in 0..(Len(xs) - 1)}
    IN  {WrittenAll(lines, ys) : ys \in whole \cup {Append(zs, TORN) : zs \in whole}}

(* The lines that parse. *)
Whole(lines) == ToSet(lines) \ {TORN, GARBLED}

Parses(lines) == Whole(lines) = ToSet(lines)
=============================================================================
