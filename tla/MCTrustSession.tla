--------------------------- MODULE MCTrustSession ---------------------------
(***************************************************************************)
(* TrustSession on small instances.  A contract is a revision of a tool,   *)
(* and the level between two revisions is the one ToolDiff!DiffTool gives: *)
(*   base     the tool as first listed                                     *)
(*   wide     base with an optional parameter: NON_BREAKING both ways      *)
(*   half     base, other parameters restricted: NONE, another digest      *)
(*   shut     base, no other parameters: NONE after half, else BREAKING    *)
(***************************************************************************)
EXTENDS TrustSession

Schema(types, props, required) ==
  [kind |-> "object", types |-> types, const |-> {}, enum |-> {}, minimum |-> 0,
   pattern |-> 0, required |-> required, props |-> props, extra |-> "any",
   items |-> << >>, comp |-> 0, other |-> 0]
Free == Schema({}, << >>, {})
None == [Free EXCEPT !.kind = "absent"]
Text == Schema({"string"}, << >>, {})
Taking(names, required) == Schema({}, [p \in names |-> Text], required)

Restricted(extra) == [Taking({"p"}, {"p"}) EXCEPT !.extra = extra]

Inputs ==
  {Taking({"p"}, {"p"}), Taking({"p", "q"}, {"p"}),
   Restricted("schema"), Restricted("none")}

D == INSTANCE ToolDiff WITH PropOrder <- <<"p", "q">>,
                            Schemas <- {Free, None, Text} \union Inputs,
                            Depth <- [s \in {Free, None, Text} \union Inputs |->
                                        IF s \in Inputs THEN 1 ELSE 0],
                            Values <- {}, Markers <- {"ignore"}

BaseTool ==
  [input |-> Taking({"p"}, {"p"}), output |-> None, hints |-> {}, title |-> 0,
   execution |-> 0, icons |-> 0, description |-> [tokens |-> {"reads", "files"}, form |-> 0]]

Revision ==
  [base |-> BaseTool,
   wide |-> [BaseTool EXCEPT !.input = Taking({"p", "q"}, {"p"})],
   half |-> [BaseTool EXCEPT !.input = Restricted("schema")],
   shut |-> [BaseTool EXCEPT !.input = Restricted("none")]]

\* TLC evaluates a definition of the module once, the value that a cfg gives a
\* constant each time it is used.  @@ makes it evaluate all of the table.
LevelTable ==
  [pair \in Contracts \X Contracts |-> D!DiffTool(Revision[pair[1]], Revision[pair[2]])]
  @@ << >>
MCToolLevel == LevelTable

DigestTable == [c \in Contracts |-> D!Projection(Revision[c])] @@ << >>
MCDigest == DigestTable

MCNameOrder == <<"a", "b">>

Tools(a, b) == [n \in {"a", "b"} |-> IF n = "a" THEN a ELSE b]

\* A server that adds a tool, which is compatible, and takes it back, which
\* is not.
GrowingServer == {Tools("base", "none"), Tools("base", "base")}

\* One tool, wide at first, of which other parameters are then restricted.
OneName == <<"a">>
RevisedServer == [{"a"} -> {"half", "shut", "wide"}]
MCInit == Init /\ serverTools = [n \in {"a"} |-> "wide"]
MCFairSpec == MCInit /\ [][Next]_vars /\ Fairness

NoBinding == {NoTools}
BaseBinding == {NoTools, Tools("base", "none")}

\* Request ids are interchangeable within their kind.
IdSymmetry ==
  Permutations(ListIds) \union Permutations(NoteIds) \union Permutations(CallIds)
=============================================================================
