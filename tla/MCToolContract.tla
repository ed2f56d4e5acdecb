--------------------------- MODULE MCToolContract ---------------------------
(***************************************************************************)
(* ToolContract over small sets of revisions.                              *)
(***************************************************************************)
EXTENDS ToolContract

MCPropOrder == <<"p", "q">>

Leaf(types, enum, minimum, pattern) ==
  [AnySchema EXCEPT !.types = types, !.enum = enum, !.minimum = minimum,
                    !.pattern = pattern]

Text == Leaf({"string"}, {}, 0, 0)
Number(k) == <<{"number"}, k>>

\* Parameters that differ in one keyword or two, ...
Leaves ==
  {Leaf(ts, {}, 0, 0) : ts \in {{}, {"string"}, {"number"}, {"string", "number"}}}
  \union {Leaf({"number"}, e, m, 0) : e \in {{}, {Number(1)}, {Number(1), Number(2)}}, m \in 0..2}
  \union {Leaf({"string"}, {}, 0, w) : w \in 1..2}
  \union {[Leaf({"number"}, {}, 0, 0) EXCEPT !.const = {Number(c)}] : c \in 1..2}

\* ... and those made of others: arrays, and objects with a property.
Lists == {[AnySchema EXCEPT !.types = {"array"}, !.items = i] :
            i \in {<< >>, <<Text>>, <<Leaf({"string", "number"}, {}, 0, 0)>>}}
Objects ==
  {[AnySchema EXCEPT !.types = ts, !.props = [x \in {"p"} |-> d], !.required = r, !.extra = e] :
     ts \in {{}, {"object"}}, d \in {AnySchema, Text, Leaf({"string", "number"}, {}, 0, 0)},
     r \in SUBSET {"p"}, e \in {"any", "none"}}
  \union {Leaf({"object"}, {}, 0, 0)}

Input(props, required, extra) ==
  [AnySchema EXCEPT !.types = {"object"}, !.props = props, !.required = required, !.extra = extra]

Tool(input) ==
  [input |-> input, output |-> NoSchema, hints |-> {}, title |-> 0, execution |-> 0,
   icons |-> 0, description |-> [tokens |-> {"reads", "files"}, form |-> 0]]

Extras == {"any", "schema", "none"}

Inputs(domains, extras) ==
  UNION {{Input(props, required, extra) :
            props \in [S -> domains], required \in SUBSET S, extra \in extras} :
         S \in SUBSET {"p"}}

\* One parameter in all its forms, and a second one that comes and goes.
SchemaRevisions ==
  {Tool(i) : i \in Inputs(Leaves, Extras) \union Inputs(Lists \union Objects, {"any"})}
  \union {Tool(Input([x \in {"p", "q"} |-> IF x = "p" THEN Text ELSE d], r, e)) :
            d \in {Text, AnySchema}, r \in SUBSET {"p", "q"}, e \in Extras}

\* Strings and numbers, arrays of one, and objects of one field or two.
Scalars ==
  {[types |-> {t}, val |-> k, fields |-> << >>, elements |-> << >>] :
     t \in {"string", "number"}, k \in 1..2}
Arrays ==
  {[types |-> {"array"}, val |-> 0, fields |-> << >>, elements |-> es] :
     es \in {<< >>} \union {<<v>> : v \in Scalars}}
Record(fields) == [types |-> {"object"}, val |-> 0, fields |-> fields, elements |-> << >>]
Records == {Record(f) : f \in [{} -> {}] \union [{"p"} -> Scalars]}

MCArguments ==
  {Record(f) : f \in [{} -> {}] \union [{"p"} -> Scalars \union Arrays \union Records]
                    \union [{"q"} -> Scalars] \union [{"p", "q"} -> Scalars]}
MCValues == Scalars \union Arrays \union Records \union MCArguments

\* Descriptions, hints and schemas that move together.
WordSets == {{"reads", "files"}, {"reads", "files", "now"}, {"deletes", "disks"},
             {"reads", "files", "ignore"}}
Composed ==
  {Input(<< >>, {}, "any")}
  \union {[Input([x \in {"p"} |-> IF c = 1 THEN Leaf({"string", "number"}, {}, 0, 0) ELSE Text],
                 {}, "any") EXCEPT !.comp = c] : c \in 1..2}
TextRevisions ==
  {[Tool(i) EXCEPT !.hints = h, !.execution = x, !.output = out,
                   !.description = [tokens |-> w, form |-> 0]] :
     i \in Composed,
     h \in {{}, {"readOnly"}}, x \in 0..1,
     out \in {NoSchema, Text}, w \in WordSets}

AllRevisions == SchemaRevisions \union TextRevisions

\* Three parameters, one of which may become the schema `true`.
WideOrder == <<"p", "q", "r">>
TrueSchema == [AnySchema EXCEPT !.kind = "boolean"]
ReplacedRevisions ==
  {Tool(Input([x \in {"p", "q", "r"} |->
                 CASE x = "p" -> a [] x = "q" -> b [] OTHER -> Text], {}, "any")) :
     a \in {Text, Leaf({"string", "number"}, {}, 0, 0)}, b \in {Text, TrueSchema}}

\* The schemas of these, and what those are made of.
Parts(s) == {s.props[p] : p \in DOMAIN s.props} \union ToSet(s.items)
WithParts(schemas) == schemas \union UNION {Parts(s) : s \in schemas}
SchemasOf(tools) ==
  WithParts(WithParts({t.input : t \in tools} \union {t.output : t \in tools}
                      \union {AnySchema, NoSchema}))
AllSchemas == SchemasOf(AllRevisions)
ReplacedSchemas == SchemasOf(ReplacedRevisions)

\* A parameter nests once at most.
MCDepth ==
  [s \in Schemas |-> IF Parts(s) = {} THEN 0
                     ELSE IF \A x \in Parts(s) : Parts(x) = {} THEN 1 ELSE 2]
=============================================================================
