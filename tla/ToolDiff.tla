------------------------------ MODULE ToolDiff ------------------------------
(***************************************************************************)
(* The tool-level differ of lib/diff.js and the argument validation of     *)
(* lib/guard.js, over abstract tools.                                      *)
(*                                                                         *)
(* A schema is a record of the keywords the two algorithms look at:        *)
(*   kind      "object" for a JSON object, "boolean" for a schema that is  *)
(*             not one, "absent" when the tool has none;                   *)
(*   types     the type union, {} when unset (one name is written as a     *)
(*             string, never as a list of one);                            *)
(*   const     the set of the one value, {} when unset;                    *)
(*   enum      the allowed values, {} when unset (never an empty list);    *)
(*   minimum   the lower bound, 0 when unset: it stands for the keywords   *)
(*             with a direction (minimum, maxLength, ...);                 *)
(*   pattern   0 when unset: it stands for the keywords any change of      *)
(*             which is taken for a narrowing;                             *)
(*   required, props (property name -> schema, << >> when unset);          *)
(*   extra     additionalProperties: "any" (true or unset), "none" (false) *)
(*             or "schema" (anything else);                                *)
(*   items     <<schema>>, << >> when unset;                               *)
(*   comp      0 when unset: oneOf / anyOf / allOf / not / if;             *)
(*   other     every keyword neither looks at (default, the description of *)
(*             a parameter, ...).                                          *)
(* A description is its set of tokens and its form (everything else).      *)
(***************************************************************************)
EXTENDS ChangeLevel, SequencesExt

CONSTANTS
  PropOrder,      \* the property names, in the order schemas list them
  Schemas,        \* the schemas of tools, and of their properties
  Depth,          \* how deep each of them nests
  Values,         \* the JSON values callers send, and what those are made of
  Markers         \* the tokens the injection detector scores

\* A schema with no keyword set, and the schema of a tool that has none.
AnySchema ==
  [kind |-> "object", types |-> {}, const |-> {}, enum |-> {}, minimum |-> 0, pattern |-> 0,
   required |-> {}, props |-> << >>, extra |-> "any", items |-> << >>, comp |-> 0, other |-> 0]
NoSchema == [AnySchema EXCEPT !.kind = "absent"]

-----------------------------------------------------------------------------
\* diffSchema, keyword by keyword, in the order it reports.

TypeNotes(o, n) ==
  IF o.types # {} /\ n.types # {}
  THEN <<When(o.types \ n.types # {}, "BREAKING"),
         When(n.types \ o.types # {}, "NON_BREAKING")>>
  ELSE <<When(o.types # n.types, IF n.types = {} THEN "NON_BREAKING" ELSE "BREAKING")>>

\* const, and enum: diffEnum reads an unset one as the empty one.
EnumNotes(o, n) ==
  <<When(o.const # n.const, "BREAKING"),
    When(o.enum \ n.enum # {}, "BREAKING"), When(n.enum \ o.enum # {}, "NON_BREAKING")>>

PatternNote(o, n) ==
  When(n.pattern # o.pattern, IF n.pattern = 0 THEN "NON_BREAKING" ELSE "BREAKING")

\* The directions of a bound swapped.
SwappedConstraintNotes(o, n) ==
  <<When(n.minimum < o.minimum, "BREAKING"), When(n.minimum > o.minimum, "NON_BREAKING"),
    PatternNote(o, n)>>

\* A bound raised or set narrows, a bound lowered or dropped widens; a
\* pattern changed or set narrows, a pattern dropped widens.
ConstraintNotes(o, n) ==
  <<When(n.minimum > o.minimum, "BREAKING"), When(n.minimum < o.minimum, "NON_BREAKING"),
    PatternNote(o, n)>>

RequiredNotes(o, n) ==
  <<When(n.required \ o.required # {}, "BREAKING"),
    When(o.required \ n.required # {}, "NON_BREAKING")>>

ClosedNotes(o, n) ==
  <<When(o.extra = "any" /\ n.extra = "none", "BREAKING"),
    When(o.extra = "none" /\ n.extra = "any", "NON_BREAKING")>>

CompositionNotes(o, n) ==
  <<When(o.comp # n.comp, IF o.comp = 0 THEN "BREAKING" ELSE "SUSPECT_DOMAIN")>>

\* The level of every property of the old schema, the unchanged ones too
\* (their NONE is joined like any other level), then the added ones.
KeptNote(o, n, p, diff) ==
  IF p \notin DOMAIN o.props THEN NoNote
  ELSE IF p \in DOMAIN n.props THEN diff[<<o.props[p], n.props[p]>>]
  ELSE IF p \in o.required THEN "BREAKING" ELSE "NON_BREAKING"

AddedNote(o, n, p) ==
  When(p \in DOMAIN n.props \ DOMAIN o.props,
       IF p \in n.required THEN "BREAKING" ELSE "NON_BREAKING")

PropertyNotes(o, n, diff) ==
  [k \in 1..Len(PropOrder) |-> KeptNote(o, n, PropOrder[k], diff)]
  \o [k \in 1..Len(PropOrder) |-> AddedNote(o, n, PropOrder[k])]

\* One schema, where diff[<<a, b>>] is the level of the properties' schemas.
SchemaLevel(o, n, diff) ==
  IF o = n THEN "NONE"
  ELSE IF {o.kind, n.kind} # {"object"} THEN "SUSPECT_DOMAIN"
  ELSE Joined("NONE", TypeNotes(o, n) \o EnumNotes(o, n) \o ConstraintNotes(o, n)
                      \o RequiredNotes(o, n) \o PropertyNotes(o, n, diff)
                      \o ClosedNotes(o, n) \o CompositionNotes(o, n))

DiffSchema[pair \in Schemas \X Schemas] == SchemaLevel(pair[1], pair[2], DiffSchema)

\* A schema is a finite tree, so that comparing two of them ends.
ASSUME DiffAssumption ==
  /\ PropOrder \in Seq(STRING)
  /\ {AnySchema, NoSchema} \subseteq Schemas
  /\ \A s \in Schemas :
       /\ s.kind = "absent" => s = NoSchema
       /\ s.minimum \in Nat
       /\ s.extra \in {"any", "none", "schema"}
       /\ DOMAIN s.props \subseteq ToSet(PropOrder)
       /\ Depth[s] \in Nat
       /\ \A p \in DOMAIN s.props : /\ s.props[p] \in Schemas
                                    /\ Depth[s.props[p]] < Depth[s]
       /\ \A item \in ToSet(s.items) : item \in Schemas /\ Depth[item] < Depth[s]

-----------------------------------------------------------------------------
\* diffTool.

\* toolProjection: everything but the presentation-only fields.
Projection(t) == [t EXCEPT !.icons = 0]

\* descriptionMateriality: a Jaccard index of the token sets below 0.6.
Material(d, e) ==
  /\ d.tokens \union e.tokens # {}
  /\ 5 * Cardinality(d.tokens \intersect e.tokens)
       < 3 * Cardinality(d.tokens \union e.tokens)

Given(s) == IF s.kind = "absent" THEN AnySchema ELSE s

InputNotes(o, n) ==
  <<When(o.input # n.input, DiffSchema[<<Given(o.input), Given(n.input)>>])>>

OutputNotes(o, n) ==
  <<CASE o.output = n.output -> NoNote
      [] o.output # n.output /\ n.output.kind = "absent" -> "PERMISSION_CHANGE"
      [] o.output # n.output /\ o.output.kind = "absent" -> "NON_BREAKING"
      [] OTHER -> DiffSchema[<<o.output, n.output>>]>>

\* `hints` stands for the four permission annotations, `title` for
\* annotations.title: in the projection, but read by none of the notes.
PermissionNotes(o, n) ==
  <<When(o.hints # n.hints, "PERMISSION_CHANGE"),
    When(o.execution # n.execution, "PERMISSION_CHANGE")>>

DescriptionNotes(o, n) ==
  LET changed  == o.description # n.description
      injected == n.description.tokens \intersect Markers # {}
      material == Material(o.description, n.description)
      sameSchemas == o.input = n.input /\ o.output = n.output
  IN  <<When(changed /\ injected, "ANNOTATION_DOWNGRADE"),
        When(changed /\ material, IF sameSchemas THEN "ANNOTATION_DOWNGRADE" ELSE "NON_BREAKING"),
        When(changed /\ ~material /\ ~injected, "NON_BREAKING")>>

DiffTool(o, n) ==
  IF Projection(o) = Projection(n)
  THEN IF o = n THEN "NONE" ELSE "SYNTACTIC"
  ELSE Joined("NONE", InputNotes(o, n) \o OutputNotes(o, n) \o PermissionNotes(o, n)
                      \o DescriptionNotes(o, n))

-----------------------------------------------------------------------------
\* validateArgs (lib/guard.js): strict mode's reading of a schema.  A value has
\*   types     the type names it passes for (an array is no "object");
\*   val       what tells it from the other values of these types, a number
\*             for itself;
\*   fields    what an object maps its properties to;
\*   elements  what an array lists.
ASSUME ValueAssumption ==
  \A v \in Values :
    /\ v.val \in Nat
    /\ \A p \in DOMAIN v.fields : v.fields[p] \in Values
    /\ ToSet(v.elements) \subseteq Values

Canon(v) == <<v.types, v.val>>

\* A schema that is read as that of an object, whatever else it says.
Structured(s) == s.types = {"object"} \/ s.props # << >>

ValidObject(s, v, valid) ==
  /\ "object" \in v.types
  /\ s.required \subseteq DOMAIN v.fields
  /\ s.extra = "none" => DOMAIN v.fields \subseteq DOMAIN s.props
  /\ \A p \in DOMAIN s.props \intersect DOMAIN v.fields : valid[<<s.props[p], v.fields[p]>>]

ValidItems(s, v, valid) ==
  s.types = {"array"} /\ "array" \in v.types =>
    \A item \in ToSet(s.items), e \in ToSet(v.elements) : valid[<<item, e>>]

ValidOther(s, v, valid) ==
  /\ s.const # {} => Canon(v) \in s.const
  /\ s.enum # {} => Canon(v) \in s.enum
  /\ s.types # {} => s.types \intersect v.types # {}
  /\ ValidItems(s, v, valid)
  /\ "string" \in v.types => (s.pattern = 0 \/ v.val = s.pattern)
  /\ "number" \in v.types => v.val >= s.minimum

ValidFor(s, v, valid) ==
  \/ s.kind # "object"
  \/ Structured(s) /\ ValidObject(s, v, valid)
  \/ ~Structured(s) /\ ValidOther(s, v, valid)

Valid[pair \in Schemas \X Values] == ValidFor(pair[1], pair[2], Valid)

=============================================================================
