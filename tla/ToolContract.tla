---------------------------- MODULE ToolContract ----------------------------
(***************************************************************************)
(* One tool under automatic re-pinning: the server publishes revisions of  *)
(* it, and a revision the differ calls compatible becomes the pinned one.  *)
(* The properties compare the differ's verdict with what the two           *)
(* revisions mean: to the arguments the strict guard admits, and to the    *)
(* digest of the tool.                                                     *)
(***************************************************************************)
EXTENDS ToolDiff

CONSTANTS
  Revisions,     \* the revisions the server may publish
  Arguments      \* the arguments callers may send

ASSUME RevisionAssumption ==
  /\ \A t \in Revisions :
       /\ DOMAIN t = {"input", "output", "hints", "title", "execution", "icons", "description"}
       /\ {t.input, t.output} \subseteq Schemas
  /\ Arguments \subseteq Values

VARIABLES pinned, observed

revisions == <<pinned, observed>>

ContractInit == \E t \in Revisions : pinned = t /\ observed = t

Publish == \E t \in Revisions : observed' = t /\ UNCHANGED pinned

\* evaluate() under allowAutoRepin, for a toolset of one tool.
Repin ==
  /\ Compatible(DiffTool(pinned, observed))
  /\ pinned' = observed
  /\ UNCHANGED observed

ContractNext == Publish \/ Repin

ContractSpec == ContractInit /\ [][ContractNext]_revisions

-----------------------------------------------------------------------------

Both(o, n) == DOMAIN o.props \intersect DOMAIN n.props

\* The places where the differ finds a change it gives no rank, which erases
\* the findings before it, ...
Unranked(o, n) == {o.kind, n.kind} # {"object"} \/ o.comp # n.comp

\* ... and those where it does not see a narrowing, or takes one for a
\* widening: an enum where there was none; a property dropped and no other
\* allowed; a new property, which any value had been allowed for; a closing
\* of what had a schema; other items; a schema that is read as an object's
\* only from now on.
EnumIntroduced(o, n) == o.enum = {} /\ n.enum # {}
RemovedUnderClosed(o, n) == n.extra = "none" /\ DOMAIN o.props \ DOMAIN n.props # {}
AddedWithADomain(o, n) == \E p \in DOMAIN n.props \ DOMAIN o.props : n.props[p] # AnySchema
ClosedUnseen(o, n) == o.extra = "schema" /\ n.extra = "none"
ItemsChanged(o, n) == o.items # n.items
ReadOtherwise(o, n) == Structured(o) # Structured(n)

Hides(o, n, hidden) ==
  /\ o # n
  /\ \/ Unranked(o, n)
     \/ EnumIntroduced(o, n)
     \/ RemovedUnderClosed(o, n)
     \/ AddedWithADomain(o, n)
     \/ ClosedUnseen(o, n)
     \/ ItemsChanged(o, n)
     \/ ReadOtherwise(o, n)
     \/ \E p \in Both(o, n) : hidden[<<o.props[p], n.props[p]>>]

\* At some place of the two schemas, however deep.
Hidden[pair \in Schemas \X Schemas] == Hides(pair[1], pair[2], Hidden)

HiddenChange ==
  \/ Hidden[<<Given(pinned.input), Given(observed.input)>>]
  \/ /\ "absent" \notin {pinned.output.kind, observed.output.kind}
     /\ Hidden[<<pinned.output, observed.output>>]

\* A compatible revision breaks no caller: arguments the strict guard
\* admitted under the pinned revision it admits under the observed one
\* (diffSchema against validateArgs), schemas nested to any depth, unless
\* the change is at a place the differ does not see.
CompatibleKeepsCallers ==
  Compatible(DiffTool(pinned, observed)) /\ ~HiddenChange
  => \A args \in Arguments :
       Valid[<<pinned.input, args>>] => Valid[<<observed.input, args>>]

\* Whatever else changes with it, a moved permission hint, a changed
\* execution mode or an injected description is never compatible (SPEC.md
\* 4.4, 4.5): no later finding hides it.
DangerIsNeverCompatible ==
  \/ pinned.hints # observed.hints
  \/ pinned.execution # observed.execution
  \/ /\ pinned.description # observed.description
     /\ observed.description.tokens \intersect Markers # {}
  => ~Compatible(DiffTool(pinned, observed))

\* A parameter whose union of types lost one of them.
Narrowed(o, n) == o.types \ n.types # {} /\ n.types # {}

\* diff.js: a type removed from a parameter's union narrows it, and a
\* narrowing is BREAKING.
NarrowedParameterIsBreaking ==
  (\E p \in Both(pinned.input, observed.input) :
     Narrowed(pinned.input.props[p], observed.input.props[p]))
  => ~Compatible(DiffTool(pinned, observed))

=============================================================================
