---------------------------- MODULE ToolsetDiff ----------------------------
(***************************************************************************)
(* The toolset-level differ of lib/diff.js.  A toolset maps every name to  *)
(* the contract listed under it, or to NoTool; what diffTool says of two   *)
(* contracts is the parameter ToolLevel.                                   *)
(***************************************************************************)
EXTENDS ChangeLevel, SequencesExt

CONSTANTS
  NameOrder,      \* the tool names, in the order servers list them
  Contracts,      \* what a name can stand for
  NoTool,         \* ... or nothing
  ToolLevel,      \* ToolLevel[<<old, new>>]: the level of diffTool(old, new)
  Digest          \* the digest of a contract's semantic projection

Names == Range(NameOrder)
Toolsets == [Names -> Contracts \union {NoTool}]

ASSUME ContractAssumption ==
  /\ NameOrder \in Seq(STRING)
  /\ NoTool \notin Contracts
  /\ ToolLevel \in [Contracts \X Contracts -> Levels]
  /\ \A c \in Contracts : ToolLevel[<<c, c>>] = "NONE"

Added(old, new) == {n \in Names : old[n] = NoTool /\ new[n] # NoTool}
Removed(old, new) == {n \in Names : old[n] # NoTool /\ new[n] = NoTool}
Changed(old, new) ==
  {n \in Names : /\ NoTool \notin {old[n], new[n]}
                 /\ ToolLevel[<<old[n], new[n]>>] # "NONE"}

\* The three loops of diffToolsets, in this order: additions, removals, then
\* changes.
Notes(old, new) ==
  [k \in DOMAIN NameOrder |-> When(NameOrder[k] \in Added(old, new), "NON_BREAKING")]
  \o [k \in DOMAIN NameOrder |-> When(NameOrder[k] \in Removed(old, new), "BREAKING")]
  \o [k \in DOMAIN NameOrder |->
        When(NameOrder[k] \in Changed(old, new),
             ToolLevel[<<old[NameOrder[k]], new[NameOrder[k]]>>])]

Overall(old, new) == Joined("NONE", Notes(old, new))

DiffToolsets(old, new) ==
  [overall |-> Overall(old, new),
   added   |-> Added(old, new),
   removed |-> Removed(old, new),
   changed |-> {ToolLevel[<<old[n], new[n]>>] : n \in Changed(old, new)}]

IsCompatible(diff) == Compatible(diff.overall)

\* toolsetDigest: two toolsets with the same contracts up to presentation.
SameDigest(s, t) ==
  \A n \in Names : \/ s[n] = NoTool /\ t[n] = NoTool
                   \/ /\ NoTool \notin {s[n], t[n]}
                      /\ Digest[s[n]] = Digest[t[n]]

=============================================================================
