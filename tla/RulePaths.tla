------------------------------ MODULE RulePaths ------------------------------
(***************************************************************************)
(* The rule paths of a Landlock profile (landlock/validate.go and the path *)
(* helpers of landlock/merge.go).                                          *)
(*                                                                         *)
(* A path as a profile spells it is the sequence of the parts between its  *)
(* slashes: "/a//b/" is <<"", "a", "", "b", "">>, "" is <<"">>.  A cleaned *)
(* path says whether it starts at the root and which names lead to it.     *)
(* Names are opaque and one byte long; "" , "." and ".." are the only      *)
(* parts with a meaning, and NulPart is a part holding a NUL byte.         *)
(***************************************************************************)
EXTENDS Naturals, Sequences, SequencesExt, FiniteSetsExt

CONSTANTS
  RawPath,     \* the paths profiles may spell
  Path,        \* the cleaned paths a question is asked about
  NulPart,     \* a part holding a NUL byte
  MaxPathLen   \* the longest path accepted, in bytes

Root == [rooted |-> TRUE, names |-> <<>>]

-----------------------------------------------------------------------------
(* Cleaning and validation *)

StartsAtRoot(raw) == Len(raw) > 1 /\ raw[1] = ""

PartBytes(part) == IF part = "" THEN 0 ELSE IF part = ".." THEN 2 ELSE 1

PathBytes(raw) ==
  FoldLeft(LAMBDA bytes, part : bytes + PartBytes(part), Len(raw) - 1, raw)

IsCleanPath(raw) ==
  \/ raw \in {<<"", "">>, <<".">>}
  \/ /\ raw[Len(raw)] # ""
     /\ \A i \in DOMAIN raw :
          raw[i] \in {"", "."} => i = 1 /\ raw[i] = "" /\ Len(raw) > 1

\* A sequence without the elements of a set.
Without(seq, S) ==
  FoldLeft(LAMBDA kept, e : IF e \in S THEN kept ELSE Append(kept, e), <<>>, seq)

CleanPath(raw) ==
  [rooted |-> StartsAtRoot(raw), names |-> Without(raw, {"", "."})]

\* A path the kernel could be asked to open and the merge can compare.
ValidPath(raw) ==
  /\ raw # <<"">>
  /\ PathBytes(raw) <= MaxPathLen
  /\ \A i \in DOMAIN raw : raw[i] \notin {NulPart, ".."}
  /\ CleanPath(raw) # [rooted |-> FALSE, names |-> <<>>]

-----------------------------------------------------------------------------
(* The hierarchy.  Resolution is textual: a path lies beneath another one  *)
(* when it starts with the other's names.                                  *)

Covers(upper, path) ==
  /\ upper.rooted = path.rooted
  /\ Len(upper.names) <= Len(path.names)
  /\ \A i \in 1..Len(upper.names) : upper.names[i] = path.names[i]

\* The path itself and its parent directories (a relative path has no root).
Above == [path \in Path |-> {upper \in Path : Covers(upper, path)}]

StrictlyAbove == [path \in Path |-> Above[path] \ {path}]

\* The paths whose parent directory the path is.
ChildrenOf ==
  [path \in Path |->
    {child \in Path : /\ path \in Above[child]
                      /\ Len(child.names) = Len(path.names) + 1}]

-----------------------------------------------------------------------------
(* Every accepted path is cleaned to one of Path, which holds the parents  *)
(* of its members.                                                         *)

ASSUME PathAssumption ==
  /\ Path \subseteq [rooted : BOOLEAN, names : Seq(STRING)]
  /\ Root \in Path
  /\ [rooted |-> FALSE, names |-> <<>>] \notin Path
  /\ \A path \in Path : path.names # <<>> =>
       [rooted |-> path.rooted, names |-> Front(path.names)] \in
         Path \cup {[rooted |-> FALSE, names |-> <<>>]}
  /\ \A raw \in RawPath : raw \in Seq(STRING) /\ Len(raw) > 0
  /\ \A raw \in RawPath : ValidPath(raw) => CleanPath(raw) \in Path
  /\ MaxPathLen \in Nat
=============================================================================
