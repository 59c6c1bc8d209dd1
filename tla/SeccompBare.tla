----------------------------- MODULE SeccompBare -----------------------------
(***************************************************************************)
(* IntersectSyscalls and UnionSyscalls: merging lists of entries that come *)
(* without a profile, and that the caller loads with a default of its own  *)
(* (seccomp/merge.go, and mergeBareSyscalls of seccomp/rules.go).  Their   *)
(* documentation asks of that default that it be the same for the lists    *)
(* and the result, and more restrictive than every action in them.         *)
(***************************************************************************)
EXTENDS SeccompSafety

\* IntersectSyscalls and UnionSyscalls, under their strategies.
MergeSyscalls(left, right) == Regrouped(MergeBareSyscalls(left, right))

CallerDefaults(lists) ==
  {default \in Action : \A list \in lists : \A i \in DOMAIN list :
     Restrictiveness[default] < Restrictiveness[list[i].action]}

\* The caller loads a list without entries skipped: none has its default.
LoadedList(list) == [name \in Name |-> LoadedClauses(list, NoClause, name)]

ListResults(list, default, name, call) ==
  DirectResults(LoadedList(list), Decision(default, Unset), name, FALSE, call)

ListOnSafeSide(merged, list, default) ==
  \A name \in Name, call \in Calls(FALSE) :
    OnSafeSide(ListResults(merged, default, name, call), ListResults(list, default, name, call))

\* Under every such default the result of an intersection permits a call by no
\* more than either list does, and that of a union by no less; and so does the
\* result of merging it with a list once more, as a caller that folds its lists
\* does.  Nothing is said of architectures: one node stands for all.
BareCallsOnTheSafeSide ==
  /\ pc = "done" /\ arity > 1 /\ native = NoArch
  /\ \A i \in 1..arity : passed[i].architectures = {}
  =>
    LET lists == {passed[i].entries : i \in 1..arity}
        merged == MergeSyscalls(passed[1].entries, passed[2].entries)
        again == MergeSyscalls(merged, passed[arity].entries)
    IN \A default \in CallerDefaults(lists) :
         /\ \A i \in 1..2 : ListOnSafeSide(merged, passed[i].entries, default)
         /\ \A list \in lists : ListOnSafeSide(again, list, default)
=============================================================================
