---------------------------- MODULE AppArmorDiff ----------------------------
(***************************************************************************)
(* apparmor.Diff: profiles are compared by the rules that AppArmor loads   *)
(* from them, as they are written and without a validation.                *)
(***************************************************************************)
EXTENDS AppArmorMerge

\* Fault: paths are compared by their spelling.
RuleTextsAsSpelled(paths) == paths

\* pathsByRule: the rules that a list of paths spells.
RuleTexts(paths) == {Key[p] : p \in paths}

\* normalizeProfile and populateEmpty; a list is a set without duplicates.
Explicit(profile) ==
  LET filtered == MapPathLists(profile, LAMBDA paths : {Filtered[p] : p \in paths})
  IN PopulateEmpty([filtered EXCEPT
       !.caps = IF @ = Nil THEN Nil ELSE {Upper[cap] : cap \in @}])

Added(left, right) == [added |-> right \ left, removed |-> left \ right]
SameRules(diff) == diff.added = {} /\ diff.removed = {}

PathsDiff(left, right) == Added(RuleTexts(left), RuleTexts(right))

Diff(leftProfile, rightProfile) ==
  LET left == Explicit(leftProfile) right == Explicit(rightProfile) IN
  [executables |-> PathsDiff(left.exec.exe, right.exec.exe),
   libraries |-> PathsDiff(left.exec.lib, right.exec.lib),
   readOnly |-> PathsDiff(left.fs.ro, right.fs.ro),
   writeOnly |-> PathsDiff(left.fs.wo, right.fs.wo),
   readWrite |-> PathsDiff(left.fs.rw, right.fs.rw),
   network |-> Added({left.net}, {right.net}),
   capabilities |-> Added(left.caps, right.caps)]

Equal(left, right) == LET diff == Diff(left, right) IN \A part \in DOMAIN diff : SameRules(diff[part])

-----------------------------------------------------------------------------
HoldsUnusableGlob(profile) ==
  LET paths == PathsOf(Explicit(profile)) IN DropUnusableGlobs(paths) # paths

\* Profiles that compare equal permit alike, however they are spelled, and the
\* merge of profiles that compare equal compares equal to each of them, unless
\* an intersection dropped patterns that match nothing: a merge that changes
\* no rule is never reported, and one that drops a rule always is.
DiffTellsWhatMergesChange ==
  pc = "done" /\ (\A i \in 1..arity : Equal(args[1], args[i])) =>
    \A i \in 1..arity :
      /\ \A q \in Question : Answers(args[1], q) <=> Answers(args[i], q)
      /\ Equal(args[i], result) <=> (strategy = "intersect" => ~HoldsUnusableGlob(args[i]))
=============================================================================
