---------------------------- MODULE SeccompDiff ----------------------------
(***************************************************************************)
(* seccomp.Diff (seccomp/diff.go), the function that tells two profiles    *)
(* apart by the rules a runtime loads, and what its verdict is good for.   *)
(* Merging profiles that compare equal decides what merging one of them    *)
(* does.  To the kernel they may differ by the order of their rules, and   *)
(* by rules that others hide: a runtime may load only one of them.  The    *)
(* model compares profiles that Validate accepts; DiffForArch itself does  *)
(* not validate.                                                           *)
(***************************************************************************)
EXTENDS SeccompSafety

-----------------------------------------------------------------------------
(* The rules that are listed: buildSyscallMap *)

\* appendSummary: the two clauses that a collapse could pick.
SummaryOf(clauses) ==
  {[clause EXCEPT !.args = {}] :
     clause \in {FirstStrictest(clauses), FirstLoosest(clauses)}}

\* settledSyscalls without a merger: one entry for each clause, in an order
\* that the comparison does not depend on.
ListedClauses(profile, name, summarized) ==
  LET loaded == Loaded(profile)[name] rules == RulesOf(loaded) IN
  IF name \in summarized THEN SummaryOf(loaded)
  ELSE IF rules.unconditional # NoClause THEN {rules.unconditional}
  ELSE ToSet(rules.conditional)

\* loadedEntryKeys: what each entry loads for a name, in entry order, without
\* exact repeats.
LoadedEntries(profile, name) ==
  LET loading == {i \in DOMAIN profile.entries :
                    /\ name \in profile.entries[i].names
                    /\ ~Skipped(profile.entries[i], Default(profile))}
      keys == Keep([i \in DOMAIN profile.entries |-> EntryClauses(profile.entries[i])], loading)
  IN Keep(keys, {i \in DOMAIN keys : \A j \in 1..(i - 1) : keys[j] # keys[i]})

-----------------------------------------------------------------------------
(* DiffForArch *)

Added(left, right) == [added |-> right \ left, removed |-> left \ right]

NothingDiffers == [added |-> {}, removed |-> {}]

\* withoutNative: a runtime covers it in any case.
ListedArchitectures(profile) == profile.architectures \ {native}

ScalarsOf(profile) ==
  [action |-> Default(profile).action, errno |-> OutputErrno(profile.default, profile.errno),
   path |-> profile.path, metadata |-> profile.metadata]

SummarizedBy(profile) == SummarizedNames(profile.entries, Default(profile))

\* Fault: a syscall past the budget is compared by its summaries.
ComparesAlikeAsListed(left, right, name, leftSummarized, rightSummarized) ==
  ListedClauses(left, name, leftSummarized) = ListedClauses(right, name, rightSummarized)

\* A syscall that either side summarizes is compared by its entries.
ComparesAlike(left, right, name, leftSummarized, rightSummarized) ==
  IF name \in leftSummarized \cup rightSummarized
  THEN LoadedEntries(left, name) = LoadedEntries(right, name)
  ELSE ListedClauses(left, name, leftSummarized) = ListedClauses(right, name, rightSummarized)

LoadedNames(profile) == {name \in Name : Loaded(profile)[name] # <<>>}

ChangedNames(left, right) ==
  LET leftSummarized == SummarizedBy(left) rightSummarized == SummarizedBy(right) IN
  {name \in LoadedNames(left) \cap LoadedNames(right) :
     ~ComparesAlike(left, right, name, leftSummarized, rightSummarized)}

Diff(left, right) ==
  [scalars |-> {field \in DOMAIN ScalarsOf(left) :
                  ScalarsOf(left)[field] # ScalarsOf(right)[field]},
   architectures |-> Added(ListedArchitectures(left), ListedArchitectures(right)),
   flags |-> Added(LoadedFlags(left.flags), LoadedFlags(right.flags)),
   syscalls |-> Added(LoadedNames(left), LoadedNames(right)),
   changed |-> ChangedNames(left, right)]

\* ProfileDiff.IsEqual.
IsEqual(diff) ==
  /\ diff.scalars = {} /\ diff.changed = {}
  /\ {diff.architectures, diff.flags, diff.syscalls} = {NothingDiffers}

Equal(left, right) == IsEqual(Diff(left, right))

-----------------------------------------------------------------------------
(* Properties *)

SameAnswersOn(left, right, narrow) ==
  \A name \in Name, call \in Calls(narrow) :
    DirectResults(Loaded(left), Default(left), name, narrow, call)
      = DirectResults(Loaded(right), Default(right), name, narrow, call)

\* The decisions, with their errno, that libseccomp may come to for a call made
\* directly, over all orders in which it may add and evaluate the rules.
PossibleAnswers(profile, name, narrow, call) ==
  LET loaded == Loaded(profile)[name]
      first == FirstUnconditional(loaded)
      matching == {clause \in ToSet(loaded) : Matches(ReadAs(clause.args, narrow), call)}
      deciding == IF first # NoClause THEN {first}
                  ELSE IF ~Compiled(ToSet(loaded)) THEN ToSet(loaded) \cup {Default(profile)}
                  ELSE IF matching = {} THEN {Default(profile)}
                  ELSE matching
  IN {<<Rank(clause), clause.errno>> : clause \in deciding}

\* Rules with different results of which libseccomp refuses one, keeps only one
\* or evaluates one before the other, depending on their order.
OrderDecides(clauses) ==
  /\ \E c, d \in ToSet(clauses) : ~SameResult(c, d)
  /\ FirstUnconditional(clauses) # NoClause \/ ~Compiled(ToSet(clauses))

\* Diff compares the rules that a runtime adds, not their order, and not whether
\* libseccomp accepts them (diff.go:126-130): of two profiles that compare equal
\* only one may load, and they may answer a call differently where libseccomp
\* goes by the order.  What is the same is the set of the answers that some
\* order could give to a call made directly, errno included, on the same
\* architectures; past the budget too, where what is listed of two syscalls may
\* agree although their rules do not.  And the order matters for both or for
\* neither, but where an unconditional rule hides others.
EqualUpToOrder ==
  pc = "done" /\ arity = 2 /\ Equal(passed[1], passed[2]) =>
    LET left == passed[1] right == passed[2] IN
    /\ Covered(left) = Covered(right)
    /\ \A narrow \in Widths(Covered(left)), name \in Name : \A call \in Calls(narrow) :
         PossibleAnswers(left, name, narrow, call) = PossibleAnswers(right, name, narrow, call)
    /\ \A name \in Name :
         FirstUnconditional(Loaded(left)[name]) = NoClause =>
           (OrderDecides(Loaded(left)[name]) <=> OrderDecides(Loaded(right)[name]))

\* Merging a result once more reports no difference, and merging two profiles
\* that compare equal, however they are spelled and ordered, decides every
\* call as merging one of them alone does.
MergingAgainChangesNothing ==
  pc = "done" =>
    /\ Equal(result, Normalized(result))
    /\ arity = 2 /\ Equal(passed[1], passed[2]) =>
         SameAnswersOn(result, Normalized(passed[1]), FALSE)
=============================================================================
