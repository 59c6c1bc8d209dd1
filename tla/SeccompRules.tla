---------------------------- MODULE SeccompRules ----------------------------
(***************************************************************************)
(* Merging the rules that two profiles, or two bare lists, have for one    *)
(* syscall (seccomp/rules.go).                                             *)
(*                                                                         *)
(* "fallback" and "default" are clauses without conditions, or NoClause    *)
(* where the code has nil: a bare list has no default, and an intersection *)
(* of bare lists no fallback unless both sides have one.                   *)
(***************************************************************************)
EXTENDS SeccompClauses

CONSTANTS
  MaxPairwiseClauses,  \* budgets, counted in clauses
  MaxSyscallClauses,
  MaxPruneClauses

ASSUME RulesAssumption ==
  {MaxPairwiseClauses, MaxSyscallClauses, MaxPruneClauses} \subseteq Nat

VARIABLE strategy   \* "intersect" or "union"

Intersecting == strategy = "intersect"

\* The action of a call that both sides constrain, and its clause.
PickClause(left, right) ==
  IF Intersecting THEN MoreRestrictive(left, right) ELSE LessRestrictive(left, right)

PickAmong(clauses) ==
  IF Intersecting THEN FirstStrictest(clauses) ELSE FirstLoosest(clauses)

-----------------------------------------------------------------------------
(* One clause in place of many *)

\* collapseAll of the fallback, where there is one, and the clauses.
CollapseAll(fallback, clauses) ==
  LET all == (IF fallback = NoClause THEN <<>> ELSE <<fallback>>) \o clauses IN
  IF all = <<>> THEN NoClause
  ELSE [PickAmong(all) EXCEPT !.args = {}]

Collapse(default, clauses) ==
  LET collapsed == CollapseAll(default, clauses) IN
  IF default = NoClause /\ Intersecting THEN NoClause
  ELSE IF default # NoClause /\ SameResult(collapsed, default) THEN NoClause
  ELSE collapsed

\* Clauses with one action that test for equality get one errno: that of the
\* first.
ErrnoUnifiable(clauses) ==
  /\ Len(clauses) >= 2
  /\ ErrnoSignificant(clauses[1].action)
  /\ ~SafeShape(ToSet(clauses))
  /\ \A i \in DOMAIN clauses :
       /\ Equivalent(clauses[i], clauses[1])
       /\ Single(clauses[i].args) /\ OnlyArg(clauses[i]).op = "EQ"
       /\ \A j \in DOMAIN clauses : i # j => clauses[i].args # clauses[j].args

UnifyErrno(clauses) ==
  IF ErrnoUnifiable(clauses)
  THEN [i \in DOMAIN clauses |-> [clauses[i] EXCEPT !.errno = clauses[1].errno]]
  ELSE clauses

\* Fault: a wide condition is read as if every architecture had 64 bits.
SettleInputWide(rules, default, narrow) ==
  LET unified == UnifyErrno(rules.conditional) IN
  IF rules.unconditional # NoClause THEN rules
  ELSE IF SafeShape(ToSet(unified)) THEN [rules EXCEPT !.conditional = unified]
  ELSE [NoRules EXCEPT !.unconditional = Collapse(default, unified)]

\* settleInputs for one name: the rules in a form the merge can rely on.
SettleInput(rules, default, narrow) ==
  LET unified == UnifyErrno(rules.conditional)
      wide == \E i \in DOMAIN unified : WideClause(unified[i])
  IN IF rules.unconditional # NoClause THEN rules
     ELSE IF SafeShape(ToSet(unified)) /\ ~(narrow /\ wide)
     THEN [rules EXCEPT !.conditional = unified]
     ELSE [NoRules EXCEPT !.unconditional = Collapse(default, unified)]

\* collectRules and settleInputs: the rules of every name of a profile.  A
\* summary keeps the strictest and the loosest clause, one of which a collapse
\* of all of them picks.
SettledRules(entries, default, narrow) ==
  LET summarized == SummarizedNames(entries, default) IN
  [name \in Name |->
     LET loaded == LoadedClauses(entries, default, name) IN
     IF name \in summarized
     THEN [NoRules EXCEPT !.unconditional =
             Collapse(default, loaded)]
     ELSE SettleInput(RulesOf(loaded), default, narrow)]

-----------------------------------------------------------------------------
(* Two sets of clauses: mergeRules *)

Fallback(rules, default) ==
  IF rules.unconditional # NoClause THEN rules.unconditional ELSE default

\* Fault: one of them will do.
MergeFallbackEither(left, right) ==
  IF left # NoClause /\ right # NoClause THEN PickClause(left, right)
  ELSE IF left # NoClause THEN left ELSE right

\* mergeFallback: an intersection needs both.
MergeFallback(left, right) ==
  IF left # NoClause /\ right # NoClause THEN PickClause(left, right)
  ELSE IF Intersecting THEN NoClause
  ELSE IF left # NoClause THEN left ELSE right

ExceedsClauseBudget(left, right) ==
  \/ Len(left) * Len(right) > MaxPairwiseClauses
  \/ ~Intersecting /\ Len(left) + Len(right) > MaxSyscallClauses

Overlapping(clause, others) ==
  Keep(others, {i \in DOMAIN others : ~ArgsDisjoint(clause.args, others[i].args)})

Subsumed(clause, others) ==
  \E i \in DOMAIN others :
    /\ ~ArgsDisjoint(clause.args, others[i].args)
    /\ ArgsCover(others[i].args, clause.args)

\* Fault: only the other side's default is heeded, not its clauses.
AdjustClauseByFallback(clause, others, otherFallback) ==
  IF otherFallback = NoClause \/ Subsumed(clause, others) THEN clause
  ELSE [PickClause(clause, otherFallback) EXCEPT !.args = clause.args]

\* adjustAgainstOthers, and what the other side applies where none of its
\* clauses covers this one.
AdjustClause(clause, others, otherFallback) ==
  LET adjusted == IF Intersecting
                  THEN PickAmong(<<clause>> \o Overlapping(clause, others))
                  ELSE clause
  IN IF otherFallback = NoClause \/ Subsumed(clause, others)
     THEN [adjusted EXCEPT !.args = clause.args]
     ELSE [PickClause(adjusted, otherFallback) EXCEPT !.args = clause.args]

\* An intersection drops a clause the other side leaves to an unknown
\* default.
AdjustClauses(clauses, others, otherFallback) ==
  LET kept == {i \in DOMAIN clauses :
                 Intersecting /\ otherFallback = NoClause => Subsumed(clauses[i], others)}
  IN IF ~Intersecting /\ otherFallback = NoClause THEN clauses
     ELSE Keep([i \in DOMAIN clauses |-> AdjustClause(clauses[i], others, otherFallback)], kept)

\* conjoinClauseArgs: the clause for the calls both filters match, as a
\* sequence of at most one.
ConjoinClauses(left, right) ==
  IF left.args = right.args THEN <<PickClause(left, right)>>
  ELSE IF ~ArgsDisjoint(left.args, right.args) /\ Conjoinable(left.args, right.args)
  THEN <<[PickClause(left, right) EXCEPT !.args = ConjoinArgs(left.args, right.args)]>>
  ELSE <<>>

ConjoinedClauses(left, right) ==
  FlattenSeq([i \in DOMAIN left |->
    FlattenSeq([j \in DOMAIN right |-> ConjoinClauses(left[i], right[j])])])

\* Fault: past the budget only the fallback is left.
MergeRulesForgetful(left, right, leftDefault, rightDefault) ==
  [NoRules EXCEPT !.unconditional =
     MergeFallback(Fallback(left, leftDefault), Fallback(right, rightDefault))]

MergeRules(left, right, leftDefault, rightDefault) ==
  LET leftFallback == Fallback(left, leftDefault)
      rightFallback == Fallback(right, rightDefault)
      fallback == MergeFallback(leftFallback, rightFallback)
  IN IF /\ fallback # NoClause \/ Intersecting
        /\ ExceedsClauseBudget(left.conditional, right.conditional)
     THEN [NoRules EXCEPT !.unconditional =
             IF fallback = NoClause THEN NoClause
             ELSE CollapseAll(fallback, left.conditional \o right.conditional)]
     ELSE [unconditional |-> fallback,
           conditional |->
             AdjustClauses(left.conditional, right.conditional, rightFallback)
               \o AdjustClauses(right.conditional, left.conditional, leftFallback)
               \o (IF Intersecting
                   THEN ConjoinedClauses(left.conditional, right.conditional) ELSE <<>>)]

-----------------------------------------------------------------------------
(* Making merged rules expressible *)

\* groupByArgs: of the clauses with one filter the least restrictive.
GroupByArgs(clauses) ==
  LET first == {i \in DOMAIN clauses :
                  \A j \in 1..(i - 1) : clauses[j].args # clauses[i].args}
      same(clause) == Keep(clauses, {i \in DOMAIN clauses : clauses[i].args = clause.args})
  IN Keep([i \in DOMAIN clauses |-> FirstLoosest(same(clauses[i]))], first)

\* Sets with every clause stricter than a redundant one that may match a call
\* the redundant one, or another one of the set, matches.
ClosedUnderOverlaps(clauses, redundant, raiseTo) ==
  {closed \in SUBSET (DOMAIN clauses) :
     /\ redundant \subseteq closed
     /\ \A i \in closed, j \in DOMAIN clauses :
          Stricter(clauses[j], raiseTo) /\ ~ArgsDisjoint(clauses[i].args, clauses[j].args)
            => j \in closed}

\* The clauses of the smallest such set become redundant too.
RaiseOverlaps(clauses, redundant, raiseTo) ==
  LET closures == ClosedUnderOverlaps(clauses, redundant, raiseTo) IN
  [i \in DOMAIN clauses |->
     IF i \notin redundant /\ \A closed \in closures : i \in closed
     THEN [raiseTo EXCEPT !.args = clauses[i].args]
     ELSE clauses[i]]

Dominates(other, clause, otherFirst) ==
  /\ ArgsCover(other.args, clause.args)
  /\ IF ArgsCover(clause.args, other.args) THEN otherFirst /\ SameResult(clause, other)
     ELSE SameResult(clause, other) \/ Stricter(clause, other)

PruneDominated(clauses) ==
  IF Len(clauses) > MaxPruneClauses THEN clauses
  ELSE Keep(clauses, {i \in DOMAIN clauses :
         \A j \in DOMAIN clauses : i # j => ~Dominates(clauses[j], clauses[i], j < i)})

\* The clauses a fallback makes redundant: those with its result, or, where
\* an errno does not count, those with its action.
Redundant(clauses, fallback, errnoCounts) ==
  {i \in DOMAIN clauses : IF errnoCounts THEN SameResult(clauses[i], fallback)
                          ELSE Equivalent(clauses[i], fallback)}

Raised(clauses, redundant, fallback) ==
  IF Intersecting THEN clauses ELSE RaiseOverlaps(clauses, redundant, fallback)

\* A redundant clause is skipped by a runtime, and shields no call from a
\* stricter one.
DropRedundant(clauses, fallback, errnoCounts) ==
  LET dropped(raised) == Keep(raised, DOMAIN raised \ Redundant(raised, fallback, errnoCounts))
  IN dropped(Raised(clauses, Redundant(clauses, fallback, errnoCounts), fallback))

WithoutRedundant(clauses, fallback) ==
  IF fallback = NoClause THEN clauses ELSE DropRedundant(clauses, fallback, TRUE)

CollapseClauses(clauses, fallback) ==
  SortClauses(PruneDominated(WithoutRedundant(GroupByArgs(clauses), fallback)))

\* Clauses that differ from the fallback by their errno only fold into it.
FoldIntoFallback(fallback, clauses) ==
  DropRedundant(GroupByArgs(clauses), fallback, FALSE)

\* One clause with a complement and its rest become a pair, anything else
\* collapses.
ResolveKept(fallback, kept) ==
  IF kept = <<>> THEN [NoRules EXCEPT !.unconditional = fallback]
  ELSE IF /\ Len(kept) = 1 /\ Single(kept[1].args)
          /\ HasComplement(OnlyArg(kept[1]))
  THEN [NoRules EXCEPT !.conditional = SortClauses(
          <<kept[1], [fallback EXCEPT !.args = {ComplementArg(OnlyArg(kept[1]))}]>>)]
  ELSE [NoRules EXCEPT !.unconditional = CollapseAll(fallback, kept)]

\* An unconditional clause would hide the others.
ResolveMixed(rules) ==
  IF rules.unconditional = NoClause \/ rules.conditional = <<>> THEN rules
  ELSE ResolveKept(rules.unconditional, FoldIntoFallback(rules.unconditional, rules.conditional))

SafeOrCollapsed(default, rules, unified) ==
  IF SafeShape(ToSet(unified)) THEN [rules EXCEPT !.conditional = unified]
  ELSE [NoRules EXCEPT !.unconditional = Collapse(default, unified)]

\* Fault: merged clauses are emitted in whatever shape they have.
SettleOutputNever(default, rules) == rules

SettleOutput(default, rules) == SafeOrCollapsed(default, rules, UnifyErrno(rules.conditional))

\* A fallback that differs from the merged default by its errno only is given
\* up where that keeps a filter with another action: the clauses, collapsed
\* against the fallback, are then collapsed against the default.
BesideOrTraded(default, fallback, against) ==
  IF /\ Equivalent(fallback, default)
     /\ \E i \in DOMAIN against : ~Equivalent(against[i], fallback)
  THEN [NoRules EXCEPT !.conditional = CollapseClauses(against, default)]
  ELSE [unconditional |-> fallback, conditional |-> against]

ElidedOrBeside(default, rules) ==
  IF rules.unconditional = NoClause \/ SameResult(rules.unconditional, default)
  THEN [NoRules EXCEPT !.conditional = CollapseClauses(rules.conditional, default)]
  ELSE BesideOrTraded(default, rules.unconditional,
                      CollapseClauses(rules.conditional, rules.unconditional))

\* finishRules.
FinishRules(default, rules) ==
  SettleOutput(default, ResolveMixed(ElidedOrBeside(default, rules)))

-----------------------------------------------------------------------------
(* Every syscall *)

\* appendRules: the entries of a name.
Emitted(name, default, rules) ==
  (IF \/ rules.unconditional = NoClause
      \/ default # NoClause /\ SameResult(rules.unconditional, default)
   THEN <<>> ELSE <<ClauseToSyscall(name, rules.unconditional)>>)
    \o [i \in DOMAIN rules.conditional |-> ClauseToSyscall(name, rules.conditional[i])]

EmittedAll(default, rules) ==
  FlattenSeq([i \in DOMAIN Names |-> Emitted(Names[i], default, rules[Names[i]])])

MergeSyscall(left, right, leftDefault, rightDefault, default) ==
  IF left = NoRules /\ right = NoRules THEN NoRules
  ELSE FinishRules(default, MergeRules(left, right, leftDefault, rightDefault))

MergeSettled(left, right, leftDefault, rightDefault, default) ==
  [name \in Name |-> MergeSyscall(left[name], right[name], leftDefault, rightDefault, default)]

\* mergeProfileSyscalls; a side is [entries, default].
MergeProfileSyscalls(left, right, default, narrow) ==
  EmittedAll(default,
    MergeSettled(SettledRules(left.entries, left.default, narrow),
                 SettledRules(right.entries, right.default, narrow),
                 left.default, right.default, default))

SortedRules(rules) ==
  [name \in Name |-> [rules[name] EXCEPT !.conditional = SortClauses(@)]]

\* settledSyscalls: one profile in the form of a result.
SettledSyscalls(entries, default) ==
  EmittedAll(default, SortedRules(SettledRules(entries, default, FALSE)))

FinishBare(rules) ==
  SettleOutput(NoClause, ResolveMixed(
    [rules EXCEPT !.conditional = CollapseClauses(@, rules.unconditional)]))

\* An intersection keeps the names both lists have.
MergeBareSyscall(left, right) ==
  IF IF Intersecting THEN left # NoRules /\ right # NoRules
     ELSE left # NoRules \/ right # NoRules
  THEN FinishBare(MergeRules(left, right, NoClause, NoClause))
  ELSE NoRules

MergeBareSettled(left, right) == [name \in Name |-> MergeBareSyscall(left[name], right[name])]

\* mergeBareSyscalls.
MergeBareSyscalls(left, right) ==
  EmittedAll(NoClause, MergeBareSettled(SettledRules(left, NoClause, FALSE),
                                        SettledRules(right, NoClause, FALSE)))
=============================================================================
