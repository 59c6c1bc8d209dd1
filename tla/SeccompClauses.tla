--------------------------- MODULE SeccompClauses ---------------------------
(***************************************************************************)
(* Actions, the clauses a runtime loads from the entries of a profile, and *)
(* the sets of clauses that libseccomp evaluates exactly                   *)
(* (seccomp/action.go, shape.go, and the first part of rules.go).          *)
(*                                                                         *)
(* The model covers the actions the package knows: whole profiles are      *)
(* validated before anything here reads them.                              *)
(***************************************************************************)
EXTENDS SeccompArgs, SequencesExt, FiniteSets, FiniteSetsExt

CONSTANTS
  Names,             \* the syscall names, in the order of the strings
  Multiplexers,      \* the names of the multiplexers, in that order
  Carried,           \* the syscalls each of them carries, in that order
  MaxLoadedClauses   \* past it, a profile's largest syscalls are summarized

Name == ToSet(Names)

ASSUME ClausesAssumption ==
  /\ Names \in Seq(STRING) /\ IsInjective(Names)
  /\ Multiplexers \in Seq(Name)
  /\ Carried \in [ToSet(Multiplexers) -> Seq(Name)]
  /\ MaxLoadedClauses \in Nat

-----------------------------------------------------------------------------
(* Actions and errno values *)

Action ==
  {"KILL_PROCESS", "KILL", "KILL_THREAD", "TRAP", "ERRNO", "NOTIFY", "TRACE", "LOG", "ALLOW"}

Restrictiveness ==
  [KILL_PROCESS |-> 0, KILL |-> 1, KILL_THREAD |-> 1, TRAP |-> 2, ERRNO |-> 3,
   NOTIFY |-> 4, TRACE |-> 5, LOG |-> 6, ALLOW |-> 7]

CanonicalAction(action) == IF action = "KILL_THREAD" THEN "KILL" ELSE action

ErrnoSignificant(action) == action \in {"ERRNO", "TRACE"}

Unset == -1          \* no errnoRet
DefaultErrno == 1    \* EPERM

\* The errno a runtime loads: 16 bits of it, EPERM where it is unset.
RuntimeErrno(action, errno) ==
  IF ~ErrnoSignificant(action) THEN Unset
  ELSE IF errno = Unset THEN DefaultErrno ELSE errno % 65536

\* The errno as a result spells it.
OutputErrno(action, errno) ==
  IF RuntimeErrno(action, errno) = DefaultErrno THEN Unset ELSE RuntimeErrno(action, errno)

-----------------------------------------------------------------------------
(* Clauses *)

\* A clause without conditions decides every call.
NoClause == [action |-> "none", errno |-> Unset, args |-> {}]

Decision(action, errno) ==
  [action |-> CanonicalAction(action), errno |-> RuntimeErrno(action, errno), args |-> {}]

Unconditional(clause) == clause.args = {}

Equivalent(left, right) ==
  Restrictiveness[left.action] = Restrictiveness[right.action]

SameResult(left, right) ==
  /\ Equivalent(left, right)
  /\ ErrnoSignificant(left.action) => left.errno = right.errno

Stricter(left, right) ==
  Restrictiveness[left.action] < Restrictiveness[right.action]

\* pickClause with moreRestrictive and with lessRestrictive: the left clause
\* where they tie.
MoreRestrictive(left, right) == IF Stricter(right, left) THEN right ELSE left
LessRestrictive(left, right) == IF Stricter(left, right) THEN right ELSE left

\* The same of many clauses: the first of those that tie.
FirstStrictest(clauses) ==
  clauses[Min({i \in DOMAIN clauses : \A j \in DOMAIN clauses : ~Stricter(clauses[j], clauses[i])})]
FirstLoosest(clauses) ==
  clauses[Min({i \in DOMAIN clauses : \A j \in DOMAIN clauses : ~Stricter(clauses[i], clauses[j])})]

\* The order of the argument keys, which are strings in the code: any total
\* order of the filters will do.
ArgKey(arg) ==
  LET ops == [EQ |-> 0, GE |-> 1, GT |-> 2, LE |-> 3, LT |-> 4, MASKED_EQ |-> 5, NE |-> 6]
  IN 1 + (ops[arg.op] * (MaxValue + 1) + arg.value) * (MaxValue + 1) + arg.two
ArgsKey(args) ==
  MapThenSumSet(LAMBDA arg : ArgKey(arg) * (7 * (MaxValue + 1) ^ 2 + 1) ^ arg.index, args)

\* The subsequence of the elements at some indices.
Keep(s, indices) == FlattenSeq([i \in DOMAIN s |-> IF i \in indices THEN <<s[i]>> ELSE <<>>])

\* A sequence sorted: before[i] holds the indices of the elements that go before
\* the one at i.
Arranged(s, before) ==
  FlattenSeq([k \in DOMAIN s |-> Keep(s, {i \in DOMAIN s : Cardinality(before[i]) = k - 1})])

SortClauses(clauses) ==
  LET key == [i \in DOMAIN clauses |-> ArgsKey(clauses[i].args)] IN
  Arranged(clauses,
    [i \in DOMAIN clauses |-> {j \in DOMAIN clauses \ {i} :
       key[j] < key[i] \/ (key[j] = key[i] /\ j < i)}])

DedupeClauses(clauses) ==
  Keep(clauses, {i \in DOMAIN clauses : \A j \in 1..(i - 1) : clauses[j] # clauses[i]})

-----------------------------------------------------------------------------
(* Safe shapes, which libseccomp evaluates as written: sets of clauses, since *)
(* no list that is asked about holds one twice                               *)

Single(args) == \E arg \in args : args = {arg}

OnlyArg(clause) == CHOOSE arg \in clause.args : TRUE

RangeOp(op) == op \in {"LT", "LE", "GT", "GE"}

WideClause(clause) == \E arg \in clause.args : WideArg(arg)

DistinctEqualities(clauses) ==
  \A c, d \in clauses :
    LET left == OnlyArg(c) right == OnlyArg(d) IN
    /\ left.op = "EQ" /\ left.index = right.index
    /\ c # d => And[left.value, MaxLow] # And[right.value, MaxLow]

ComplementPair(clauses) ==
  \E c, d \in clauses :
    /\ clauses = {c, d}
    /\ HasComplement(OnlyArg(c)) /\ ComplementArg(OnlyArg(c)) = OnlyArg(d)

\* One result, and no wide range comparison on an argument that several of
\* the clauses test.
UniformResult(clauses) ==
  \A c, d \in clauses :
    /\ SameResult(c, d)
    /\ c # d /\ OnlyArg(c).index = OnlyArg(d).index =>
         ~(RangeOp(OnlyArg(c).op) /\ OnlyArg(c).value > MaxLow)

\* Fault: filters of several conditions are trusted when results agree.
SafeShapeOfAnyFilter(clauses) ==
  \/ \A c, d \in clauses : SameResult(c, d)
  \/ /\ \A c \in clauses : Single(c.args)
     /\ DistinctEqualities(clauses) \/ ComplementPair(clauses)

SafeShape(clauses) ==
  \/ \A c, d \in clauses : c = d
  \/ /\ \A c \in clauses : Single(c.args)
     /\ DistinctEqualities(clauses) \/ ComplementPair(clauses) \/ UniformResult(clauses)

-----------------------------------------------------------------------------
(* Entries *)

Entry == [names : SUBSET Name, action : Action, errno : Int, args : Seq(Arg)]

RepeatsIndex(args) == \E i, j \in DOMAIN args : i # j /\ args[i].index = args[j].index

LoadedArgs(args) == {arg \in {CanonicalArg(a) : a \in ToSet(args)} : ~Tautology(arg)}

\* An entry that repeats an argument loads one clause for each condition.
EntryClauses(entry) ==
  LET base == Decision(entry.action, entry.errno) IN
  IF RepeatsIndex(entry.args)
  THEN [i \in DOMAIN entry.args |-> [base EXCEPT !.args = LoadedArgs(<<entry.args[i]>>)]]
  ELSE <<[base EXCEPT !.args = LoadedArgs(entry.args)]>>

\* Entries with the result of the profile's default are skipped; a bare list
\* has NoClause for a default and skips none.
Skipped(entry, default) ==
  default # NoClause /\ SameResult(Decision(entry.action, entry.errno), default)

\* What a runtime loads for a name, in the order of the entries.
LoadedClauses(entries, default, name) ==
  FlattenSeq([i \in DOMAIN entries |->
    IF name \in entries[i].names /\ ~Skipped(entries[i], default)
    THEN EntryClauses(entries[i]) ELSE <<>>])

FirstUnconditional(clauses) ==
  LET found == {i \in DOMAIN clauses : Unconditional(clauses[i])}
  IN IF found = {} THEN NoClause ELSE clauses[Min(found)]

\* The rules of a name: one clause that decides every call, or clauses with
\* filters.  A name without rules has neither.
NoRules == [unconditional |-> NoClause, conditional |-> <<>>]

\* The first unconditional clause hides every other one.
RulesOf(clauses) ==
  IF FirstUnconditional(clauses) # NoClause
  THEN [NoRules EXCEPT !.unconditional = FirstUnconditional(clauses)]
  ELSE [NoRules EXCEPT !.conditional = DedupeClauses(clauses)]

\* The conditions of an entry come in some order.
ClauseToSyscall(name, clause) ==
  [names |-> {name}, action |-> clause.action,
   errno |-> OutputErrno(clause.action, clause.errno),
   args |-> SetToSeq(clause.args)]

-----------------------------------------------------------------------------
(* The budget of one profile *)

\* The largest syscalls go first, those of one size by name, and only as many
\* as the budget requires.
Oversized(count) ==
  LET position(name) == CHOOSE i \in DOMAIN Names : Names[i] = name
      before(a, b) == \/ count[a] > count[b]
                      \/ count[a] = count[b] /\ position(a) < position(b)
      drop(acc, name) ==
        IF acc.total <= MaxLoadedClauses THEN acc
        ELSE [total |-> acc.total - count[name], names |-> acc.names \cup {name}]
  IN FoldLeft(drop, [total |-> MapThenSumSet(LAMBDA n : count[n], Name), names |-> {}],
              SortSeq(Names, before)).names

SummarizedNames(entries, default) ==
  Oversized([name \in Name |-> Len(LoadedClauses(entries, default, name))])
=============================================================================
