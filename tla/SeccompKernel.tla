---------------------------- MODULE SeccompKernel ----------------------------
(***************************************************************************)
(* What the kernel does with the rules of a filter: the results that a     *)
(* call can get once a runtime has loaded the rules through libseccomp.    *)
(* This is not code of the package; its documentation reports what was     *)
(* probed of libseccomp (seccomp/doc.go, "Evaluation model" and            *)
(* "Architectures"; seccomp/multiplex.go, arch.go).                        *)
(*                                                                         *)
(* Where libseccomp compiles a set of rules in an order of its own, every  *)
(* result it may come to is possible.  A result is the rank of an action:  *)
(* which errno a denied call reports is not told apart here.               *)
(***************************************************************************)
EXTENDS SeccompClauses

Rank(clause) == Restrictiveness[clause.action]

RanksOf(clauses) == {Rank(clause) : clause \in clauses}

\* A 32-bit architecture compares the lower half of every value.
LowHalf(args) ==
  {[arg EXCEPT !.value = And[arg.value, MaxLow], !.two = And[arg.two, MaxLow]] : arg \in args}

ReadAs(args, narrow) == IF narrow THEN LowHalf(args) ELSE args

Calls(narrow) == [Index -> IF narrow THEN 0..MaxLow ELSE Value]

-----------------------------------------------------------------------------
(* The sets of clauses that libseccomp compiles to what they say *)

EqualitiesApart(clauses) ==
  \A c, d \in clauses :
    /\ OnlyArg(c).op = "EQ" /\ OnlyArg(c).index = OnlyArg(d).index
    /\ c # d => And[OnlyArg(c).value, MaxLow] # And[OnlyArg(d).value, MaxLow]

OneResult(clauses) ==
  \A c, d \in clauses :
    /\ Rank(c) = Rank(d) /\ c.errno = d.errno
    /\ c # d /\ OnlyArg(c).index = OnlyArg(d).index /\ RangeOp(OnlyArg(c).op) =>
         OnlyArg(c).value <= MaxLow

\* Of equalities with one action any may set the errno, which a rank leaves out.
OneAction(clauses) ==
  \A c, d \in clauses :
    /\ Rank(c) = Rank(d) /\ OnlyArg(c).op = "EQ"
    /\ c # d => c.args # d.args

Opposites(clauses) ==
  \E c, d \in clauses :
    /\ clauses = {c, d}
    /\ OnlyArg(c).index = OnlyArg(d).index /\ OnlyArg(c).value = OnlyArg(d).value
    /\ <<OnlyArg(c).op, OnlyArg(d).op>> \in {<<"EQ", "NE">>, <<"LT", "GE">>, <<"LE", "GT">>}

Compiled(clauses) ==
  \/ \A c, d \in clauses : c = d
  \/ /\ \A c \in clauses : Single(c.args)
     /\ \/ EqualitiesApart(clauses) \/ OneResult(clauses)
        \/ OneAction(clauses) \/ Opposites(clauses)

\* The results of a call under clauses with filters.
Evaluated(clauses, default, narrow, call) ==
  LET matching == {clause \in clauses : Matches(ReadAs(clause.args, narrow), call)}
  IN IF ~Compiled(clauses) THEN RanksOf(clauses) \cup {Rank(default)}
     ELSE IF matching = {} THEN {Rank(default)}
     ELSE RanksOf(matching)

-----------------------------------------------------------------------------
(* Calls: "loaded" holds the clauses of every name *)

DirectResults(loaded, default, name, narrow, call) ==
  LET first == FirstUnconditional(loaded[name]) IN
  IF first # NoClause THEN {Rank(first)}
  ELSE Evaluated(ToSet(loaded[name]), default, narrow, call)

\* The copies of a syscall's clauses on its multiplexer: the condition on the
\* first argument makes way for the number of the sub-call.
Copies(clauses) ==
  {[clause EXCEPT !.args = {arg \in @ : arg.index # 0}] : clause \in ToSet(clauses)}

Whole(copies) == \E copy \in copies : Unconditional(copy)

\* Copies with different results of which libseccomp may refuse or drop one.
Refusable(clauses) ==
  LET copies == Copies(clauses) IN
  /\ \E c, d \in copies : Rank(c) # Rank(d) \/ c.errno # d.errno
  /\ Whole(copies) \/ ~Compiled(copies)

\* A call that a multiplexer's own clauses with filters take part in.
AnyResult(loaded, default, multiplexer) ==
  {Rank(default)} \cup RanksOf(ToSet(loaded[multiplexer]))
    \cup UNION {RanksOf(ToSet(loaded[name])) : name \in ToSet(Carried[multiplexer])}

\* Rules that test no first argument decide the sub-call as they decide the
\* syscall.
SubcallResults(loaded, default, multiplexer, name, narrow, call) ==
  LET first == FirstUnconditional(loaded[multiplexer])
      copies == Copies(loaded[name])
  IN IF first # NoClause THEN {Rank(first)}
     ELSE IF loaded[multiplexer] # <<>> THEN AnyResult(loaded, default, multiplexer)
     ELSE IF copies = ToSet(loaded[name])
     THEN DirectResults(loaded, default, name, narrow, call)
     ELSE IF Whole(copies) THEN RanksOf(copies)
     ELSE IF Refusable(loaded[name]) THEN RanksOf(copies) \cup {Rank(default)}
     ELSE Evaluated(copies, default, narrow, call)

\* A call of a multiplexer for a sub-call that no rule of the filter names.
OtherSubcallResults(loaded, default, multiplexer) ==
  LET first == FirstUnconditional(loaded[multiplexer]) IN
  IF first # NoClause THEN {Rank(first)}
  ELSE IF loaded[multiplexer] # <<>> THEN AnyResult(loaded, default, multiplexer)
  ELSE {Rank(default)}
=============================================================================
