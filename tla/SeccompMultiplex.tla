-------------------------- MODULE SeccompMultiplex --------------------------
(***************************************************************************)
(* Making a merge result safe on the multiplexer path of the socket and    *)
(* System V IPC syscalls (seccomp/multiplex.go).                           *)
(*                                                                         *)
(* A profile is read as [rules, default]: the clauses it loads for every   *)
(* multiplexer and every syscall one carries, in order.  What the code     *)
(* records of them in multiplexRules are operators of that sequence, which *)
(* is empty where the code has no record.                                  *)
(***************************************************************************)
EXTENDS SeccompRules

MultiplexName ==
  ToSet(Multiplexers) \cup UNION {ToSet(Carried[target]) : target \in ToSet(Multiplexers)}

\* Each syscall is a sub-call of one multiplexer, and no multiplexer of another.
ASSUME MultiplexAssumption ==
  \A target \in ToSet(Multiplexers) :
    /\ target \notin ToSet(Carried[target])
    /\ \A other \in ToSet(Multiplexers) \ {target} :
         ({target} \cup ToSet(Carried[target])) \cap ({other} \cup ToSet(Carried[other])) = {}

\* collectMultiplexRules, of entries and their default.
MultiplexInput(entries, default) ==
  [rules |-> [name \in MultiplexName |-> LoadedClauses(entries, default, name)],
   default |-> default]

-----------------------------------------------------------------------------
(* What a syscall's clauses mean under the test of its sub-call *)

Multiplexed(clauses) ==
  {[clause EXCEPT !.args = {arg \in @ : arg.index # 0}] : clause \in ToSet(clauses)}

FirstArg(clauses) == \E i \in DOMAIN clauses : \E arg \in clauses[i].args : arg.index = 0

WholeSubcall(clauses) == \E clause \in Multiplexed(clauses) : Unconditional(clause)

Mixed(clauses) == \E i \in DOMAIN clauses : ~SameResult(clauses[i], clauses[1])

Refused(clauses) ==
  Mixed(clauses) /\ (WholeSubcall(clauses) \/ ~SafeShape(Multiplexed(clauses)))

\* clauseSummary: the strictest or the loosest of some clauses.
Strictest(clauses) == [FirstStrictest(clauses) EXCEPT !.args = {}]
Loosest(clauses) == [FirstLoosest(clauses) EXCEPT !.args = {}]

Safest(clauses) == IF Intersecting THEN Strictest(clauses) ELSE Loosest(clauses)
LeastSafe(clauses) == IF Intersecting THEN Loosest(clauses) ELSE Strictest(clauses)

-----------------------------------------------------------------------------
(* What a call of the multiplexer can get *)

\* anyCall: with conditional rules of the multiplexer, everything.
AnyCall(in, target) ==
  in.rules[target]
    \o FlattenSeq([i \in DOMAIN Carried[target] |-> in.rules[Carried[target][i]]])
    \o <<in.default>>

\* Fault: conditional rules of the multiplexer decide nothing.
ViewOfOwnRules(in, target, name) ==
  LET own == in.rules[name] IN
  IF FirstUnconditional(in.rules[target]) # NoClause
  THEN <<FirstUnconditional(in.rules[target])>>
  ELSE IF own # <<>> /\ WholeSubcall(own) THEN own ELSE Append(own, in.default)

\* The results that the sub-call of a syscall can get.
View(in, target, name) ==
  LET own == in.rules[name] IN
  IF FirstUnconditional(in.rules[target]) # NoClause
  THEN <<FirstUnconditional(in.rules[target])>>
  ELSE IF in.rules[target] # <<>> THEN AnyCall(in, target)
  ELSE IF own # <<>> /\ WholeSubcall(own) THEN own ELSE Append(own, in.default)

WithConditionalTarget(inputs, target) ==
  Keep(inputs, {i \in DOMAIN inputs :
    /\ inputs[i].rules[target] # <<>>
    /\ FirstUnconditional(inputs[i].rules[target]) = NoClause})

PickAnyCall(clause, target, inputs) ==
  LET bounding == WithConditionalTarget(inputs, target) IN
  PickAmong(<<clause>> \o [i \in DOMAIN bounding |-> Safest(AnyCall(bounding[i], target))])

\* The bounds that the inputs put on the sub-call of a syscall.
Bounds(target, name, inputs) == [i \in DOMAIN inputs |-> Safest(View(inputs[i], target, name))]

PickInputs(clause, target, name, inputs) ==
  PickAmong(<<clause>> \o Bounds(target, name, inputs))

PickAllInputs(clause, target, inputs) ==
  PickAmong(<<clause>> \o FlattenSeq([i \in DOMAIN Carried[target] |->
                                        Bounds(target, Carried[target][i], inputs)]))

NoTarget(left, right, target) == left.rules[target] = <<>> /\ right.rules[target] = <<>>

\* The multiplexer path decides as the direct path does.
SameDirect(left, right, target, name) ==
  /\ NoTarget(left, right, target)
  /\ ~FirstArg(left.rules[name]) /\ ~FirstArg(right.rules[name])

RuleKeys(clauses) == {[action |-> c.action, args |-> c.args] : c \in ToSet(clauses)}

SameRules(left, right, target, name) ==
  /\ NoTarget(left, right, target)
  /\ Equivalent(left.default, right.default)
  /\ RuleKeys(left.rules[name]) = RuleKeys(right.rules[name])

\* On the safe side of a bound, in the direction of the merge.
Within(clause, bound) == Equivalent(PickClause(clause, bound), clause)

Covers(result, in, target, name) ==
  \/ SameRules(result, in, target, name)
  \/ SameDirect(result, in, target, name)
  \/ Within(LeastSafe(View(result, target, name)), Safest(View(in, target, name)))

-----------------------------------------------------------------------------
(* Settling a result: "st" is [result, replaced, unhidden], where replaced *)
(* maps the settled names to their rule, or to NoClause                    *)

Replace(st, name, rule) ==
  LET kept == IF SameResult(rule, st.result.default) THEN NoClause ELSE [rule EXCEPT !.args = {}]
  IN [st EXCEPT
        !.result.rules[name] = IF kept = NoClause THEN <<>> ELSE <<kept>>,
        !.replaced = [n \in DOMAIN @ \cup {name} |-> IF n = name THEN kept ELSE @[n]]]

HidesSafely(rule, target, inputs) ==
  \A i \in DOMAIN Carried[target], j \in DOMAIN inputs :
    Within(rule, Safest(View(inputs[j], target, Carried[target][i])))

\* Whether an unconditional rule of the multiplexer that applies the default's
\* action is better dropped.
Unhides(result, target, inputs) ==
  LET rule == FirstUnconditional(result.rules[target])
      without == [result EXCEPT !.rules[target] = <<>>]
      names == ToSet(Carried[target])
  IN /\ Equivalent(rule, result.default)
     /\ \A name \in names :
          /\ ~(result.rules[name] # <<>> /\ Refused(result.rules[name]))
          /\ Within(rule, Safest(View(without, target, name)))
          /\ \A i \in DOMAIN inputs : Covers(without, inputs[i], target, name)
     /\ \E name \in names : ~Equivalent(LeastSafe(View(without, target, name)), rule)

\* The clause that replaces the rules of a name, before the inputs are heeded.
Collapsed(result, name) ==
  LET own == result.rules[name] IN
  IF own = <<>> THEN result.default
  ELSE IF FirstUnconditional(own) # NoClause THEN Safest(own)
  ELSE PickClause(Safest(own), result.default)

HidesOnly(current, first, target, inputs) ==
  /\ \A i \in DOMAIN current : Unconditional(current[i])
  /\ HidesSafely(first, target, inputs)
  /\ SameResult(PickAnyCall(first, target, inputs), first)

SettleTo(st, target, inputs, current, collapsed) ==
  IF current = <<>> /\ SameResult(collapsed, st.result.default) THEN st
  ELSE IF current # <<>> /\ HidesOnly(current, FirstUnconditional(current), target, inputs)
  THEN IF Unhides(st.result, target, inputs)
       THEN [Replace(st, target, st.result.default) EXCEPT !.unhidden = @ \cup {target}]
       ELSE st
  ELSE Replace(st, target, PickAllInputs(collapsed, target, inputs))

SettleMultiplexer(st, target, inputs) ==
  SettleTo(st, target, inputs, st.result.rules[target],
           PickAnyCall(Collapsed(st.result, target), target, inputs))

\* Fault: only the path is looked at, not whether libseccomp takes the rules.
SettleMultiplexedSyscallLoaded(st, target, name, inputs) ==
  LET hiding == FirstUnconditional(st.result.rules[target]) # NoClause
      collapsed == Collapsed(st.result, name)
  IN IF hiding \/ \A i \in DOMAIN inputs : Covers(st.result, inputs[i], target, name)
     THEN st
     ELSE Replace(st, name, PickInputs(collapsed, target, name, inputs))

\* A rule of the multiplexer that decides every call hides the others.
SettleMultiplexedSyscall(st, target, name, inputs) ==
  LET own == st.result.rules[name]
      refused == own # <<>> /\ Refused(own)
      hiding == FirstUnconditional(st.result.rules[target]) # NoClause
      collapsed == Collapsed(st.result, name)
  IN IF /\ ~refused
        /\ hiding \/ \A i \in DOMAIN inputs : Covers(st.result, inputs[i], target, name)
     THEN st
     ELSE Replace(st, name, IF hiding THEN collapsed
                            ELSE PickInputs(collapsed, target, name, inputs))

SettleTarget(st, target, inputs) ==
  FoldLeft(LAMBDA acc, name : SettleMultiplexedSyscall(acc, target, name, inputs),
           SettleMultiplexer(st, target, inputs), Carried[target])

ReadSettled(entries, default, settled) ==
  LET replaced == DOMAIN settled.replaced
      inOrder == Keep(Names, {i \in DOMAIN Names : Names[i] \in replaced})
  IN [entries |->
        IF replaced = {} THEN entries
        ELSE Keep(entries, {i \in DOMAIN entries : entries[i].names \cap replaced = {}})
               \o FlattenSeq([i \in DOMAIN inOrder |->
                    Emitted(inOrder[i], default,
                            [NoRules EXCEPT !.unconditional = settled.replaced[inOrder[i]]])]),
      unsafe |-> Cardinality(replaced) > Cardinality(settled.unhidden)]

\* settleMultiplexed: the entries, and whether anything but an unhidden
\* multiplexer had to be settled.
SettleMultiplexed(entries, default, inputs) ==
  ReadSettled(entries, default,
    FoldLeft(LAMBDA st, target : SettleTarget(st, target, inputs),
             [result |-> MultiplexInput(entries, default), replaced |-> <<>>, unhidden |-> {}],
             Multiplexers))
=============================================================================
