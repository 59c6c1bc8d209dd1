---------------------------- MODULE SeccompArgs ----------------------------
(***************************************************************************)
(* The conditions a seccomp rule puts on the arguments of a call, and what *)
(* the merge reads off two of them without evaluating either               *)
(* (seccomp/args.go, and complementArg of seccomp/rules.go).               *)
(*                                                                         *)
(* The 64 bits of an argument are scaled down: values run to MaxValue, and *)
(* MaxLow is the mask of the bits that a 32-bit architecture compares.  A  *)
(* filter is the set of its conditions, which a clause holds at most one   *)
(* of for each argument.                                                   *)
(*                                                                         *)
(* A definition under a comment that starts with "Fault:" is the one after *)
(* it with a plausible bug, which some property must reject.               *)
(***************************************************************************)
EXTENDS Integers

CONSTANTS
  Index,      \* the argument indices
  MaxValue,   \* the largest argument value
  MaxLow,     \* the largest value that fits 32 bits
  And         \* the bitwise and of two values

Value == 0..MaxValue

ASSUME ArgsAssumption ==
  /\ Index \subseteq Nat
  /\ MaxValue \in Nat
  /\ MaxLow \in Value
  /\ And \in [Value \X Value -> Value]
  /\ \A a, b \in Value : And[a, b] = And[b, a] /\ And[a, a] = a /\ And[a, 0] = 0
  /\ \A a, b, c \in Value : And[And[a, b], c] = And[a, And[b, c]]
  /\ \A a \in 0..MaxLow : And[a, MaxLow] = a
  /\ \A a \in Value : And[a, MaxLow] <= MaxLow

Op == {"EQ", "NE", "LT", "LE", "GE", "GT", "MASKED_EQ"}

Arg == [index : Index, op : Op, value : Value, two : Value]

-----------------------------------------------------------------------------
(* One condition *)

\* valueTwo is read by MASKED_EQ only, and there within the mask.
CanonicalArg(arg) ==
  [index |-> arg.index, op |-> arg.op, value |-> arg.value,
   two |-> IF arg.op = "MASKED_EQ" THEN And[arg.two, arg.value] ELSE 0]

Tautology(arg) == arg.op = "MASKED_EQ" /\ arg.value = 0

WideArg(arg) == arg.value > MaxLow \/ arg.two > MaxLow

CondHolds(arg, v) ==
  \/ arg.op = "EQ" /\ v = arg.value
  \/ arg.op = "NE" /\ v # arg.value
  \/ arg.op = "LT" /\ v < arg.value
  \/ arg.op = "LE" /\ v <= arg.value
  \/ arg.op = "GE" /\ v >= arg.value
  \/ arg.op = "GT" /\ v > arg.value
  \/ arg.op = "MASKED_EQ" /\ And[v, arg.value] = And[arg.two, arg.value]

\* condInterval: whether a condition matches one range of values, and which.
HasInterval(arg) ==
  \/ arg.op \in {"EQ", "LE", "GE"}
  \/ arg.op = "LT" /\ arg.value # 0
  \/ arg.op = "GT" /\ arg.value # MaxValue

Low(arg) ==
  IF arg.op \in {"EQ", "GE"} THEN arg.value
  ELSE IF arg.op = "GT" THEN arg.value + 1 ELSE 0

High(arg) ==
  IF arg.op \in {"EQ", "LE"} THEN arg.value
  ELSE IF arg.op = "LT" THEN arg.value - 1 ELSE MaxValue

ComplementOp == [EQ |-> "NE", NE |-> "EQ", LT |-> "GE", GE |-> "LT",
                 LE |-> "GT", GT |-> "LE"]

HasComplement(arg) == arg.op # "MASKED_EQ"

ComplementArg(arg) ==
  [index |-> arg.index, op |-> ComplementOp[arg.op], value |-> arg.value, two |-> 0]

-----------------------------------------------------------------------------
(* Two conditions on one argument *)

RangeImplies(strong, weak) ==
  /\ HasInterval(strong)
  /\ IF weak.op = "NE"
     THEN weak.value < Low(strong) \/ weak.value > High(strong)
     ELSE /\ HasInterval(weak)
          /\ Low(weak) <= Low(strong) /\ High(strong) <= High(weak)

MaskImplies(strong, weak) ==
  \/ /\ weak.op = "MASKED_EQ"
     /\ And[weak.value, strong.value] = weak.value
     /\ And[strong.two, weak.value] = weak.two
  \/ weak.op = "NE" /\ And[weak.value, strong.value] # strong.two

\* Wide conditions read differently on a 32-bit architecture, so that one
\* implies itself alone.
CondImplies(strong, weak) ==
  \/ strong = weak
  \/ /\ ~WideArg(strong) /\ ~WideArg(weak)
     /\ \/ strong.op = "EQ" /\ CondHolds(weak, strong.value)
        \/ strong.op = "MASKED_EQ" /\ MaskImplies(strong, weak)
        \/ strong.op \notin {"EQ", "MASKED_EQ"} /\ RangeImplies(strong, weak)

CondsDisjoint(left, right) ==
  IF left.op = "EQ" THEN ~CondHolds(right, left.value)
  ELSE IF right.op = "EQ" THEN ~CondHolds(left, right.value)
  ELSE /\ HasInterval(left) /\ HasInterval(right)
       /\ High(left) < Low(right) \/ High(right) < Low(left)

-----------------------------------------------------------------------------
(* Two filters *)

\* A filter matches a call, the value of every argument, when all of its
\* conditions hold.
Matches(args, call) == \A arg \in args : CondHolds(arg, call[arg.index])

ArgsCover(wide, narrow) ==
  \A loose \in wide : \E strict \in narrow :
    strict.index = loose.index /\ CondImplies(strict, loose)

ArgsDisjoint(left, right) ==
  \E l \in left, r \in right : l.index = r.index /\ CondsDisjoint(l, r)

Conjoinable(left, right) ==
  \A l \in left, r \in right :
    l.index = r.index => CondImplies(l, r) \/ CondImplies(r, l)

\* Of two conditions on one argument the one that says more is kept.
ConjoinArgs(left, right) ==
  {l \in left : \A r \in right : r.index = l.index => CondImplies(l, r)}
    \cup {r \in right : \A l \in left : l.index = r.index => ~CondImplies(l, r)}
=============================================================================
