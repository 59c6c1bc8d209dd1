---------------------------- MODULE SeccompProofs ----------------------------
(***************************************************************************)
(* What SeccompArgs reads off conditions is what they mean, whatever the   *)
(* width of the values: an implication or a disjointness it finds holds of *)
(* every call, and a conjunction or a complement it forms is exact.  The   *)
(* flags and the listener of a merged seccomp profile, for any number of   *)
(* profiles, whatever their rules are and wherever they are loaded; and    *)
(* what a conflict tracker knows of the rules recorded in it, for any      *)
(* number of rules and any filters: as much as the rules themselves.       *)
(*                                                                         *)
(* Then the rules of one syscall: what two sides decide of a call bounds   *)
(* what the kernel makes of the rules a merge emits for them.  Then the    *)
(* settling of multiplexed syscalls, state by state: what every name keeps *)
(* while others are settled.  Last, that none of the operators on rules    *)
(* makes up an action that no rule it reads has.  SeccompSafetyProofs      *)
(* carries this to whole profiles, their fold, their comparison and the    *)
(* checks of an artifact.                                                  *)
(***************************************************************************)
EXTENDS SeccompArtifact, FoldLemmas

-----------------------------------------------------------------------------
(* The conditions on arguments *)

\* What canonicalArg leaves: masked values lie within their mask.
Canonical(arg) == arg.op = "MASKED_EQ" => And[arg.two, arg.value] = arg.two

\* A filter as a clause holds it.
Filter(args) ==
  /\ args \subseteq {arg \in Arg : Canonical(arg)}
  /\ \A a, b \in args : a.index = b.index => a = b

LEMMA ArgFields ==
  ASSUME NEW arg \in Arg
  PROVE  arg.index \in Index /\ arg.op \in Op /\ arg.value \in Value /\ arg.two \in Value
  BY DEF Arg

LEMMA ValueFacts ==
  ASSUME NEW v \in Value
  PROVE  /\ v \in Int /\ MaxValue \in Int /\ 0 \in Value
         /\ 0 <= v /\ v <= MaxValue
<1>1. MaxValue \in Nat
  BY ArgsAssumption, Zenon
<1>2. QED
  BY <1>1 DEF Value

LEMMA AndFacts ==
  ASSUME NEW a \in Value, NEW b \in Value
  PROVE  And[a, b] \in Value /\ And[a, b] = And[b, a] /\ And[a, a] = a
<1>1. And \in [Value \X Value -> Value]
  BY ArgsAssumption, Zenon
<1>2. And[a, b] \in Value
  BY <1>1
<1>3. And[a, b] = And[b, a] /\ And[a, a] = a
  BY ArgsAssumption, Zenon
<1>4. QED
  BY <1>2, <1>3

LEMMA AndAssociative ==
  \A a, b, c \in Value : And[And[a, b], c] = And[a, And[b, c]]
  BY ArgsAssumption, Zenon

LEMMA MaskedTwice ==
  ASSUME NEW a \in Value, NEW mask \in Value
  PROVE  And[And[a, mask], mask] = And[a, mask]
<1>1. And[And[a, mask], mask] = And[a, And[mask, mask]]
  BY AndAssociative
<1>2. QED
  BY <1>1, AndFacts

LEMMA CanonicalArgIsCanonical ==
  ASSUME NEW arg \in Arg
  PROVE  CanonicalArg(arg) \in Arg /\ Canonical(CanonicalArg(arg))
<1>1. And[And[arg.two, arg.value], arg.value] = And[arg.two, arg.value]
  BY ArgFields, MaskedTwice
<1>2. And[arg.two, arg.value] \in Value /\ 0 \in Value
  BY ArgFields, AndFacts, ValueFacts
<1>3. QED
  BY <1>1, <1>2, ArgFields DEF CanonicalArg, Canonical, Arg

-----------------------------------------------------------------------------
(* One condition *)

\* The interval of a condition holds the values it matches and no other.
LEMMA IntervalIsExact ==
  ASSUME NEW arg \in Arg, HasInterval(arg), NEW v \in Value
  PROVE  CondHolds(arg, v) <=> Low(arg) <= v /\ v <= High(arg)
<1>1. /\ arg.value \in Nat /\ v \in Nat /\ MaxValue \in Nat
      /\ arg.value <= MaxValue /\ v <= MaxValue
  BY ArgFields, ValueFacts
<1>2. CASE arg.op = "EQ"
  BY <1>1, <1>2 DEF CondHolds, Low, High
<1>3. CASE arg.op = "LT"
  BY <1>1, <1>3 DEF CondHolds, Low, High
<1>4. CASE arg.op = "LE"
  BY <1>1, <1>4 DEF CondHolds, Low, High
<1>5. CASE arg.op = "GE"
  BY <1>1, <1>5 DEF CondHolds, Low, High
<1>6. CASE arg.op = "GT"
  BY <1>1, <1>6 DEF CondHolds, Low, High
<1>7. QED
  BY <1>2, <1>3, <1>4, <1>5, <1>6 DEF HasInterval

LEMMA IntervalBounds ==
  ASSUME NEW arg \in Arg
  PROVE  Low(arg) \in Int /\ High(arg) \in Int
<1>1. arg.value \in Int /\ MaxValue \in Int
  BY ArgFields, ValueFacts
<1>2. QED
  BY <1>1 DEF Low, High

\* The complement of a condition holds of the values it does not match: the
\* two rules that resolveMixed emits decide every call, and each call once.
THEOREM ComplementArgIsExact ==
  ASSUME NEW arg \in Arg, HasComplement(arg), NEW v \in Value
  PROVE  CondHolds(ComplementArg(arg), v) <=> ~CondHolds(arg, v)
<1>1. arg.value \in Int /\ v \in Int
  BY ArgFields, ValueFacts
<1>2. arg.op \in {"EQ", "NE", "LT", "GE", "LE", "GT"}
  BY ArgFields DEF Op, HasComplement
<1>3. /\ ComplementArg(arg).value = arg.value
      /\ ComplementArg(arg).op = ComplementOp[arg.op]
  BY DEF ComplementArg
<1>4. CASE arg.op = "EQ"
  BY <1>1, <1>3, <1>4 DEF CondHolds, ComplementOp
<1>5. CASE arg.op = "NE"
  BY <1>1, <1>3, <1>5 DEF CondHolds, ComplementOp
<1>6. CASE arg.op = "LT"
  BY <1>1, <1>3, <1>6 DEF CondHolds, ComplementOp
<1>7. CASE arg.op = "GE"
  BY <1>1, <1>3, <1>7 DEF CondHolds, ComplementOp
<1>8. CASE arg.op = "LE"
  BY <1>1, <1>3, <1>8 DEF CondHolds, ComplementOp
<1>9. CASE arg.op = "GT"
  BY <1>1, <1>3, <1>9 DEF CondHolds, ComplementOp
<1>10. QED
  BY <1>2, <1>4, <1>5, <1>6, <1>7, <1>8, <1>9

-----------------------------------------------------------------------------
(* Two conditions *)

LEMMA MaskImpliesIsSound ==
  ASSUME NEW strong \in Arg, NEW weak \in Arg, Canonical(strong), NEW v \in Value,
         strong.op = "MASKED_EQ", MaskImplies(strong, weak), CondHolds(strong, v)
  PROVE  CondHolds(weak, v)
<1>1. And[v, strong.value] = strong.two
  BY DEF CondHolds, Canonical
<1>2. /\ strong.value \in Value /\ strong.two \in Value
      /\ weak.value \in Value /\ weak.two \in Value
  BY ArgFields
<1>3. CASE weak.op = "NE" /\ And[weak.value, strong.value] # strong.two
  BY <1>1, <1>3 DEF CondHolds
<1>4. CASE /\ weak.op = "MASKED_EQ"
           /\ And[weak.value, strong.value] = weak.value
           /\ And[strong.two, weak.value] = weak.two
  <2>1. And[v, weak.value] = And[v, And[strong.value, weak.value]]
    BY <1>2, <1>4, AndFacts
  <2>2. And[v, And[strong.value, weak.value]] = And[And[v, strong.value], weak.value]
    BY <1>2, AndAssociative
  <2>3. And[v, weak.value] = weak.two
    BY <1>1, <1>4, <2>1, <2>2
  <2>4. And[And[strong.two, weak.value], weak.value]
          = And[strong.two, And[weak.value, weak.value]]
    BY <1>2, AndAssociative, ZenonT(30)
  <2>5. And[weak.two, weak.value] = weak.two
    BY <1>2, <1>4, <2>4, AndFacts
  <2>6. QED
    BY <1>4, <2>3, <2>5 DEF CondHolds
<1>5. QED
  BY <1>3, <1>4 DEF MaskImplies

LEMMA RangeImpliesIsSound ==
  ASSUME NEW strong \in Arg, NEW weak \in Arg, NEW v \in Value,
         RangeImplies(strong, weak), CondHolds(strong, v)
  PROVE  CondHolds(weak, v)
<1>1. v \in Int /\ weak.value \in Int
  BY ArgFields, ValueFacts
<1>2. Low(strong) <= v /\ v <= High(strong)
  BY IntervalIsExact DEF RangeImplies
<1>3. /\ Low(strong) \in Int /\ High(strong) \in Int
      /\ Low(weak) \in Int /\ High(weak) \in Int
  BY IntervalBounds
<1>4. CASE weak.op = "NE"
  <2>1. weak.value < Low(strong) \/ weak.value > High(strong)
    BY <1>4 DEF RangeImplies
  <2>2. v # weak.value
    BY <1>1, <1>2, <1>3, <2>1
  <2>3. QED
    BY <1>4, <2>2 DEF CondHolds
<1>5. CASE weak.op # "NE"
  <2>1. Low(weak) <= v /\ v <= High(weak)
    BY <1>1, <1>2, <1>3, <1>5 DEF RangeImplies
  <2>2. QED
    BY <1>5, <2>1, IntervalIsExact DEF RangeImplies
<1>6. QED
  BY <1>4, <1>5

\* A condition that is found to imply another one does: every value it matches
\* the other matches.
THEOREM CondImpliesIsSound ==
  ASSUME NEW strong \in Arg, NEW weak \in Arg, Canonical(strong), NEW v \in Value,
         CondImplies(strong, weak), CondHolds(strong, v)
  PROVE  CondHolds(weak, v)
<1>1. CASE strong = weak
  BY <1>1
<1>2. CASE strong.op = "EQ" /\ CondHolds(weak, strong.value)
  BY <1>2 DEF CondHolds
<1>3. CASE strong.op = "MASKED_EQ" /\ MaskImplies(strong, weak)
  BY <1>3, MaskImpliesIsSound
<1>4. CASE RangeImplies(strong, weak)
  BY <1>4, RangeImpliesIsSound
<1>5. QED
  BY <1>1, <1>2, <1>3, <1>4 DEF CondImplies

\* Conditions that are found disjoint share no value.
THEOREM CondsDisjointIsSound ==
  ASSUME NEW left \in Arg, NEW right \in Arg, NEW v \in Value,
         CondsDisjoint(left, right), CondHolds(left, v)
  PROVE  ~CondHolds(right, v)
<1>1. CASE left.op = "EQ"
  BY <1>1 DEF CondsDisjoint, CondHolds
<1>2. CASE left.op # "EQ" /\ right.op = "EQ"
  <2>1. ~CondHolds(left, right.value)
    BY <1>2 DEF CondsDisjoint
  <2>2. CondHolds(right, v) <=> v = right.value
    BY <1>2 DEF CondHolds
  <2>3. QED
    BY <2>1, <2>2
<1>3. CASE left.op # "EQ" /\ right.op # "EQ"
  <2>1. /\ HasInterval(left) /\ HasInterval(right)
        /\ High(left) < Low(right) \/ High(right) < Low(left)
    BY <1>3 DEF CondsDisjoint
  <2>2. /\ v \in Int
        /\ Low(left) \in Int /\ High(left) \in Int
        /\ Low(right) \in Int /\ High(right) \in Int
    BY IntervalBounds, ValueFacts
  <2>3. Low(left) <= v /\ v <= High(left)
    BY <2>1, IntervalIsExact
  <2>4. SUFFICES ASSUME CondHolds(right, v) PROVE FALSE
    OBVIOUS
  <2>5. Low(right) <= v /\ v <= High(right)
    BY <2>1, <2>4, IntervalIsExact
  <2>6. QED
    BY <2>1, <2>2, <2>3, <2>5
<1>4. QED
  BY <1>1, <1>2, <1>3
-----------------------------------------------------------------------------
(* Filters *)

LEMMA FilterFacts ==
  ASSUME NEW args, Filter(args), NEW arg \in args
  PROVE  arg \in Arg /\ Canonical(arg)
  BY DEF Filter

LEMMA CallFacts ==
  ASSUME NEW call \in [Index -> Value], NEW arg \in Arg
  PROVE  call[arg.index] \in Value
  BY ArgFields

\* Every call that the narrow filter matches the wide one matches: a clause
\* that is covered may take the place of the other one, or make way for it.
THEOREM ArgsCoverIsSound ==
  ASSUME NEW wide, NEW narrow, Filter(wide), Filter(narrow), ArgsCover(wide, narrow),
         NEW call \in [Index -> Value], Matches(narrow, call)
  PROVE  Matches(wide, call)
<1>1. SUFFICES ASSUME NEW loose \in wide PROVE CondHolds(loose, call[loose.index])
  BY DEF Matches
<1>2. PICK strict \in narrow : strict.index = loose.index /\ CondImplies(strict, loose)
  BY DEF ArgsCover
<1>3. CondHolds(strict, call[loose.index])
  BY <1>2 DEF Matches
<1>4. QED
  BY <1>2, <1>3, FilterFacts, CallFacts, CondImpliesIsSound

\* No call matches two filters that are found disjoint.
THEOREM ArgsDisjointIsSound ==
  ASSUME NEW left, NEW right, Filter(left), Filter(right), ArgsDisjoint(left, right),
         NEW call \in [Index -> Value], Matches(left, call)
  PROVE  ~Matches(right, call)
<1>1. PICK l \in left, r \in right : l.index = r.index /\ CondsDisjoint(l, r)
  BY DEF ArgsDisjoint
<1>2. CondHolds(l, call[l.index])
  BY DEF Matches
<1>3. ~CondHolds(r, call[l.index])
  BY <1>1, <1>2, FilterFacts, CallFacts, CondsDisjointIsSound
<1>4. QED
  BY <1>1, <1>3 DEF Matches

\* The conjunction of two filters matches the calls that both match, so that
\* the clause an intersection adds for them decides no other call.
THEOREM ConjoinArgsIsExact ==
  ASSUME NEW left, NEW right, Filter(left), Filter(right), Conjoinable(left, right),
         NEW call \in [Index -> Value]
  PROVE  Matches(ConjoinArgs(left, right), call)
           <=> Matches(left, call) /\ Matches(right, call)
<1>1. ASSUME Matches(left, call), Matches(right, call)
      PROVE  Matches(ConjoinArgs(left, right), call)
  BY <1>1 DEF Matches, ConjoinArgs
<1>2. ASSUME Matches(ConjoinArgs(left, right), call), NEW l \in left
      PROVE  CondHolds(l, call[l.index])
  <2>1. CASE \A r \in right : r.index = l.index => CondImplies(l, r)
    BY <1>2, <2>1 DEF Matches, ConjoinArgs
  <2>2. CASE \E r \in right : r.index = l.index /\ ~CondImplies(l, r)
    <3>1. PICK r \in right : r.index = l.index /\ ~CondImplies(l, r)
      BY <2>2
    <3>2. CondImplies(r, l)
      BY <3>1 DEF Conjoinable
    <3>3. \A other \in left : other.index = r.index => other = l
      BY <3>1 DEF Filter
    <3>4. r \in ConjoinArgs(left, right)
      BY <3>1, <3>3 DEF ConjoinArgs
    <3>5. CondHolds(r, call[l.index])
      BY <1>2, <3>1, <3>4 DEF Matches
    <3>6. QED
      BY <3>2, <3>5, FilterFacts, CallFacts, CondImpliesIsSound
  <2>3. QED
    BY <2>1, <2>2
<1>3. ASSUME Matches(ConjoinArgs(left, right), call), NEW r \in right
      PROVE  CondHolds(r, call[r.index])
  <2>1. CASE \A l \in left : l.index = r.index => ~CondImplies(l, r)
    BY <1>3, <2>1 DEF Matches, ConjoinArgs
  <2>2. CASE \E l \in left : l.index = r.index /\ CondImplies(l, r)
    <3>1. PICK l \in left : l.index = r.index /\ CondImplies(l, r)
      BY <2>2
    <3>2. CondHolds(l, call[r.index])
      BY <1>2, <1>3, <3>1
    <3>3. QED
      BY <3>1, <3>2, FilterFacts, CallFacts, CondImpliesIsSound
  <2>3. QED
    BY <2>1, <2>2
<1>4. QED
  BY <1>1, <1>2, <1>3 DEF Matches

-----------------------------------------------------------------------------
(* The fields of one merge *)

LEMMA SettleKeepsFields ==
  ASSUME NEW profile, NEW inputs
  PROVE LET settled == SettleArchitectures(profile, inputs)
        IN /\ settled.flags = profile.flags /\ settled.path = profile.path
           /\ settled.metadata = profile.metadata
  BY DEF SettleArchitectures, NarrowOrSettle, Rebuilt

LEMMA NormalizedFields ==
  ASSUME NEW profile
  PROVE LET alone == Normalized(profile)
        IN /\ alone.flags = profile.flags /\ alone.path = profile.path
           /\ alone.metadata = profile.metadata
  BY SettleKeepsFields DEF Normalized

LEMMA MergedFields ==
  ASSUME NEW left, NEW right
  PROVE LET merged == MergeTwo(left, right)
            listener == ListenerOf(left, right)
        IN /\ merged.flags = MergeFlags(left.flags, right.flags, Intersecting, listener = left)
           /\ merged.path = listener.path /\ merged.metadata = listener.metadata
  BY SettleKeepsFields DEF MergeTwo

\* Either list names a flag, or leaves it to the runtime.
LEMMA MergedFlags ==
  ASSUME NEW l \in FlagList, NEW r \in FlagList, NEW i \in BOOLEAN, NEW first \in BOOLEAN
  PROVE LET merged == MergeFlags(l, r, i, first)
        IN /\ merged \in FlagList
           /\ "WAIT_KILLABLE_RECV" \in merged
                <=> "WAIT_KILLABLE_RECV" \in (IF first THEN l ELSE r)
           /\ "SPEC_ALLOW" \in LoadedFlags(merged)
                <=> IF i THEN "SPEC_ALLOW" \in LoadedFlags(l) /\ "SPEC_ALLOW" \in LoadedFlags(r)
                    ELSE "SPEC_ALLOW" \in LoadedFlags(l) \/ "SPEC_ALLOW" \in LoadedFlags(r)
           /\ "LOG" \in LoadedFlags(merged)
                <=> IF i THEN "LOG" \in LoadedFlags(l) \/ "LOG" \in LoadedFlags(r)
                    ELSE "LOG" \in LoadedFlags(l) /\ "LOG" \in LoadedFlags(r)
<1> DEFINE kept == KeptFlags(l, r, i, first)
           left == SpecAllowLeftToRuntime(l, r, i)
<1> USE DEF FlagList, Flag, LeftToRuntime
<1>1. /\ kept \subseteq Flag
      /\ "SPEC_ALLOW" \in kept <=> IF i THEN "SPEC_ALLOW" \in l /\ "SPEC_ALLOW" \in r
                                   ELSE "SPEC_ALLOW" \in l \/ "SPEC_ALLOW" \in r
  BY DEF KeptFlags, KeepFlag, Named, Polarity
<1>2. "LOG" \in kept <=> IF i THEN "LOG" \in l \/ "LOG" \in r ELSE "LOG" \in l /\ "LOG" \in r
  BY DEF KeptFlags, KeepFlag, Named, Polarity
<1>3. "WAIT_KILLABLE_RECV" \in kept <=> "WAIT_KILLABLE_RECV" \in (IF first THEN l ELSE r)
  BY DEF KeptFlags, KeepFlag, Named, Polarity
<1>4. left <=> IF i THEN (l = LeftToRuntime \/ "SPEC_ALLOW" \in l)
                            /\ (r = LeftToRuntime \/ "SPEC_ALLOW" \in r)
               ELSE l = LeftToRuntime \/ r = LeftToRuntime
  BY DEF SpecAllowLeftToRuntime, Off
<1>5. MergeFlags(l, r, i, first) =
        IF "SPEC_ALLOW" \in kept \/ ~left THEN kept
        ELSE IF kept = {} THEN LeftToRuntime ELSE kept \cup {"SPEC_ALLOW"}
  BY DEF MergeFlags
<1>6. ASSUME NEW f \in FlagList
      PROVE /\ "SPEC_ALLOW" \in LoadedFlags(f) <=> f = LeftToRuntime \/ "SPEC_ALLOW" \in f
            /\ "LOG" \in LoadedFlags(f) <=> "LOG" \in f
  <2>1. CASE f = LeftToRuntime
    BY <2>1 DEF LoadedFlags
  <2>2. CASE f # LeftToRuntime
    BY <2>2 DEF LoadedFlags
  <2> QED
    BY <2>1, <2>2
<1> DEFINE merged == MergeFlags(l, r, i, first)
<1> HIDE DEF kept, left, merged
<1>7. merged = IF "SPEC_ALLOW" \in kept \/ ~left THEN kept
               ELSE IF kept = {} THEN LeftToRuntime ELSE kept \cup {"SPEC_ALLOW"}
  BY <1>5 DEF merged
<1>8. merged \in FlagList
  <2>1. merged \in SUBSET Flag \/ merged = LeftToRuntime
    BY <1>1, <1>7
  <2> QED
    BY <2>1
<1>9. /\ "WAIT_KILLABLE_RECV" \in merged <=> "WAIT_KILLABLE_RECV" \in kept
      /\ "LOG" \in merged <=> "LOG" \in kept
      /\ merged = LeftToRuntime \/ "SPEC_ALLOW" \in merged <=> "SPEC_ALLOW" \in kept \/ left
  BY <1>1, <1>7
<1>10. "SPEC_ALLOW" \in LoadedFlags(merged)
         <=> IF i THEN "SPEC_ALLOW" \in LoadedFlags(l) /\ "SPEC_ALLOW" \in LoadedFlags(r)
             ELSE "SPEC_ALLOW" \in LoadedFlags(l) \/ "SPEC_ALLOW" \in LoadedFlags(r)
  BY <1>1, <1>4, <1>6, <1>8, <1>9
<1>11. "LOG" \in LoadedFlags(merged)
         <=> IF i THEN "LOG" \in LoadedFlags(l) \/ "LOG" \in LoadedFlags(r)
             ELSE "LOG" \in LoadedFlags(l) /\ "LOG" \in LoadedFlags(r)
  BY <1>2, <1>6, <1>8, <1>9
<1> QED
  BY <1>3, <1>8, <1>9, <1>10, <1>11 DEF merged

LEMMA ListenerFlags ==
  ASSUME NEW f \in FlagList, NEW path
  PROVE LET kept == FlagsForListener(f, path)
        IN /\ kept \in FlagList
           /\ \A flag \in {"SPEC_ALLOW", "LOG", "WAIT_KILLABLE_RECV"} :
                /\ flag \in kept <=> flag \in f
                /\ flag \in LoadedFlags(kept) <=> flag \in LoadedFlags(f)
<1> USE DEF FlagsForListener, FlagList, Flag, LeftToRuntime
<1>1. CASE f = LeftToRuntime
  BY <1>1 DEF LoadedFlags
<1>2. CASE f \in SUBSET Flag
  BY <1>2 DEF LoadedFlags
<1> QED
  BY <1>1, <1>2

LEMMA MinIs ==
  ASSUME NEW S \in SUBSET Nat, NEW k \in S, \A j \in S : k <= j
  PROVE Min(S) = k
<1> DEFINE least(s) == \A j \in S : s <= j
<1>1. least(k)
  OBVIOUS
<1> HIDE DEF least
<1>2. LET m == CHOOSE s \in S : least(s) IN m \in S /\ least(m)
  BY <1>1
<1>3. Min(S) \in S /\ least(Min(S))
  BY <1>2 DEF Min, least
<1>4. /\ Min(S) \in S /\ Min(S) <= k
      /\ k <= Min(S)
  BY <1>3 DEF least
<1>5. Min(S) \in Nat /\ k \in Nat
  BY <1>4
<1> QED
  BY <1>4, <1>5

-----------------------------------------------------------------------------
(* The fold *)

\* Of the first n inputs, k is the first with a listener, or the first where
\* none has one.
Source(k, n) ==
  /\ k \in 1..n
  /\ \A j \in 1..(k - 1) : passed[j].path = NoPath
  /\ passed[k].path = NoPath => k = 1 /\ \A j \in 1..n : passed[j].path = NoPath

FromSource(profile, k) ==
  /\ profile.path = passed[k].path /\ profile.metadata = passed[k].metadata
  /\ "WAIT_KILLABLE_RECV" \in profile.flags
       <=> "WAIT_KILLABLE_RECV" \in passed[k].flags

Sets(i, flag) == flag \in LoadedFlags(passed[i].flags)

\* The flags stand for those of the first n inputs.
FlagsOf(flags, n) ==
  /\ "SPEC_ALLOW" \in LoadedFlags(flags)
       <=> IF Intersecting THEN \A i \in 1..n : Sets(i, "SPEC_ALLOW")
           ELSE \E i \in 1..n : Sets(i, "SPEC_ALLOW")
  /\ "LOG" \in LoadedFlags(flags)
       <=> IF Intersecting THEN \E i \in 1..n : Sets(i, "LOG")
           ELSE \A i \in 1..n : Sets(i, "LOG")

StandsFor(profile, n) ==
  /\ profile.flags \in FlagList /\ FlagsOf(profile.flags, n)
  /\ \E k \in 1..n : Source(k, n) /\ FromSource(profile, k)

\* What is built from the first n inputs, merged with the next one.
LEMMA MergeNext ==
  ASSUME NEW n \in Nat \ {0}, NEW left, StandsFor(left, n),
         passed[n + 1].flags \in FlagList
  PROVE StandsFor(MergeTwo(left, passed[n + 1]), n + 1)
<1> DEFINE right == passed[n + 1]
           first == ListenerOf(left, right) = left
           merged == MergeTwo(left, right)
<1>1. /\ merged.flags = MergeFlags(left.flags, right.flags, Intersecting, first)
      /\ merged.path = ListenerOf(left, right).path
      /\ merged.metadata = ListenerOf(left, right).metadata
  BY MergedFields
<1>2. left.flags \in FlagList /\ right.flags \in FlagList
  BY DEF StandsFor
<1>3. Intersecting \in BOOLEAN /\ first \in BOOLEAN
  BY DEF Intersecting
<1>4. /\ merged.flags \in FlagList
      /\ "WAIT_KILLABLE_RECV" \in merged.flags
           <=> "WAIT_KILLABLE_RECV" \in (IF first THEN left.flags ELSE right.flags)
      /\ "SPEC_ALLOW" \in LoadedFlags(merged.flags)
           <=> IF Intersecting
               THEN "SPEC_ALLOW" \in LoadedFlags(left.flags) /\ Sets(n + 1, "SPEC_ALLOW")
               ELSE "SPEC_ALLOW" \in LoadedFlags(left.flags) \/ Sets(n + 1, "SPEC_ALLOW")
      /\ "LOG" \in LoadedFlags(merged.flags)
           <=> IF Intersecting
               THEN "LOG" \in LoadedFlags(left.flags) \/ Sets(n + 1, "LOG")
               ELSE "LOG" \in LoadedFlags(left.flags) /\ Sets(n + 1, "LOG")
  <2> DEFINE l == left.flags
             r == right.flags
             of(i, f) == MergeFlags(l, r, i, f)
  <2>1. \A i \in BOOLEAN, f \in BOOLEAN :
          /\ of(i, f) \in FlagList
          /\ "WAIT_KILLABLE_RECV" \in of(i, f)
               <=> "WAIT_KILLABLE_RECV" \in (IF f THEN l ELSE r)
          /\ "SPEC_ALLOW" \in LoadedFlags(of(i, f))
               <=> IF i THEN "SPEC_ALLOW" \in LoadedFlags(l) /\ "SPEC_ALLOW" \in LoadedFlags(r)
                   ELSE "SPEC_ALLOW" \in LoadedFlags(l) \/ "SPEC_ALLOW" \in LoadedFlags(r)
          /\ "LOG" \in LoadedFlags(of(i, f))
               <=> IF i THEN "LOG" \in LoadedFlags(l) \/ "LOG" \in LoadedFlags(r)
                   ELSE "LOG" \in LoadedFlags(l) /\ "LOG" \in LoadedFlags(r)
    BY <1>2, MergedFlags
  <2>2. merged.flags = of(Intersecting, first)
    BY <1>1
  <2> HIDE DEF of, merged, first
  <2> QED
    BY ONLY <1>3, <2>1, <2>2 DEF Sets
<1>5. /\ first => ListenerOf(left, right) = left
      /\ ~first => ListenerOf(left, right) = right
      /\ first <=> ~(left.path = NoPath /\ right.path # NoPath)
  BY DEF ListenerOf
<1>6. PICK k \in 1..n : Source(k, n) /\ FromSource(left, k)
  BY DEF StandsFor
<1> HIDE DEF merged, first
<1>7. \A i \in 1..(n + 1) : i \in 1..n \/ i = n + 1
  OBVIOUS
<1>8. 1..n \subseteq 1..(n + 1) /\ n + 1 \in 1..(n + 1)
  OBVIOUS
<1>9. FlagsOf(merged.flags, n + 1)
  <2>1. FlagsOf(left.flags, n)
    BY DEF StandsFor
  <2> QED
    BY <1>4, <1>7, <1>8, <2>1 DEF FlagsOf
<1>10. CASE first
  <2>1. Source(k, n + 1)
    BY <1>5, <1>6, <1>7, <1>8, <1>10 DEF Source, FromSource
  <2>2. FromSource(merged, k)
    BY <1>1, <1>4, <1>5, <1>6, <1>10 DEF FromSource
  <2> QED
    BY <1>4, <1>8, <1>9, <2>1, <2>2 DEF StandsFor, merged
<1>11. CASE ~first
  <2>1. Source(n + 1, n + 1)
    BY <1>5, <1>6, <1>8, <1>11 DEF Source, FromSource
  <2>2. FromSource(merged, n + 1)
    BY <1>1, <1>4, <1>5, <1>11 DEF FromSource
  <2> QED
    BY <1>4, <1>8, <1>9, <2>1, <2>2 DEF StandsFor, merged
<1> QED
  BY <1>10, <1>11

CountsOK ==
  /\ strategy \in {"intersect", "union"}
  /\ arity \in Arities /\ arity \in Nat
  /\ folded \in 0..arity
  /\ passed \in Seq(Profiles[arity])
  /\ folded > 0 => Len(passed) = arity
  /\ pc = "validate" => folded = 0
  /\ pc \in {"fold", "listener", "regroup", "done"} => folded > 0
  /\ pc \in {"listener", "regroup", "done"} => folded = arity

InputsOK ==
  pc = "validate" \/ folded > 0 => \A i \in 1..Len(passed) : passed[i].flags \in FlagList

FieldsInv ==
  /\ CountsOK /\ InputsOK
  /\ folded > 0 => StandsFor(result, folded)
  /\ pc = "done" /\ result.path # NoPath => "TSYNC" \notin result.flags

LEMMA StandsForOne ==
  ASSUME NEW profile, 1 \in 1..Len(passed), passed[1].flags \in FlagList,
         profile.flags = passed[1].flags, profile.path = passed[1].path,
         profile.metadata = passed[1].metadata
  PROVE StandsFor(profile, 1)
<1>1. Source(1, 1) /\ FromSource(profile, 1)
  BY DEF Source, FromSource
<1>2. FlagsOf(profile.flags, 1)
  BY DEF FlagsOf, Sets
<1> QED
  BY <1>1, <1>2 DEF StandsFor

\* What a call passes.
LEMMA PassedAre ==
  /\ Arities \subseteq Nat
  /\ \A n \in Arities : \A profile \in Profiles[n] :
       profile # Nil => /\ profile \in Profile
                        /\ profile.default \in Action /\ profile.errno \in Int
                        /\ profile.entries \in Seq(Entry)
                        /\ profile.architectures \subseteq Architectures
                        /\ profile.flags \in FlagList
<1>1. ASSUME NEW profile \in Profile
      PROVE  /\ profile.default \in Action /\ profile.errno \in Int
             /\ profile.entries \in Seq(Entry)
             /\ profile.architectures \subseteq Architectures
             /\ profile.flags \in FlagList
  BY DEF Profile
<1>2. \A n \in Arities : \A profile \in Profiles[n] : profile # Nil => profile \in Profile
  BY CallsAssumption
<1> QED
  BY <1>1, <1>2, CallsAssumption

LEMMA InitFields == Init => FieldsInv
  BY PassedAre DEF Init, FieldsInv, CountsOK, InputsOK

LEMMA StepFields == FieldsInv /\ [Next]_vars => FieldsInv'
<1> SUFFICES ASSUME FieldsInv, [Next]_vars PROVE FieldsInv'
  OBVIOUS
<1> USE PassedAre DEF FieldsInv, CountsOK, InputsOK
<1>1. ASSUME NEW profile \in Profiles[arity], ValidateNext(profile) PROVE FieldsInv'
  <2>1. CountsOK'
    <3>1. /\ pc = "validate" /\ folded = 0 /\ folded' = 0 /\ passed \in Seq(Profiles[arity])
          /\ passed' = Append(passed, profile) /\ pc' \in {"validate", "failed"}
          /\ arity' = arity /\ strategy' = strategy
      BY <1>1 DEF ValidateNext
    <3>2. passed' \in Seq(Profiles[arity])
      BY <1>1, <3>1
    <3> QED
      BY <3>1, <3>2
  <2>2. InputsOK'
    BY <1>1 DEF ValidateNext, ValidProfile
  <2>3. folded' = 0 /\ pc' # "done"
    BY <1>1 DEF ValidateNext
  <2> QED
    BY <2>1, <2>2, <2>3
<1>2. CASE RejectEmptyCall
  <2>1. /\ folded = 0 /\ folded' = 0 /\ pc' = "failed"
        /\ UNCHANGED <<strategy, arity, passed>>
    BY <1>2 DEF RejectEmptyCall
  <2>2. CountsOK'
    BY <2>1
  <2> QED
    BY <2>1, <2>2
<1>3. CASE NormalizeOnly
  <2>1. CountsOK' /\ InputsOK'
    <3>1. /\ pc = "validate" /\ arity = 1 /\ Len(passed) = 1 /\ folded' = 1
          /\ pc' = "listener" /\ UNCHANGED <<strategy, arity, passed>>
      BY <1>3 DEF NormalizeOnly
    <3>2. CountsOK'
      BY <3>1
    <3>3. InputsOK'
      BY <3>1
    <3> QED
      BY <3>2, <3>3
  <2>2. /\ folded' = 1 /\ passed' = passed /\ pc' = "listener" /\ strategy' = strategy
        /\ result' = Normalized(passed[1])
    BY <1>3 DEF NormalizeOnly
  <2>3. 1 \in 1..Len(passed) /\ passed[1].flags \in FlagList
    BY <1>3 DEF NormalizeOnly
  <2>4. StandsFor(Normalized(passed[1]), 1)
    BY <2>3, NormalizedFields, StandsForOne
  <2>5. StandsFor(result, folded)'
    BY <2>2, <2>4 DEF StandsFor, Source, FromSource, FlagsOf, Sets, Intersecting
  <2> QED
    BY <2>1, <2>2, <2>5
<1>4. CASE FoldFirstTwo
  <2>1. CountsOK' /\ InputsOK'
    BY <1>4 DEF FoldFirstTwo
  <2>2. /\ folded' = 2 /\ passed' = passed /\ pc' = "fold" /\ strategy' = strategy
        /\ result' = MergeTwo(passed[1], passed[2])
    BY <1>4 DEF FoldFirstTwo
  <2>3. 1 \in 1..Len(passed) /\ 2 \in 1..Len(passed)
    BY <1>4 DEF FoldFirstTwo
  <2>4. passed[1].flags \in FlagList /\ passed[2].flags \in FlagList
    BY <1>4, <2>3 DEF FoldFirstTwo
  <2>5. StandsFor(passed[1], 1)
    BY <2>3, <2>4, StandsForOne
  <2>6. StandsFor(MergeTwo(passed[1], passed[1 + 1]), 1 + 1)
    BY <2>4, <2>5, MergeNext
  <2>7. StandsFor(result, folded)'
    BY <2>2, <2>6 DEF StandsFor, Source, FromSource, FlagsOf, Sets, Intersecting
  <2> QED
    BY <2>1, <2>2, <2>7
<1>5. CASE FoldNext
  <2>1. CountsOK' /\ InputsOK'
    BY <1>5 DEF FoldNext
  <2>2. /\ folded' = folded + 1 /\ passed' = passed /\ pc' = "fold" /\ strategy' = strategy
        /\ result' = MergeTwo(result, passed[folded + 1])
    BY <1>5 DEF FoldNext
  <2>3. folded \in Nat \ {0} /\ passed[folded + 1].flags \in FlagList
    BY <1>5 DEF FoldNext
  <2>4. StandsFor(MergeTwo(result, passed[folded + 1]), folded + 1)
    BY <2>3, MergeNext
  <2>5. StandsFor(result, folded)'
    BY <2>2, <2>4 DEF StandsFor, Source, FromSource, FlagsOf, Sets, Intersecting
  <2> QED
    BY <2>1, <2>2, <2>5
<1>6. CASE Folded \/ ResolveListener
  <2>1. CountsOK' /\ InputsOK' /\ pc' # "done"
    BY <1>6 DEF Folded, ResolveListener
  <2>2. result' = result /\ folded' = folded /\ passed' = passed /\ strategy' = strategy
    BY <1>6 DEF Folded, ResolveListener
  <2>3. folded > 0 => StandsFor(result, folded)'
    BY <2>2 DEF StandsFor, Source, FromSource, FlagsOf, Sets, Intersecting
  <2> QED
    BY <2>1, <2>2, <2>3
<1>7. CASE Regroup
  <2>1. CountsOK' /\ InputsOK'
    BY <1>7 DEF Regroup
  <2>2. /\ folded' = folded /\ passed' = passed /\ strategy' = strategy
        /\ result'.flags = FlagsForListener(result.flags, result.path)
        /\ result'.path = result.path /\ result'.metadata = result.metadata
    BY <1>7 DEF Regroup, Rebuilt
  <2>3. StandsFor(result, folded)
    BY <1>7 DEF Regroup
  <2>4. result'.path # NoPath => "TSYNC" \notin result'.flags
    BY <2>2 DEF FlagsForListener
  <2>5. /\ result'.flags \in FlagList
        /\ \A flag \in {"SPEC_ALLOW", "LOG", "WAIT_KILLABLE_RECV"} :
             /\ flag \in result'.flags <=> flag \in result.flags
             /\ flag \in LoadedFlags(result'.flags) <=> flag \in LoadedFlags(result.flags)
    BY <2>2, <2>3, ListenerFlags DEF StandsFor
  <2>6. FlagsOf(result.flags, folded)'
    BY <2>2, <2>3, <2>5 DEF StandsFor, FlagsOf, Sets, Intersecting
  <2>7. PICK k \in 1..folded : Source(k, folded) /\ FromSource(result, k)
    BY <2>3 DEF StandsFor
  <2>8. Source(k, folded)' /\ FromSource(result, k)'
    BY <2>2, <2>5, <2>7 DEF Source, FromSource
  <2> QED
    BY <2>1, <2>2, <2>4, <2>5, <2>6, <2>8 DEF StandsFor
<1>8. CASE UNCHANGED vars
  BY <1>8 DEF vars, StandsFor, Source, FromSource, FlagsOf, Sets, Intersecting
<1> QED
  BY <1>1, <1>2, <1>3, <1>4, <1>5, <1>6, <1>7, <1>8 DEF Next, Returned

LEMMA Fields == Spec => []FieldsInv
  BY InitFields, StepFields, PTL DEF Spec

\* However many profiles are folded, a flag is set where its polarity asks for
\* it in every input, or in any: mergeFlags is exact at every step.
THEOREM FlagsAreMerged == Spec => []FlagsFollowTheirPolarity
<1>1. FieldsInv => FlagsFollowTheirPolarity
  <2> SUFFICES ASSUME FieldsInv, folded > 0, NEW flag \in {"SPEC_ALLOW", "LOG"}
               PROVE flag \in LoadedFlags(result.flags)
                       <=> IF Intersecting = (Polarity[flag] = "permissive")
                           THEN \A i \in 1..folded : Sets(i, flag)
                           ELSE \E i \in 1..folded : Sets(i, flag)
    BY DEF FlagsFollowTheirPolarity, Sets
  <2>1. FlagsOf(result.flags, folded)
    BY DEF FieldsInv, StandsFor
  <2>2. Intersecting \in BOOLEAN
    BY DEF Intersecting
  <2>3. CASE flag = "SPEC_ALLOW"
    <3>1. Polarity[flag] = "permissive"
      BY <2>3 DEF Polarity
    <3> QED
      BY <2>1, <2>2, <2>3, <3>1 DEF FlagsOf
  <2>4. CASE flag = "LOG"
    <3>1. Polarity[flag] # "permissive"
      BY <2>4 DEF Polarity
    <3> QED
      BY <2>1, <2>2, <2>4, <3>1 DEF FlagsOf
  <2> QED
    BY <2>3, <2>4
<1> QED
  BY <1>1, Fields, PTL

\* The listener of the result is the first input's that has one, with its
\* metadata and its flag, through every mergeTwo.
THEOREM ListenerIsTheFirst == Spec => []ListenerComesWhole
<1>1. ASSUME FieldsInv PROVE ListenerComesWhole
  <2> SUFFICES ASSUME pc = "done" PROVE ListenerComesWhole
    BY DEF ListenerComesWhole
  <2> DEFINE with == {i \in 1..arity : passed[i].path # NoPath}
             source == passed[IF with = {} THEN 1 ELSE Min(with)]
  <2>1. folded = arity /\ arity \in Nat /\ folded > 0 /\ StandsFor(result, folded)
    BY <1>1 DEF FieldsInv, CountsOK
  <2>2. PICK k \in 1..arity : Source(k, arity) /\ FromSource(result, k)
    BY <2>1 DEF StandsFor
  <2>3. source = passed[k]
    <3>1. CASE with = {}
      BY <2>2, <3>1 DEF Source
    <3>2. CASE with # {}
      <4>1. k \in with
        BY <2>2, <3>2 DEF Source
      <4>2. \A j \in with : k <= j
        BY <2>1, <2>2 DEF Source
      <4>3. Min(with) = k
        BY <2>1, <4>1, <4>2, MinIs
      <4> QED
        BY <3>2, <4>3
    <3> QED
      BY <3>1, <3>2
  <2>4. with # {} => result.path # NoPath
    BY <2>2 DEF Source, FromSource
  <2>5. with # {} => "TSYNC" \notin result.flags
    BY <1>1, <2>4 DEF FieldsInv
  <2> QED
    BY <2>2, <2>3, <2>5 DEF ListenerComesWhole, FromSource
<1> QED
  BY <1>1, Fields, PTL

-----------------------------------------------------------------------------
(* The tracker of one syscall *)

Known(rules) == \A rule \in rules : rule.action \in Action

\* The rank and the errno, which results are compared by.
ResultOf(rule) ==
  <<Restrictiveness[rule.action],
    IF ErrnoSignificant(rule.action) THEN rule.errno ELSE Unset>>

\* What is kept of some rules under one filter: the first of them, and
\* whether another has a different result.
Summarizes(sets, filter, rules) ==
  /\ filter \in DOMAIN sets <=> rules # {}
  /\ filter \in DOMAIN sets =>
       /\ sets[filter].first \in rules
       /\ sets[filter].mixed <=> \E rule \in rules : ResultOf(rule) # ResultOf(sets[filter].first)

Represents(tracker, rules) ==
  \A filter :
    /\ Summarizes(tracker.exact, filter, {rule \in rules : rule.args = filter})
    /\ Summarizes(tracker.narrower, filter, {rule \in rules : filter \in WiderThan(rule.args)})

\* Results are the same where rank and errno are: ERRNO and TRACE, whose errno
\* counts, share their rank with no other action.
LEMMA SameResultComparesResults ==
  ASSUME NEW left, NEW right, left.action \in Action, right.action \in Action
  PROVE SameResult(left, right) <=> ResultOf(left) = ResultOf(right)
<1> DEFINE l == left.action r == right.action
<1>1. Restrictiveness[l] = Restrictiveness[r] => (ErrnoSignificant(l) <=> ErrnoSignificant(r))
  BY DEF Action, Restrictiveness, ErrnoSignificant
<1> QED BY <1>1 DEF SameResult, Equivalent, ResultOf

LEMMA ConflictsWithIsExact ==
  ASSUME NEW sets, NEW filter, NEW rules, NEW next,
         Known(rules), next.action \in Action, Summarizes(sets, filter, rules)
  PROVE ConflictsWith(sets, filter, next) <=> \E rule \in rules : ~SameResult(rule, next)
<1>1. \A rule \in rules : SameResult(rule, next) <=> ResultOf(rule) = ResultOf(next)
  BY SameResultComparesResults DEF Known
<1>2. CASE filter \notin DOMAIN sets
  BY <1>2 DEF ConflictsWith, Summarizes
<1>3. CASE filter \in DOMAIN sets
  BY <1>1, <1>3 DEF ConflictsWith, Summarizes
<1> QED BY <1>2, <1>3

LEMMA RecordKeepsSummary ==
  ASSUME NEW sets, NEW filters, NEW filter, NEW rules, NEW next,
         Known(rules), next.action \in Action, Summarizes(sets, filter, rules)
  PROVE LET after == RecordResult(sets, filters, next) IN
        /\ filter \in filters => Summarizes(after, filter, rules \cup {next})
        /\ filter \notin filters => Summarizes(after, filter, rules)
<1> DEFINE after == RecordResult(sets, filters, next)
<1>1. \A rule \in rules : SameResult(rule, next) <=> ResultOf(rule) = ResultOf(next)
  BY SameResultComparesResults DEF Known
<1>2. filter \in DOMAIN after <=> filter \in DOMAIN sets \/ filter \in filters
  BY DEF RecordResult
<1>3. CASE filter \notin DOMAIN sets
  <2>1. rules = {}
    BY <1>3 DEF Summarizes
  <2>2. filter \in filters => after[filter].first = next /\ ~after[filter].mixed
    BY <1>3 DEF RecordResult
  <2> HIDE DEF after
  <2>3. ASSUME filter \in filters PROVE Summarizes(after, filter, rules \cup {next})
    BY <1>2, <2>1, <2>2, <2>3 DEF Summarizes
  <2>4. ASSUME filter \notin filters PROVE Summarizes(after, filter, rules)
    BY <1>2, <1>3, <2>1, <2>4 DEF Summarizes
  <2> QED BY <2>3, <2>4 DEF after
<1>4. CASE filter \in DOMAIN sets
  <2>1. /\ after[filter].first = sets[filter].first
        /\ after[filter].mixed <=> \/ sets[filter].mixed
                                   \/ filter \in filters /\ ~SameResult(sets[filter].first, next)
    BY <1>4 DEF RecordResult
  <2>2. /\ rules # {} /\ sets[filter].first \in rules
        /\ sets[filter].mixed
             <=> \E rule \in rules : ResultOf(rule) # ResultOf(sets[filter].first)
    BY <1>4 DEF Summarizes
  <2>3. SameResult(sets[filter].first, next) <=> ResultOf(next) = ResultOf(sets[filter].first)
    BY <1>1, <2>2
  <2> HIDE DEF after
  <2>4. ASSUME filter \in filters PROVE Summarizes(after, filter, rules \cup {next})
    BY <1>2, <1>4, <2>1, <2>2, <2>3, <2>4 DEF Summarizes
  <2>5. ASSUME filter \notin filters PROVE Summarizes(after, filter, rules)
    BY <1>2, <1>4, <2>1, <2>2, <2>5 DEF Summarizes
  <2> QED BY <2>4, <2>5 DEF after
<1> QED BY <1>3, <1>4

\* newConflictTracker: nothing recorded.
LEMMA NewTrackerIsEmpty ==
  Represents(NewTracker, {})
BY DEF Represents, Summarizes, NewTracker

\* conflictTracker.record: the tracker knows of every rule recorded before and
\* of the one recorded now.
THEOREM RecordIsExact ==
  ASSUME NEW tracker, NEW rules, NEW next,
         Known(rules), next.action \in Action, Represents(tracker, rules)
  PROVE Represents(TrackerRecord(tracker, next), rules \cup {next})
<1> DEFINE after == TrackerRecord(tracker, next)
<1> SUFFICES ASSUME NEW filter
             PROVE /\ Summarizes(after.exact, filter,
                                 {rule \in rules \cup {next} : rule.args = filter})
                   /\ Summarizes(after.narrower, filter,
                                 {rule \in rules \cup {next} : filter \in WiderThan(rule.args)})
  BY DEF Represents
<1>1. Summarizes(after.exact, filter, {rule \in rules \cup {next} : rule.args = filter})
  <2> DEFINE these == {rule \in rules : rule.args = filter}
  <2>1. Known(these) /\ Summarizes(tracker.exact, filter, these)
    BY DEF Known, Represents
  <2>2. LET grown == {rule \in rules \cup {next} : rule.args = filter} IN
        /\ filter \in {next.args} => grown = these \cup {next}
        /\ filter \notin {next.args} => grown = these
    OBVIOUS
  <2>3. after.exact = RecordResult(tracker.exact, {next.args}, next)
    BY DEF TrackerRecord
  <2> HIDE DEF these
  <2>4. /\ filter \in {next.args} => Summarizes(after.exact, filter, these \cup {next})
        /\ filter \notin {next.args} => Summarizes(after.exact, filter, these)
    BY <2>1, <2>3, RecordKeepsSummary
  <2> HIDE DEF after
  <2> QED BY <2>2, <2>4
<1>2. Summarizes(after.narrower, filter,
                 {rule \in rules \cup {next} : filter \in WiderThan(rule.args)})
  <2> DEFINE these == {rule \in rules : filter \in WiderThan(rule.args)}
  <2>1. Known(these) /\ Summarizes(tracker.narrower, filter, these)
    BY DEF Known, Represents
  <2>2. LET grown == {rule \in rules \cup {next} : filter \in WiderThan(rule.args)} IN
        /\ filter \in WiderThan(next.args) => grown = these \cup {next}
        /\ filter \notin WiderThan(next.args) => grown = these
    OBVIOUS
  <2>3. after.narrower = RecordResult(tracker.narrower, WiderThan(next.args), next)
    BY DEF TrackerRecord
  <2> HIDE DEF these
  <2>4. /\ filter \in WiderThan(next.args) => Summarizes(after.narrower, filter, these \cup {next})
        /\ filter \notin WiderThan(next.args) => Summarizes(after.narrower, filter, these)
    BY <2>1, <2>3, RecordKeepsSummary
  <2> HIDE DEF after
  <2> QED BY <2>2, <2>4
<1> QED BY <1>1, <1>2

\* conflictTracker.conflicts: without visiting the earlier rules, the answer
\* is that of a comparison with every one of them.
THEOREM TrackerIsExact ==
  ASSUME NEW tracker, NEW rules, NEW next,
         Known(rules), next.action \in Action, Represents(tracker, rules)
  PROVE TrackerConflicts(tracker, next)
          <=> \E rule \in rules : Nested(rule, next) /\ ~SameResult(rule, next)
<1> DEFINE exactly(filter) == {rule \in rules : rule.args = filter}
           narrower == {rule \in rules : next.args \in WiderThan(rule.args)}
<1>1. \A filter : ConflictsWith(tracker.exact, filter, next)
                    <=> \E rule \in exactly(filter) : ~SameResult(rule, next)
  <2> TAKE filter
  <2>1. Known(exactly(filter)) /\ Summarizes(tracker.exact, filter, exactly(filter))
    BY DEF Known, Represents
  <2> QED BY <2>1, ConflictsWithIsExact
<1>2. ConflictsWith(tracker.narrower, next.args, next)
        <=> \E rule \in narrower : ~SameResult(rule, next)
  <2>1. Known(narrower) /\ Summarizes(tracker.narrower, next.args, narrower)
    BY DEF Known, Represents
  <2> QED BY <2>1, ConflictsWithIsExact
<1>3. \A rule \in rules :
        Nested(rule, next)
          <=> \/ rule.args = next.args
              \/ next.args \in WiderThan(rule.args)
              \/ rule.args \in WiderThan(next.args)
  BY DEF Nested, WiderThan
<1> QED BY <1>1, <1>2, <1>3 DEF TrackerConflicts

LEMMA ClashingGrows ==
  ASSUME NEW rules, NEW next, Known(rules), next.action \in Action, ~Clashing(rules)
  PROVE Clashing(rules \cup {next})
          <=> \E rule \in rules : Nested(rule, next) /\ ~SameResult(rule, next)
<1>1. /\ SameResult(next, next)
      /\ \A rule \in rules : /\ SameResult(rule, next) <=> SameResult(next, rule)
                             /\ Nested(rule, next) <=> Nested(next, rule)
  BY SameResultComparesResults DEF Known, Nested
<1> QED BY <1>1 DEF Clashing

LEMMA TrackerStep ==
  ASSUME NEW tracker, NEW rules, NEW next, Known(rules), next.action \in Action,
         Represents(tracker, rules), ~Clashing(rules)
  PROVE /\ TrackerConflicts(tracker, next) <=> Clashing(rules \cup {next})
        /\ Represents(TrackerRecord(tracker, next), rules \cup {next})
BY TrackerIsExact, RecordIsExact, ClashingGrows

-----------------------------------------------------------------------------
(* What the operations on sequences of clauses leave of them *)

LEMMA SeqIs ==
  ASSUME NEW V, NEW s \in Seq(V)
  PROVE  /\ Len(s) \in Nat /\ DOMAIN s = 1..Len(s) /\ ToSet(s) \subseteq V
         /\ \A i \in DOMAIN s : s[i] \in V /\ s[i] \in ToSet(s)
         /\ \A x \in ToSet(s) : \E i \in DOMAIN s : s[i] = x
         /\ s = <<>> <=> ToSet(s) = {}
<1>1. Len(s) \in Nat /\ DOMAIN s = 1..Len(s) /\ \A i \in 1..Len(s) : s[i] \in V
  OBVIOUS
<1>2. s = <<>> <=> Len(s) = 0
  OBVIOUS
<1>3. Len(s) # 0 => 1 \in DOMAIN s
  BY <1>1
<1> QED
  BY <1>1, <1>2, <1>3 DEF ToSet

LEMMA KeepIs ==
  ASSUME NEW V, NEW s \in Seq(V), NEW indices
  PROVE  /\ Keep(s, indices) \in Seq(V)
         /\ ToSet(Keep(s, indices)) = {s[i] : i \in {j \in DOMAIN s : j \in indices}}
<1> DEFINE n == Len(s)
           lists == [i \in DOMAIN s |-> IF i \in indices THEN <<s[i]>> ELSE <<>>]
<1>1. n \in Nat /\ DOMAIN s = 1..n /\ \A i \in 1..n : s[i] \in V
  OBVIOUS
<1>2. \A i \in 1..n : <<s[i]>> \in Seq(V) /\ ToSet(<<s[i]>>) = {s[i]}
  BY <1>1 DEF ToSet
<1>3. <<>> \in Seq(V) /\ ToSet(<<>>) = {}
  BY DEF ToSet
<1> HIDE DEF n
<1>4. /\ lists \in [1..n -> Seq(V)]
      /\ \A i \in 1..n : ToSet(lists[i]) = IF i \in indices THEN {s[i]} ELSE {}
  BY <1>1, <1>2, <1>3
<1>5. Keep(s, indices) = FlattenSeq(lists)
  BY DEF Keep
<1> HIDE DEF lists
<1>6. /\ FlattenSeq(lists) \in Seq(V)
      /\ ToSet(FlattenSeq(lists)) = UNION {ToSet(lists[i]) : i \in 1..n}
  BY <1>1, <1>4, FlattenedElements
<1>7. UNION {ToSet(lists[i]) : i \in 1..n} = {s[i] : i \in {j \in DOMAIN s : j \in indices}}
  BY <1>1, <1>4
<1> QED
  BY <1>5, <1>6, <1>7

LEMMA Counted ==
  ASSUME NEW n \in Nat, NEW i \in 1..n, NEW others \in SUBSET ((1..n) \ {i})
  PROVE  Cardinality(others) + 1 \in 1..n
<1>1. IsFiniteSet(1..n) /\ Cardinality(1..n) = n
  BY FS_Interval
<1>2. /\ IsFiniteSet((1..n) \ {i}) /\ Cardinality((1..n) \ {i}) = n - 1
  BY <1>1, FS_RemoveElement
<1> DEFINE S == (1..n) \ {i}
<1>3. IsFiniteSet(others) /\ Cardinality(others) <= Cardinality(S)
  <2>1. IsFiniteSet(S) /\ others \in SUBSET S
    BY <1>2
  <2> HIDE DEF S
  <2> QED
    BY <2>1, FS_Subset
<1>4. Cardinality(others) \in Nat /\ Cardinality(S) = n - 1
  BY <1>2, <1>3, FS_CardinalityType
<1> QED
  BY <1>3, <1>4

LEMMA ArrangedIs ==
  ASSUME NEW V, NEW s \in Seq(V), NEW before,
         \A i \in DOMAIN s : before[i] \in SUBSET ((DOMAIN s) \ {i})
  PROVE  Arranged(s, before) \in Seq(V) /\ ToSet(Arranged(s, before)) = ToSet(s)
<1> DEFINE n == Len(s)
           at(k) == {i \in DOMAIN s : Cardinality(before[i]) = k - 1}
           lists == [k \in DOMAIN s |-> Keep(s, at(k))]
<1>1. n \in Nat /\ DOMAIN s = 1..n /\ \A i \in 1..n : s[i] \in V
  OBVIOUS
<1> HIDE DEF n
<1>2. \A k \in 1..n : /\ Keep(s, at(k)) \in Seq(V)
                      /\ ToSet(Keep(s, at(k))) = {s[i] : i \in {j \in DOMAIN s : j \in at(k)}}
  <2> HIDE DEF at
  <2> QED
    BY KeepIs
<1>3. lists \in [1..n -> Seq(V)] /\ \A k \in 1..n : ToSet(lists[k]) = {s[i] : i \in at(k)}
  <2>1. \A k : {j \in DOMAIN s : j \in at(k)} = at(k)
    OBVIOUS
  <2> HIDE DEF at
  <2> QED
    BY <1>1, <1>2, <2>1
<1>4. Arranged(s, before) = FlattenSeq(lists)
  BY DEF Arranged
<1>5. \A i \in 1..n : \E k \in 1..n : i \in at(k)
  <2>1. TAKE i \in 1..n
  <2>2. Cardinality(before[i]) + 1 \in 1..n
    BY <1>1, Counted
  <2>3. Cardinality(before[i]) \in Nat
    <3>1. before[i] \in SUBSET (1..n)
      BY <1>1
    <3>2. IsFiniteSet(1..n)
      BY <1>1, FS_Interval
    <3>3. IsFiniteSet(before[i])
      BY <3>1, <3>2, FS_Subset
    <3> QED
      BY <3>3, FS_CardinalityType
  <2>4. i \in at(Cardinality(before[i]) + 1)
    BY <1>1, <2>3
  <2> HIDE DEF at
  <2> QED
    BY <2>2, <2>4
<1>6. \A k : at(k) \subseteq 1..n
  BY <1>1
<1> HIDE DEF lists, at
<1>7. /\ FlattenSeq(lists) \in Seq(V)
      /\ ToSet(FlattenSeq(lists)) = UNION {ToSet(lists[k]) : k \in 1..n}
  BY <1>1, <1>3, FlattenedElements
<1>8. ASSUME NEW x
      PROVE  x \in UNION {ToSet(lists[k]) : k \in 1..n} <=> x \in {s[i] : i \in 1..n}
  <2>1. ASSUME NEW k \in 1..n, x \in ToSet(lists[k]) PROVE x \in {s[i] : i \in 1..n}
    BY <1>3, <1>6, <2>1
  <2>2. ASSUME NEW i \in 1..n, x = s[i] PROVE \E k \in 1..n : x \in ToSet(lists[k])
    BY <1>3, <1>5, <2>2
  <2> QED
    BY <2>1, <2>2
<1>9. UNION {ToSet(lists[k]) : k \in 1..n} = {s[i] : i \in 1..n}
  BY <1>8
<1> QED
  BY <1>1, <1>4, <1>7, <1>9 DEF ToSet

LEMMA SortIs ==
  ASSUME NEW V, NEW s \in Seq(V)
  PROVE  SortClauses(s) \in Seq(V) /\ ToSet(SortClauses(s)) = ToSet(s)
<1> DEFINE key == [i \in DOMAIN s |-> ArgsKey(s[i].args)]
           before == [i \in DOMAIN s |-> {j \in (DOMAIN s) \ {i} :
                        key[j] < key[i] \/ (key[j] = key[i] /\ j < i)}]
<1>1. SortClauses(s) = Arranged(s, before)
  BY DEF SortClauses
<1>2. \A i \in DOMAIN s : before[i] \in SUBSET ((DOMAIN s) \ {i})
  <2> HIDE DEF key
  <2> QED
    OBVIOUS
<1> HIDE DEF before
<1> QED
  BY <1>1, <1>2, ArrangedIs

LEMMA FirstAt ==
  ASSUME NEW V, NEW s \in Seq(V), NEW x \in ToSet(s)
  PROVE  \E i \in DOMAIN s : s[i] = x /\ \A j \in 1..(i - 1) : s[j] # x
<1> DEFINE T == {i \in DOMAIN s : s[i] = x}
<1>1. Len(s) \in Nat /\ DOMAIN s = 1..Len(s)
  OBVIOUS
<1>2. T \in SUBSET Nat /\ T # {}
  BY <1>1 DEF ToSet
<1>3. PICK i \in T : \A j \in T : i <= j
  <2> HIDE DEF T
  <2> QED
    BY <1>2, LeastNatural
<1>4. i \in 1..Len(s) /\ s[i] = x
  BY <1>1
<1>5. ASSUME NEW j \in 1..(i - 1), s[j] = x PROVE FALSE
  <2>1. j \in 1..Len(s) /\ ~(i <= j)
    BY <1>1, <1>4
  <2>2. j \in T
    BY <1>1, <1>5, <2>1
  <2> HIDE DEF T
  <2> QED
    BY <1>3, <2>1, <2>2
<1> QED
  BY <1>1, <1>4, <1>5

LEMMA DedupeIs ==
  ASSUME NEW V, NEW s \in Seq(V)
  PROVE  DedupeClauses(s) \in Seq(V) /\ ToSet(DedupeClauses(s)) = ToSet(s)
<1> DEFINE first == {i \in DOMAIN s : \A j \in 1..(i - 1) : s[j] # s[i]}
<1>1. DedupeClauses(s) = Keep(s, first)
  BY DEF DedupeClauses
<1>2. \A x \in ToSet(s) : \E i \in first : s[i] = x
  BY FirstAt
<1>3. first \subseteq DOMAIN s
  OBVIOUS
<1> HIDE DEF first
<1>4. /\ Keep(s, first) \in Seq(V)
      /\ ToSet(Keep(s, first)) = {s[i] : i \in {j \in DOMAIN s : j \in first}}
  BY KeepIs
<1>5. {s[i] : i \in {j \in DOMAIN s : j \in first}} = ToSet(s)
  BY <1>2, <1>3 DEF ToSet
<1> QED
  BY <1>1, <1>4, <1>5

\* A sequence without repetition of the elements of a finite set.
LEMMA InSomeOrder ==
  ASSUME NEW S, IsFiniteSet(S)
  PROVE  /\ SetToSeq(S) \in Seq(S) /\ ToSet(SetToSeq(S)) = S
         /\ \A i, j \in DOMAIN SetToSeq(S) : SetToSeq(S)[i] = SetToSeq(S)[j] => i = j
<1> DEFINE n == Cardinality(S)
           order == SetToSeq(S)
<1>1. n \in Nat /\ \E f : f \in Bijection(1..n, S)
  BY FS_CardinalityType, FS_NatBijection DEF ExistsBijection
<1>2. PICK f : f \in Bijection(1..n, S)
  BY <1>1
<1>3. f \in [1..n -> S] /\ IsInjective(f)
  BY <1>2 DEF Bijection, Injection, IsInjective
<1>4. order \in [1..n -> S] /\ IsInjective(order)
  BY <1>3 DEF SetToSeq
<1>5. order \in Injection(1..n, S)
  BY <1>4 DEF Injection, IsInjective
<1> HIDE DEF order, n
<1>6. order \in Surjection(1..n, S)
  <2>1. IsFiniteSet(1..n) /\ Cardinality(1..n) = n
    BY <1>1, FS_Interval
  <2> QED
    BY <1>5, <2>1, FS_Injection, FS_Bijection DEF n
<1>7. ToSet(order) = S
  BY <1>4, <1>6 DEF ToSet, Surjection
<1>8. order \in Seq(S)
  BY <1>1, <1>4
<1> QED
  BY <1>4, <1>7, <1>8 DEF IsInjective, order

-----------------------------------------------------------------------------
(* Clauses as a profile loads them *)

\* The conditions of a clause: at most one for each argument, in canonical
\* form, and none that holds of every value.
LoadedFilter(args) ==
  /\ Filter(args) /\ IsFiniteSet(args)
  /\ \A arg \in args : CanonicalArg(arg) = arg /\ ~Tautology(arg)

\* The values of 16 bits.
ErrnoValue == 0..65535

Errnos(action) == IF ErrnoSignificant(action) THEN ErrnoValue ELSE {Unset}

Clause ==
  {c \in [action : Action \ {"KILL_THREAD"}, errno : Int, args : SUBSET Arg] :
     c.errno \in Errnos(c.action) /\ LoadedFilter(c.args)}

Decisive == {c \in Clause : c.args = {}}

Conditional == {c \in Clause : c.args # {}}

\* The clause as it is with other conditions.
Under(clause, args) == [clause EXCEPT !.args = args]

LEMMA EmptyFilter == LoadedFilter({})
  BY FS_EmptySet DEF LoadedFilter, Filter

LEMMA ClauseFields ==
  ASSUME NEW c \in Clause
  PROVE  /\ c.action \in Action /\ c.action # "KILL_THREAD"
         /\ c.errno \in Errnos(c.action) /\ c.errno \in Int
         /\ LoadedFilter(c.args) /\ c.args \in SUBSET Arg
         /\ c = [action |-> c.action, errno |-> c.errno, args |-> c.args]
  BY DEF Clause

LEMMA MakeClause ==
  ASSUME NEW action \in Action \ {"KILL_THREAD"}, NEW errno \in Errnos(action), NEW args,
         LoadedFilter(args)
  PROVE  [action |-> action, errno |-> errno, args |-> args] \in Clause
<1>1. errno \in Int
  BY DEF Errnos, Unset, ErrnoValue
<1>2. args \in SUBSET Arg
  BY DEF LoadedFilter, Filter
<1> QED
  BY <1>1, <1>2 DEF Clause

LEMMA UnderIs ==
  ASSUME NEW c \in Clause, NEW args, LoadedFilter(args)
  PROVE  /\ Under(c, args) \in Clause /\ Under(c, args).args = args
         /\ Under(c, args).action = c.action /\ Under(c, args).errno = c.errno
<1>1. Under(c, args) = [action |-> c.action, errno |-> c.errno, args |-> args]
  BY ClauseFields DEF Under
<1>2. c.action \in Action \ {"KILL_THREAD"} /\ c.errno \in Errnos(c.action)
  BY ClauseFields
<1>3. [action |-> c.action, errno |-> c.errno, args |-> args] \in Clause
  BY <1>2, MakeClause
<1> QED
  BY <1>1, <1>3

LEMMA NoClauseIsNone == NoClause \notin Clause
<1>1. "none" \notin Action
  BY DEF Action
<1> QED
  BY <1>1, ClauseFields DEF NoClause

-----------------------------------------------------------------------------
(* Their ranks *)

LEMMA ActionRank ==
  ASSUME NEW a \in Action
  PROVE  /\ Restrictiveness[a] \in Nat
         /\ a = "ERRNO" <=> Restrictiveness[a] = 3
         /\ a = "TRACE" <=> Restrictiveness[a] = 5
  BY DEF Action, Restrictiveness

LEMMA RankIs ==
  ASSUME NEW c \in Clause
  PROVE  Rank(c) \in Int
  BY ClauseFields, ActionRank DEF Rank

LEMMA RankUnder ==
  ASSUME NEW c \in Clause, NEW args, LoadedFilter(args)
  PROVE  Rank(Under(c, args)) = Rank(c)
  BY UnderIs DEF Rank

LEMMA Comparisons ==
  ASSUME NEW c, NEW d
  PROVE  /\ Equivalent(c, d) <=> Rank(c) = Rank(d)
         /\ Stricter(c, d) <=> Rank(c) < Rank(d)
         /\ SameResult(c, d) => Rank(c) = Rank(d)
  BY DEF Equivalent, Stricter, SameResult, Rank

LEMMA SameActions ==
  ASSUME NEW c \in Clause, NEW d \in Clause, Rank(c) = Rank(d), ErrnoSignificant(c.action)
  PROVE  d.action = c.action
<1>1. c.action \in Action /\ d.action \in Action
  BY ClauseFields
<1>2. c.action = "ERRNO" \/ c.action = "TRACE"
  BY DEF ErrnoSignificant
<1> QED
  BY <1>1, <1>2, ActionRank DEF Rank

LEMMA UnsetErrno ==
  ASSUME NEW c \in Clause, ~ErrnoSignificant(c.action)
  PROVE  c.errno = Unset
<1>1. c.errno \in Errnos(c.action)
  BY ClauseFields
<1>2. Errnos(c.action) = {Unset}
  BY DEF Errnos
<1> QED
  BY <1>1, <1>2

\* Clauses with one result have one errno: where it counts, and where it is
\* left unset.
LEMMA SameResults ==
  ASSUME NEW c \in Clause, NEW d \in Clause
  PROVE  /\ SameResult(c, d) => c.errno = d.errno
         /\ SameResult(c, d) <=> SameResult(d, c)
         /\ SameResult(c, c)
<1>1. Rank(c) = Rank(d) => (ErrnoSignificant(c.action) <=> ErrnoSignificant(d.action))
  <2>1. ASSUME Rank(c) = Rank(d), ErrnoSignificant(c.action) PROVE d.action = c.action
    BY <2>1, SameActions
  <2>2. ASSUME Rank(d) = Rank(c), ErrnoSignificant(d.action) PROVE c.action = d.action
    BY <2>2, SameActions
  <2> QED
    BY <2>1, <2>2 DEF ErrnoSignificant
<1>2. /\ ~ErrnoSignificant(c.action) => c.errno = Unset
      /\ ~ErrnoSignificant(d.action) => d.errno = Unset
  BY UnsetErrno
<1> QED
  BY <1>1, <1>2, Comparisons DEF SameResult

LEMMA SameResultTwice ==
  ASSUME NEW c \in Clause, NEW d \in Clause, NEW e \in Clause, SameResult(c, d), SameResult(d, e)
  PROVE  SameResult(c, e)
<1>1. Rank(c) = Rank(e) /\ c.errno = e.errno
  BY SameResults, Comparisons
<1> QED
  BY <1>1, Comparisons DEF SameResult

LEMMA OtherErrno ==
  ASSUME NEW c \in Clause, NEW d \in Clause, Rank(c) = Rank(d), ErrnoSignificant(d.action)
  PROVE  /\ [c EXCEPT !.errno = d.errno] \in Clause
         /\ [c EXCEPT !.errno = d.errno].args = c.args
         /\ [c EXCEPT !.errno = d.errno].action = c.action
         /\ Rank([c EXCEPT !.errno = d.errno]) = Rank(c)
<1>1. c.action = d.action
  BY SameActions
<1>2. [c EXCEPT !.errno = d.errno] = [action |-> c.action, errno |-> d.errno, args |-> c.args]
  BY ClauseFields
<1>3. /\ c.action \in Action \ {"KILL_THREAD"} /\ d.errno \in Errnos(c.action)
      /\ LoadedFilter(c.args)
  BY <1>1, ClauseFields
<1>4. [action |-> c.action, errno |-> d.errno, args |-> c.args] \in Clause
  BY <1>3, MakeClause
<1> QED
  BY <1>2, <1>4 DEF Rank

LEMMA PickedClause ==
  ASSUME NEW c \in Clause, NEW d \in Clause
  PROVE  /\ PickClause(c, d) = c \/ PickClause(c, d) = d
         /\ PickClause(c, d) \in Clause
         /\ Intersecting => Rank(PickClause(c, d)) <= Rank(c) /\ Rank(PickClause(c, d)) <= Rank(d)
         /\ ~Intersecting => Rank(PickClause(c, d)) >= Rank(c) /\ Rank(PickClause(c, d)) >= Rank(d)
<1>1. Rank(c) \in Int /\ Rank(d) \in Int
  BY RankIs
<1>2. CASE Intersecting
  <2>1. PickClause(c, d) = IF Rank(d) < Rank(c) THEN d ELSE c
    BY <1>2, Comparisons DEF PickClause, MoreRestrictive
  <2> QED
    BY <1>1, <1>2, <2>1
<1>3. CASE ~Intersecting
  <2>1. PickClause(c, d) = IF Rank(c) < Rank(d) THEN d ELSE c
    BY <1>3, Comparisons DEF PickClause, LessRestrictive
  <2> QED
    BY <1>1, <1>3, <2>1
<1> QED
  BY <1>2, <1>3

-----------------------------------------------------------------------------
(* The strictest and the loosest of some clauses *)

LEMMA StrictestIs ==
  ASSUME NEW s \in Seq(Clause), s # <<>>
  PROVE  FirstStrictest(s) \in ToSet(s) /\ \A c \in ToSet(s) : Rank(FirstStrictest(s)) <= Rank(c)
<1> DEFINE best == {i \in DOMAIN s : \A j \in DOMAIN s : ~Stricter(s[j], s[i])}
           R == {Rank(s[i]) : i \in DOMAIN s}
<1>1. /\ Len(s) \in Nat /\ DOMAIN s = 1..Len(s) /\ DOMAIN s # {}
      /\ \A i \in DOMAIN s : s[i] \in Clause
  OBVIOUS
<1>2. \A i \in DOMAIN s : Rank(s[i]) \in Nat
  BY <1>1, ClauseFields, ActionRank DEF Rank
<1>3. R \in SUBSET Nat /\ R # {}
  BY <1>1, <1>2
<1>4. PICK m \in R : \A k \in R : m <= k
  <2> HIDE DEF R
  <2> QED
    BY <1>3, LeastNatural
<1>5. PICK i \in DOMAIN s : m = Rank(s[i])
  BY <1>4
<1>6. \A j \in DOMAIN s : m <= Rank(s[j])
  BY <1>4
<1>7. i \in best
  BY <1>2, <1>5, <1>6, Comparisons
<1>8. best \in SUBSET (1..Len(s))
  BY <1>1
<1> DEFINE k == Min(best)
<1>9. k \in best
  <2> HIDE DEF best
  <2> QED
    BY <1>1, <1>7, <1>8, LeastPicks
<1>10. FirstStrictest(s) = s[k]
  BY DEF FirstStrictest
<1>11. k \in DOMAIN s /\ \A j \in DOMAIN s : ~Stricter(s[j], s[k])
  BY <1>9
<1> HIDE DEF k
<1>12. \A j \in DOMAIN s : Rank(s[k]) <= Rank(s[j])
  BY <1>2, <1>11, Comparisons
<1> QED
  BY <1>10, <1>11, <1>12 DEF ToSet

LEMMA LoosestIs ==
  ASSUME NEW s \in Seq(Clause), s # <<>>
  PROVE  FirstLoosest(s) \in ToSet(s) /\ \A c \in ToSet(s) : Rank(FirstLoosest(s)) >= Rank(c)
<1> DEFINE best == {i \in DOMAIN s : \A j \in DOMAIN s : ~Stricter(s[i], s[j])}
           R == {7 - Rank(s[i]) : i \in DOMAIN s}
<1>1. /\ Len(s) \in Nat /\ DOMAIN s = 1..Len(s) /\ DOMAIN s # {}
      /\ \A i \in DOMAIN s : s[i] \in Clause
  OBVIOUS
<1>2. \A i \in DOMAIN s : Rank(s[i]) \in Nat /\ Rank(s[i]) <= 7
  <2>1. \A a \in Action : Restrictiveness[a] \in Nat /\ Restrictiveness[a] <= 7
    BY DEF Action, Restrictiveness
  <2> QED
    BY <1>1, <2>1, ClauseFields DEF Rank
<1>3. R \in SUBSET Nat /\ R # {}
  BY <1>1, <1>2
<1>4. PICK m \in R : \A k \in R : m <= k
  <2> HIDE DEF R
  <2> QED
    BY <1>3, LeastNatural
<1>5. PICK i \in DOMAIN s : m = 7 - Rank(s[i])
  BY <1>4
<1>6. \A j \in DOMAIN s : m <= 7 - Rank(s[j])
  BY <1>4
<1>7. i \in best
  BY <1>2, <1>5, <1>6, Comparisons
<1>8. best \in SUBSET (1..Len(s))
  BY <1>1
<1> DEFINE k == Min(best)
<1>9. k \in best
  <2> HIDE DEF best
  <2> QED
    BY <1>1, <1>7, <1>8, LeastPicks
<1>10. FirstLoosest(s) = s[k]
  BY DEF FirstLoosest
<1>11. k \in DOMAIN s /\ \A j \in DOMAIN s : ~Stricter(s[k], s[j])
  BY <1>9
<1> HIDE DEF k
<1>12. \A j \in DOMAIN s : Rank(s[k]) >= Rank(s[j])
  BY <1>2, <1>11, Comparisons
<1> QED
  BY <1>10, <1>11, <1>12 DEF ToSet

LEMMA PickedAmong ==
  ASSUME NEW s \in Seq(Clause), s # <<>>
  PROVE  /\ PickAmong(s) \in ToSet(s) /\ PickAmong(s) \in Clause
         /\ \A c \in ToSet(s) : /\ Intersecting => Rank(PickAmong(s)) <= Rank(c)
                                /\ ~Intersecting => Rank(PickAmong(s)) >= Rank(c)
<1>1. ToSet(s) \subseteq Clause
  BY SeqIs
<1> QED
  BY <1>1, StrictestIs, LoosestIs DEF PickAmong

LEMMA OneElement ==
  ASSUME NEW V, NEW x \in V
  PROVE  <<x>> \in Seq(V) /\ ToSet(<<x>>) = {x} /\ Len(<<x>>) = 1
  BY DEF ToSet

\* One clause in place of many is on the safe side of each.
LEMMA CollapsedIs ==
  ASSUME NEW f \in Decisive, NEW s \in Seq(Clause)
  PROVE  LET all == CollapseAll(f, s) IN
         /\ all \in Decisive
         /\ \A c \in ToSet(s) \cup {f} : /\ Intersecting => Rank(all) <= Rank(c)
                                         /\ ~Intersecting => Rank(all) >= Rank(c)
<1> DEFINE every == <<f>> \o s
<1>1. f \in Clause /\ f # NoClause
  BY NoClauseIsNone DEF Decisive
<1> DEFINE one == <<f>>
<1>2. one \in Seq(Clause) /\ ToSet(one) = {f} /\ Len(one) = 1
  BY <1>1, OneElement
<1>3. every \in Seq(Clause) /\ ToSet(every) = {f} \cup ToSet(s)
  <2>1. every = one \o s
    OBVIOUS
  <2> HIDE DEF one, every
  <2> QED
    BY <1>2, <2>1, ConcatElements
<1>4. every # <<>>
  BY <1>2
<1>5. CollapseAll(f, s) = Under(PickAmong(every), {})
  BY <1>1, <1>4 DEF CollapseAll, Under
<1> HIDE DEF every
<1>6. PickAmong(every) \in Clause
  BY <1>3, <1>4, PickedAmong
<1>7. /\ Under(PickAmong(every), {}) \in Decisive
      /\ Rank(Under(PickAmong(every), {})) = Rank(PickAmong(every))
  BY <1>6, EmptyFilter, UnderIs, RankUnder DEF Decisive
<1> QED
  BY <1>3, <1>4, <1>5, <1>7, PickedAmong

-----------------------------------------------------------------------------
(* The filters a call meets, in the way an architecture compares values *)

Met(narrow, call) == {args \in SUBSET Arg : Matches(ReadAs(args, narrow), call)}

Plain(args, narrow) == narrow => \A arg \in args : ~WideArg(arg)

\* Filters that mean on an architecture what they say.
PlainFilter(narrow) == {args \in SUBSET Arg : LoadedFilter(args) /\ Plain(args, narrow)}

Readable(narrow) == {c \in Conditional : c.args \in PlainFilter(narrow)}

LEMMA LowIs == MaxLow \in Value /\ MaxLow \in Int /\ 0 <= MaxLow
<1>1. MaxLow \in Value
  BY ArgsAssumption, Zenon
<1> QED
  BY <1>1, ValueFacts

LEMMA LowBits ==
  ASSUME NEW v \in Value, v <= MaxLow
  PROVE  And[v, MaxLow] = v
<1>1. \A w \in 0..MaxLow : And[w, MaxLow] = w
  BY ArgsAssumption, Zenon
<1>2. v \in 0..MaxLow
  BY LowIs, ValueFacts
<1> QED
  BY <1>1, <1>2, Zenon

LEMMA CallIs ==
  ASSUME NEW narrow \in BOOLEAN, NEW call \in Calls(narrow)
  PROVE  call \in [Index -> Value]
<1>1. 0..MaxLow \subseteq Value
  <2>1. MaxLow \in Int /\ MaxLow <= MaxValue /\ MaxValue \in Int
    BY LowIs, ValueFacts
  <2> QED
    BY <2>1 DEF Value
<1> QED
  BY <1>1 DEF Calls

LEMMA PlainReads ==
  ASSUME NEW narrow \in BOOLEAN, NEW args \in PlainFilter(narrow)
  PROVE  ReadAs(args, narrow) = args
<1>1. CASE ~narrow
  BY <1>1 DEF ReadAs
<1>2. CASE narrow
  <2>1. \A arg \in args : arg \in Arg /\ ~WideArg(arg)
    BY <1>2 DEF PlainFilter, Plain
  <2>2. ASSUME NEW arg \in args
        PROVE [arg EXCEPT !.value = And[arg.value, MaxLow], !.two = And[arg.two, MaxLow]] = arg
    <3>1. arg \in Arg /\ arg.value \in Value /\ arg.two \in Value
      BY <2>1, ArgFields
    <3>2. arg.value <= MaxLow /\ arg.two <= MaxLow
      <4>1. arg.value \in Int /\ arg.two \in Int
        BY <3>1, ValueFacts
      <4> QED
        BY <2>1, <4>1, LowIs DEF WideArg
    <3>3. And[arg.value, MaxLow] = arg.value /\ And[arg.two, MaxLow] = arg.two
      BY <3>1, <3>2, LowBits
    <3> QED
      BY <3>1, <3>3 DEF Arg
  <2>3. LowHalf(args) = args
    BY <2>2 DEF LowHalf
  <2> QED
    BY <1>2, <2>3 DEF ReadAs
<1> QED
  BY <1>1, <1>2

LEMMA MetIs ==
  ASSUME NEW narrow \in BOOLEAN, NEW args \in PlainFilter(narrow), NEW call
  PROVE  /\ args \in Met(narrow, call) <=> Matches(args, call)
         /\ Filter(args) /\ IsFiniteSet(args)
  BY PlainReads DEF Met, PlainFilter, LoadedFilter

LEMMA MetDisjoint ==
  ASSUME NEW narrow \in BOOLEAN, NEW call \in Calls(narrow), NEW left \in PlainFilter(narrow),
         NEW right \in PlainFilter(narrow), ArgsDisjoint(left, right), left \in Met(narrow, call)
  PROVE  right \notin Met(narrow, call)
  BY MetIs, CallIs, ArgsDisjointIsSound

LEMMA MetCover ==
  ASSUME NEW narrow \in BOOLEAN, NEW call \in Calls(narrow), NEW wide \in PlainFilter(narrow),
         NEW thin \in PlainFilter(narrow), ArgsCover(wide, thin), thin \in Met(narrow, call)
  PROVE  wide \in Met(narrow, call)
  BY MetIs, CallIs, ArgsCoverIsSound

LEMMA ConjoinedFilter ==
  ASSUME NEW narrow \in BOOLEAN, NEW left \in PlainFilter(narrow), NEW right \in PlainFilter(narrow)
  PROVE  /\ ConjoinArgs(left, right) \in PlainFilter(narrow)
         /\ right # {} => ConjoinArgs(left, right) # {}
<1> DEFINE both == ConjoinArgs(left, right)
           ls == {l \in left : \A r \in right : r.index = l.index => CondImplies(l, r)}
           rs == {r \in right : \A l \in left : l.index = r.index => ~CondImplies(l, r)}
<1>1. both = ls \cup rs
  BY DEF ConjoinArgs
<1>2. /\ Filter(left) /\ IsFiniteSet(left) /\ left \in SUBSET Arg /\ Plain(left, narrow)
      /\ Filter(right) /\ IsFiniteSet(right) /\ right \in SUBSET Arg /\ Plain(right, narrow)
      /\ \A arg \in left \cup right : CanonicalArg(arg) = arg /\ ~Tautology(arg)
  BY DEF PlainFilter, LoadedFilter
<1>3. ls \subseteq left /\ rs \subseteq right
  OBVIOUS
<1>4. \A l \in ls, r \in rs : l.index # r.index
  <2>1. TAKE l \in ls, r \in rs
  <2>2. SUFFICES ASSUME l.index = r.index PROVE FALSE
    OBVIOUS
  <2>3. r \in right /\ l \in left
    BY <1>3
  <2>4. CondImplies(l, r)
    BY <2>2, <2>3
  <2>5. ~CondImplies(l, r)
    BY <2>2, <2>3
  <2> QED
    BY <2>4, <2>5
<1>5. right # {} => both # {}
  <2>1. SUFFICES ASSUME NEW r \in right, r \notin rs PROVE ls # {}
    BY <1>1
  <2>2. PICK l \in left : l.index = r.index /\ CondImplies(l, r)
    BY <2>1
  <2>3. \A other \in right : other.index = l.index => other = r
    BY <1>2, <2>2 DEF Filter
  <2>4. l \in ls
    BY <2>2, <2>3
  <2> QED
    BY <2>4
<1> HIDE DEF both, ls, rs
<1>6. IsFiniteSet(both) /\ both \in SUBSET Arg
  <2>1. IsFiniteSet(left \cup right)
    BY <1>2, FS_Union
  <2>2. both \in SUBSET (left \cup right)
    BY <1>1, <1>3
  <2>3. IsFiniteSet(both)
    <3> DEFINE all == left \cup right
    <3>1. IsFiniteSet(all) /\ both \in SUBSET all
      BY <2>1, <2>2
    <3> HIDE DEF all
    <3> QED
      BY <3>1, FS_Subset
  <2> QED
    BY <1>2, <2>2, <2>3
<1>7. Filter(both)
  <2>1. \A a \in both : a \in Arg /\ Canonical(a)
    BY <1>1, <1>2, <1>3 DEF Filter
  <2>2. \A a, b \in both : a.index = b.index => a = b
    BY <1>1, <1>2, <1>3, <1>4 DEF Filter
  <2> QED
    BY <2>1, <2>2 DEF Filter
<1>8. \A arg \in both : CanonicalArg(arg) = arg /\ ~Tautology(arg)
  BY <1>1, <1>2, <1>3
<1>9. Plain(both, narrow)
  BY <1>1, <1>2, <1>3 DEF Plain
<1> QED
  BY <1>5, <1>6, <1>7, <1>8, <1>9 DEF both, PlainFilter, LoadedFilter

LEMMA MetConjoin ==
  ASSUME NEW narrow \in BOOLEAN, NEW call \in Calls(narrow), NEW left \in PlainFilter(narrow),
         NEW right \in PlainFilter(narrow), Conjoinable(left, right)
  PROVE  ConjoinArgs(left, right) \in Met(narrow, call)
           <=> left \in Met(narrow, call) /\ right \in Met(narrow, call)
<1>1. ConjoinArgs(left, right) \in PlainFilter(narrow)
  BY ConjoinedFilter
<1>2. ConjoinArgs(left, right) \in Met(narrow, call) <=> Matches(ConjoinArgs(left, right), call)
  BY <1>1, MetIs
<1>3. Matches(ConjoinArgs(left, right), call) <=> Matches(left, call) /\ Matches(right, call)
  BY MetIs, CallIs, ConjoinArgsIsExact
<1> QED
  BY <1>2, <1>3, MetIs

LEMMA ComplementFilter ==
  ASSUME NEW narrow \in BOOLEAN, NEW arg, {arg} \in PlainFilter(narrow), HasComplement(arg)
  PROVE  {ComplementArg(arg)} \in PlainFilter(narrow)
<1> DEFINE comp == ComplementArg(arg)
<1>1. arg \in Arg /\ Plain({arg}, narrow)
  BY DEF PlainFilter
<1>2. /\ arg.index \in Index /\ arg.op \in {"EQ", "NE", "LT", "GE", "LE", "GT"} /\ arg.value \in Value
  BY <1>1, ArgFields DEF Op, HasComplement
<1>3. comp = [index |-> arg.index, op |-> ComplementOp[arg.op], value |-> arg.value, two |-> 0]
  BY DEF ComplementArg
<1>4. ComplementOp[arg.op] \in {"EQ", "NE", "LT", "GE", "LE", "GT"}
  BY <1>2 DEF ComplementOp
<1>5. 0 \in Value
  BY <1>2, ValueFacts
<1>6. comp \in Arg /\ comp.op # "MASKED_EQ" /\ comp.value = arg.value /\ comp.two = 0
  BY <1>2, <1>3, <1>4, <1>5 DEF Arg, Op
<1>7. CanonicalArg(comp) = comp /\ ~Tautology(comp) /\ Canonical(comp)
  BY <1>3, <1>6 DEF CanonicalArg, Tautology, Canonical
<1>8. Plain({comp}, narrow)
  <2>1. SUFFICES ASSUME narrow PROVE ~WideArg(comp)
    BY DEF Plain
  <2>2. ~WideArg(arg)
    BY <1>1, <2>1 DEF Plain
  <2> QED
    BY <1>6, <2>2, LowIs DEF WideArg
<1>9. IsFiniteSet({comp})
  BY FS_Singleton
<1> HIDE DEF comp
<1> QED
  BY <1>6, <1>7, <1>8, <1>9 DEF comp, PlainFilter, LoadedFilter, Filter

LEMMA MetComplement ==
  ASSUME NEW narrow \in BOOLEAN, NEW call \in Calls(narrow), NEW arg,
         {arg} \in PlainFilter(narrow), HasComplement(arg)
  PROVE  {ComplementArg(arg)} \in Met(narrow, call) <=> {arg} \notin Met(narrow, call)
<1>1. arg \in Arg
  BY DEF PlainFilter
<1>2. {ComplementArg(arg)} \in Met(narrow, call) <=> Matches({ComplementArg(arg)}, call)
  BY ComplementFilter, MetIs
<1>3. {arg} \in Met(narrow, call) <=> Matches({arg}, call)
  BY MetIs
<1>4. Matches({arg}, call) <=> CondHolds(arg, call[arg.index])
  BY DEF Matches
<1>5. Matches({ComplementArg(arg)}, call) <=> CondHolds(ComplementArg(arg), call[arg.index])
  BY DEF Matches, ComplementArg
<1>6. call[arg.index] \in Value
  BY <1>1, CallIs, CallFacts
<1>7. CondHolds(ComplementArg(arg), call[arg.index]) <=> ~CondHolds(arg, call[arg.index])
  BY <1>1, <1>6, ComplementArgIsExact
<1> QED
  BY <1>2, <1>3, <1>4, <1>5, <1>7

-----------------------------------------------------------------------------
(* What clauses, and a fallback where none applies, decide of a call that   *)
(* meets the filters of a set: of several clauses the loosest, until they   *)
(* are settled                                                              *)

AtMost(clauses, fallback, met, rank) ==
  /\ \A c \in clauses : c.args \in met => Rank(c) <= rank
  /\ (\A c \in clauses : c.args \notin met) => Rank(fallback) <= rank

AtLeast(clauses, fallback, met, rank) ==
  \/ \E c \in clauses : c.args \in met /\ Rank(c) >= rank
  \/ (\A c \in clauses : c.args \notin met) /\ Rank(fallback) >= rank

\* On the safe side of a rank.
Heeds(clauses, fallback, met, rank) ==
  IF Intersecting THEN AtMost(clauses, fallback, met, rank)
  ELSE AtLeast(clauses, fallback, met, rank)

LEMMA ReadableIs ==
  ASSUME NEW narrow, NEW c \in Readable(narrow)
  PROVE  /\ c \in Clause /\ c.args \in PlainFilter(narrow) /\ c.args # {}
         /\ LoadedFilter(c.args) /\ Rank(c) \in Int
  BY RankIs DEF Readable, Conditional, PlainFilter

LEMMA ReadableUnder ==
  ASSUME NEW narrow, NEW c \in Clause, NEW args \in PlainFilter(narrow), args # {}
  PROVE  /\ Under(c, args) \in Readable(narrow) /\ Under(c, args).args = args
         /\ Rank(Under(c, args)) = Rank(c)
<1>1. LoadedFilter(args)
  BY DEF PlainFilter
<1> QED
  BY <1>1, UnderIs, RankUnder DEF Readable, Conditional

-----------------------------------------------------------------------------
(* Adjusting a clause to the other side *)

LEMMA SubsumedIs ==
  ASSUME NEW c, NEW others
  PROVE  Subsumed(c, others) <=>
           \E i \in DOMAIN others : /\ ~ArgsDisjoint(c.args, others[i].args)
                                    /\ ArgsCover(others[i].args, c.args)
  BY DEF Subsumed

LEMMA OverlappingIs ==
  ASSUME NEW V, NEW c, NEW others \in Seq(V)
  PROVE  /\ Overlapping(c, others) \in Seq(V)
         /\ ToSet(Overlapping(c, others)) =
              {others[i] : i \in {j \in DOMAIN others : ~ArgsDisjoint(c.args, others[j].args)}}
<1> DEFINE meeting == {i \in DOMAIN others : ~ArgsDisjoint(c.args, others[i].args)}
<1>1. Overlapping(c, others) = Keep(others, meeting)
  BY DEF Overlapping
<1>2. {j \in DOMAIN others : j \in meeting} = meeting
  OBVIOUS
<1> HIDE DEF meeting
<1>3. /\ Keep(others, meeting) \in Seq(V)
      /\ ToSet(Keep(others, meeting)) = {others[i] : i \in {j \in DOMAIN others : j \in meeting}}
  BY KeepIs
<1> QED
  BY <1>1, <1>2, <1>3 DEF meeting

\* In an intersection a clause takes the strictest action of the clauses of
\* the other side that may meet its calls.
LEMMA StrictestOverlap ==
  ASSUME NEW c \in Clause, NEW others \in Seq(Clause), Intersecting
  PROVE  LET a == PickAmong(<<c>> \o Overlapping(c, others)) IN
         /\ a \in Clause /\ Rank(a) <= Rank(c)
         /\ \A i \in DOMAIN others :
              ~ArgsDisjoint(c.args, others[i].args) => Rank(a) <= Rank(others[i])
<1> DEFINE one == <<c>>
           over == Overlapping(c, others)
           every == one \o over
<1>1. one \in Seq(Clause) /\ ToSet(one) = {c} /\ Len(one) = 1
  BY OneElement
<1>2. /\ over \in Seq(Clause)
      /\ ToSet(over) =
           {others[i] : i \in {j \in DOMAIN others : ~ArgsDisjoint(c.args, others[j].args)}}
  BY OverlappingIs
<1> HIDE DEF one, over
<1>3. every \in Seq(Clause) /\ ToSet(every) = {c} \cup ToSet(over)
  BY <1>1, <1>2, ConcatElements
<1>4. every # <<>>
  BY <1>1, <1>2
<1> HIDE DEF every
<1>5. PickAmong(every) \in Clause /\ \A d \in ToSet(every) : Rank(PickAmong(every)) <= Rank(d)
  BY <1>3, <1>4, PickedAmong
<1>6. \A i \in DOMAIN others :
        ~ArgsDisjoint(c.args, others[i].args) => others[i] \in ToSet(every)
  BY <1>2, <1>3
<1> QED
  BY <1>3, <1>5, <1>6 DEF every, one, over

\* What a clause becomes beside the clauses and the fallback of the other side.
Adjusts(a, c, others, f) ==
  /\ a.args = c.args
  /\ Intersecting =>
       /\ Rank(a) <= Rank(c)
       /\ ~Subsumed(c, others) => Rank(a) <= Rank(f)
       /\ \A i \in DOMAIN others :
            ~ArgsDisjoint(c.args, others[i].args) => Rank(a) <= Rank(others[i])
  /\ ~Intersecting =>
       /\ Rank(a) >= Rank(c)
       /\ ~Subsumed(c, others) => Rank(a) >= Rank(f)

LEMMA AdjustedIs ==
  ASSUME NEW narrow, NEW c \in Readable(narrow), NEW others \in Seq(Clause), NEW f \in Decisive
  PROVE  /\ AdjustClause(c, others, f) \in Readable(narrow)
         /\ Adjusts(AdjustClause(c, others, f), c, others, f)
<1> DEFINE strict == PickAmong(<<c>> \o Overlapping(c, others))
           adjusted == IF Intersecting THEN strict ELSE c
           a == AdjustClause(c, others, f)
<1>1. /\ c \in Clause /\ c.args \in PlainFilter(narrow) /\ c.args # {} /\ Rank(c) \in Int
      /\ f \in Clause /\ f # NoClause /\ Rank(f) \in Int
      /\ \A i \in DOMAIN others : others[i] \in Clause /\ Rank(others[i]) \in Int
  BY ReadableIs, RankIs, NoClauseIsNone, SeqIs DEF Decisive
<1>2. ASSUME Intersecting
      PROVE  /\ strict \in Clause /\ Rank(strict) <= Rank(c)
             /\ \A i \in DOMAIN others :
                  ~ArgsDisjoint(c.args, others[i].args) => Rank(strict) <= Rank(others[i])
  BY <1>1, <1>2, StrictestOverlap
<1>3. a = IF Subsumed(c, others) THEN Under(adjusted, c.args)
          ELSE Under(PickClause(adjusted, f), c.args)
  BY <1>1 DEF AdjustClause, Under
<1> HIDE DEF a, strict
<1>4. adjusted \in Clause /\ Rank(adjusted) \in Int
  BY <1>1, <1>2, RankIs
<1>5. /\ (~Intersecting => adjusted = c) /\ (Intersecting => adjusted = strict)
  OBVIOUS
<1> HIDE DEF adjusted
<1> DEFINE p == PickClause(adjusted, f)
<1>6. /\ p \in Clause /\ Rank(p) \in Int
      /\ Intersecting => Rank(p) <= Rank(adjusted) /\ Rank(p) <= Rank(f)
      /\ ~Intersecting => Rank(p) >= Rank(adjusted) /\ Rank(p) >= Rank(f)
  BY <1>1, <1>4, PickedClause, RankIs
<1> HIDE DEF p
<1>7. /\ Under(adjusted, c.args) \in Readable(narrow) /\ Under(p, c.args) \in Readable(narrow)
      /\ Under(adjusted, c.args).args = c.args /\ Under(p, c.args).args = c.args
      /\ Rank(Under(adjusted, c.args)) = Rank(adjusted) /\ Rank(Under(p, c.args)) = Rank(p)
  BY <1>1, <1>4, <1>6, ReadableUnder
<1>8. PICK q : /\ a = Under(q, c.args) /\ q \in {adjusted, p}
               /\ ~Subsumed(c, others) => q = p
  BY <1>3 DEF p
<1>9. a \in Readable(narrow) /\ a.args = c.args /\ Rank(a) = Rank(q) /\ Rank(q) \in Int
  BY <1>4, <1>6, <1>7, <1>8
<1>10. ASSUME Intersecting
       PROVE  /\ Rank(q) <= Rank(c)
              /\ ~Subsumed(c, others) => Rank(q) <= Rank(f)
              /\ \A i \in DOMAIN others :
                   ~ArgsDisjoint(c.args, others[i].args) => Rank(q) <= Rank(others[i])
  <2>1. Rank(q) <= Rank(adjusted) /\ Rank(adjusted) \in Int
    BY <1>4, <1>6, <1>8, <1>10
  <2>2. Rank(adjusted) <= Rank(c) /\ \A i \in DOMAIN others :
          ~ArgsDisjoint(c.args, others[i].args) => Rank(adjusted) <= Rank(others[i])
    BY <1>2, <1>5, <1>10
  <2>3. Rank(q) <= Rank(c)
    BY <1>1, <1>9, <2>1, <2>2
  <2>4. ASSUME NEW i \in DOMAIN others, ~ArgsDisjoint(c.args, others[i].args)
        PROVE  Rank(q) <= Rank(others[i])
    <3>1. Rank(adjusted) <= Rank(others[i]) /\ Rank(others[i]) \in Int
      BY <1>1, <2>2, <2>4
    <3> QED
      BY <1>9, <2>1, <3>1
  <2>5. ~Subsumed(c, others) => Rank(q) <= Rank(f)
    BY <1>6, <1>8, <1>10
  <2> QED
    BY <2>3, <2>4, <2>5
<1>11. ASSUME ~Intersecting
       PROVE  Rank(q) >= Rank(c) /\ (~Subsumed(c, others) => Rank(q) >= Rank(f))
  BY <1>1, <1>4, <1>5, <1>6, <1>8, <1>9, <1>11
<1>12. Adjusts(a, c, others, f)
  BY <1>9, <1>10, <1>11 DEF Adjusts
<1> QED
  BY <1>9, <1>12 DEF a

\* The same, of a call that meets the clause.
LEMMA AdjustedMeets ==
  ASSUME NEW narrow \in BOOLEAN, NEW call \in Calls(narrow), NEW c \in Readable(narrow),
         NEW others \in Seq(Readable(narrow)), NEW f, NEW a, Adjusts(a, c, others, f),
         c.args \in Met(narrow, call)
  PROVE  /\ Intersecting =>
              /\ Rank(a) <= Rank(c)
              /\ \A o \in ToSet(others) : o.args \in Met(narrow, call) => Rank(a) <= Rank(o)
              /\ (\A o \in ToSet(others) : o.args \notin Met(narrow, call)) => Rank(a) <= Rank(f)
         /\ ~Intersecting =>
              /\ Rank(a) >= Rank(c)
              /\ (\A o \in ToSet(others) : o.args \notin Met(narrow, call)) => Rank(a) >= Rank(f)
<1> DEFINE M == Met(narrow, call)
<1>1. /\ c.args \in PlainFilter(narrow)
      /\ \A i \in DOMAIN others : others[i].args \in PlainFilter(narrow)
  BY ReadableIs, SeqIs
<1>2. ASSUME NEW i \in DOMAIN others, others[i].args \in M
      PROVE  ~ArgsDisjoint(c.args, others[i].args)
  BY <1>1, <1>2, MetDisjoint
<1>3. ASSUME NEW i \in DOMAIN others, ArgsCover(others[i].args, c.args)
      PROVE  others[i].args \in M
  BY <1>1, <1>3, MetCover
<1>4. ASSUME \A o \in ToSet(others) : o.args \notin M
      PROVE  ~Subsumed(c, others)
  BY <1>3, <1>4, SeqIs, SubsumedIs
<1>5. ASSUME Intersecting, NEW o \in ToSet(others), o.args \in M
      PROVE  Rank(a) <= Rank(o)
  <2>1. PICK i \in DOMAIN others : others[i] = o
    BY SeqIs
  <2>2. ~ArgsDisjoint(c.args, others[i].args)
    BY <1>2, <1>5, <2>1
  <2> QED
    BY <1>5, <2>1, <2>2 DEF Adjusts
<1>6. Intersecting => Rank(a) <= Rank(c)
  BY DEF Adjusts
<1>7. ~Intersecting => Rank(a) >= Rank(c)
  BY DEF Adjusts
<1>8. ASSUME \A o \in ToSet(others) : o.args \notin M
      PROVE  /\ Intersecting => Rank(a) <= Rank(f)
             /\ ~Intersecting => Rank(a) >= Rank(f)
  BY <1>4, <1>8 DEF Adjusts
<1> QED
  BY <1>5, <1>6, <1>7, <1>8

-----------------------------------------------------------------------------
(* Merging the rules of two sides *)

AdjustedFrom(adjusted, clauses, others, f) ==
  /\ \A a \in adjusted : \E c \in ToSet(clauses) : Adjusts(a, c, others, f)
  /\ \A c \in ToSet(clauses) : \E a \in adjusted : Adjusts(a, c, others, f)

LEMMA AdjustedClausesAre ==
  ASSUME NEW narrow, NEW clauses \in Seq(Readable(narrow)), NEW others \in Seq(Readable(narrow)),
         NEW f \in Decisive
  PROVE  /\ AdjustClauses(clauses, others, f) \in Seq(Readable(narrow))
         /\ AdjustedFrom(ToSet(AdjustClauses(clauses, others, f)), clauses, others, f)
<1> DEFINE V == Readable(narrow)
           each == [i \in DOMAIN clauses |-> AdjustClause(clauses[i], others, f)]
           kept == {i \in DOMAIN clauses :
                      Intersecting /\ f = NoClause => Subsumed(clauses[i], others)}
<1>1. f # NoClause
  BY NoClauseIsNone DEF Decisive
<1>2. /\ Len(clauses) \in Nat /\ DOMAIN clauses = 1..Len(clauses)
      /\ \A i \in DOMAIN clauses : clauses[i] \in V /\ clauses[i] \in ToSet(clauses)
      /\ \A c \in ToSet(clauses) : \E i \in DOMAIN clauses : clauses[i] = c
  BY SeqIs
<1>3. others \in Seq(Clause)
  <2>1. Readable(narrow) \subseteq Clause
    BY ReadableIs
  <2> QED
    BY <2>1
<1>4. \A i \in DOMAIN clauses :
        each[i] \in V /\ Adjusts(each[i], clauses[i], others, f)
  BY <1>2, <1>3, AdjustedIs
<1>5. each \in Seq(V) /\ DOMAIN each = DOMAIN clauses
  BY <1>2, <1>4
<1>6. kept = DOMAIN clauses
  BY <1>1
<1>7. AdjustClauses(clauses, others, f) = Keep(each, kept)
  BY <1>1 DEF AdjustClauses
<1> HIDE DEF each, kept, V
<1>8. /\ Keep(each, kept) \in Seq(V)
      /\ ToSet(Keep(each, kept)) = {each[i] : i \in {j \in DOMAIN each : j \in kept}}
  BY <1>5, KeepIs
<1>9. ToSet(Keep(each, kept)) = {each[i] : i \in DOMAIN clauses}
  BY <1>5, <1>6, <1>8
<1>10. AdjustedFrom({each[i] : i \in DOMAIN clauses}, clauses, others, f)
  BY <1>2, <1>4 DEF AdjustedFrom
<1> QED
  BY <1>7, <1>8, <1>9, <1>10 DEF V

\* The clauses for the calls that a filter of each side meets.
ConjoinedFrom(conjoined, clauses, met) ==
  \A x \in conjoined : x.args \in met =>
    \E c \in ToSet(clauses) : c.args \in met /\ Rank(x) <= Rank(c)

LEMMA ConjoinedPair ==
  ASSUME NEW narrow \in BOOLEAN, NEW call \in Calls(narrow), NEW l \in Readable(narrow),
         NEW r \in Readable(narrow)
  PROVE  /\ ConjoinClauses(l, r) \in Seq(Readable(narrow))
         /\ \A x \in ToSet(ConjoinClauses(l, r)) :
              /\ Rank(x) = Rank(PickClause(l, r))
              /\ x.args \in Met(narrow, call) =>
                   l.args \in Met(narrow, call) /\ r.args \in Met(narrow, call)
<1> DEFINE p == PickClause(l, r)
           both == ConjoinArgs(l.args, r.args)
<1>1. /\ l \in Clause /\ l.args \in PlainFilter(narrow) /\ l.args # {}
      /\ r \in Clause /\ r.args \in PlainFilter(narrow) /\ r.args # {}
  BY ReadableIs
<1>2. p \in Clause /\ (p = l \/ p = r)
  BY <1>1, PickedClause
<1>3. both \in PlainFilter(narrow) /\ both # {}
  BY <1>1, ConjoinedFilter
<1> HIDE DEF p, both
<1>4. CASE l.args = r.args
  <2>1. ConjoinClauses(l, r) = <<p>>
    BY <1>4 DEF ConjoinClauses, p
  <2>2. p \in Readable(narrow)
    BY <1>2
  <2>3. <<p>> \in Seq(Readable(narrow)) /\ ToSet(<<p>>) = {p}
    BY <2>2, OneElement
  <2>4. p.args = l.args /\ p.args = r.args
    BY <1>2, <1>4
  <2> QED
    BY <2>1, <2>3, <2>4 DEF p
<1>5. CASE /\ l.args # r.args
           /\ ~ArgsDisjoint(l.args, r.args) /\ Conjoinable(l.args, r.args)
  <2>1. ConjoinClauses(l, r) = <<Under(p, both)>>
    BY <1>5 DEF ConjoinClauses, Under, p, both
  <2>2. /\ Under(p, both) \in Readable(narrow) /\ Under(p, both).args = both
        /\ Rank(Under(p, both)) = Rank(p)
    BY <1>2, <1>3, ReadableUnder
  <2>3. <<Under(p, both)>> \in Seq(Readable(narrow)) /\ ToSet(<<Under(p, both)>>) = {Under(p, both)}
    BY <2>2, OneElement
  <2>4. both \in Met(narrow, call) <=> l.args \in Met(narrow, call) /\ r.args \in Met(narrow, call)
    BY <1>1, <1>5, MetConjoin DEF both
  <2> QED
    BY <2>1, <2>2, <2>3, <2>4 DEF p
<1>6. CASE ~(l.args = r.args)
           /\ ~(~ArgsDisjoint(l.args, r.args) /\ Conjoinable(l.args, r.args))
  <2>1. ConjoinClauses(l, r) = <<>>
    BY <1>6 DEF ConjoinClauses
  <2>2. <<>> \in Seq(Readable(narrow)) /\ ToSet(<<>>) = {}
    BY DEF ToSet
  <2> QED
    BY <2>1, <2>2
<1> QED
  BY <1>4, <1>5, <1>6

LEMMA ConjoinedAre ==
  ASSUME NEW narrow \in BOOLEAN, NEW call \in Calls(narrow),
         NEW left \in Seq(Readable(narrow)), NEW right \in Seq(Readable(narrow)), Intersecting
  PROVE  /\ ConjoinedClauses(left, right) \in Seq(Readable(narrow))
         /\ ConjoinedFrom(ToSet(ConjoinedClauses(left, right)), left, Met(narrow, call))
         /\ ConjoinedFrom(ToSet(ConjoinedClauses(left, right)), right, Met(narrow, call))
         /\ \A x \in ToSet(ConjoinedClauses(left, right)) :
              \E i \in DOMAIN left, j \in DOMAIN right :
                x \in ToSet(ConjoinClauses(left[i], right[j]))
<1> DEFINE V == Readable(narrow)
           M == Met(narrow, call)
           inner(i) == [j \in DOMAIN right |-> ConjoinClauses(left[i], right[j])]
           outer == [i \in DOMAIN left |-> FlattenSeq(inner(i))]
<1>1. /\ Len(left) \in Nat /\ DOMAIN left = 1..Len(left)
      /\ \A i \in DOMAIN left : left[i] \in V /\ left[i] \in ToSet(left)
      /\ Len(right) \in Nat /\ DOMAIN right = 1..Len(right)
      /\ \A j \in DOMAIN right : right[j] \in V /\ right[j] \in ToSet(right)
  BY SeqIs
<1>2. \A i \in DOMAIN left, j \in DOMAIN right :
        /\ ConjoinClauses(left[i], right[j]) \in Seq(V)
        /\ \A x \in ToSet(ConjoinClauses(left[i], right[j])) :
             /\ Rank(x) = Rank(PickClause(left[i], right[j]))
             /\ x.args \in M => left[i].args \in M /\ right[j].args \in M
  BY <1>1, ConjoinedPair
<1> HIDE DEF V, M
<1>3. \A i \in DOMAIN left :
        /\ FlattenSeq(inner(i)) \in Seq(V)
        /\ ToSet(FlattenSeq(inner(i))) = UNION {ToSet(inner(i)[j]) : j \in 1..Len(right)}
  <2>1. TAKE i \in DOMAIN left
  <2>2. inner(i) \in [1..Len(right) -> Seq(V)]
    BY <1>1, <1>2
  <2>3. \A lists \in [1..Len(right) -> Seq(V)] :
          /\ FlattenSeq(lists) \in Seq(V)
          /\ ToSet(FlattenSeq(lists)) = UNION {ToSet(lists[j]) : j \in 1..Len(right)}
    BY <1>1, FlattenedElements
  <2> HIDE DEF inner
  <2> QED
    BY <2>2, <2>3
<1>4. outer \in [1..Len(left) -> Seq(V)]
  <2> HIDE DEF inner
  <2> QED
    BY <1>1, <1>3
<1>5. ConjoinedClauses(left, right) = FlattenSeq(outer)
  BY DEF ConjoinedClauses
<1>6. /\ FlattenSeq(outer) \in Seq(V)
      /\ ToSet(FlattenSeq(outer)) = UNION {ToSet(outer[i]) : i \in 1..Len(left)}
  <2> HIDE DEF outer
  <2> QED
    BY <1>1, <1>4, FlattenedElements
<1>7. ASSUME NEW x \in ToSet(FlattenSeq(outer))
      PROVE \E i \in DOMAIN left, j \in DOMAIN right :
              x \in ToSet(ConjoinClauses(left[i], right[j]))
  <2>1. PICK i \in DOMAIN left : x \in ToSet(outer[i])
    <3> HIDE DEF outer
    <3> QED
      BY <1>1, <1>6
  <2>2. outer[i] = FlattenSeq(inner(i))
    <3> HIDE DEF inner
    <3> QED
      OBVIOUS
  <2>3. PICK j \in DOMAIN right : x \in ToSet(inner(i)[j])
    <3> HIDE DEF inner, outer
    <3> QED
      BY <1>1, <1>3, <2>1, <2>2
  <2>4. inner(i)[j] = ConjoinClauses(left[i], right[j])
    OBVIOUS
  <2> HIDE DEF inner, outer
  <2> QED
    BY <2>3, <2>4
<1> HIDE DEF inner, outer
<1>8. ASSUME NEW x \in ToSet(FlattenSeq(outer)), x.args \in M
      PROVE  /\ \E c \in ToSet(left) : c.args \in M /\ Rank(x) <= Rank(c)
             /\ \E c \in ToSet(right) : c.args \in M /\ Rank(x) <= Rank(c)
  <2>1. PICK i \in DOMAIN left, j \in DOMAIN right :
          x \in ToSet(ConjoinClauses(left[i], right[j]))
    BY <1>7
  <2>2. /\ left[i].args \in M /\ right[j].args \in M
        /\ Rank(x) = Rank(PickClause(left[i], right[j]))
    BY <1>2, <1>8, <2>1
  <2>3. left[i] \in Clause /\ right[j] \in Clause
    BY <1>1, ReadableIs DEF V
  <2>4. Rank(x) <= Rank(left[i]) /\ Rank(x) <= Rank(right[j])
    BY <2>2, <2>3, PickedClause
  <2> QED
    BY <1>1, <2>2, <2>4
<1> QED
  BY <1>5, <1>6, <1>7, <1>8 DEF ConjoinedFrom, V, M

-----------------------------------------------------------------------------

LEMMA OneSideAtMost ==
  ASSUME NEW narrow \in BOOLEAN, NEW call \in Calls(narrow), Intersecting,
         NEW mine \in Seq(Readable(narrow)), NEW theirs \in Seq(Readable(narrow)),
         NEW myFallback \in Decisive, NEW theirFallback \in Decisive, NEW fallback \in Decisive,
         Rank(fallback) <= Rank(myFallback),
         NEW A \in SUBSET Readable(narrow), AdjustedFrom(A, mine, theirs, theirFallback),
         NEW B \in SUBSET Readable(narrow), AdjustedFrom(B, theirs, mine, myFallback),
         NEW C \in SUBSET Readable(narrow), ConjoinedFrom(C, mine, Met(narrow, call)),
         NEW rank \in Int, AtMost(ToSet(mine), myFallback, Met(narrow, call), rank)
  PROVE  AtMost(A \cup B \cup C, fallback, Met(narrow, call), rank)
<1> DEFINE M == Met(narrow, call)
<1>1. /\ Rank(fallback) \in Int /\ Rank(myFallback) \in Int
      /\ \A a \in A \cup B \cup C : Rank(a) \in Int
      /\ \A c \in ToSet(mine) : c \in Readable(narrow) /\ Rank(c) \in Int
      /\ \A c \in ToSet(theirs) : c \in Readable(narrow) /\ Rank(c) \in Int
  BY ReadableIs, RankIs, SeqIs DEF Decisive
<1>2. /\ \A c \in ToSet(mine) : c.args \in M => Rank(c) <= rank
      /\ (\A c \in ToSet(mine) : c.args \notin M) => Rank(myFallback) <= rank
  BY DEF AtMost
<1>3. ASSUME NEW a \in A, a.args \in M PROVE Rank(a) <= rank
  <2>1. PICK c \in ToSet(mine) : Adjusts(a, c, theirs, theirFallback)
    BY DEF AdjustedFrom
  <2>2. c.args \in M /\ Rank(a) <= Rank(c)
    BY <1>3, <2>1 DEF Adjusts
  <2> QED
    BY <1>1, <1>2, <2>2
<1>4. ASSUME NEW a \in B, a.args \in M PROVE Rank(a) <= rank
  <2>1. PICK c \in ToSet(theirs) : Adjusts(a, c, mine, myFallback)
    BY DEF AdjustedFrom
  <2>2. c.args \in M /\ c \in Readable(narrow)
    BY <1>1, <1>4, <2>1 DEF Adjusts
  <2>3. /\ \A o \in ToSet(mine) : o.args \in M => Rank(a) <= Rank(o)
        /\ (\A o \in ToSet(mine) : o.args \notin M) => Rank(a) <= Rank(myFallback)
    BY <2>1, <2>2, AdjustedMeets
  <2>4. CASE \E o \in ToSet(mine) : o.args \in M
    BY <1>1, <1>2, <2>3, <2>4
  <2>5. CASE \A o \in ToSet(mine) : o.args \notin M
    BY <1>1, <1>2, <2>3, <2>5
  <2> QED
    BY <2>4, <2>5
<1>5. ASSUME NEW a \in C, a.args \in M PROVE Rank(a) <= rank
  <2>1. PICK c \in ToSet(mine) : c.args \in M /\ Rank(a) <= Rank(c)
    BY <1>5 DEF ConjoinedFrom
  <2> QED
    BY <1>1, <1>2, <2>1
<1>6. ASSUME \A a \in A \cup B \cup C : a.args \notin M
      PROVE  Rank(fallback) <= rank
  <2>1. ASSUME NEW c \in ToSet(mine), c.args \in M PROVE FALSE
    <3>1. PICK a \in A : Adjusts(a, c, theirs, theirFallback)
      BY DEF AdjustedFrom
    <3> QED
      BY <1>6, <2>1, <3>1 DEF Adjusts
  <2>2. Rank(myFallback) <= rank
    BY <1>2, <2>1
  <2> QED
    BY <1>1, <2>2
<1> QED
  BY <1>3, <1>4, <1>5, <1>6 DEF AtMost

LEMMA OneSideAtLeast ==
  ASSUME NEW narrow \in BOOLEAN, NEW call \in Calls(narrow), ~Intersecting,
         NEW mine \in Seq(Readable(narrow)), NEW theirs \in Seq(Readable(narrow)),
         NEW myFallback \in Decisive, NEW theirFallback \in Decisive, NEW fallback \in Decisive,
         Rank(fallback) >= Rank(myFallback),
         NEW A \in SUBSET Readable(narrow), AdjustedFrom(A, mine, theirs, theirFallback),
         NEW B \in SUBSET Readable(narrow), AdjustedFrom(B, theirs, mine, myFallback),
         NEW rank \in Int, AtLeast(ToSet(mine), myFallback, Met(narrow, call), rank)
  PROVE  AtLeast(A \cup B, fallback, Met(narrow, call), rank)
<1> DEFINE M == Met(narrow, call)
<1>1. /\ Rank(fallback) \in Int /\ Rank(myFallback) \in Int
      /\ \A a \in A \cup B : Rank(a) \in Int
      /\ \A c \in ToSet(mine) : c \in Readable(narrow) /\ Rank(c) \in Int
      /\ \A c \in ToSet(theirs) : c \in Readable(narrow) /\ Rank(c) \in Int
  BY ReadableIs, RankIs, SeqIs DEF Decisive
<1>2. CASE \E c \in ToSet(mine) : c.args \in M /\ Rank(c) >= rank
  <2>1. PICK c \in ToSet(mine) : c.args \in M /\ Rank(c) >= rank
    BY <1>2
  <2>2. PICK a \in A : Adjusts(a, c, theirs, theirFallback)
    BY DEF AdjustedFrom
  <2>3. a.args \in M /\ Rank(a) >= Rank(c)
    BY <2>1, <2>2 DEF Adjusts
  <2>4. Rank(a) >= rank
    BY <1>1, <2>1, <2>3
  <2> QED
    BY <2>3, <2>4 DEF AtLeast
<1>3. CASE (\A c \in ToSet(mine) : c.args \notin M) /\ Rank(myFallback) >= rank
  <2>1. ASSUME NEW a \in B, a.args \in M PROVE Rank(a) >= rank
    <3>1. PICK c \in ToSet(theirs) : Adjusts(a, c, mine, myFallback)
      BY DEF AdjustedFrom
    <3>2. c.args \in M /\ c \in Readable(narrow)
      BY <1>1, <2>1, <3>1 DEF Adjusts
    <3>3. (\A o \in ToSet(mine) : o.args \notin M) => Rank(a) >= Rank(myFallback)
      BY <3>1, <3>2, AdjustedMeets
    <3> QED
      BY <1>1, <1>3, <3>3
  <2>2. \A a \in A : a.args \notin M
    <3>1. TAKE a \in A
    <3>2. PICK c \in ToSet(mine) : Adjusts(a, c, theirs, theirFallback)
      BY DEF AdjustedFrom
    <3> QED
      BY <1>3, <3>2 DEF Adjusts
  <2>3. Rank(fallback) >= rank
    BY <1>1, <1>3
  <2>4. CASE \E a \in B : a.args \in M
    BY <2>1, <2>4 DEF AtLeast
  <2>5. CASE \A a \in B : a.args \notin M
    BY <2>2, <2>3, <2>5 DEF AtLeast
  <2> QED
    BY <2>4, <2>5
<1> QED
  BY <1>2, <1>3 DEF AtLeast

-----------------------------------------------------------------------------
(* Clauses and a fallback on the safe side of others *)

Safer(clauses, fallback, newClauses, newFallback, met) ==
  \A rank \in Int :
    Heeds(clauses, fallback, met, rank) => Heeds(newClauses, newFallback, met, rank)

LEMMA SaferTwice ==
  ASSUME NEW C, NEW f, NEW D, NEW g, NEW E, NEW h, NEW M,
         Safer(C, f, D, g, M), Safer(D, g, E, h, M)
  PROVE  Safer(C, f, E, h, M)
  BY DEF Safer

LEMMA SaferItself ==
  ASSUME NEW C, NEW f, NEW M
  PROVE  Safer(C, f, C, f, M)
  BY DEF Safer

\* On the safe side of many clauses.
OnSafeSideOf(all, C) ==
  \A c \in C : /\ Intersecting => Rank(all) <= Rank(c)
               /\ ~Intersecting => Rank(all) >= Rank(c)

\* A clause that is on the safe side of every other one may decide every call.
LEMMA OneForAll ==
  ASSUME NEW C \in SUBSET Clause, NEW f \in Clause, NEW all \in Clause, NEW M,
         OnSafeSideOf(all, C \cup {f})
  PROVE  Safer(C, f, {}, all, M)
<1>1. Rank(all) \in Int /\ Rank(f) \in Int /\ \A c \in C : Rank(c) \in Int
  BY RankIs
<1>2. ASSUME Intersecting, NEW rank \in Int, AtMost(C, f, M, rank)
      PROVE  AtMost({}, all, M, rank)
  <2>1. Rank(all) <= Rank(f) /\ \A c \in C : Rank(all) <= Rank(c)
    BY <1>2 DEF OnSafeSideOf
  <2>2. CASE \E c \in C : c.args \in M
    <3>1. PICK c \in C : c.args \in M
      BY <2>2
    <3>2. Rank(c) <= rank
      BY <1>2, <3>1 DEF AtMost
    <3>3. Rank(all) <= rank
      BY <1>1, <2>1, <3>2
    <3> QED
      BY <3>3 DEF AtMost
  <2>3. CASE \A c \in C : c.args \notin M
    <3>1. Rank(f) <= rank
      BY <1>2, <2>3 DEF AtMost
    <3>2. Rank(all) <= rank
      BY <1>1, <2>1, <3>1
    <3> QED
      BY <3>2 DEF AtMost
  <2> QED
    BY <2>2, <2>3
<1>3. ASSUME ~Intersecting, NEW rank \in Int, AtLeast(C, f, M, rank)
      PROVE  AtLeast({}, all, M, rank)
  <2>1. Rank(all) >= Rank(f) /\ \A c \in C : Rank(all) >= Rank(c)
    BY <1>3 DEF OnSafeSideOf
  <2>2. (\E c \in C : Rank(c) >= rank) \/ Rank(f) >= rank
    BY <1>3 DEF AtLeast
  <2>3. Rank(all) >= rank
    BY <1>1, <2>1, <2>2
  <2> QED
    BY <2>3 DEF AtLeast
<1> QED
  BY <1>2, <1>3 DEF Safer, Heeds

\* The rules of a syscall, with clauses that mean what they say.
RulesType(narrow) ==
  [unconditional : Decisive \cup {NoClause}, conditional : Seq(Readable(narrow))]

LEMMA FallbackIs ==
  ASSUME NEW narrow, NEW rules \in RulesType(narrow), NEW default \in Decisive
  PROVE  Fallback(rules, default) \in Decisive /\ Fallback(rules, default) # NoClause
  BY NoClauseIsNone DEF Fallback, RulesType, Decisive

LEMMA DecisiveIs ==
  ASSUME NEW f \in Decisive
  PROVE  f \in Clause /\ f.args = {} /\ f # NoClause /\ Rank(f) \in Int
  BY NoClauseIsNone, RankIs DEF Decisive

LEMMA PickedDecisive ==
  ASSUME NEW f \in Decisive, NEW g \in Decisive
  PROVE  PickClause(f, g) \in Decisive
  BY PickedClause DEF Decisive

LEMMA SomeCall ==
  ASSUME NEW narrow \in BOOLEAN
  PROVE  \E call : call \in Calls(narrow)
<1>1. [i \in Index |-> 0] \in Calls(narrow)
  BY LowIs, ValueFacts DEF Calls
<1> QED
  BY <1>1

\* The two ways a merge goes: past the budget, and within it.
LEMMA MergeWays ==
  ASSUME NEW narrow, NEW left \in RulesType(narrow), NEW right \in RulesType(narrow),
         NEW ld \in Decisive, NEW rd \in Decisive
  PROVE  LET lf == Fallback(left, ld)
             rf == Fallback(right, rd)
             f == PickClause(lf, rf)
             R == MergeRules(left, right, ld, rd)
             A == AdjustClauses(left.conditional, right.conditional, rf)
             B == AdjustClauses(right.conditional, left.conditional, lf)
         IN \/ R = [unconditional |->
                      CollapseAll(f, left.conditional \o right.conditional), conditional |-> <<>>]
            \/ R = [unconditional |-> f, conditional |->
                      A \o B \o (IF Intersecting
                                 THEN ConjoinedClauses(left.conditional, right.conditional)
                                 ELSE <<>>)]
<1> DEFINE lf == Fallback(left, ld)
           rf == Fallback(right, rd)
           f == PickClause(lf, rf)
<1>1. lf \in Decisive /\ rf \in Decisive /\ lf # NoClause /\ rf # NoClause
  BY FallbackIs
<1>2. f \in Decisive /\ f # NoClause
  BY <1>1, PickedDecisive, DecisiveIs
<1>3. MergeFallback(lf, rf) = f
  BY <1>1 DEF MergeFallback
<1> HIDE DEF lf, rf, f
<1>4. CASE ExceedsClauseBudget(left.conditional, right.conditional)
  BY <1>2, <1>3, <1>4 DEF MergeRules, NoRules, lf, rf, f
<1>5. CASE ~ExceedsClauseBudget(left.conditional, right.conditional)
  BY <1>2, <1>3, <1>5 DEF MergeRules, lf, rf, f
<1> QED
  BY <1>4, <1>5

LEMMA EmptyList ==
  ASSUME NEW V
  PROVE  <<>> \in Seq(V) /\ ToSet(<<>>) = {}
  BY DEF ToSet

LEMMA FallbackPicks ==
  ASSUME NEW f \in Decisive, NEW g \in Decisive
  PROVE  /\ Intersecting => Rank(PickClause(f, g)) <= Rank(f) /\ Rank(PickClause(f, g)) <= Rank(g)
         /\ ~Intersecting => Rank(PickClause(f, g)) >= Rank(f) /\ Rank(PickClause(f, g)) >= Rank(g)
  BY PickedClause, DecisiveIs

LEMMA WithinBudget ==
  ASSUME NEW narrow \in BOOLEAN, NEW call \in Calls(narrow),
         NEW left \in Seq(Readable(narrow)), NEW right \in Seq(Readable(narrow)),
         NEW lf \in Decisive, NEW rf \in Decisive
  PROVE  LET all == AdjustClauses(left, right, rf) \o AdjustClauses(right, left, lf)
                      \o (IF Intersecting THEN ConjoinedClauses(left, right) ELSE <<>>)
         IN /\ all \in Seq(Readable(narrow))
            /\ Safer(ToSet(left), lf, ToSet(all), PickClause(lf, rf), Met(narrow, call))
            /\ Safer(ToSet(right), rf, ToSet(all), PickClause(lf, rf), Met(narrow, call))
<1> DEFINE V == Readable(narrow)
           M == Met(narrow, call)
           a == AdjustClauses(left, right, rf)
           b == AdjustClauses(right, left, lf)
           c == IF Intersecting THEN ConjoinedClauses(left, right) ELSE <<>>
           f == PickClause(lf, rf)
           all == a \o b \o c
<1>1. /\ a \in Seq(V) /\ AdjustedFrom(ToSet(a), left, right, rf)
      /\ b \in Seq(V) /\ AdjustedFrom(ToSet(b), right, left, lf)
  BY AdjustedClausesAre
<1>2. c \in Seq(V) /\ (~Intersecting => ToSet(c) = {})
  BY ConjoinedAre, EmptyList
<1>3. Intersecting => ConjoinedFrom(ToSet(c), left, M) /\ ConjoinedFrom(ToSet(c), right, M)
  BY ConjoinedAre
<1>4. f \in Decisive
  BY PickedDecisive
<1>5. /\ Intersecting => Rank(f) <= Rank(lf) /\ Rank(f) <= Rank(rf)
      /\ ~Intersecting => Rank(f) >= Rank(lf) /\ Rank(f) >= Rank(rf)
  BY FallbackPicks
<1> HIDE DEF a, b, c, f, V
<1>6. a \o b \in Seq(V) /\ ToSet(a \o b) = ToSet(a) \cup ToSet(b)
  BY <1>1, ConcatElements
<1> DEFINE ab == a \o b
<1>7. ab \in Seq(V) /\ ToSet(ab) = ToSet(a) \cup ToSet(b)
  BY <1>6
<1> HIDE DEF ab
<1>8. ab \o c \in Seq(V) /\ ToSet(ab \o c) = ToSet(ab) \cup ToSet(c)
  BY <1>2, <1>7, ConcatElements
<1>9. all \in Seq(V) /\ ToSet(all) = ToSet(a) \cup ToSet(b) \cup ToSet(c)
  BY <1>7, <1>8 DEF ab
<1> HIDE DEF all
<1>10. /\ ToSet(a) \in SUBSET Readable(narrow) /\ ToSet(b) \in SUBSET Readable(narrow)
       /\ ToSet(c) \in SUBSET Readable(narrow)
  BY <1>1, <1>2, SeqIs DEF V
<1>11. ASSUME NEW rank \in Int, Heeds(ToSet(left), lf, M, rank)
       PROVE  Heeds(ToSet(all), f, M, rank)
  <2>1. CASE Intersecting
    <3>1. AtMost(ToSet(left), lf, M, rank)
      BY <1>11, <2>1 DEF Heeds
    <3>2. AtMost(ToSet(a) \cup ToSet(b) \cup ToSet(c), f, M, rank)
      BY <1>1, <1>3, <1>4, <1>5, <1>10, <2>1, <3>1, OneSideAtMost
    <3> QED
      BY <1>9, <2>1, <3>2 DEF Heeds
  <2>2. CASE ~Intersecting
    <3>1. AtLeast(ToSet(left), lf, M, rank)
      BY <1>11, <2>2 DEF Heeds
    <3>2. AtLeast(ToSet(a) \cup ToSet(b), f, M, rank)
      BY <1>1, <1>4, <1>5, <1>10, <2>2, <3>1, OneSideAtLeast
    <3>3. ToSet(all) = ToSet(a) \cup ToSet(b)
      BY <1>2, <1>9, <2>2
    <3> QED
      BY <2>2, <3>2, <3>3 DEF Heeds
  <2> QED
    BY <2>1, <2>2
<1>12. ASSUME NEW rank \in Int, Heeds(ToSet(right), rf, M, rank)
       PROVE  Heeds(ToSet(all), f, M, rank)
  <2>1. CASE Intersecting
    <3>1. AtMost(ToSet(right), rf, M, rank)
      BY <1>12, <2>1 DEF Heeds
    <3>2. AtMost(ToSet(b) \cup ToSet(a) \cup ToSet(c), f, M, rank)
      BY <1>1, <1>3, <1>4, <1>5, <1>10, <2>1, <3>1, OneSideAtMost
    <3>3. ToSet(all) = ToSet(b) \cup ToSet(a) \cup ToSet(c)
      BY <1>9
    <3> QED
      BY <2>1, <3>2, <3>3 DEF Heeds
  <2>2. CASE ~Intersecting
    <3>1. AtLeast(ToSet(right), rf, M, rank)
      BY <1>12, <2>2 DEF Heeds
    <3>2. AtLeast(ToSet(b) \cup ToSet(a), f, M, rank)
      BY <1>1, <1>4, <1>5, <1>10, <2>2, <3>1, OneSideAtLeast
    <3>3. ToSet(all) = ToSet(b) \cup ToSet(a)
      BY <1>2, <1>9, <2>2
    <3> QED
      BY <2>2, <3>2, <3>3 DEF Heeds
  <2> QED
    BY <2>1, <2>2
<1>13. /\ Safer(ToSet(left), lf, ToSet(all), f, M)
       /\ Safer(ToSet(right), rf, ToSet(all), f, M)
  BY <1>11, <1>12 DEF Safer
<1> QED
  BY <1>9, <1>13 DEF all, a, b, c, f, V

\* Past the budget one clause is on the safe side of both sides.
LEMMA PastBudget ==
  ASSUME NEW left \in Seq(Clause), NEW right \in Seq(Clause),
         NEW lf \in Decisive, NEW rf \in Decisive, NEW M
  PROVE  LET all == CollapseAll(PickClause(lf, rf), left \o right)
         IN /\ all \in Decisive
            /\ Safer(ToSet(left), lf, {}, all, M) /\ Safer(ToSet(right), rf, {}, all, M)
<1> DEFINE f == PickClause(lf, rf)
           both == left \o right
           all == CollapseAll(f, both)
<1>1. both \in Seq(Clause) /\ ToSet(both) = ToSet(left) \cup ToSet(right)
  BY ConcatElements
<1>2. f \in Decisive
  BY PickedDecisive
<1>3. /\ Intersecting => Rank(f) <= Rank(lf) /\ Rank(f) <= Rank(rf)
      /\ ~Intersecting => Rank(f) >= Rank(lf) /\ Rank(f) >= Rank(rf)
  BY FallbackPicks
<1> HIDE DEF f, both
<1>4. /\ all \in Decisive
      /\ \A c \in ToSet(both) \cup {f} : /\ Intersecting => Rank(all) <= Rank(c)
                                         /\ ~Intersecting => Rank(all) >= Rank(c)
  BY <1>1, <1>2, CollapsedIs
<1> HIDE DEF all
<1>5. /\ all \in Clause /\ lf \in Clause /\ rf \in Clause
      /\ Rank(all) \in Int /\ Rank(f) \in Int /\ Rank(lf) \in Int /\ Rank(rf) \in Int
  BY <1>2, <1>4, DecisiveIs
<1>6. OnSafeSideOf(all, {lf}) /\ OnSafeSideOf(all, {rf})
  BY <1>3, <1>4, <1>5 DEF OnSafeSideOf
<1>7. OnSafeSideOf(all, ToSet(left) \cup {lf}) /\ OnSafeSideOf(all, ToSet(right) \cup {rf})
  BY <1>1, <1>4, <1>6 DEF OnSafeSideOf
<1>8. ToSet(left) \in SUBSET Clause /\ ToSet(right) \in SUBSET Clause
  BY SeqIs
<1>9. Safer(ToSet(left), lf, {}, all, M) /\ Safer(ToSet(right), rf, {}, all, M)
  BY <1>5, <1>7, <1>8, OneForAll
<1> QED
  BY <1>4, <1>9 DEF all, f, both

\* mergeRules is on the safe side of the rules of either side.
LEMMA MergedRules ==
  ASSUME NEW narrow \in BOOLEAN, NEW call \in Calls(narrow),
         NEW left \in RulesType(narrow), NEW right \in RulesType(narrow),
         NEW ld \in Decisive, NEW rd \in Decisive
  PROVE  LET R == MergeRules(left, right, ld, rd) IN
         /\ R \in RulesType(narrow) /\ R.unconditional \in Decisive
         /\ Safer(ToSet(left.conditional), Fallback(left, ld),
                  ToSet(R.conditional), R.unconditional, Met(narrow, call))
         /\ Safer(ToSet(right.conditional), Fallback(right, rd),
                  ToSet(R.conditional), R.unconditional, Met(narrow, call))
<1> DEFINE lf == Fallback(left, ld)
           rf == Fallback(right, rd)
           f == PickClause(lf, rf)
           l == left.conditional
           r == right.conditional
           R == MergeRules(left, right, ld, rd)
           one == CollapseAll(f, l \o r)
           many == AdjustClauses(l, r, rf) \o AdjustClauses(r, l, lf)
                      \o (IF Intersecting THEN ConjoinedClauses(l, r) ELSE <<>>)
           M == Met(narrow, call)
<1>1. lf \in Decisive /\ rf \in Decisive /\ f \in Decisive
  BY FallbackIs, PickedDecisive
<1>2. l \in Seq(Readable(narrow)) /\ r \in Seq(Readable(narrow))
  BY DEF RulesType
<1>3. l \in Seq(Clause) /\ r \in Seq(Clause)
  <2>1. Readable(narrow) \subseteq Clause
    BY ReadableIs
  <2> QED
    BY <1>2, <2>1
<1>4. \/ R = [unconditional |-> one, conditional |-> <<>>]
      \/ R = [unconditional |-> f, conditional |-> many]
  BY MergeWays
<1>5. /\ one \in Decisive
      /\ Safer(ToSet(l), lf, {}, one, M) /\ Safer(ToSet(r), rf, {}, one, M)
  <2> HIDE DEF lf, rf, l, r, M
  <2> QED
    BY <1>1, <1>3, PastBudget
<1>6. /\ many \in Seq(Readable(narrow))
      /\ Safer(ToSet(l), lf, ToSet(many), f, M) /\ Safer(ToSet(r), rf, ToSet(many), f, M)
  <2> HIDE DEF lf, rf, l, r
  <2> QED
    BY <1>1, <1>2, WithinBudget
<1> HIDE DEF lf, rf, f, l, r, R, one, many, M
<1>7. CASE R = [unconditional |-> one, conditional |-> <<>>]
  <2>1. R.unconditional = one /\ R.conditional = <<>> /\ ToSet(<<>>) = {}
    BY <1>7, EmptyList
  <2>2. R \in RulesType(narrow)
    BY <1>5, <1>7, EmptyList DEF RulesType
  <2>3. /\ Safer(ToSet(l), lf, ToSet(R.conditional), R.unconditional, M)
        /\ Safer(ToSet(r), rf, ToSet(R.conditional), R.unconditional, M)
    BY <1>5, <2>1
  <2> QED
    BY <1>5, <2>1, <2>2, <2>3 DEF R, l, r, lf, rf, M
<1>8. CASE R = [unconditional |-> f, conditional |-> many]
  <2>1. R.unconditional = f /\ R.conditional = many
    BY <1>8
  <2>2. R \in RulesType(narrow)
    BY <1>1, <1>6, <1>8 DEF RulesType
  <2>3. /\ Safer(ToSet(l), lf, ToSet(R.conditional), R.unconditional, M)
        /\ Safer(ToSet(r), rf, ToSet(R.conditional), R.unconditional, M)
    BY <1>6, <2>1
  <2> QED
    BY <1>1, <2>1, <2>2, <2>3 DEF R, l, r, lf, rf, M
<1> QED
  BY <1>4, <1>7, <1>8

-----------------------------------------------------------------------------
(* Grouping by filters *)

\* Some of the clauses, one of them for every other that a call meets, and no
\* stricter.
Tops(some, clauses, met) ==
  /\ some \subseteq clauses
  /\ \A c \in clauses : c.args \in met => \E d \in some : d.args \in met /\ Rank(d) >= Rank(c)

LEMMA TopsAreSafer ==
  ASSUME NEW C \in SUBSET Clause, NEW D, NEW f \in Clause, NEW M, Tops(D, C, M)
  PROVE  Safer(C, f, D, f, M)
<1>1. D \subseteq C /\ \A c \in C : Rank(c) \in Int
  BY RankIs DEF Tops
<1>2. ASSUME NEW rank \in Int, AtMost(C, f, M, rank) PROVE AtMost(D, f, M, rank)
  <2>1. \A d \in D : d.args \in M => Rank(d) <= rank
    BY <1>1, <1>2 DEF AtMost
  <2>2. ASSUME \A d \in D : d.args \notin M PROVE Rank(f) <= rank
    <3>1. \A c \in C : c.args \notin M
      BY <2>2 DEF Tops
    <3> QED
      BY <1>2, <3>1 DEF AtMost
  <2> QED
    BY <2>1, <2>2 DEF AtMost
<1>3. ASSUME NEW rank \in Int, AtLeast(C, f, M, rank) PROVE AtLeast(D, f, M, rank)
  <2>1. CASE \E c \in C : c.args \in M /\ Rank(c) >= rank
    <3>1. PICK c \in C : c.args \in M /\ Rank(c) >= rank
      BY <2>1
    <3>2. PICK d \in D : d.args \in M /\ Rank(d) >= Rank(c)
      BY <3>1 DEF Tops
    <3>3. Rank(d) >= rank
      BY <1>1, <3>1, <3>2
    <3> QED
      BY <3>2, <3>3 DEF AtLeast
  <2>2. CASE (\A c \in C : c.args \notin M) /\ Rank(f) >= rank
    BY <1>1, <2>2 DEF AtLeast
  <2> QED
    BY <1>3, <2>1, <2>2 DEF AtLeast
<1> QED
  BY <1>2, <1>3 DEF Safer, Heeds

SameFilters(clauses, c) == Keep(clauses, {i \in DOMAIN clauses : clauses[i].args = c.args})

LEMMA LoosestOfFilter ==
  ASSUME NEW narrow, NEW s \in Seq(Readable(narrow)), NEW c \in ToSet(s)
  PROVE  LET d == FirstLoosest(SameFilters(s, c)) IN
         /\ d \in ToSet(s) /\ d.args = c.args
         /\ \A e \in ToSet(s) : e.args = c.args => Rank(d) >= Rank(e)
<1> DEFINE V == Readable(narrow)
           alike == {i \in DOMAIN s : s[i].args = c.args}
           same == Keep(s, alike)
<1>1. /\ same \in Seq(V)
      /\ ToSet(same) = {s[i] : i \in {j \in DOMAIN s : j \in alike}}
  <2> HIDE DEF alike
  <2> QED
    BY KeepIs
<1>2. /\ ToSet(same) \subseteq ToSet(s)
      /\ \A e \in ToSet(s) : e \in ToSet(same) <=> e.args = c.args
  <2>1. \A i \in DOMAIN s : s[i] \in ToSet(s)
    BY SeqIs
  <2>2. \A e \in ToSet(s) : \E i \in DOMAIN s : s[i] = e
    BY SeqIs
  <2> HIDE DEF same
  <2> QED
    BY <1>1, <2>1, <2>2
<1>3. SameFilters(s, c) = same
  BY DEF SameFilters
<1> HIDE DEF same
<1>4. same # <<>>
  BY <1>1, <1>2, SeqIs
<1>5. same \in Seq(Clause)
  <2>1. V \subseteq Clause
    BY ReadableIs
  <2> HIDE DEF V
  <2> QED
    BY <1>1, <2>1
<1>6. FirstLoosest(same) \in ToSet(same) /\ \A e \in ToSet(same) : Rank(FirstLoosest(same)) >= Rank(e)
  BY <1>4, <1>5, LoosestIs
<1> QED
  BY <1>2, <1>3, <1>6

LEMMA GroupedIs ==
  ASSUME NEW narrow, NEW s \in Seq(Readable(narrow)), NEW M
  PROVE  /\ GroupByArgs(s) \in Seq(Readable(narrow))
         /\ Tops(ToSet(GroupByArgs(s)), ToSet(s), M)
<1> DEFINE V == Readable(narrow)
           first == {i \in DOMAIN s : \A j \in 1..(i - 1) : s[j].args # s[i].args}
           each == [i \in DOMAIN s |-> FirstLoosest(SameFilters(s, s[i]))]
<1>1. GroupByArgs(s) = Keep(each, first)
  BY DEF GroupByArgs, SameFilters
<1>2. /\ Len(s) \in Nat /\ DOMAIN s = 1..Len(s) /\ ToSet(s) \subseteq V
      /\ \A i \in DOMAIN s : s[i] \in ToSet(s)
      /\ \A c \in ToSet(s) : \E i \in DOMAIN s : s[i] = c
  BY SeqIs
<1>3. \A i \in DOMAIN s :
        /\ each[i] \in ToSet(s) /\ each[i].args = s[i].args
        /\ \A e \in ToSet(s) : e.args = s[i].args => Rank(each[i]) >= Rank(e)
  BY <1>2, LoosestOfFilter
<1>4. each \in Seq(V) /\ DOMAIN each = DOMAIN s
  <2>1. \A i \in DOMAIN s : each[i] \in V
    BY <1>2, <1>3
  <2> QED
    BY <1>2, <2>1
<1>5. \A i \in DOMAIN s : \E k \in first : s[k].args = s[i].args
  <2>1. TAKE i \in DOMAIN s
  <2> DEFINE T == {k \in DOMAIN s : s[k].args = s[i].args}
  <2>2. T \in SUBSET Nat /\ T # {}
    BY <1>2
  <2>3. PICK k \in T : \A j \in T : k <= j
    <3> HIDE DEF T
    <3> QED
      BY <2>2, LeastNatural
  <2>4. ASSUME NEW j \in 1..(k - 1), s[j].args = s[k].args PROVE FALSE
    <3>1. j \in DOMAIN s /\ ~(k <= j)
      BY <1>2
    <3>2. j \in T
      BY <2>4, <3>1
    <3> HIDE DEF T
    <3> QED
      BY <2>3, <3>1, <3>2
  <2> QED
    BY <2>4
<1>6. first \subseteq DOMAIN s
  OBVIOUS
<1> HIDE DEF first, each, V
<1>7. /\ Keep(each, first) \in Seq(V)
      /\ ToSet(Keep(each, first)) = {each[i] : i \in {j \in DOMAIN each : j \in first}}
  BY <1>4, KeepIs
<1>8. /\ \A g \in ToSet(Keep(each, first)) : \E i \in first : g = each[i]
      /\ \A i \in first : each[i] \in ToSet(Keep(each, first))
  BY <1>4, <1>6, <1>7
<1>9. ToSet(Keep(each, first)) \subseteq ToSet(s)
  BY <1>3, <1>6, <1>8
<1>10. ASSUME NEW c \in ToSet(s), c.args \in M
       PROVE \E d \in ToSet(Keep(each, first)) : d.args \in M /\ Rank(d) >= Rank(c)
  <2>1. PICK i \in DOMAIN s : s[i] = c
    BY <1>2
  <2>2. PICK k \in first : s[k].args = c.args
    BY <1>5, <2>1
  <2>3. each[k].args = c.args /\ Rank(each[k]) >= Rank(c)
    BY <1>3, <1>6, <2>2
  <2> QED
    BY <1>8, <1>10, <2>3
<1> QED
  BY <1>1, <1>7, <1>9, <1>10 DEF Tops, V

-----------------------------------------------------------------------------
(* Dropping redundant clauses *)

\* The clauses that are left when those at some indices are dropped.
Left(s, dropped) == {s[i] : i \in (DOMAIN s) \ dropped}

\* What may be dropped beside a fallback: no clause that is looser, and with
\* it every stricter one that it shields from the fallback.
Droppable(s, dropped, f) ==
  /\ dropped \subseteq DOMAIN s
  /\ \A i \in dropped : Rank(s[i]) <= Rank(f)
  /\ Intersecting => \A i \in dropped : Rank(s[i]) = Rank(f)
  /\ ~Intersecting =>
       \A i \in dropped, j \in (DOMAIN s) \ dropped :
         ~ArgsDisjoint(s[i].args, s[j].args) => Rank(s[j]) >= Rank(f)

LEMMA DroppedIsSafer ==
  ASSUME NEW narrow \in BOOLEAN, NEW call \in Calls(narrow), NEW s \in Seq(Readable(narrow)),
         NEW f \in Decisive, NEW dropped, Droppable(s, dropped, f)
  PROVE  Safer(ToSet(s), f, Left(s, dropped), f, Met(narrow, call))
<1> DEFINE M == Met(narrow, call)
           L == Left(s, dropped)
<1>1. /\ \A i \in DOMAIN s : /\ s[i] \in Readable(narrow) /\ s[i] \in ToSet(s)
                             /\ Rank(s[i]) \in Int /\ s[i].args \in PlainFilter(narrow)
      /\ \A c \in ToSet(s) : \E i \in DOMAIN s : s[i] = c
      /\ Rank(f) \in Int
  BY SeqIs, ReadableIs, DecisiveIs
<1>2. /\ dropped \subseteq DOMAIN s
      /\ \A i \in dropped : Rank(s[i]) <= Rank(f)
  BY DEF Droppable
<1>3. /\ L \subseteq ToSet(s)
      /\ \A i \in DOMAIN s : i \notin dropped => s[i] \in L
      /\ \A c \in L : \E i \in DOMAIN s : i \notin dropped /\ c = s[i]
  BY <1>1 DEF Left
<1> HIDE DEF L
<1>4. ASSUME Intersecting, NEW rank \in Int, AtMost(ToSet(s), f, M, rank)
      PROVE  AtMost(L, f, M, rank)
  <2>1. \A c \in L : c.args \in M => Rank(c) <= rank
    BY <1>3, <1>4 DEF AtMost
  <2>2. ASSUME \A c \in L : c.args \notin M PROVE Rank(f) <= rank
    <3>1. CASE \A c \in ToSet(s) : c.args \notin M
      BY <1>4, <3>1 DEF AtMost
    <3>2. CASE \E c \in ToSet(s) : c.args \in M
      <4>1. PICK i \in DOMAIN s : s[i].args \in M
        BY <1>1, <3>2
      <4>2. i \in dropped
        BY <1>3, <2>2, <4>1
      <4>3. Rank(s[i]) = Rank(f)
        BY <1>4, <4>2 DEF Droppable
      <4>4. Rank(s[i]) <= rank
        BY <1>1, <1>4, <4>1 DEF AtMost
      <4> QED
        BY <4>3, <4>4
    <3> QED
      BY <3>1, <3>2
  <2> QED
    BY <2>1, <2>2 DEF AtMost
<1>5. ASSUME ~Intersecting, NEW rank \in Int, AtLeast(ToSet(s), f, M, rank)
      PROVE  AtLeast(L, f, M, rank)
  <2>1. CASE \E c \in ToSet(s) : c.args \in M /\ Rank(c) >= rank
    <3>1. PICK i \in DOMAIN s : s[i].args \in M /\ Rank(s[i]) >= rank
      BY <1>1, <2>1
    <3>2. CASE i \notin dropped
      <4>1. s[i] \in L
        BY <1>3, <3>2
      <4> QED
        BY <3>1, <4>1 DEF AtLeast
    <3>3. CASE i \in dropped
      <4>1. Rank(f) >= rank
        BY <1>1, <1>2, <3>1, <3>3
      <4>2. ASSUME NEW c \in L, c.args \in M PROVE Rank(c) >= rank
        <5>1. PICK j \in DOMAIN s : j \notin dropped /\ c = s[j]
          BY <1>3
        <5>2. ~ArgsDisjoint(s[i].args, s[j].args)
          BY <1>1, <3>1, <4>2, <5>1, MetDisjoint
        <5>3. Rank(s[j]) >= Rank(f)
          BY <1>5, <3>3, <5>1, <5>2 DEF Droppable
        <5> QED
          BY <1>1, <4>1, <5>1, <5>3
      <4>3. CASE \E c \in L : c.args \in M
        BY <4>2, <4>3 DEF AtLeast
      <4>4. CASE \A c \in L : c.args \notin M
        BY <4>1, <4>4 DEF AtLeast
      <4> QED
        BY <4>3, <4>4
    <3> QED
      BY <3>2, <3>3
  <2>2. CASE (\A c \in ToSet(s) : c.args \notin M) /\ Rank(f) >= rank
    BY <1>3, <2>2 DEF AtLeast
  <2> QED
    BY <1>5, <2>1, <2>2 DEF AtLeast
<1> QED
  BY <1>4, <1>5 DEF Safer, Heeds, L

LEMMA RedundantRank ==
  ASSUME NEW s, NEW f, NEW errnoCounts \in BOOLEAN, NEW i \in Redundant(s, f, errnoCounts)
  PROVE  i \in DOMAIN s /\ Rank(s[i]) = Rank(f)
<1>1. i \in DOMAIN s /\ (SameResult(s[i], f) \/ Equivalent(s[i], f))
  BY DEF Redundant
<1> QED
  BY <1>1, Comparisons

\* A clause with the action and the errno of the fallback is redundant.
LEMMA RaisedIsRedundant ==
  ASSUME NEW s, NEW f \in Decisive, NEW errnoCounts \in BOOLEAN, NEW i \in DOMAIN s,
         s[i].action = f.action, s[i].errno = f.errno
  PROVE  i \in Redundant(s, f, errnoCounts)
<1>1. SameResult(s[i], f) /\ Equivalent(s[i], f)
  BY DEF SameResult, Equivalent
<1> QED
  BY <1>1 DEF Redundant

LEMMA RedundantAgain ==
  ASSUME NEW s, NEW t, NEW f, NEW errnoCounts \in BOOLEAN, NEW i \in DOMAIN s, i \in DOMAIN t,
         s[i] = t[i]
  PROVE  i \in Redundant(s, f, errnoCounts) <=> i \in Redundant(t, f, errnoCounts)
  BY DEF Redundant

\* The smallest set that is closed under overlaps.
InEvery(s, redundant, f) ==
  {i \in DOMAIN s : \A closed \in ClosedUnderOverlaps(s, redundant, f) : i \in closed}

LEMMA InEveryIs ==
  ASSUME NEW s, NEW redundant \in SUBSET (DOMAIN s), NEW f
  PROVE  /\ redundant \subseteq InEvery(s, redundant, f)
         /\ \A i \in InEvery(s, redundant, f) : i \in redundant \/ Stricter(s[i], f)
         /\ \A i \in InEvery(s, redundant, f), j \in DOMAIN s :
              Stricter(s[j], f) /\ ~ArgsDisjoint(s[i].args, s[j].args)
                => j \in InEvery(s, redundant, f)
<1> DEFINE closures == ClosedUnderOverlaps(s, redundant, f)
           T == {i \in DOMAIN s : i \in redundant \/ Stricter(s[i], f)}
<1>1. \A closed \in closures :
        /\ redundant \subseteq closed
        /\ \A i \in closed, j \in DOMAIN s :
             Stricter(s[j], f) /\ ~ArgsDisjoint(s[i].args, s[j].args) => j \in closed
  BY DEF ClosedUnderOverlaps
<1>2. T \in closures
  BY DEF ClosedUnderOverlaps
<1>3. InEvery(s, redundant, f) \subseteq T
  BY <1>2 DEF InEvery
<1>4. redundant \subseteq InEvery(s, redundant, f)
  BY <1>1 DEF InEvery
<1>5. ASSUME NEW i \in InEvery(s, redundant, f), NEW j \in DOMAIN s, Stricter(s[j], f),
             ~ArgsDisjoint(s[i].args, s[j].args)
      PROVE  j \in InEvery(s, redundant, f)
  <2>1. \A closed \in closures : i \in closed
    BY DEF InEvery
  <2>2. \A closed \in closures : j \in closed
    BY <1>1, <1>5, <2>1
  <2> QED
    BY <2>2 DEF InEvery
<1> QED
  BY <1>3, <1>4, <1>5

LEMMA RaisedAre ==
  ASSUME NEW narrow, NEW s \in Seq(Readable(narrow)), NEW f \in Decisive,
         NEW redundant \in SUBSET (DOMAIN s), NEW t,
         t = RaiseOverlaps(s, redundant, f)
  PROVE  /\ t \in Seq(Readable(narrow)) /\ DOMAIN t = DOMAIN s
         /\ \A i \in DOMAIN s :
              IF i \notin redundant /\ i \in InEvery(s, redundant, f)
              THEN t[i].action = f.action /\ t[i].errno = f.errno
              ELSE t[i] = s[i]
<1> DEFINE V == Readable(narrow)
<1>1. /\ Len(s) \in Nat /\ DOMAIN s = 1..Len(s)
      /\ \A i \in DOMAIN s : s[i] \in V
  BY SeqIs
<1>2. t = [i \in DOMAIN s |->
             IF i \notin redundant /\ i \in InEvery(s, redundant, f)
             THEN Under(f, s[i].args) ELSE s[i]]
  BY DEF RaiseOverlaps, InEvery, Under
<1>3. ASSUME NEW i \in DOMAIN s
      PROVE  /\ Under(f, s[i].args) \in V /\ Under(f, s[i].args).action = f.action
             /\ Under(f, s[i].args).errno = f.errno
  <2>1. s[i].args \in PlainFilter(narrow) /\ s[i].args # {} /\ LoadedFilter(s[i].args)
    BY <1>1, ReadableIs
  <2> QED
    BY <2>1, ReadableUnder, UnderIs, DecisiveIs
<1> HIDE DEF V
<1>4. \A i \in DOMAIN s : t[i] \in V
  BY <1>1, <1>2, <1>3
<1>5. t \in Seq(V) /\ DOMAIN t = DOMAIN s
  BY <1>1, <1>2, <1>4
<1> QED
  BY <1>2, <1>3, <1>5 DEF V

LEMMA DroppedAre ==
  ASSUME NEW narrow \in BOOLEAN, NEW s \in Seq(Readable(narrow)), NEW f \in Decisive,
         NEW errnoCounts \in BOOLEAN
  PROVE  /\ DropRedundant(s, f, errnoCounts) \in Seq(Readable(narrow))
         /\ \E dropped : /\ Droppable(s, dropped, f)
                         /\ ToSet(DropRedundant(s, f, errnoCounts)) = Left(s, dropped)
<1> DEFINE V == Readable(narrow)
           first == Redundant(s, f, errnoCounts)
           t == Raised(s, first, f)
           again == Redundant(t, f, errnoCounts)
           kept == DOMAIN t \ again
           every == InEvery(s, first, f)
<1>1. DropRedundant(s, f, errnoCounts) = Keep(t, kept)
  BY DEF DropRedundant
<1>2. first \in SUBSET (DOMAIN s)
  BY DEF Redundant
<1>3. \A i \in DOMAIN s : s[i] \in V /\ Rank(s[i]) \in Int
  BY SeqIs, ReadableIs
<1>4. Rank(f) \in Int
  BY DecisiveIs
<1>5. ASSUME t \in Seq(V), DOMAIN t = DOMAIN s, NEW dropped, dropped \subseteq DOMAIN s,
             \A i \in DOMAIN s : i \in again <=> i \in dropped,
             \A i \in DOMAIN s : i \notin dropped => t[i] = s[i]
      PROVE  Keep(t, kept) \in Seq(V) /\ ToSet(Keep(t, kept)) = Left(s, dropped)
  <2>1. {j \in DOMAIN t : j \in kept} = (DOMAIN s) \ dropped
    BY <1>5
  <2> HIDE DEF t, kept, V
  <2>2. /\ Keep(t, kept) \in Seq(V)
        /\ ToSet(Keep(t, kept)) = {t[i] : i \in {j \in DOMAIN t : j \in kept}}
    BY <1>5, KeepIs
  <2>3. {t[i] : i \in (DOMAIN s) \ dropped} = {s[i] : i \in (DOMAIN s) \ dropped}
    BY <1>5
  <2> QED
    BY <2>1, <2>2, <2>3 DEF Left
<1>6. CASE Intersecting
  <2>1. t = s
    BY <1>6 DEF Raised
  <2>2. Droppable(s, first, f)
    <3>1. \A i \in first : Rank(s[i]) = Rank(f)
      BY RedundantRank
    <3> HIDE DEF first
    <3> QED
      BY <1>2, <1>4, <1>6, <3>1 DEF Droppable
  <2>3. /\ \A i \in DOMAIN s : i \in again <=> i \in first
        /\ \A i \in DOMAIN s : i \notin first => t[i] = s[i]
    BY <2>1
  <2> HIDE DEF first, t, again, kept
  <2>4. t \in Seq(V) /\ DOMAIN t = DOMAIN s
    BY <2>1
  <2> HIDE DEF V
  <2>5. Keep(t, kept) \in Seq(V) /\ ToSet(Keep(t, kept)) = Left(s, first)
    BY <1>2, <1>5, <2>3, <2>4
  <2> QED
    BY <1>1, <2>2, <2>5 DEF V
<1>7. CASE ~Intersecting
  <2>1. t = RaiseOverlaps(s, first, f)
    BY <1>7 DEF Raised
  <2> HIDE DEF first, t
  <2>2. /\ t \in Seq(V) /\ DOMAIN t = DOMAIN s
        /\ \A i \in DOMAIN s :
              IF i \notin first /\ i \in every
              THEN t[i].action = f.action /\ t[i].errno = f.errno
              ELSE t[i] = s[i]
    BY <1>2, <2>1, RaisedAre
  <2>3. /\ first \subseteq every
        /\ \A i \in every : i \in first \/ Stricter(s[i], f)
        /\ \A i \in every, j \in DOMAIN s :
             Stricter(s[j], f) /\ ~ArgsDisjoint(s[i].args, s[j].args) => j \in every
    BY <1>2, InEveryIs
  <2>4. every \subseteq DOMAIN s
    BY DEF InEvery
  <2> HIDE DEF every
  <2>5. ASSUME NEW i \in DOMAIN s PROVE i \in again <=> i \in every
    <3>1. CASE i \in first
      <4>1. t[i] = s[i] /\ i \in DOMAIN t
        BY <2>2, <3>1
      <4>2. i \in again
        BY <3>1, <4>1, RedundantAgain DEF first
      <4> QED
        BY <2>3, <3>1, <4>2
    <3>2. CASE i \notin first /\ i \in every
      <4>1. t[i].action = f.action /\ t[i].errno = f.errno /\ i \in DOMAIN t
        BY <2>2, <3>2
      <4>2. i \in again
        BY <4>1, RaisedIsRedundant
      <4> QED
        BY <3>2, <4>2
    <3>3. CASE i \notin every
      <4>1. t[i] = s[i] /\ i \in DOMAIN t /\ i \notin first
        BY <2>2, <2>3, <3>3
      <4>2. i \notin again
        BY <4>1, RedundantAgain DEF first
      <4> QED
        BY <3>3, <4>2
    <3> QED
      BY <3>1, <3>2, <3>3
  <2>6. \A i \in DOMAIN s : i \notin every => t[i] = s[i]
    BY <2>2
  <2>7. Droppable(s, every, f)
    <3>1. \A i \in first : Rank(s[i]) = Rank(f)
      BY RedundantRank DEF first
    <3>2. \A i \in every : Rank(s[i]) <= Rank(f)
      <4>1. TAKE i \in every
      <4>2. CASE i \in first
        BY <1>4, <3>1, <4>2
      <4>3. CASE Stricter(s[i], f)
        BY <1>3, <1>4, <2>4, <4>3, Comparisons
      <4> QED
        BY <2>3, <4>2, <4>3
    <3>3. ASSUME NEW i \in every, NEW j \in (DOMAIN s) \ every,
                 ~ArgsDisjoint(s[i].args, s[j].args)
          PROVE  Rank(s[j]) >= Rank(f)
      <4>1. ~Stricter(s[j], f)
        BY <2>3, <3>3
      <4> QED
        BY <1>3, <1>4, <4>1, Comparisons
    <3> QED
      BY <1>7, <2>4, <3>2, <3>3 DEF Droppable
  <2> HIDE DEF again, kept, V
  <2>8. Keep(t, kept) \in Seq(V) /\ ToSet(Keep(t, kept)) = Left(s, every)
    BY <1>5, <2>2, <2>4, <2>5, <2>6
  <2> QED
    BY <1>1, <2>7, <2>8 DEF V
<1> QED
  BY <1>6, <1>7

\* dropRedundant is on the safe side.
LEMMA DropIsSafer ==
  ASSUME NEW narrow \in BOOLEAN, NEW call \in Calls(narrow), NEW s \in Seq(Readable(narrow)),
         NEW f \in Decisive, NEW errnoCounts \in BOOLEAN
  PROVE  /\ DropRedundant(s, f, errnoCounts) \in Seq(Readable(narrow))
         /\ Safer(ToSet(s), f, ToSet(DropRedundant(s, f, errnoCounts)), f, Met(narrow, call))
<1>1. PICK dropped : /\ Droppable(s, dropped, f)
                     /\ ToSet(DropRedundant(s, f, errnoCounts)) = Left(s, dropped)
  BY DroppedAre
<1> QED
  BY <1>1, DroppedAre, DroppedIsSafer

-----------------------------------------------------------------------------
(* Implication between conditions, with what tells the operators apart: an  *)
(* order, which the implications that are read off are not                  *)

Level(arg) == IF arg.op = "NE" THEN 2 ELSE IF arg.op = "MASKED_EQ" THEN 1 ELSE 0

Says(strong, weak) ==
  \/ Level(strong) < Level(weak)
  \/ Level(strong) = Level(weak) /\ CondImplies(strong, weak)

SaysAll(wide, thin) ==
  \A loose \in wide : \E strict \in thin : strict.index = loose.index /\ Says(strict, loose)

LEMMA LevelIs ==
  ASSUME NEW arg \in Arg
  PROVE  /\ Level(arg) \in 0..2 /\ Level(arg) \in Int
         /\ Level(arg) = 2 <=> arg.op = "NE"
         /\ Level(arg) = 1 <=> arg.op = "MASKED_EQ"
         /\ Level(arg) = 0 <=> arg.op \in {"EQ", "LT", "LE", "GE", "GT"}
<1>1. arg.op \in Op
  BY ArgFields
<1> QED
  BY <1>1 DEF Level, Op

LEMMA SaysItself == ASSUME NEW a PROVE Says(a, a)
  BY DEF Says, CondImplies

LEMMA IntervalImplies ==
  ASSUME NEW a \in Arg, NEW b \in Arg, Level(a) = 0, Level(b) = 0, a # b
  PROVE  CondImplies(a, b) <=>
           /\ ~WideArg(a) /\ ~WideArg(b) /\ HasInterval(a) /\ HasInterval(b)
           /\ Low(b) <= Low(a) /\ High(a) <= High(b)
<1>1. /\ a.op \in {"EQ", "LT", "LE", "GE", "GT"} /\ b.op \in {"EQ", "LT", "LE", "GE", "GT"}
      /\ a.value \in Value /\ b.value \in Value
  BY LevelIs, ArgFields
<1>2. a.value \in Int /\ b.value \in Int /\ MaxValue \in Int /\ 0 <= a.value /\ a.value <= MaxValue
  BY <1>1, ValueFacts
<1>3. RangeImplies(a, b) <=> /\ HasInterval(a) /\ HasInterval(b)
                             /\ Low(b) <= Low(a) /\ High(a) <= High(b)
  BY <1>1 DEF RangeImplies
<1>4. CASE a.op = "EQ"
  <2>1. HasInterval(a) /\ Low(a) = a.value /\ High(a) = a.value
    BY <1>4 DEF HasInterval, Low, High
  <2>2. CASE HasInterval(b)
    <3>1. CondHolds(b, a.value) <=> Low(b) <= a.value /\ a.value <= High(b)
      BY <1>1, <2>2, IntervalIsExact
    <3>2. CondImplies(a, b) <=> ~WideArg(a) /\ ~WideArg(b) /\ CondHolds(b, a.value)
      BY <1>4, Zenon DEF CondImplies
    <3> QED
      BY <2>1, <2>2, <3>1, <3>2
  <2>3. CASE ~HasInterval(b)
    <3>1. (b.op = "LT" /\ b.value = 0) \/ (b.op = "GT" /\ b.value = MaxValue)
      BY <1>1, <2>3 DEF HasInterval
    <3>2. ~CondHolds(b, a.value)
      <4>1. CASE b.op = "LT" /\ b.value = 0
        BY <1>2, <4>1 DEF CondHolds
      <4>2. CASE b.op = "GT" /\ b.value = MaxValue
        BY <1>2, <4>2 DEF CondHolds
      <4> QED
        BY <3>1, <4>1, <4>2
    <3>3. CondImplies(a, b) <=> ~WideArg(a) /\ ~WideArg(b) /\ CondHolds(b, a.value)
      BY <1>4, Zenon DEF CondImplies
    <3> QED
      BY <2>3, <3>2, <3>3
  <2> QED
    BY <2>2, <2>3
<1>5. CASE a.op # "EQ"
  BY <1>1, <1>3, <1>5 DEF CondImplies
<1> QED
  BY <1>4, <1>5

\* The bitwise and as an operator.
Both(a, b) == And[a, b]

LEMMA BothIs ==
  ASSUME NEW a \in Value, NEW b \in Value, NEW c \in Value
  PROVE  Both(a, b) = Both(b, a) /\ Both(Both(a, b), c) = Both(a, Both(b, c))
<1>1. And[a, b] = And[b, a]
  BY AndFacts, Zenon
<1>2. And[And[a, b], c] = And[a, And[b, c]]
  BY AndAssociative, Zenon
<1> QED
  BY <1>1, <1>2, Zenon DEF Both

LEMMA MaskTwice ==
  ASSUME NEW av \in Value, NEW at \in Value, NEW bv \in Value, NEW bt \in Value,
         NEW cv \in Value, NEW ct \in Value,
         Both(bv, av) = bv, Both(at, bv) = bt, Both(cv, bv) = cv, Both(bt, cv) = ct
  PROVE  Both(cv, av) = cv /\ Both(at, cv) = ct
<1>1. Both(Both(cv, bv), av) = Both(cv, Both(bv, av))
  BY BothIs
<1>2. Both(Both(at, bv), cv) = Both(at, Both(bv, cv)) /\ Both(bv, cv) = Both(cv, bv)
  BY BothIs
<1> QED
  BY <1>1, <1>2

LEMMA MaskedImplies ==
  ASSUME NEW a, NEW b, b.op = "MASKED_EQ"
  PROVE  MaskImplies(a, b)
           <=> Both(b.value, a.value) = b.value /\ Both(a.two, b.value) = b.two
<1>1. b.op # "NE"
  OBVIOUS
<1> QED
  BY <1>1, Zenon DEF MaskImplies, Both

LEMMA ImpliesTwice ==
  ASSUME NEW a \in Arg, NEW b \in Arg, NEW c \in Arg, Level(a) = Level(b), Level(b) = Level(c),
         CondImplies(a, b), CondImplies(b, c)
  PROVE  CondImplies(a, c)
<1>1. SUFFICES ASSUME a # b, b # c, a # c PROVE CondImplies(a, c)
  BY DEF CondImplies
<1>2. ~WideArg(a) /\ ~WideArg(b) /\ ~WideArg(c)
  BY <1>1 DEF CondImplies
<1>3. CASE Level(a) = 0
  <2>1. /\ HasInterval(a) /\ HasInterval(b) /\ Low(b) <= Low(a) /\ High(a) <= High(b)
        /\ HasInterval(c) /\ Low(c) <= Low(b) /\ High(b) <= High(c)
    BY <1>1, <1>3, IntervalImplies
  <2>2. /\ Low(a) \in Int /\ High(a) \in Int /\ Low(b) \in Int /\ High(b) \in Int
        /\ Low(c) \in Int /\ High(c) \in Int
    BY IntervalBounds
  <2>3. Low(c) <= Low(a) /\ High(a) <= High(c)
    BY <2>1, <2>2
  <2> QED
    BY <1>1, <1>2, <1>3, <2>1, <2>3, IntervalImplies
<1>4. CASE Level(a) = 1
  <2>1. a.op = "MASKED_EQ" /\ b.op = "MASKED_EQ" /\ c.op = "MASKED_EQ"
    BY <1>4, LevelIs
  <2>2. MaskImplies(a, b) /\ MaskImplies(b, c)
    BY <1>1, <2>1 DEF CondImplies
  <2>3. /\ Both(b.value, a.value) = b.value /\ Both(a.two, b.value) = b.two
        /\ Both(c.value, b.value) = c.value /\ Both(b.two, c.value) = c.two
    BY <2>1, <2>2, MaskedImplies
  <2>4. /\ a.value \in Value /\ a.two \in Value /\ b.value \in Value /\ b.two \in Value
        /\ c.value \in Value /\ c.two \in Value
    BY ArgFields
  <2>5. Both(c.value, a.value) = c.value /\ Both(a.two, c.value) = c.two
    BY <2>3, <2>4, MaskTwice
  <2>6. MaskImplies(a, c)
    BY <2>1, <2>5, MaskedImplies
  <2> QED
    BY <1>2, <2>1, <2>6 DEF CondImplies
<1>5. CASE Level(a) = 2
  <2>1. a.op = "NE"
    BY <1>5, LevelIs
  <2>2. RangeImplies(a, b)
    BY <1>1, <2>1 DEF CondImplies
  <2> QED
    BY <2>1, <2>2 DEF RangeImplies, HasInterval
<1>6. Level(a) \in 0..2
  BY LevelIs
<1> QED
  BY <1>3, <1>4, <1>5, <1>6

LEMMA SaysTwice ==
  ASSUME NEW a \in Arg, NEW b \in Arg, NEW c \in Arg, Says(a, b), Says(b, c)
  PROVE  Says(a, c)
<1>1. Level(a) \in Int /\ Level(b) \in Int /\ Level(c) \in Int
  BY LevelIs
<1>2. Level(a) = Level(b) /\ Level(b) = Level(c) =>
        (CondImplies(a, b) /\ CondImplies(b, c) => CondImplies(a, c))
  BY ImpliesTwice
<1>3. CASE Level(a) = Level(b) /\ Level(b) = Level(c)
  BY <1>1, <1>2, <1>3 DEF Says
<1>4. CASE ~(Level(a) = Level(b) /\ Level(b) = Level(c))
  BY <1>1, <1>4 DEF Says
<1> QED
  BY <1>3, <1>4

LEMMA ImpliesSays ==
  ASSUME NEW a \in Arg, NEW b \in Arg, CondImplies(a, b)
  PROVE  Says(a, b)
<1>1. /\ Level(a) \in 0..2 /\ Level(b) \in 0..2
      /\ Level(a) = 2 <=> a.op = "NE"
      /\ Level(a) = 1 <=> a.op = "MASKED_EQ"
      /\ Level(b) = 2 <=> b.op = "NE"
      /\ Level(b) = 1 <=> b.op = "MASKED_EQ"
  BY LevelIs
<1>2. CASE a = b
  BY <1>2, SaysItself
<1>3. CASE a # b /\ a.op = "NE"
  BY <1>3 DEF CondImplies, RangeImplies, HasInterval
<1>4. CASE a # b /\ a.op = "MASKED_EQ"
  <2>1. b.op = "MASKED_EQ" \/ b.op = "NE"
    BY <1>4 DEF CondImplies, MaskImplies
  <2> QED
    BY <1>1, <1>4, <2>1 DEF Says
<1>5. CASE a.op # "NE" /\ a.op # "MASKED_EQ"
  BY <1>1, <1>5 DEF Says
<1> QED
  BY <1>2, <1>3, <1>4, <1>5

LEMMA SaysAllItself == ASSUME NEW a PROVE SaysAll(a, a)
  BY SaysItself DEF SaysAll

LEMMA SaysAllTwice ==
  ASSUME NEW a \in SUBSET Arg, NEW b \in SUBSET Arg, NEW c \in SUBSET Arg,
         SaysAll(a, b), SaysAll(b, c)
  PROVE  SaysAll(a, c)
<1>1. SUFFICES ASSUME NEW loose \in a
               PROVE  \E strict \in c : strict.index = loose.index /\ Says(strict, loose)
  BY DEF SaysAll
<1>2. PICK m \in b : m.index = loose.index /\ Says(m, loose)
  BY DEF SaysAll
<1>3. PICK strict \in c : strict.index = m.index /\ Says(strict, m)
  BY DEF SaysAll
<1>4. Says(strict, loose)
  BY <1>2, <1>3, SaysTwice
<1> QED
  BY <1>2, <1>3, <1>4

LEMMA CoverSays ==
  ASSUME NEW wide \in SUBSET Arg, NEW thin \in SUBSET Arg, ArgsCover(wide, thin)
  PROVE  SaysAll(wide, thin)
<1>1. SUFFICES ASSUME NEW loose \in wide
               PROVE  \E strict \in thin : strict.index = loose.index /\ Says(strict, loose)
  BY DEF SaysAll
<1>2. PICK strict \in thin : strict.index = loose.index /\ CondImplies(strict, loose)
  BY DEF ArgsCover
<1> QED
  BY <1>2, ImpliesSays

LEMMA SaysBothWays ==
  ASSUME NEW a, NEW b, Filter(a), Filter(b), SaysAll(a, b), SaysAll(b, a)
  PROVE  ArgsCover(a, b)
<1>1. SUFFICES ASSUME NEW loose \in a
               PROVE  \E strict \in b : strict.index = loose.index /\ CondImplies(strict, loose)
  BY DEF ArgsCover
<1>2. PICK strict \in b : strict.index = loose.index /\ Says(strict, loose)
  BY DEF SaysAll
<1>3. PICK other \in a : other.index = strict.index /\ Says(other, strict)
  BY DEF SaysAll
<1>4. other = loose
  BY <1>2, <1>3 DEF Filter
<1>5. Level(strict) \in Int /\ Level(loose) \in Int
  BY FilterFacts, LevelIs
<1>6. Level(strict) = Level(loose)
  BY <1>2, <1>3, <1>4, <1>5 DEF Says
<1>7. CondImplies(strict, loose)
  BY <1>2, <1>5, <1>6 DEF Says
<1> QED
  BY <1>2, <1>7

-----------------------------------------------------------------------------
(* Pruning dominated clauses *)

Ordered(n, above) ==
  /\ \A i \in 1..n : i \notin above[i]
  /\ \A i \in 1..n : \A j \in above[i] : above[j] \subseteq above[i]

\* Of some indices, one has no other above it.
LEMMA Topmost ==
  ASSUME NEW n \in Nat, NEW above \in [1..n -> SUBSET (1..n)], NEW D \in SUBSET (1..n), D # {},
         Ordered(n, above)
  PROVE  \E m \in D : \A k \in D : k \notin above[m]
<1> DEFINE F == {above[i] : i \in D}
<1>1. F \in SUBSET (SUBSET (1..n)) /\ F # {}
  <2>1. \A i \in D : above[i] \in SUBSET (1..n)
    OBVIOUS
  <2>2. PICK i : i \in D
    OBVIOUS
  <2>3. above[i] \in F
    BY <2>2
  <2> QED
    BY <2>1, <2>3
<1>2. IsFiniteSet(1..n)
  BY FS_Interval
<1>3. PICK t \in F : \A s \in F : Cardinality(t) <= Cardinality(s)
  <2> HIDE DEF F
  <2> QED
    BY <1>1, <1>2, SmallestSubset
<1>4. PICK m \in D : t = above[m]
  BY <1>3
<1>5. SUFFICES ASSUME NEW k \in D, k \in above[m] PROVE FALSE
  OBVIOUS
<1> DEFINE less == t \ {k}
<1>6. above[k] \in SUBSET less /\ above[k] \in F /\ t \in SUBSET (1..n) /\ k \in t
  <2>1. k \in 1..n /\ m \in 1..n
    OBVIOUS
  <2>2. k \notin above[k] /\ above[k] \subseteq above[m]
    BY <1>5, <2>1 DEF Ordered
  <2> QED
    BY <1>4, <1>5, <2>1, <2>2
<1>7. /\ IsFiniteSet(t) /\ Cardinality(t) \in Nat
      /\ Cardinality(less) = Cardinality(t) - 1
  BY <1>2, <1>6, RemoveOne
<1>8. IsFiniteSet(less) /\ Cardinality(less) \in Nat
  BY <1>7, FS_RemoveElement, FS_CardinalityType
<1>9. Cardinality(t) <= Cardinality(above[k])
  BY <1>3, <1>6
<1> HIDE DEF less, F
<1>10. IsFiniteSet(above[k]) /\ Cardinality(above[k]) <= Cardinality(less)
  BY <1>6, <1>8, FS_Subset
<1>11. Cardinality(above[k]) \in Nat
  BY <1>10, FS_CardinalityType
<1> QED
  BY <1>7, <1>8, <1>9, <1>10, <1>11

Over(s, j, i) ==
  /\ SaysAll(s[j].args, s[i].args) /\ Rank(s[j]) >= Rank(s[i])
  /\ SaysAll(s[i].args, s[j].args) => j < i

LEMMA DominatingIsOver ==
  ASSUME NEW s \in Seq(Clause), NEW i \in DOMAIN s, NEW j \in DOMAIN s,
         Dominates(s[j], s[i], j < i)
  PROVE  Over(s, j, i) /\ ArgsCover(s[j].args, s[i].args) /\ Rank(s[j]) >= Rank(s[i])
<1>1. /\ s[i] \in Clause /\ s[j] \in Clause /\ Rank(s[i]) \in Int /\ Rank(s[j]) \in Int
  BY SeqIs, RankIs
<1>2. /\ s[i].args \in SUBSET Arg /\ s[j].args \in SUBSET Arg
      /\ Filter(s[i].args) /\ Filter(s[j].args)
  BY <1>1, ClauseFields DEF LoadedFilter
<1>3. /\ ArgsCover(s[j].args, s[i].args)
      /\ ArgsCover(s[i].args, s[j].args) => j < i /\ SameResult(s[i], s[j])
      /\ ~ArgsCover(s[i].args, s[j].args) => SameResult(s[i], s[j]) \/ Stricter(s[i], s[j])
  BY Zenon DEF Dominates
<1>4. Rank(s[j]) >= Rank(s[i])
  BY <1>1, <1>3, Comparisons
<1>5. SaysAll(s[j].args, s[i].args)
  BY <1>2, <1>3, CoverSays
<1>6. SaysAll(s[i].args, s[j].args) => j < i
  BY <1>2, <1>3, <1>5, SaysBothWays
<1> QED
  BY <1>3, <1>4, <1>5, <1>6 DEF Over

LEMMA OverTwice ==
  ASSUME NEW s \in Seq(Clause), NEW i \in DOMAIN s, NEW j \in DOMAIN s, NEW k \in DOMAIN s,
         Over(s, k, j), Over(s, j, i)
  PROVE  Over(s, k, i)
<1>1. /\ Rank(s[i]) \in Int /\ Rank(s[j]) \in Int /\ Rank(s[k]) \in Int
      /\ s[i].args \in SUBSET Arg /\ s[j].args \in SUBSET Arg /\ s[k].args \in SUBSET Arg
      /\ i \in Int /\ j \in Int /\ k \in Int
  <2>1. s[i] \in Clause /\ s[j] \in Clause /\ s[k] \in Clause
    BY SeqIs
  <2>2. i \in Int /\ j \in Int /\ k \in Int
    BY SeqIs
  <2> QED
    BY <2>1, <2>2, RankIs, ClauseFields
<1>2. /\ SaysAll(s[k].args, s[j].args) /\ Rank(s[k]) >= Rank(s[j])
      /\ SaysAll(s[j].args, s[i].args) /\ Rank(s[j]) >= Rank(s[i])
  BY DEF Over
<1>3. SaysAll(s[k].args, s[i].args) /\ Rank(s[k]) >= Rank(s[i])
  BY <1>1, <1>2, SaysAllTwice
<1>4. ASSUME SaysAll(s[i].args, s[k].args) PROVE k < i
  <2>1. SaysAll(s[i].args, s[j].args)
    BY <1>1, <1>2, <1>4, SaysAllTwice
  <2>2. SaysAll(s[j].args, s[k].args)
    BY <1>1, <1>2, <1>4, SaysAllTwice
  <2>3. j < i /\ k < j
    BY <2>1, <2>2 DEF Over
  <2> QED
    BY <1>1, <2>3
<1> QED
  BY <1>3, <1>4 DEF Over

\* For every clause that a call meets, pruneDominated keeps one that it meets
\* and that is no stricter.
LEMMA PrunedAre ==
  ASSUME NEW narrow \in BOOLEAN, NEW call \in Calls(narrow), NEW s \in Seq(Readable(narrow))
  PROVE  /\ PruneDominated(s) \in Seq(Readable(narrow))
         /\ Tops(ToSet(PruneDominated(s)), ToSet(s), Met(narrow, call))
<1> DEFINE V == Readable(narrow)
           M == Met(narrow, call)
           n == Len(s)
           kept == {i \in DOMAIN s :
                      \A j \in DOMAIN s : i # j => ~Dominates(s[j], s[i], j < i)}
           above == [i \in 1..n |-> {j \in 1..n : Over(s, j, i)}]
<1>1. /\ n \in Nat /\ DOMAIN s = 1..n /\ ToSet(s) \subseteq V
      /\ \A i \in 1..n : /\ s[i] \in V /\ s[i] \in ToSet(s) /\ Rank(s[i]) \in Int
                         /\ s[i].args \in PlainFilter(narrow)
      /\ \A c \in ToSet(s) : \E i \in 1..n : s[i] = c
  BY SeqIs, ReadableIs
<1>2. s \in Seq(Clause)
  <2>1. Readable(narrow) \subseteq Clause
    BY ReadableIs
  <2> QED
    BY <2>1
<1>3. \A i \in 1..n : i \notin above[i]
  <2>1. \A i \in 1..n : ~Over(s, i, i)
    <3>1. TAKE i \in 1..n
    <3>2. SaysAll(s[i].args, s[i].args) /\ i \in Int
      BY SaysAllItself
    <3> QED
      BY <3>2 DEF Over
  <2>2. \A i \in 1..n : above[i] = {j \in 1..n : Over(s, j, i)}
    OBVIOUS
  <2> HIDE DEF above
  <2> QED
    BY <2>1, <2>2, Zenon
<1>4. \A i \in 1..n : \A j \in above[i] : above[j] \subseteq above[i]
  <2>1. \A i \in 1..n, j \in 1..n, k \in 1..n : Over(s, k, j) /\ Over(s, j, i) => Over(s, k, i)
    BY <1>1, <1>2, OverTwice
  <2>2. \A i \in 1..n : above[i] = {j \in 1..n : Over(s, j, i)}
    OBVIOUS
  <2> HIDE DEF above
  <2> QED
    BY <2>1, <2>2
<1>9. Ordered(n, above)
  BY <1>3, <1>4 DEF Ordered
<1>5. ASSUME NEW c \in 1..n, s[c].args \in M
      PROVE  \E m \in kept : s[m].args \in M /\ Rank(s[m]) >= Rank(s[c])
  <2> DEFINE D == {j \in 1..n : s[j].args \in M /\ Rank(s[j]) >= Rank(s[c])}
  <2>1. D \in SUBSET (1..n) /\ c \in D
    BY <1>1, <1>5
  <2>2. above \in [1..n -> SUBSET (1..n)]
    OBVIOUS
  <2>3. PICK m \in D : \A k \in D : k \notin above[m]
    <3> HIDE DEF D, above, n
    <3> QED
      BY <1>1, <1>9, <2>1, <2>2, Topmost
  <2>4. m \in 1..n /\ s[m].args \in M /\ Rank(s[m]) >= Rank(s[c])
    OBVIOUS
  <2>5. ASSUME NEW j \in 1..n, Dominates(s[j], s[m], j < m) PROVE FALSE
    <3>1. Over(s, j, m) /\ ArgsCover(s[j].args, s[m].args) /\ Rank(s[j]) >= Rank(s[m])
      BY <1>1, <1>2, <2>4, <2>5, DominatingIsOver
    <3>2. s[j].args \in M
      BY <1>1, <2>4, <3>1, MetCover
    <3>3. Rank(s[j]) >= Rank(s[c])
      BY <1>1, <2>4, <3>1
    <3>4. j \in D /\ j \in above[m]
      BY <2>4, <3>1, <3>2, <3>3
    <3> HIDE DEF D, above
    <3> QED
      BY <2>3, <3>4
  <2>6. m \in kept
    BY <1>1, <2>4, <2>5
  <2> HIDE DEF D, kept
  <2> QED
    BY <2>4, <2>6
<1>6. ASSUME NEW t, t = Keep(s, kept)
      PROVE  t \in Seq(V) /\ Tops(ToSet(t), ToSet(s), M)
  <2>1. kept \subseteq 1..n
    BY <1>1
  <2> HIDE DEF kept, V, n
  <2>2. /\ t \in Seq(V)
        /\ ToSet(t) = {s[i] : i \in {j \in DOMAIN s : j \in kept}}
    BY <1>6, KeepIs DEF V
  <2>3. /\ ToSet(t) \subseteq ToSet(s)
        /\ \A i \in kept : s[i] \in ToSet(t)
    BY <1>1, <2>1, <2>2
  <2>4. ASSUME NEW c \in ToSet(s), c.args \in M
        PROVE  \E d \in ToSet(t) : d.args \in M /\ Rank(d) >= Rank(c)
    <3>1. PICK i \in 1..n : s[i] = c
      BY <1>1
    <3>2. PICK m \in kept : s[m].args \in M /\ Rank(s[m]) >= Rank(s[i])
      BY <1>5, <2>4, <3>1
    <3> QED
      BY <2>3, <3>1, <3>2
  <2> QED
    BY <2>2, <2>3, <2>4 DEF Tops
<1>7. CASE Len(s) > MaxPruneClauses
  <2>1. PruneDominated(s) = s
    BY <1>7 DEF PruneDominated
  <2>2. Tops(ToSet(s), ToSet(s), M)
    BY <1>1 DEF Tops
  <2> QED
    BY <2>1, <2>2
<1>8. CASE ~(Len(s) > MaxPruneClauses)
  <2>1. PruneDominated(s) = Keep(s, kept)
    BY <1>8 DEF PruneDominated
  <2> QED
    BY <1>6, <2>1
<1> QED
  BY <1>7, <1>8

-----------------------------------------------------------------------------
(* Making merged rules expressible *)

\* A fallback counts by its rank alone.
LEMMA SameRankFallback ==
  ASSUME NEW C, NEW f, NEW g, NEW M, Rank(f) = Rank(g)
  PROVE  Safer(C, f, C, g, M)
  BY DEF Safer, Heeds, AtMost, AtLeast

LEMMA ReadableClauses ==
  ASSUME NEW narrow, NEW s \in Seq(Readable(narrow))
  PROVE  s \in Seq(Clause) /\ ToSet(s) \in SUBSET Clause /\ ToSet(s) \in SUBSET Readable(narrow)
<1>1. Readable(narrow) \subseteq Clause
  BY ReadableIs
<1>2. s \in Seq(Clause)
  BY <1>1
<1>3. ToSet(s) \in SUBSET Clause /\ ToSet(s) \in SUBSET Readable(narrow)
  BY <1>2, SeqIs
<1> QED
  BY <1>2, <1>3

LEMMA CollapsedClauses ==
  ASSUME NEW narrow \in BOOLEAN, NEW call \in Calls(narrow), NEW s \in Seq(Readable(narrow)),
         NEW f \in Decisive
  PROVE  /\ CollapseClauses(s, f) \in Seq(Readable(narrow))
         /\ Safer(ToSet(s), f, ToSet(CollapseClauses(s, f)), f, Met(narrow, call))
<1> DEFINE V == Readable(narrow)
           M == Met(narrow, call)
           a == GroupByArgs(s)
           b == DropRedundant(a, f, TRUE)
           c == PruneDominated(b)
<1>1. f \in Clause /\ f # NoClause
  BY DecisiveIs
<1>2. CollapseClauses(s, f) = SortClauses(c)
  BY <1>1 DEF CollapseClauses, WithoutRedundant
<1>3. a \in Seq(V) /\ Safer(ToSet(s), f, ToSet(a), f, M)
  <2>1. a \in Seq(V) /\ Tops(ToSet(a), ToSet(s), M)
    BY GroupedIs
  <2> HIDE DEF a
  <2> QED
    BY <1>1, <2>1, ReadableClauses, TopsAreSafer
<1> HIDE DEF a
<1>4. b \in Seq(V) /\ Safer(ToSet(a), f, ToSet(b), f, M)
  BY <1>3, DropIsSafer
<1> HIDE DEF b
<1>5. c \in Seq(V) /\ Safer(ToSet(b), f, ToSet(c), f, M)
  <2>1. c \in Seq(V) /\ Tops(ToSet(c), ToSet(b), M)
    BY <1>4, PrunedAre
  <2> HIDE DEF c
  <2> QED
    BY <1>1, <1>4, <2>1, ReadableClauses, TopsAreSafer
<1> HIDE DEF c
<1>6. SortClauses(c) \in Seq(V) /\ ToSet(SortClauses(c)) = ToSet(c)
  <2> HIDE DEF V
  <2> QED
    BY <1>5, SortIs
<1>7. Safer(ToSet(s), f, ToSet(b), f, M)
  BY <1>3, <1>4, SaferTwice
<1>8. Safer(ToSet(s), f, ToSet(c), f, M)
  BY <1>5, <1>7, SaferTwice
<1> QED
  BY <1>2, <1>6, <1>8

LEMMA FoldedIntoFallback ==
  ASSUME NEW narrow \in BOOLEAN, NEW call \in Calls(narrow), NEW s \in Seq(Readable(narrow)),
         NEW f \in Decisive
  PROVE  /\ FoldIntoFallback(f, s) \in Seq(Readable(narrow))
         /\ Safer(ToSet(s), f, ToSet(FoldIntoFallback(f, s)), f, Met(narrow, call))
<1> DEFINE V == Readable(narrow)
           M == Met(narrow, call)
           a == GroupByArgs(s)
           b == DropRedundant(a, f, FALSE)
<1>1. f \in Clause
  BY DecisiveIs
<1>2. FoldIntoFallback(f, s) = b
  BY DEF FoldIntoFallback
<1>3. a \in Seq(V) /\ Safer(ToSet(s), f, ToSet(a), f, M)
  <2>1. a \in Seq(V) /\ Tops(ToSet(a), ToSet(s), M)
    BY GroupedIs
  <2> HIDE DEF a
  <2> QED
    BY <1>1, <2>1, ReadableClauses, TopsAreSafer
<1> HIDE DEF a
<1>4. b \in Seq(V) /\ Safer(ToSet(a), f, ToSet(b), f, M)
  BY <1>3, DropIsSafer
<1> HIDE DEF b
<1> QED
  BY <1>2, <1>3, <1>4, SaferTwice

\* The rules of a name as a clause that decides every call, or as clauses in a
\* safe shape.
Shaped(rules) ==
  /\ rules.unconditional = NoClause \/ rules.conditional = <<>>
  /\ SafeShape(ToSet(rules.conditional))

\* A clause that may be everyone's or have complementary ones.
LEMMA ComplementIsExact ==
  ASSUME NEW narrow \in BOOLEAN, NEW call \in Calls(narrow), NEW k \in Readable(narrow),
         NEW arg, k.args = {arg}, HasComplement(arg), NEW f \in Decisive, NEW g
  PROVE  /\ Under(f, {ComplementArg(arg)}) \in Readable(narrow)
         /\ Safer({k}, f, {k, Under(f, {ComplementArg(arg)})}, g, Met(narrow, call))
<1> DEFINE M == Met(narrow, call)
           comp == {ComplementArg(arg)}
           other == Under(f, comp)
<1>1. f \in Clause /\ Rank(f) \in Int /\ {arg} \in PlainFilter(narrow)
  BY DecisiveIs, ReadableIs
<1>2. comp \in PlainFilter(narrow) /\ comp # {}
  BY <1>1, ComplementFilter
<1>3. comp \in M <=> {arg} \notin M
  BY <1>1, MetComplement
<1> HIDE DEF comp, M
<1>4. other \in Readable(narrow) /\ other.args = comp /\ Rank(other) = Rank(f)
  BY <1>1, <1>2, ReadableUnder
<1> HIDE DEF other
<1>5. Rank(k) \in Int
  BY ReadableIs
<1>6. ASSUME NEW rank \in Int, AtMost({k}, f, M, rank) PROVE AtMost({k, other}, g, M, rank)
  BY <1>3, <1>4, <1>6 DEF AtMost
<1>7. ASSUME NEW rank \in Int, AtLeast({k}, f, M, rank) PROVE AtLeast({k, other}, g, M, rank)
  BY <1>3, <1>4, <1>7 DEF AtLeast
<1>8. Safer({k}, f, {k, other}, g, M)
  BY <1>6, <1>7 DEF Safer, Heeds
<1> QED
  BY <1>4, <1>8 DEF other, comp, M

\* resolveMixed is on the safe side, whatever the default, and leaves no
\* unconditional clause beside others.
LEMMA KeptResolved ==
  ASSUME NEW narrow \in BOOLEAN, NEW call \in Calls(narrow), NEW kept \in Seq(Readable(narrow)),
         NEW f \in Decisive, NEW default \in Decisive
  PROVE  LET R == ResolveKept(f, kept) IN
         /\ R \in RulesType(narrow) /\ (R.unconditional = NoClause \/ R.conditional = <<>>)
         /\ Safer(ToSet(kept), f, ToSet(R.conditional), Fallback(R, default), Met(narrow, call))
<1> DEFINE R == ResolveKept(f, kept)
           M == Met(narrow, call)
           V == Readable(narrow)
<1>1. f \in Clause /\ f # NoClause
  BY DecisiveIs
<1>2. <<>> \in Seq(V) /\ ToSet(<<>>) = {}
  BY EmptyList
<1>3. CASE kept = <<>>
  <2>1. R = [unconditional |-> f, conditional |-> <<>>]
    BY <1>3 DEF ResolveKept, NoRules
  <2>2. Fallback(R, default) = f /\ R.conditional = kept
    BY <1>1, <1>3, <2>1 DEF Fallback
  <2>3. R \in RulesType(narrow)
    BY <1>2, <2>1 DEF RulesType
  <2> QED
    BY <1>3, <2>1, <2>2, <2>3, SaferItself
<1> DEFINE pairs == Len(kept) = 1 /\ Single(kept[1].args) /\ HasComplement(OnlyArg(kept[1]))
<1>4. CASE kept # <<>> /\ pairs
  <2> DEFINE k == kept[1]
             arg == OnlyArg(k)
             other == Under(f, {ComplementArg(arg)})
             two == <<k, other>>
  <2>1. k \in V /\ ToSet(kept) = {k}
    BY <1>4 DEF ToSet
  <2>2. k.args = {arg}
    BY <1>4 DEF OnlyArg, Single
  <2>3. HasComplement(arg)
    BY <1>4
  <2>4. R = [unconditional |-> NoClause, conditional |-> SortClauses(two)]
    BY <1>4 DEF ResolveKept, NoRules, Under
  <2> HIDE DEF k, arg
  <2>5. other \in V /\ Safer({k}, f, {k, other}, default, M)
    BY <2>1, <2>2, <2>3, ComplementIsExact
  <2> HIDE DEF other
  <2>6. two \in Seq(V) /\ ToSet(two) = {k, other}
    BY <2>1, <2>5 DEF ToSet
  <2> HIDE DEF two
  <2>7. SortClauses(two) \in Seq(V) /\ ToSet(SortClauses(two)) = ToSet(two)
    <3> HIDE DEF V
    <3> QED
      BY <2>6, SortIs
  <2>8. Fallback(R, default) = default /\ R.unconditional = NoClause
    BY <2>4 DEF Fallback
  <2>9. R \in RulesType(narrow)
    BY <2>4, <2>7 DEF RulesType
  <2>10. ToSet(R.conditional) = {k, other}
    BY <2>4, <2>6, <2>7
  <2> HIDE DEF R
  <2> QED
    BY <2>1, <2>5, <2>8, <2>9, <2>10 DEF R
<1>5. CASE kept # <<>> /\ ~pairs
  <2> DEFINE all == CollapseAll(f, kept)
  <2>1. R = [unconditional |-> all, conditional |-> <<>>]
    BY <1>5 DEF ResolveKept, NoRules
  <2>2. kept \in Seq(Clause) /\ ToSet(kept) \in SUBSET Clause
    BY ReadableClauses
  <2>3. /\ all \in Decisive
        /\ \A c \in ToSet(kept) \cup {f} : /\ Intersecting => Rank(all) <= Rank(c)
                                           /\ ~Intersecting => Rank(all) >= Rank(c)
    BY <2>2, CollapsedIs
  <2> HIDE DEF all
  <2>4. OnSafeSideOf(all, ToSet(kept) \cup {f})
    BY <2>3 DEF OnSafeSideOf
  <2>5. all \in Clause /\ all # NoClause
    BY <2>3, DecisiveIs
  <2>6. Safer(ToSet(kept), f, {}, all, M)
    BY <1>1, <2>2, <2>4, <2>5, OneForAll
  <2>7. Fallback(R, default) = all /\ R.conditional = <<>>
    BY <2>1, <2>5 DEF Fallback
  <2>8. R \in RulesType(narrow)
    BY <1>2, <2>1, <2>3 DEF RulesType
  <2> HIDE DEF R
  <2> QED
    BY <1>2, <2>6, <2>7, <2>8 DEF R
<1> QED
  BY <1>3, <1>4, <1>5

\* Rules on the safe side of clauses and their fallback, beside a default.
Follows(clauses, fallback, rules, default, met) ==
  Safer(clauses, fallback, ToSet(rules.conditional), Fallback(rules, default), met)

Apart(rules) == rules.unconditional = NoClause \/ rules.conditional = <<>>

LEMMA FollowsTwice ==
  ASSUME NEW C, NEW f, NEW D, NEW g, NEW rules, NEW default, NEW M,
         Safer(C, f, D, g, M), Follows(D, g, rules, default, M)
  PROVE  Follows(C, f, rules, default, M)
  BY SaferTwice DEF Follows

LEMMA RulesFields ==
  ASSUME NEW narrow, NEW rules \in RulesType(narrow)
  PROVE  /\ rules.conditional \in Seq(Readable(narrow))
         /\ rules.unconditional \in Decisive \cup {NoClause}
         /\ rules = [unconditional |-> rules.unconditional, conditional |-> rules.conditional]
  BY DEF RulesType

LEMMA MixedResolved ==
  ASSUME NEW narrow \in BOOLEAN, NEW call \in Calls(narrow), NEW rules \in RulesType(narrow),
         NEW default \in Decisive
  PROVE  /\ ResolveMixed(rules) \in RulesType(narrow) /\ Apart(ResolveMixed(rules))
         /\ Follows(ToSet(rules.conditional), Fallback(rules, default),
                    ResolveMixed(rules), default, Met(narrow, call))
<1> DEFINE M == Met(narrow, call)
           f == rules.unconditional
           s == rules.conditional
           kept == FoldIntoFallback(f, s)
<1>1. s \in Seq(Readable(narrow)) /\ f \in Decisive \cup {NoClause}
  BY RulesFields
<1>2. CASE f = NoClause \/ s = <<>>
  <2>1. ResolveMixed(rules) = rules
    BY <1>2 DEF ResolveMixed
  <2> QED
    BY <1>2, <2>1, SaferItself DEF Follows, Apart
<1>3. CASE ~(f = NoClause \/ s = <<>>)
  <2>1. ResolveMixed(rules) = ResolveKept(f, kept)
    BY <1>3 DEF ResolveMixed
  <2>2. f \in Decisive /\ Fallback(rules, default) = f
    BY <1>1, <1>3 DEF Fallback
  <2> HIDE DEF f, s
  <2>3. kept \in Seq(Readable(narrow)) /\ Safer(ToSet(s), f, ToSet(kept), f, M)
    BY <1>1, <2>2, FoldedIntoFallback
  <2> HIDE DEF kept
  <2> DEFINE R == ResolveKept(f, kept)
  <2>4. /\ R \in RulesType(narrow) /\ Apart(R)
        /\ Follows(ToSet(kept), f, R, default, M)
    BY <2>2, <2>3, KeptResolved DEF Follows, Apart
  <2> HIDE DEF R
  <2>5. Follows(ToSet(s), f, R, default, M)
    BY <2>3, <2>4, FollowsTwice
  <2> QED
    BY <2>1, <2>2, <2>4, <2>5 DEF R, s
<1> QED
  BY <1>2, <1>3

\* What stands beside a fallback, or takes its place.
LEMMA BesideIsSafer ==
  ASSUME NEW narrow \in BOOLEAN, NEW call \in Calls(narrow), NEW s \in Seq(Readable(narrow)),
         NEW f \in Decisive, NEW default \in Decisive
  PROVE  LET R == BesideOrTraded(default, f, s) IN
         /\ R \in RulesType(narrow)
         /\ Follows(ToSet(s), f, R, default, Met(narrow, call))
<1> DEFINE M == Met(narrow, call)
           t == CollapseClauses(s, default)
           R == BesideOrTraded(default, f, s)
<1>1. f # NoClause
  BY DecisiveIs
<1>2. t \in Seq(Readable(narrow)) /\ Safer(ToSet(s), default, ToSet(t), default, M)
  BY CollapsedClauses
<1>3. ASSUME Equivalent(f, default) PROVE Safer(ToSet(s), f, ToSet(t), default, M)
  <2>1. Rank(f) = Rank(default)
    BY <1>3, Comparisons
  <2>2. Safer(ToSet(s), f, ToSet(s), default, M)
    BY <2>1, SameRankFallback
  <2> QED
    BY <1>2, <2>2, SaferTwice
<1> HIDE DEF M
<1>4. CASE Equivalent(f, default) /\ R = [unconditional |-> NoClause, conditional |-> t]
  <2> HIDE DEF t
  <2>1. R.conditional = t /\ Fallback(R, default) = default
    BY <1>4 DEF Fallback
  <2>2. R \in RulesType(narrow)
    BY <1>2, <1>4 DEF RulesType
  <2> QED
    BY <1>3, <1>4, <2>1, <2>2 DEF Follows, M
<1>5. CASE R = [unconditional |-> f, conditional |-> s]
  <2>1. R.conditional = s /\ Fallback(R, default) = f
    BY <1>1, <1>5 DEF Fallback
  <2>2. R \in RulesType(narrow)
    BY <1>5 DEF RulesType
  <2> QED
    BY <2>1, <2>2, SaferItself DEF Follows, M
<1> QED
  BY <1>4, <1>5 DEF BesideOrTraded, NoRules

LEMMA ElidedIsSafer ==
  ASSUME NEW narrow \in BOOLEAN, NEW call \in Calls(narrow), NEW rules \in RulesType(narrow),
         NEW default \in Decisive
  PROVE  LET R == ElidedOrBeside(default, rules) IN
         /\ R \in RulesType(narrow)
         /\ Follows(ToSet(rules.conditional), Fallback(rules, default), R, default,
                    Met(narrow, call))
<1> DEFINE M == Met(narrow, call)
           f == rules.unconditional
           s == rules.conditional
           R == ElidedOrBeside(default, rules)
           t == CollapseClauses(s, default)
           u == CollapseClauses(s, f)
<1>1. s \in Seq(Readable(narrow)) /\ f \in Decisive \cup {NoClause}
  BY RulesFields
<1>2. CASE f = NoClause \/ SameResult(f, default)
  <2>1. R = [unconditional |-> NoClause, conditional |-> t]
    BY <1>2 DEF ElidedOrBeside, NoRules
  <2>2. Rank(Fallback(rules, default)) = Rank(default)
    BY <1>2, Comparisons DEF Fallback
  <2>3. Fallback(R, default) = default /\ R.conditional = t
    BY <2>1 DEF Fallback
  <2> HIDE DEF s
  <2>4. t \in Seq(Readable(narrow)) /\ Safer(ToSet(s), default, ToSet(t), default, M)
    BY <1>1, CollapsedClauses
  <2>5. Safer(ToSet(s), Fallback(rules, default), ToSet(s), default, M)
    BY <2>2, SameRankFallback
  <2>6. R \in RulesType(narrow)
    BY <2>1, <2>4 DEF RulesType
  <2> HIDE DEF R
  <2>7. Follows(ToSet(s), Fallback(rules, default), R, default, M)
    BY <2>3, <2>4, <2>5, SaferTwice DEF Follows
  <2> QED
    BY <2>6, <2>7 DEF R, s
<1>3. CASE ~(f = NoClause \/ SameResult(f, default))
  <2>1. R = BesideOrTraded(default, f, u)
    BY <1>3 DEF ElidedOrBeside
  <2>2. f \in Decisive /\ Fallback(rules, default) = f
    BY <1>1, <1>3 DEF Fallback
  <2> HIDE DEF s, f
  <2>3. u \in Seq(Readable(narrow)) /\ Safer(ToSet(s), f, ToSet(u), f, M)
    BY <1>1, <2>2, CollapsedClauses
  <2> HIDE DEF u
  <2>4. R \in RulesType(narrow) /\ Follows(ToSet(u), f, R, default, M)
    BY <2>1, <2>2, <2>3, BesideIsSafer
  <2> HIDE DEF R
  <2>5. Follows(ToSet(s), f, R, default, M)
    BY <2>3, <2>4, FollowsTwice
  <2> QED
    BY <2>2, <2>4, <2>5 DEF R, s
<1> QED
  BY <1>2, <1>3

\* The same clauses, but for their errno.
AlikeButErrno(s, t) ==
  /\ DOMAIN t = DOMAIN s
  /\ \A i \in DOMAIN s : t[i].args = s[i].args /\ Rank(t[i]) = Rank(s[i])

LEMMA AlikeHeeds ==
  ASSUME NEW s \in Seq(Clause), NEW t \in Seq(Clause), AlikeButErrno(s, t), NEW f, NEW M
  PROVE  Safer(ToSet(s), f, ToSet(t), f, M)
<1>1. /\ \A i \in DOMAIN s : s[i] \in ToSet(s) /\ t[i] \in ToSet(t)
      /\ \A c \in ToSet(s) : \E i \in DOMAIN s : s[i] = c
      /\ \A c \in ToSet(t) : \E i \in DOMAIN s : t[i] = c
  BY SeqIs DEF AlikeButErrno
<1>2. \A c \in ToSet(t) : \E d \in ToSet(s) : d.args = c.args /\ Rank(d) = Rank(c)
  BY <1>1 DEF AlikeButErrno
<1>3. \A c \in ToSet(s) : \E d \in ToSet(t) : d.args = c.args /\ Rank(d) = Rank(c)
  BY <1>1 DEF AlikeButErrno
<1>4. ASSUME NEW rank \in Int, AtMost(ToSet(s), f, M, rank) PROVE AtMost(ToSet(t), f, M, rank)
  BY <1>2, <1>3, <1>4 DEF AtMost
<1>5. ASSUME NEW rank \in Int, AtLeast(ToSet(s), f, M, rank) PROVE AtLeast(ToSet(t), f, M, rank)
  BY <1>2, <1>3, <1>5 DEF AtLeast
<1> QED
  BY <1>4, <1>5 DEF Safer, Heeds

LEMMA UnifiedIs ==
  ASSUME NEW s \in Seq(Clause)
  PROVE  /\ UnifyErrno(s) \in Seq(Clause) /\ AlikeButErrno(s, UnifyErrno(s))
         /\ s = <<>> => UnifyErrno(s) = <<>>
<1>1. /\ Len(s) \in Nat /\ DOMAIN s = 1..Len(s) /\ \A i \in DOMAIN s : s[i] \in Clause
  BY SeqIs
<1>2. CASE ErrnoUnifiable(s)
  <2> DEFINE first == s[1]
             each(i) == [s[i] EXCEPT !.errno = first.errno]
             t == [i \in DOMAIN s |-> each(i)]
  <2>1. UnifyErrno(s) = t
    BY <1>2 DEF UnifyErrno
  <2>2. /\ Len(s) >= 2 /\ ErrnoSignificant(first.action)
        /\ \A i \in DOMAIN s : Equivalent(s[i], first)
    BY <1>2 DEF ErrnoUnifiable
  <2>3. first \in Clause
    BY <1>1, <2>2
  <2> HIDE DEF first
  <2>4. ASSUME NEW i \in DOMAIN s
        PROVE  each(i) \in Clause /\ each(i).args = s[i].args /\ Rank(each(i)) = Rank(s[i])
    <3>1. s[i] \in Clause /\ Rank(s[i]) = Rank(first)
      BY <1>1, <2>2, Comparisons
    <3> QED
      BY <2>2, <2>3, <3>1, OtherErrno
  <2> HIDE DEF each
  <2>5. DOMAIN t = DOMAIN s /\ \A i \in DOMAIN s : t[i] = each(i)
    OBVIOUS
  <2>6. t \in Seq(Clause)
    BY <1>1, <2>4
  <2> HIDE DEF t
  <2>7. AlikeButErrno(s, t)
    BY <2>4, <2>5 DEF AlikeButErrno
  <2>8. s # <<>>
    BY <2>2
  <2> QED
    BY <2>1, <2>6, <2>7, <2>8
<1>3. CASE ~ErrnoUnifiable(s)
  <2>1. UnifyErrno(s) = s
    BY <1>3 DEF UnifyErrno
  <2> QED
    BY <2>1 DEF AlikeButErrno
<1> QED
  BY <1>2, <1>3

LEMMA UnifiedReadable ==
  ASSUME NEW narrow, NEW s \in Seq(Readable(narrow))
  PROVE  UnifyErrno(s) \in Seq(Readable(narrow))
<1> DEFINE t == UnifyErrno(s)
<1>1. s \in Seq(Clause) /\ Len(s) \in Nat /\ DOMAIN s = 1..Len(s)
      /\ \A i \in DOMAIN s : s[i] \in Readable(narrow)
  BY ReadableClauses, SeqIs
<1>2. t \in Seq(Clause) /\ AlikeButErrno(s, t)
  BY <1>1, UnifiedIs
<1> HIDE DEF t
<1>3. ASSUME NEW i \in DOMAIN s PROVE t[i] \in Readable(narrow)
  <2>1. s[i] \in Readable(narrow)
    BY <1>1
  <2>2. s[i].args \in PlainFilter(narrow) /\ s[i].args # {}
    BY <2>1, ReadableIs
  <2>3. t[i] \in Clause /\ t[i].args = s[i].args
    BY <1>2, SeqIs DEF AlikeButErrno
  <2> QED
    BY <2>2, <2>3 DEF Readable, Conditional
<1>4. DOMAIN t = 1..Len(s)
  BY <1>1, <1>2 DEF AlikeButErrno
<1>5. Len(t) = Len(s)
  BY <1>1, <1>2, <1>4
<1>6. t \in Seq(Readable(narrow))
  BY <1>1, <1>2, <1>3, <1>4, <1>5
<1> QED
  BY <1>6 DEF t

\* collapse: rules of one clause, on the safe side of each clause and of the
\* default.
CollapsedRules(default, s) == [NoRules EXCEPT !.unconditional = Collapse(default, s)]

LEMMA CollapseIs ==
  ASSUME NEW s \in Seq(Clause), NEW default \in Decisive
  PROVE  LET R == CollapsedRules(default, s) IN
         /\ R.unconditional \in Decisive \cup {NoClause} /\ R.conditional = <<>>
         /\ R = [unconditional |-> R.unconditional, conditional |-> <<>>]
         /\ Fallback(R, default) \in Decisive
         /\ OnSafeSideOf(Fallback(R, default), ToSet(s) \cup {default})
<1> DEFINE all == CollapseAll(default, s)
           R == CollapsedRules(default, s)
<1>1. default \in Clause /\ default # NoClause
  BY DecisiveIs
<1>2. /\ all \in Decisive
      /\ \A c \in ToSet(s) \cup {default} : /\ Intersecting => Rank(all) <= Rank(c)
                                            /\ ~Intersecting => Rank(all) >= Rank(c)
  BY CollapsedIs
<1>3. all # NoClause
  BY <1>2, DecisiveIs
<1>4. R = [unconditional |-> IF SameResult(all, default) THEN NoClause ELSE all,
           conditional |-> <<>>]
  BY <1>1 DEF CollapsedRules, Collapse, NoRules
<1> HIDE DEF all, R
<1>5. CASE SameResult(all, default)
  <2>1. R.unconditional = NoClause /\ R.conditional = <<>> /\ Fallback(R, default) = default
    BY <1>4, <1>5 DEF Fallback
  <2>2. Rank(all) = Rank(default)
    BY <1>5, Comparisons
  <2>3. OnSafeSideOf(default, ToSet(s) \cup {default})
    BY <1>2, <2>2 DEF OnSafeSideOf
  <2> QED
    BY <1>4, <1>5, <2>1, <2>3 DEF R
<1>6. CASE ~SameResult(all, default)
  <2>1. R.unconditional = all /\ R.conditional = <<>> /\ Fallback(R, default) = all
    BY <1>3, <1>4, <1>6 DEF Fallback
  <2>2. OnSafeSideOf(all, ToSet(s) \cup {default})
    BY <1>2 DEF OnSafeSideOf
  <2> QED
    BY <1>2, <1>4, <1>6, <2>1, <2>2 DEF R
<1> QED
  BY <1>5, <1>6

LEMMA EmptyShape == SafeShape({})
  BY DEF SafeShape

\* The form that a settled name's rules have: a runtime loads them as written.
ResultForm(rules) == Apart(rules) /\ SafeShape(ToSet(rules.conditional))

LEMMA CollapseSettles ==
  ASSUME NEW narrow, NEW s \in Seq(Clause), NEW default \in Decisive, NEW M
  PROVE  LET R == CollapsedRules(default, s) IN
         /\ R \in RulesType(narrow) /\ ResultForm(R)
         /\ Follows(ToSet(s), default, R, default, M)
<1> DEFINE R == CollapsedRules(default, s)
<1>1. /\ R.unconditional \in Decisive \cup {NoClause} /\ R.conditional = <<>>
      /\ R = [unconditional |-> R.unconditional, conditional |-> <<>>]
      /\ Fallback(R, default) \in Decisive
      /\ OnSafeSideOf(Fallback(R, default), ToSet(s) \cup {default})
  BY CollapseIs
<1> HIDE DEF R
<1>2. R \in RulesType(narrow)
  BY <1>1, EmptyList DEF RulesType
<1>3. ResultForm(R)
  BY <1>1, EmptyList, EmptyShape DEF ResultForm, Apart
<1>4. ToSet(s) \in SUBSET Clause /\ default \in Clause /\ Fallback(R, default) \in Clause
  BY <1>1, SeqIs, DecisiveIs
<1>5. Safer(ToSet(s), default, {}, Fallback(R, default), M)
  BY <1>1, <1>4, OneForAll
<1> QED
  BY <1>1, <1>2, <1>3, <1>5, EmptyList DEF Follows, R

\* settleOutput.
LEMMA OutputSettled ==
  ASSUME NEW narrow, NEW rules \in RulesType(narrow), Apart(rules),
         NEW default \in Decisive, NEW M
  PROVE  LET R == SettleOutput(default, rules) IN
         /\ R \in RulesType(narrow) /\ ResultForm(R)
         /\ Follows(ToSet(rules.conditional), Fallback(rules, default), R, default, M)
<1> DEFINE s == rules.conditional
           f == Fallback(rules, default)
           t == UnifyErrno(s)
           R == SettleOutput(default, rules)
<1>1. s \in Seq(Readable(narrow)) /\ s \in Seq(Clause)
  BY RulesFields, ReadableClauses
<1>2. /\ t \in Seq(Readable(narrow)) /\ t \in Seq(Clause) /\ AlikeButErrno(s, t)
      /\ s = <<>> => t = <<>>
  BY <1>1, UnifiedReadable, UnifiedIs
<1>3. Safer(ToSet(s), f, ToSet(t), f, M)
  BY <1>1, <1>2, AlikeHeeds
<1>4. R = IF SafeShape(ToSet(t)) THEN [rules EXCEPT !.conditional = t]
          ELSE CollapsedRules(default, t)
  BY DEF SettleOutput, SafeOrCollapsed, CollapsedRules
<1>5. CASE SafeShape(ToSet(t))
  <2>1. R = [unconditional |-> rules.unconditional, conditional |-> t]
    <3> HIDE DEF t
    <3> QED
      BY <1>4, <1>5, RulesFields
  <2> HIDE DEF t
  <2>2. Fallback(R, default) = f /\ R.conditional = t /\ R.unconditional = rules.unconditional
    BY <2>1 DEF Fallback
  <2>3. R \in RulesType(narrow)
    BY <1>2, <2>1, RulesFields DEF RulesType
  <2>4. ResultForm(R)
    BY <1>2, <1>5, <2>2 DEF ResultForm, Apart
  <2> QED
    BY <1>3, <2>2, <2>3, <2>4 DEF Follows
<1>6. CASE ~SafeShape(ToSet(t))
  <2>1. R = CollapsedRules(default, t)
    BY <1>4, <1>6
  <2>2. s # <<>>
    BY <1>2, <1>6, EmptyList, EmptyShape
  <2>3. f = default
    BY <2>2 DEF Apart, Fallback
  <2> HIDE DEF t, R, s, f
  <2>4. R \in RulesType(narrow) /\ ResultForm(R) /\ Follows(ToSet(t), default, R, default, M)
    BY <1>2, <2>1, CollapseSettles
  <2>5. Follows(ToSet(s), f, R, default, M)
    BY <1>3, <2>3, <2>4, FollowsTwice
  <2> QED
    BY <2>4, <2>5 DEF R, s, f
<1> QED
  BY <1>5, <1>6

\* finishRules is on the safe side, and leaves rules in the form of a result.
LEMMA FinishedRules ==
  ASSUME NEW narrow \in BOOLEAN, NEW call \in Calls(narrow), NEW rules \in RulesType(narrow),
         NEW default \in Decisive
  PROVE  LET R == FinishRules(default, rules) IN
         /\ R \in RulesType(narrow) /\ ResultForm(R)
         /\ Follows(ToSet(rules.conditional), Fallback(rules, default), R, default,
                    Met(narrow, call))
<1> DEFINE M == Met(narrow, call)
           a == ElidedOrBeside(default, rules)
           b == ResolveMixed(a)
           R == SettleOutput(default, b)
<1>1. FinishRules(default, rules) = R
  BY DEF FinishRules
<1>2. /\ a \in RulesType(narrow)
      /\ Follows(ToSet(rules.conditional), Fallback(rules, default), a, default, M)
  BY ElidedIsSafer
<1> HIDE DEF a
<1>3. /\ b \in RulesType(narrow) /\ Apart(b)
      /\ Follows(ToSet(a.conditional), Fallback(a, default), b, default, M)
  BY <1>2, MixedResolved
<1> HIDE DEF b
<1>4. /\ R \in RulesType(narrow) /\ ResultForm(R)
      /\ Follows(ToSet(b.conditional), Fallback(b, default), R, default, M)
  BY <1>3, OutputSettled
<1> HIDE DEF R
<1>5. Follows(ToSet(rules.conditional), Fallback(rules, default), b, default, M)
  BY <1>2, <1>3, FollowsTwice DEF Follows
<1>6. Follows(ToSet(rules.conditional), Fallback(rules, default), R, default, M)
  BY <1>4, <1>5, FollowsTwice DEF Follows
<1> QED
  BY <1>1, <1>4, <1>6

\* One syscall of two profiles: mergeSyscall is on the safe side of either.
LEMMA MergedSyscall ==
  ASSUME NEW narrow \in BOOLEAN, NEW call \in Calls(narrow),
         NEW left \in RulesType(narrow), NEW right \in RulesType(narrow),
         NEW ld \in Decisive, NEW rd \in Decisive
  PROVE  LET default == PickClause(ld, rd)
             R == MergeSyscall(left, right, ld, rd, default)
         IN /\ R \in RulesType(narrow) /\ ResultForm(R)
            /\ Follows(ToSet(left.conditional), Fallback(left, ld), R, default,
                       Met(narrow, call))
            /\ Follows(ToSet(right.conditional), Fallback(right, rd), R, default,
                       Met(narrow, call))
<1> DEFINE M == Met(narrow, call)
           default == PickClause(ld, rd)
           R == MergeSyscall(left, right, ld, rd, default)
           both == MergeRules(left, right, ld, rd)
<1>1. default \in Decisive
  BY PickedDecisive
<1>2. CASE left = NoRules /\ right = NoRules
  <2>1. R = NoRules
    BY <1>2 DEF MergeSyscall
  <2>2. /\ Fallback(R, default) = default /\ Fallback(left, ld) = ld /\ Fallback(right, rd) = rd
        /\ ToSet(R.conditional) = {} /\ ToSet(left.conditional) = {}
        /\ ToSet(right.conditional) = {}
    BY <1>2, <2>1, EmptyList DEF Fallback, NoRules
  <2>3. R \in RulesType(narrow) /\ ResultForm(R)
    <3>1. /\ R = [unconditional |-> NoClause, conditional |-> <<>>]
          /\ R.unconditional = NoClause
      BY <2>1 DEF NoRules
    <3>2. R \in RulesType(narrow)
      BY <3>1, EmptyList DEF RulesType
    <3>3. ResultForm(R)
      BY <2>2, <3>1, EmptyShape DEF ResultForm, Apart
    <3> QED
      BY <3>2, <3>3
  <2>4. default \in Clause /\ ld \in Clause /\ rd \in Clause
    BY <1>1, DecisiveIs
  <2>5. OnSafeSideOf(default, {} \cup {ld}) /\ OnSafeSideOf(default, {} \cup {rd})
    BY FallbackPicks DEF OnSafeSideOf
  <2> HIDE DEF default, R
  <2>6. Safer({}, ld, {}, default, M) /\ Safer({}, rd, {}, default, M)
    BY <2>4, <2>5, OneForAll
  <2> QED
    BY <2>2, <2>3, <2>6 DEF Follows, R, default
<1>3. CASE ~(left = NoRules /\ right = NoRules)
  <2>1. R = FinishRules(default, both)
    BY <1>3 DEF MergeSyscall
  <2> DEFINE lf == Fallback(left, ld)
             rf == Fallback(right, rd)
             l == ToSet(left.conditional)
             r == ToSet(right.conditional)
  <2>2. /\ both \in RulesType(narrow) /\ both.unconditional \in Decisive
        /\ Safer(l, lf, ToSet(both.conditional), both.unconditional, M)
        /\ Safer(r, rf, ToSet(both.conditional), both.unconditional, M)
    BY MergedRules
  <2> HIDE DEF both, default, lf, rf, l, r
  <2>3. Fallback(both, default) = both.unconditional
    BY <2>2, DecisiveIs DEF Fallback
  <2>4. /\ R \in RulesType(narrow) /\ ResultForm(R)
        /\ Follows(ToSet(both.conditional), Fallback(both, default), R, default, M)
    BY <1>1, <2>1, <2>2, FinishedRules
  <2> HIDE DEF R
  <2>5. Follows(l, lf, R, default, M) /\ Follows(r, rf, R, default, M)
    BY <2>2, <2>3, <2>4, FollowsTwice
  <2> QED
    BY <2>4, <2>5 DEF R, default, l, r, lf, rf
<1> QED
  BY <1>2, <1>3

-----------------------------------------------------------------------------
(* What a runtime loads *)

LEMMA SixteenBits ==
  ASSUME NEW errno \in Int
  PROVE  errno % 65536 \in ErrnoValue
<1>1. errno % 65536 \in Int
  BY SMTT(90)
<1>2. 0 <= errno % 65536
  BY SMTT(90)
<1>3. errno % 65536 < 65536
  BY SMTT(90)
<1> QED
  BY <1>1, <1>2, <1>3, SMTT(90) DEF ErrnoValue

LEMMA SmallErrno ==
  ASSUME NEW action, NEW errno \in Int, ErrnoSignificant(action)
  PROVE  RuntimeErrno(action, errno) \in ErrnoValue
<1>1. CASE errno = Unset
  <2>1. RuntimeErrno(action, errno) = 1
    BY <1>1 DEF RuntimeErrno, DefaultErrno
  <2> QED
    BY <2>1 DEF ErrnoValue
<1>2. CASE errno # Unset
  <2>1. RuntimeErrno(action, errno) = errno % 65536
    BY <1>2 DEF RuntimeErrno
  <2> QED
    BY <2>1, SixteenBits
<1> QED
  BY <1>1, <1>2

LEMMA ErrnoIs ==
  ASSUME NEW action \in Action, NEW errno \in Int
  PROVE  /\ CanonicalAction(action) \in Action \ {"KILL_THREAD"}
         /\ RuntimeErrno(action, errno) \in Errnos(CanonicalAction(action))
<1>1. CanonicalAction(action) \in Action \ {"KILL_THREAD"}
  BY DEF CanonicalAction, Action
<1>2. ErrnoSignificant(CanonicalAction(action)) <=> ErrnoSignificant(action)
  BY DEF CanonicalAction, ErrnoSignificant
<1>3. CASE ~ErrnoSignificant(action)
  BY <1>1, <1>2, <1>3 DEF RuntimeErrno, Errnos
<1>4. CASE ErrnoSignificant(action)
  <2>1. Errnos(CanonicalAction(action)) = ErrnoValue
    BY <1>2, <1>4 DEF Errnos
  <2> QED
    BY <1>1, <1>4, <2>1, SmallErrno
<1> QED
  BY <1>3, <1>4

LEMMA DecisionIs ==
  ASSUME NEW action \in Action, NEW errno \in Int
  PROVE  Decision(action, errno) \in Decisive
<1>1. /\ CanonicalAction(action) \in Action \ {"KILL_THREAD"}
      /\ RuntimeErrno(action, errno) \in Errnos(CanonicalAction(action))
  BY ErrnoIs
<1>2. Decision(action, errno) \in Clause
  BY <1>1, EmptyFilter, MakeClause DEF Decision
<1> QED
  BY <1>2 DEF Decisive, Decision

LEMMA CanonicalTwice ==
  ASSUME NEW arg \in Arg
  PROVE  /\ CanonicalArg(CanonicalArg(arg)) = CanonicalArg(arg)
         /\ CanonicalArg(arg) \in Arg /\ Canonical(CanonicalArg(arg))
         /\ CanonicalArg(arg).index = arg.index
<1> DEFINE c == CanonicalArg(arg)
<1>1. c \in Arg /\ Canonical(c)
  BY CanonicalArgIsCanonical
<1>2. /\ c.index = arg.index /\ c.op = arg.op /\ c.value = arg.value
      /\ c = [index |-> c.index, op |-> c.op, value |-> c.value, two |-> c.two]
      /\ c.op # "MASKED_EQ" => c.two = 0
  BY DEF CanonicalArg
<1> HIDE DEF c
<1>3. c.op = "MASKED_EQ" => And[c.two, c.value] = c.two
  BY <1>1 DEF Canonical
<1>4. CanonicalArg(c) = c
  BY <1>2, <1>3 DEF CanonicalArg
<1> QED
  BY <1>1, <1>2, <1>4 DEF c

LEMMA ArgsLoaded ==
  ASSUME NEW args \in Seq(Arg), ~RepeatsIndex(args)
  PROVE  LoadedFilter(LoadedArgs(args))
<1> DEFINE n == Len(args)
           f == [i \in 1..n |-> CanonicalArg(args[i])]
           all == {CanonicalArg(a) : a \in ToSet(args)}
           L == LoadedArgs(args)
<1>1. /\ n \in Nat /\ DOMAIN args = 1..n /\ \A i \in 1..n : args[i] \in Arg /\ args[i] \in ToSet(args)
      /\ \A a \in ToSet(args) : \E i \in 1..n : args[i] = a
  BY SeqIs
<1>2. ASSUME NEW x \in all
      PROVE  \E i \in 1..n : x = CanonicalArg(args[i])
  BY <1>1
<1>3. L \subseteq all /\ \A arg \in L : ~Tautology(arg)
  BY DEF LoadedArgs
<1>4. IsFiniteSet(L)
  <2>1. f \in Surjection(1..n, all)
    <3>1. f \in [1..n -> all]
      BY <1>1
    <3>2. \A x \in all : \E i \in 1..n : f[i] = x
      BY <1>2
    <3> QED
      BY <3>1, <3>2 DEF Surjection
  <2>2. IsFiniteSet(1..n)
    BY <1>1, FS_Interval
  <2> HIDE DEF all, f, L
  <2>3. IsFiniteSet(all)
    BY <2>1, <2>2, FS_Surjection
  <2> QED
    BY <1>3, <2>3, FS_Subset
<1> HIDE DEF all, L
<1>5. ASSUME NEW x \in L
      PROVE  \E i \in 1..n : x = CanonicalArg(args[i]) /\ args[i] \in Arg /\ x \in Arg
                             /\ x.index = args[i].index /\ Canonical(x) /\ CanonicalArg(x) = x
  <2>1. PICK i \in 1..n : x = CanonicalArg(args[i])
    BY <1>2, <1>3
  <2> QED
    BY <1>1, <2>1, CanonicalTwice
<1>6. ASSUME NEW x \in L, NEW y \in L, x.index = y.index PROVE x = y
  <2>1. PICK i \in 1..n : x = CanonicalArg(args[i]) /\ x.index = args[i].index
    BY <1>5
  <2>2. PICK j \in 1..n : y = CanonicalArg(args[j]) /\ y.index = args[j].index
    BY <1>5
  <2>3. i = j
    BY <1>1, <1>6, <2>1, <2>2 DEF RepeatsIndex
  <2> QED
    BY <2>1, <2>2, <2>3
<1>7. Filter(L)
  BY <1>5, <1>6 DEF Filter
<1> QED
  BY <1>3, <1>4, <1>5, <1>7 DEF LoadedFilter, L

LEMMA OneNeverRepeats ==
  ASSUME NEW arg \in Arg
  PROVE  <<arg>> \in Seq(Arg) /\ ~RepeatsIndex(<<arg>>)
<1>1. DOMAIN <<arg>> = {1}
  OBVIOUS
<1> QED
  BY <1>1 DEF RepeatsIndex

\* A clause with the result of an entry.
Bears(clause, base) == clause.action = base.action /\ clause.errno = base.errno

LEMMA EntryLoads ==
  ASSUME NEW entry \in Entry
  PROVE  /\ EntryClauses(entry) \in Seq(Clause)
         /\ \A c \in ToSet(EntryClauses(entry)) : Bears(c, Decision(entry.action, entry.errno))
<1> DEFINE base == Decision(entry.action, entry.errno)
           s == EntryClauses(entry)
<1>1. entry.action \in Action /\ entry.errno \in Int /\ entry.args \in Seq(Arg)
  BY DEF Entry
<1>2. base \in Clause
  BY <1>1, DecisionIs, DecisiveIs
<1> HIDE DEF base
<1>3. CASE RepeatsIndex(entry.args)
  <2> DEFINE n == Len(entry.args)
             each(i) == Under(base, LoadedArgs(<<entry.args[i]>>))
  <2>1. s = [i \in DOMAIN entry.args |-> each(i)]
    BY <1>3 DEF EntryClauses, Under, base
  <2>2. n \in Nat /\ DOMAIN entry.args = 1..n /\ \A i \in 1..n : entry.args[i] \in Arg
    BY <1>1, SeqIs
  <2>3. \A i \in 1..n : each(i) \in Clause /\ Bears(each(i), base)
    <3>1. TAKE i \in 1..n
    <3>2. LoadedFilter(LoadedArgs(<<entry.args[i]>>))
      BY <2>2, OneNeverRepeats, ArgsLoaded
    <3> QED
      BY <1>2, <3>2, UnderIs DEF Bears
  <2> HIDE DEF each, s
  <2>4. s \in Seq(Clause) /\ DOMAIN s = 1..n /\ \A i \in 1..n : s[i] = each(i)
    BY <2>1, <2>2, <2>3
  <2>5. \A c \in ToSet(s) : Bears(c, base)
    BY <2>3, <2>4, SeqIs
  <2> QED
    BY <2>4, <2>5 DEF s, base
<1>4. CASE ~RepeatsIndex(entry.args)
  <2> DEFINE c == Under(base, LoadedArgs(entry.args))
  <2>1. s = <<c>>
    BY <1>4 DEF EntryClauses, Under, base
  <2>2. LoadedFilter(LoadedArgs(entry.args))
    BY <1>1, <1>4, ArgsLoaded
  <2>3. c \in Clause /\ Bears(c, base)
    BY <1>2, <2>2, UnderIs DEF Bears
  <2> HIDE DEF c
  <2> QED
    BY <2>1, <2>3, OneElement DEF base
<1> QED
  BY <1>3, <1>4

\* The entries that rule a name beside a default.
Ruling(entries, default, name) ==
  {i \in DOMAIN entries : name \in entries[i].names /\ ~Skipped(entries[i], default)}

LEMMA LoadedAre ==
  ASSUME NEW entries \in Seq(Entry), NEW default, NEW name
  PROVE  /\ LoadedClauses(entries, default, name) \in Seq(Clause)
         /\ ToSet(LoadedClauses(entries, default, name)) =
              UNION {ToSet(EntryClauses(entries[i])) : i \in Ruling(entries, default, name)}
<1> DEFINE n == Len(entries)
           rules(i) == name \in entries[i].names /\ ~Skipped(entries[i], default)
           lists == [i \in DOMAIN entries |->
                       IF rules(i) THEN EntryClauses(entries[i]) ELSE <<>>]
           all == FlattenSeq(lists)
<1>1. n \in Nat /\ DOMAIN entries = 1..n /\ \A i \in 1..n : entries[i] \in Entry
  BY SeqIs
<1>2. all = LoadedClauses(entries, default, name)
  BY DEF LoadedClauses
<1>3. \A i \in 1..n : EntryClauses(entries[i]) \in Seq(Clause)
  BY <1>1, EntryLoads
<1>4. Ruling(entries, default, name) = {i \in 1..n : rules(i)}
  BY <1>1 DEF Ruling
<1> HIDE DEF n, rules
<1>5. /\ lists \in [1..n -> Seq(Clause)]
      /\ \A i \in 1..n : ToSet(lists[i]) = IF rules(i) THEN ToSet(EntryClauses(entries[i])) ELSE {}
  BY <1>1, <1>3, EmptyList
<1> HIDE DEF lists
<1>6. all \in Seq(Clause) /\ ToSet(all) = UNION {ToSet(lists[i]) : i \in 1..n}
  BY <1>1, <1>5, FlattenedElements
<1>7. UNION {ToSet(lists[i]) : i \in 1..n} =
        UNION {ToSet(EntryClauses(entries[i])) : i \in {i \in 1..n : rules(i)}}
  BY <1>5
<1> QED
  BY <1>2, <1>4, <1>6, <1>7

\* No clause has the result of the default: a runtime skips those.
LEMMA LoadedDiffer ==
  ASSUME NEW entries \in Seq(Entry), NEW default \in Decisive, NEW name,
         NEW c \in ToSet(LoadedClauses(entries, default, name))
  PROVE  c \in Clause /\ ~SameResult(c, default)
<1>1. PICK i \in Ruling(entries, default, name) : c \in ToSet(EntryClauses(entries[i]))
  BY LoadedAre
<1>2. i \in DOMAIN entries /\ ~Skipped(entries[i], default) /\ entries[i] \in Entry
  BY SeqIs DEF Ruling
<1> DEFINE base == Decision(entries[i].action, entries[i].errno)
<1>3. Bears(c, base) /\ c \in Clause
  BY <1>1, <1>2, EntryLoads, SeqIs
<1>4. ~SameResult(base, default)
  BY <1>2, DecisiveIs DEF Skipped
<1> HIDE DEF base
<1> QED
  BY <1>3, <1>4 DEF SameResult, Equivalent, Bears

-----------------------------------------------------------------------------
(* What the kernel makes of the clauses of one name *)

Direct(s, default, narrow, call) ==
  LET first == FirstUnconditional(s) IN
  IF first # NoClause THEN {Rank(first)}
  ELSE Evaluated(ToSet(s), default, narrow, call)

LEMMA FirstIs ==
  ASSUME NEW s \in Seq(Clause)
  PROVE  \/ FirstUnconditional(s) = NoClause /\ \A c \in ToSet(s) : c \in Conditional
         \/ FirstUnconditional(s) \in Decisive /\ FirstUnconditional(s) \in ToSet(s)
<1> DEFINE found == {i \in DOMAIN s : Unconditional(s[i])}
<1>1. /\ Len(s) \in Nat /\ DOMAIN s = 1..Len(s)
      /\ \A i \in DOMAIN s : s[i] \in Clause /\ s[i] \in ToSet(s)
      /\ \A c \in ToSet(s) : \E i \in DOMAIN s : s[i] = c
  BY SeqIs
<1>2. CASE found = {}
  <2>1. FirstUnconditional(s) = NoClause
    BY <1>2 DEF FirstUnconditional
  <2>2. \A c \in ToSet(s) : c \in Conditional
    BY <1>1, <1>2 DEF Conditional, Unconditional
  <2> QED
    BY <2>1, <2>2
<1>3. CASE found # {}
  <2>1. found \in SUBSET (1..Len(s))
    BY <1>1
  <2>2. Min(found) \in found
    <3> HIDE DEF found
    <3> QED
      BY <1>1, <1>3, <2>1, LeastPicks
  <2>3. FirstUnconditional(s) = s[Min(found)]
    BY <1>3 DEF FirstUnconditional
  <2>4. Min(found) \in DOMAIN s /\ Unconditional(s[Min(found)])
    BY <2>2
  <2> HIDE DEF found
  <2> QED
    BY <1>1, <2>3, <2>4 DEF Decisive, Unconditional
<1> QED
  BY <1>2, <1>3

\* Every result is that of a clause or of the default.
LEMMA DirectWithin ==
  ASSUME NEW s \in Seq(Clause), NEW default, NEW narrow, NEW call,
         NEW rank \in Direct(s, default, narrow, call)
  PROVE  rank = Rank(default) \/ \E c \in ToSet(s) : rank = Rank(c)
<1>1. CASE FirstUnconditional(s) # NoClause
  BY <1>1, FirstIs DEF Direct
<1>2. CASE FirstUnconditional(s) = NoClause
  BY <1>2 DEF Direct, Evaluated, RanksOf
<1> QED
  BY <1>1, <1>2

LEMMA OnlyIs ==
  ASSUME NEW c \in Clause, Single(c.args)
  PROVE  OnlyArg(c) \in Arg /\ c.args = {OnlyArg(c)}
<1>1. c.args = {OnlyArg(c)}
  BY DEF Single, OnlyArg
<1>2. c.args \in SUBSET Arg
  BY ClauseFields
<1> QED
  BY <1>1, <1>2

\* What the package takes for a safe shape libseccomp compiles as written.
LEMMA ShapeCompiles ==
  ASSUME NEW C \in SUBSET Clause, SafeShape(C)
  PROVE  Compiled(C)
<1>1. CASE \A c, d \in C : c = d
  BY <1>1 DEF Compiled
<1>2. CASE (\A c \in C : Single(c.args)) /\ DistinctEqualities(C)
  <2>1. EqualitiesApart(C)
    BY <1>2, Zenon DEF DistinctEqualities, EqualitiesApart
  <2> QED
    BY <1>2, <2>1 DEF Compiled
<1>3. CASE (\A c \in C : Single(c.args)) /\ ComplementPair(C)
  <2>1. PICK c \in C, d \in C : /\ C = {c, d}
                                /\ HasComplement(OnlyArg(c))
                                /\ ComplementArg(OnlyArg(c)) = OnlyArg(d)
    BY <1>3 DEF ComplementPair
  <2> DEFINE a == OnlyArg(c)
             b == OnlyArg(d)
  <2>2. a \in Arg /\ a.op # "MASKED_EQ"
    BY <1>3, <2>1, OnlyIs DEF HasComplement
  <2>3. b.index = a.index /\ b.value = a.value /\ b.op = ComplementOp[a.op]
    BY <2>1 DEF ComplementArg
  <2> HIDE DEF a, b
  <2>4. a.op \in {"EQ", "NE", "LT", "GE", "LE", "GT"}
    BY <2>2, ArgFields DEF Op
  <2>5. \/ <<a.op, b.op>> \in {<<"EQ", "NE">>, <<"LT", "GE">>, <<"LE", "GT">>}
        \/ <<b.op, a.op>> \in {<<"EQ", "NE">>, <<"LT", "GE">>, <<"LE", "GT">>}
    BY <2>3, <2>4 DEF ComplementOp
  <2>6. C = {c, d} /\ C = {d, c}
    BY <2>1
  <2>7. Opposites(C)
    BY <2>3, <2>5, <2>6 DEF Opposites, a, b
  <2> QED
    BY <1>3, <2>7 DEF Compiled
<1>4. CASE (\A c \in C : Single(c.args)) /\ UniformResult(C)
  <2>1. ASSUME NEW c \in C, NEW d \in C
        PROVE  /\ Rank(c) = Rank(d) /\ c.errno = d.errno
               /\ c # d /\ OnlyArg(c).index = OnlyArg(d).index /\ RangeOp(OnlyArg(c).op) =>
                    OnlyArg(c).value <= MaxLow
    <3>1. SameResult(c, d)
      BY <1>4 DEF UniformResult
    <3>2. c \in Clause /\ d \in Clause
      OBVIOUS
    <3>3. Rank(c) = Rank(d) /\ c.errno = d.errno
      BY <3>1, <3>2, SameResults, Comparisons
    <3>4. OnlyArg(c).value \in Int
      BY <1>4, <3>2, OnlyIs, ArgFields, ValueFacts
    <3>5. c # d /\ OnlyArg(c).index = OnlyArg(d).index =>
            ~(RangeOp(OnlyArg(c).op) /\ OnlyArg(c).value > MaxLow)
      BY <1>4 DEF UniformResult
    <3> QED
      BY <3>3, <3>4, <3>5, LowIs
  <2>2. OneResult(C)
    BY <2>1, Zenon DEF OneResult
  <2> QED
    BY <1>4, <2>2 DEF Compiled
<1> QED
  BY <1>1, <1>2, <1>3, <1>4 DEF SafeShape

\* A condition the way an architecture reads it.
ReadArg(arg, narrow) ==
  IF narrow THEN [arg EXCEPT !.value = And[arg.value, MaxLow], !.two = And[arg.two, MaxLow]]
  ELSE arg

LEMMA ReadArgIs ==
  ASSUME NEW arg \in Arg, NEW narrow \in BOOLEAN
  PROVE  /\ ReadArg(arg, narrow) \in Arg
         /\ ReadArg(arg, narrow).index = arg.index /\ ReadArg(arg, narrow).op = arg.op
         /\ ~narrow => ReadArg(arg, narrow).value = arg.value
         /\ narrow => ReadArg(arg, narrow).value = And[arg.value, MaxLow]
<1> DEFINE v == And[arg.value, MaxLow]
           t == And[arg.two, MaxLow]
<1>1. v \in Value /\ t \in Value
  BY ArgFields, LowIs, AndFacts
<1>2. /\ arg = [index |-> arg.index, op |-> arg.op, value |-> arg.value, two |-> arg.two]
      /\ arg.index \in Index /\ arg.op \in Op
  BY DEF Arg
<1>3. CASE narrow
  <2>1. ReadArg(arg, narrow) = [arg EXCEPT !.value = v, !.two = t]
    BY <1>3 DEF ReadArg
  <2> HIDE DEF v, t
  <2>2. ReadArg(arg, narrow) = [index |-> arg.index, op |-> arg.op, value |-> v, two |-> t]
    BY <1>2, <2>1
  <2>3. ReadArg(arg, narrow) \in Arg /\ ReadArg(arg, narrow).value = v
    BY <1>1, <1>2, <2>2 DEF Arg
  <2>4. ReadArg(arg, narrow).index = arg.index /\ ReadArg(arg, narrow).op = arg.op
    BY <2>2
  <2>5. ReadArg(arg, narrow).value = And[arg.value, MaxLow]
    BY <2>3, Zenon DEF v
  <2> QED
    BY <1>3, <2>3, <2>4, <2>5, Zenon
<1>4. CASE ~narrow
  BY <1>4 DEF ReadArg
<1> QED
  BY <1>3, <1>4

LEMMA MetOne ==
  ASSUME NEW arg \in Arg, NEW narrow \in BOOLEAN, NEW call
  PROVE  {arg} \in Met(narrow, call) <=> CondHolds(ReadArg(arg, narrow), call[arg.index])
<1> DEFINE r == ReadArg(arg, narrow)
<1>1. r.index = arg.index
  BY ReadArgIs
<1>2. ReadAs({arg}, narrow) = {r}
  BY DEF ReadAs, LowHalf, ReadArg
<1>3. {arg} \in SUBSET Arg
  OBVIOUS
<1> HIDE DEF r
<1> QED
  BY <1>1, <1>2, <1>3 DEF Met, Matches, r

LEMMA ReadRecord ==
  ASSUME NEW r \in Arg, NEW x \in Value, NEW y \in Value,
         NEW q, q = [r EXCEPT !.value = x, !.two = y]
  PROVE  q = [index |-> r.index, op |-> r.op, value |-> x, two |-> y]
<1>1. /\ r = [index |-> r.index, op |-> r.op, value |-> r.value, two |-> r.two]
      /\ r.index \in Index /\ r.op \in Op
  BY DEF Arg
<1> QED
  BY <1>1

LEMMA MetOpposite ==
  ASSUME NEW arg \in Arg, HasComplement(arg), NEW narrow \in BOOLEAN, NEW call \in Calls(narrow)
  PROVE  {ComplementArg(arg)} \in Met(narrow, call) <=> {arg} \notin Met(narrow, call)
<1> DEFINE comp == ComplementArg(arg)
           r == ReadArg(arg, narrow)
           v == call[arg.index]
<1>1. /\ arg.index \in Index /\ arg.op \in {"EQ", "NE", "LT", "GE", "LE", "GT"}
      /\ arg.value \in Value /\ 0 \in Value
  BY ArgFields, ValueFacts DEF Op, HasComplement
<1>2. comp = [index |-> arg.index, op |-> ComplementOp[arg.op], value |-> arg.value, two |-> 0]
  BY DEF ComplementArg
<1>3. ComplementOp[arg.op] \in Op
  BY <1>1 DEF ComplementOp, Op
<1>4. comp \in Arg /\ comp.index = arg.index
  BY <1>1, <1>2, <1>3 DEF Arg
<1>5. r \in Arg /\ r.index = arg.index /\ r.op = arg.op
  BY ReadArgIs
<1>6. HasComplement(r)
  BY <1>5 DEF HasComplement
<1>7. ReadArg(comp, narrow) = ComplementArg(r)
  <2>1. CASE narrow
    <3> DEFINE low == And[arg.value, MaxLow]
    <3>1. And[0, MaxLow] = 0
      <4>1. And[0, MaxLow] = And[MaxLow, 0]
        BY <1>1, LowIs, AndFacts, Zenon
      <4>2. And[MaxLow, 0] = 0
        BY LowIs, ArgsAssumption, Zenon
      <4> QED
        BY <4>1, <4>2, Zenon
    <3>2. r.value = low
      BY <2>1, ReadArgIs, Zenon
    <3>3. ComplementArg(r) =
            [index |-> arg.index, op |-> ComplementOp[arg.op], value |-> low, two |-> 0]
      BY <1>5, <3>2, Zenon DEF ComplementArg
    <3>4. ReadArg(comp, narrow) =
            [comp EXCEPT !.value = And[comp.value, MaxLow], !.two = And[comp.two, MaxLow]]
      BY <2>1 DEF ReadArg
    <3>5. And[comp.value, MaxLow] = low /\ And[comp.two, MaxLow] = 0
      <4>1. comp.value = arg.value /\ comp.two = 0
        BY <1>2
      <4> HIDE DEF comp
      <4> QED
        BY <3>1, <4>1, Zenon
    <3>6. ReadArg(comp, narrow) = [comp EXCEPT !.value = low, !.two = 0]
      BY <3>4, <3>5, Zenon
    <3> HIDE DEF low
    <3>7. comp \in Arg /\ comp.index = arg.index /\ comp.op = ComplementOp[arg.op]
      BY <1>2, <1>4
    <3> HIDE DEF comp
    <3>9. low \in Value /\ 0 \in Value
      BY <1>1, LowIs, AndFacts DEF low
    <3> DEFINE q == ReadArg(comp, narrow)
    <3>10. q = [comp EXCEPT !.value = low, !.two = 0]
      BY <3>6
    <3> HIDE DEF q, low
    <3>11. q = [index |-> comp.index, op |-> comp.op, value |-> low, two |-> 0]
      BY <3>7, <3>9, <3>10, ReadRecord
    <3>8. ReadArg(comp, narrow) =
            [index |-> arg.index, op |-> ComplementOp[arg.op], value |-> low, two |-> 0]
      BY <3>7, <3>11, Zenon DEF q
    <3> QED
      BY <3>3, <3>8, Zenon
  <2>2. CASE ~narrow
    BY <2>2 DEF ReadArg
  <2> QED
    BY <2>1, <2>2
<1>8. v \in Value
  BY <1>1, CallIs, CallFacts
<1>9. CondHolds(ComplementArg(r), v) <=> ~CondHolds(r, v)
  <2> HIDE DEF r, v
  <2> QED
    BY <1>5, <1>6, <1>8, ComplementArgIsExact
<1>10. {comp} \in Met(narrow, call) <=> CondHolds(ReadArg(comp, narrow), call[comp.index])
  BY <1>4, MetOne
<1>11. {arg} \in Met(narrow, call) <=> CondHolds(r, v)
  BY MetOne
<1> QED
  BY <1>4, <1>7, <1>9, <1>10, <1>11

LEMMA MetEqual ==
  ASSUME NEW a \in Arg, NEW b \in Arg, a.op = "EQ", b.op = "EQ", a.index = b.index,
         NEW narrow \in BOOLEAN, NEW call,
         {a} \in Met(narrow, call), {b} \in Met(narrow, call)
  PROVE  And[a.value, MaxLow] = And[b.value, MaxLow]
<1> DEFINE x == ReadArg(a, narrow)
           y == ReadArg(b, narrow)
<1>1. x.op = "EQ" /\ y.op = "EQ"
  BY ReadArgIs
<1>2. CondHolds(x, call[a.index]) /\ CondHolds(y, call[a.index])
  BY MetOne
<1>3. x.value = y.value
  <2> HIDE DEF x, y
  <2>1. call[a.index] = x.value
    BY <1>1, <1>2 DEF CondHolds
  <2>2. call[a.index] = y.value
    BY <1>1, <1>2 DEF CondHolds
  <2> QED
    BY <2>1, <2>2
<1>4. CASE narrow
  BY <1>3, <1>4, ReadArgIs, Zenon
<1>5. CASE ~narrow
  <2>1. a.value = b.value
    BY <1>3, <1>5, ReadArgIs
  <2> QED
    BY <2>1, Zenon
<1> QED
  BY <1>4, <1>5

\* Clauses in a safe shape that a call meets agree on its result, also where
\* an architecture reads their values in half.
LEMMA ShapeAgrees ==
  ASSUME NEW narrow \in BOOLEAN, NEW call \in Calls(narrow), NEW C \in SUBSET Clause,
         SafeShape(C), NEW x \in C, NEW y \in C,
         x.args \in Met(narrow, call), y.args \in Met(narrow, call)
  PROVE  Rank(x) = Rank(y)
<1> DEFINE M == Met(narrow, call)
<1>1. x \in Clause /\ y \in Clause
  OBVIOUS
<1>2. CASE \A c, d \in C : c = d
  BY <1>2
<1>3. CASE (\A c \in C : Single(c.args)) /\ DistinctEqualities(C)
  <2> DEFINE a == OnlyArg(x)
             b == OnlyArg(y)
  <2>1. /\ a \in Arg /\ x.args = {a} /\ b \in Arg /\ y.args = {b}
    BY <1>1, <1>3, OnlyIs
  <2>2. /\ a.op = "EQ" /\ b.op = "EQ" /\ a.index = b.index
        /\ x # y => And[a.value, MaxLow] # And[b.value, MaxLow]
    BY <1>3, Zenon DEF DistinctEqualities
  <2> HIDE DEF a, b
  <2>5. {a} \in Met(narrow, call) /\ {b} \in Met(narrow, call)
    BY <2>1
  <2>6. a.op = "EQ" /\ b.op = "EQ" /\ a.index = b.index
    BY <2>2, Zenon
  <2>3. And[a.value, MaxLow] = And[b.value, MaxLow]
    BY <2>1, <2>5, <2>6, MetEqual, Zenon
  <2>4. x = y
    BY <2>2, <2>3, Zenon
  <2> QED
    BY <2>4
<1>4. CASE (\A c \in C : Single(c.args)) /\ ComplementPair(C)
  <2>1. PICK c \in C, d \in C : /\ C = {c, d}
                                /\ HasComplement(OnlyArg(c))
                                /\ ComplementArg(OnlyArg(c)) = OnlyArg(d)
    BY <1>4 DEF ComplementPair
  <2> DEFINE a == OnlyArg(c)
  <2>2. /\ c.args = {a} /\ d.args = {ComplementArg(a)} /\ HasComplement(a) /\ a \in Arg
    BY <1>4, <2>1, OnlyIs
  <2> HIDE DEF a
  <2>3. ~(c.args \in M /\ d.args \in M)
    BY <2>2, MetOpposite
  <2>4. x = y
    BY <2>1, <2>3
  <2> QED
    BY <2>4
<1>5. CASE UniformResult(C)
  <2>1. SameResult(x, y)
    BY <1>5 DEF UniformResult
  <2> QED
    BY <2>1, Comparisons
<1> QED
  BY <1>2, <1>3, <1>4, <1>5 DEF SafeShape

\* The clauses of a name without an unconditional one, compiled as written.
LEMMA EvaluatedIs ==
  ASSUME NEW narrow \in BOOLEAN, NEW call \in Calls(narrow), NEW C \in SUBSET Clause,
         Compiled(C), NEW default, NEW rank
  PROVE  rank \in Evaluated(C, default, narrow, call) <=>
           \/ (\A c \in C : c.args \notin Met(narrow, call)) /\ rank = Rank(default)
           \/ \E c \in C : c.args \in Met(narrow, call) /\ rank = Rank(c)
<1> DEFINE M == Met(narrow, call)
           matching == {c \in C : Matches(ReadAs(c.args, narrow), call)}
<1>1. \A c \in C : Matches(ReadAs(c.args, narrow), call) <=> c.args \in M
  <2>1. \A c \in C : c.args \in SUBSET Arg
    BY ClauseFields
  <2> QED
    BY <2>1 DEF Met
<1>2. matching = {c \in C : c.args \in M}
  BY <1>1
<1>3. Evaluated(C, default, narrow, call) =
        IF matching = {} THEN {Rank(default)} ELSE RanksOf(matching)
  BY DEF Evaluated
<1> HIDE DEF matching, M
<1>4. CASE matching = {}
  BY <1>2, <1>3, <1>4 DEF M
<1>5. CASE matching # {}
  <2>1. \A c \in C : c \in matching <=> c.args \in M
    BY <1>2
  <2>2. rank \in RanksOf(matching) <=> \E c \in matching : rank = Rank(c)
    BY DEF RanksOf
  <2>3. PICK c \in matching : TRUE
    BY <1>5
  <2>4. c \in C /\ c.args \in M
    BY <1>2
  <2>5. \A d \in matching : d \in C
    BY <1>2
  <2> QED
    BY <1>3, <1>5, <2>1, <2>2, <2>4, <2>5 DEF M
<1> QED
  BY <1>4, <1>5

-----------------------------------------------------------------------------
(* The rules of an input *)

\* Rules on the safe side of every result of a call.
HeedsAll(results, rules, default, met) ==
  \A rank \in results : Heeds(ToSet(rules.conditional), Fallback(rules, default), met, rank)

\* A clause that decides every call heeds what it is on the safe side of.
LEMMA OneHeeds ==
  ASSUME NEW all \in Clause, NEW rank \in Int, NEW M,
         Intersecting => Rank(all) <= rank, ~Intersecting => Rank(all) >= rank
  PROVE  Heeds({}, all, M, rank)
  BY DEF Heeds, AtMost, AtLeast

\* A summary, or a collapse, of clauses with the ranks of those loaded.
LEMMA CollapseHeeds ==
  ASSUME NEW s \in Seq(Clause), NEW t \in Seq(Clause), NEW default \in Decisive,
         \A c \in ToSet(s) : \E d \in ToSet(t) : Rank(d) = Rank(c), NEW narrow, NEW call, NEW M
  PROVE  HeedsAll(Direct(s, default, narrow, call), CollapsedRules(default, t), default, M)
<1> DEFINE R == CollapsedRules(default, t)
           F == Fallback(R, default)
<1>1. /\ R.conditional = <<>> /\ F \in Decisive
      /\ OnSafeSideOf(F, ToSet(t) \cup {default})
  BY CollapseIs
<1> HIDE DEF R
<1>2. F \in Clause /\ default \in Clause /\ Rank(default) \in Int
  BY <1>1, DecisiveIs
<1>3. \A c \in ToSet(s) : c \in Clause /\ Rank(c) \in Int
  BY SeqIs, RankIs
<1> HIDE DEF F
<1>4. ASSUME NEW rank \in Direct(s, default, narrow, call)
      PROVE  Heeds({}, F, M, rank)
  <2>1. rank = Rank(default) \/ \E c \in ToSet(s) : rank = Rank(c)
    BY DirectWithin
  <2>2. PICK d \in ToSet(t) \cup {default} : rank = Rank(d)
    <3>1. CASE rank = Rank(default)
      BY <3>1
    <3>2. CASE \E c \in ToSet(s) : rank = Rank(c)
      BY <3>2
    <3> QED
      BY <2>1, <3>1, <3>2
  <2>3. rank \in Int
    BY <1>2, <1>3, <2>1
  <2>4. /\ Intersecting => Rank(F) <= rank
        /\ ~Intersecting => Rank(F) >= rank
    BY <1>1, <2>2 DEF OnSafeSideOf
  <2> QED
    BY <1>2, <2>3, <2>4, OneHeeds
<1> QED
  BY <1>1, <1>4, EmptyList DEF HeedsAll, F, R

\* What UnifyErrno changes, the kernel compiles as written before and after.
LEMMA UnifiableCompiles ==
  ASSUME NEW s \in Seq(Clause), ErrnoUnifiable(s)
  PROVE  /\ Compiled(ToSet(s))
         /\ \A c, d \in ToSet(s) : Rank(c) = Rank(d)
<1>1. /\ \A i \in DOMAIN s : s[i] \in Clause
      /\ \A c \in ToSet(s) : \E i \in DOMAIN s : s[i] = c
  BY SeqIs
<1>2. \A i \in DOMAIN s : /\ Equivalent(s[i], s[1])
                          /\ Single(s[i].args) /\ OnlyArg(s[i]).op = "EQ"
                          /\ \A j \in DOMAIN s : i # j => s[i].args # s[j].args
  BY DEF ErrnoUnifiable
<1>3. \A i \in DOMAIN s : Rank(s[i]) = Rank(s[1])
  BY <1>2, Comparisons
<1>4. \A c, d \in ToSet(s) : Rank(c) = Rank(d)
  BY <1>1, <1>3
<1>5. ASSUME NEW c \in ToSet(s), NEW d \in ToSet(s)
      PROVE  /\ Rank(c) = Rank(d) /\ OnlyArg(c).op = "EQ" /\ Single(c.args)
             /\ c # d => c.args # d.args
  <2>1. PICK i \in DOMAIN s : s[i] = c
    BY <1>1
  <2>2. PICK j \in DOMAIN s : s[j] = d
    BY <1>1
  <2>3. c # d => i # j
    BY <2>1, <2>2
  <2> QED
    BY <1>2, <1>4, <2>1, <2>2, <2>3
<1>6. OneAction(ToSet(s)) /\ \A c \in ToSet(s) : Single(c.args)
  BY <1>5, Zenon DEF OneAction
<1> QED
  BY <1>4, <1>6 DEF Compiled

\* Clauses that the kernel compiles as written, and that agree on every call,
\* heed what it makes of them.
LEMMA WrittenHeeds ==
  ASSUME NEW narrow \in BOOLEAN, NEW call \in Calls(narrow), NEW C \in SUBSET Clause,
         Compiled(C), NEW default \in Decisive,
         \A c, d \in C : c.args \in Met(narrow, call) /\ d.args \in Met(narrow, call)
                           => Rank(c) = Rank(d),
         NEW rank \in Evaluated(C, default, narrow, call)
  PROVE  Heeds(C, default, Met(narrow, call), rank)
<1> DEFINE M == Met(narrow, call)
<1>1. \/ (\A c \in C : c.args \notin M) /\ rank = Rank(default)
      \/ \E c \in C : c.args \in M /\ rank = Rank(c)
  BY EvaluatedIs
<1>2. Rank(default) \in Int /\ \A c \in C : Rank(c) \in Int
  BY DecisiveIs, RankIs
<1>3. CASE (\A c \in C : c.args \notin M) /\ rank = Rank(default)
  BY <1>2, <1>3 DEF Heeds, AtMost, AtLeast
<1>4. CASE \E c \in C : c.args \in M /\ rank = Rank(c)
  <2>1. PICK c \in C : c.args \in M /\ rank = Rank(c)
    BY <1>4
  <2>2. \A d \in C : d.args \in M => Rank(d) = rank
    BY <2>1
  <2>3. AtMost(C, default, M, rank)
    BY <1>2, <2>1, <2>2 DEF AtMost
  <2>4. AtLeast(C, default, M, rank)
    BY <1>2, <2>1 DEF AtLeast
  <2> QED
    BY <2>3, <2>4 DEF Heeds
<1> QED
  BY <1>1, <1>3, <1>4

LEMMA DirectTyped ==
  ASSUME NEW s \in Seq(Clause), NEW default \in Decisive, NEW narrow, NEW call,
         NEW rank \in Direct(s, default, narrow, call)
  PROVE  rank \in Int
<1>1. rank = Rank(default) \/ \E c \in ToSet(s) : rank = Rank(c)
  BY DirectWithin
<1>2. Rank(default) \in Int /\ \A c \in ToSet(s) : Rank(c) \in Int
  BY DecisiveIs, RankIs, SeqIs
<1> QED
  BY <1>1, <1>2

\* The rules of a name that settleInput keeps as they are.
KeepsAsWritten(rules, narrow) ==
  LET unified == UnifyErrno(rules.conditional) IN
  /\ SafeShape(ToSet(unified))
  /\ ~(narrow /\ \E i \in DOMAIN unified : WideClause(unified[i]))

\* Whether an architecture reads the clauses as they are written.
ReadsAsWritten(s, narrow) == narrow => \A c \in ToSet(s) : ~WideClause(c)

LEMMA ConditionalReadable ==
  ASSUME NEW s \in Seq(Clause), NEW narrow, \A c \in ToSet(s) : c \in Conditional,
         ReadsAsWritten(s, narrow)
  PROVE  s \in Seq(Readable(narrow))
<1>1. Len(s) \in Nat /\ DOMAIN s = 1..Len(s) /\ \A i \in 1..Len(s) : s[i] \in ToSet(s)
  BY SeqIs
<1>2. \A c \in ToSet(s) : c \in Readable(narrow)
  <2>1. TAKE c \in ToSet(s)
  <2>2. c \in Conditional /\ c \in Clause
    BY DEF Conditional
  <2>3. LoadedFilter(c.args) /\ c.args \in SUBSET Arg
    BY <2>2, ClauseFields
  <2>4. Plain(c.args, narrow)
    BY DEF ReadsAsWritten, WideClause, Plain
  <2> QED
    BY <2>2, <2>3, <2>4 DEF Readable, PlainFilter
<1>3. \A i \in 1..Len(s) : s[i] \in Readable(narrow)
  BY <1>1, <1>2
<1> QED
  BY <1>1, <1>3

\* settleInput is on the safe side of what the kernel makes of the clauses.
LEMMA InputSettled ==
  ASSUME NEW narrow \in BOOLEAN, NEW call \in Calls(narrow), NEW s \in Seq(Clause),
         NEW default \in Decisive, NEW flag \in BOOLEAN
  PROVE  LET R == SettleInput(RulesOf(s), default, flag) IN
         /\ R \in RulesType(FALSE) /\ ResultForm(R)
         /\ flag \/ ReadsAsWritten(s, narrow) => R \in RulesType(narrow)
         /\ HeedsAll(Direct(s, default, narrow, call), R, default, Met(narrow, call))
<1> DEFINE M == Met(narrow, call)
           R == SettleInput(RulesOf(s), default, flag)
           first == FirstUnconditional(s)
           t == DedupeClauses(s)
           u == UnifyErrno(t)
<1>1. CASE first # NoClause
  <2>1. RulesOf(s) = [unconditional |-> first, conditional |-> <<>>]
    BY <1>1 DEF RulesOf, NoRules
  <2>2. R = [unconditional |-> first, conditional |-> <<>>]
    BY <1>1, <2>1 DEF SettleInput
  <2>3. first \in Decisive /\ Direct(s, default, narrow, call) = {Rank(first)}
    BY <1>1, FirstIs DEF Direct
  <2>4. R \in RulesType(narrow) /\ R \in RulesType(FALSE) /\ ResultForm(R)
    <3> HIDE DEF first, R
    <3>1. R.conditional = <<>>
      BY <2>2
    <3>2. R \in RulesType(narrow) /\ R \in RulesType(FALSE)
      BY <2>2, <2>3, EmptyList DEF RulesType
    <3>3. ResultForm(R)
      BY <3>1, EmptyList, EmptyShape DEF ResultForm, Apart
    <3> QED
      BY <3>2, <3>3
  <2>5. R.conditional = <<>> /\ Fallback(R, default) = first
    BY <1>1, <2>2 DEF Fallback
  <2>6. first \in Clause /\ Rank(first) \in Int
    BY <2>3, DecisiveIs
  <2> HIDE DEF first, R
  <2>7. Heeds({}, first, M, Rank(first))
    BY <2>6, OneHeeds
  <2>8. HeedsAll(Direct(s, default, narrow, call), R, default, M)
    BY <2>3, <2>5, <2>7, EmptyList DEF HeedsAll
  <2> QED
    BY <2>4, <2>8 DEF R
<1>2. CASE first = NoClause
  <2>1. RulesOf(s) = [unconditional |-> NoClause, conditional |-> t]
    BY <1>2 DEF RulesOf, NoRules
  <2>2. Direct(s, default, narrow, call) = Evaluated(ToSet(s), default, narrow, call)
    BY <1>2 DEF Direct
  <2>3. /\ \A c \in ToSet(s) : c \in Conditional
        /\ t \in Seq(Clause) /\ ToSet(t) = ToSet(s)
    BY <1>2, FirstIs, NoClauseIsNone, DedupeIs DEF Decisive
  <2> HIDE DEF t
  <2>4. /\ u \in Seq(Clause) /\ AlikeButErrno(t, u)
        /\ u = t \/ ErrnoUnifiable(t)
    BY <2>3, UnifiedIs DEF UnifyErrno
  <2> DEFINE rules == [unconditional |-> NoClause, conditional |-> t]
             keeps == KeepsAsWritten(rules, flag)
  <2>5. R = IF keeps THEN [unconditional |-> NoClause, conditional |-> u]
            ELSE CollapsedRules(default, u)
    BY <2>1 DEF SettleInput, KeepsAsWritten, CollapsedRules
  <2>6. keeps <=> SafeShape(ToSet(u)) /\ ~(flag /\ \E i \in DOMAIN u : WideClause(u[i]))
    BY DEF KeepsAsWritten
  <2> HIDE DEF R, u, rules, keeps
  <2>7. CASE keeps
    <3>1. R = [unconditional |-> NoClause, conditional |-> u] /\ SafeShape(ToSet(u))
      BY <2>5, <2>6, <2>7
    <3>2. ASSUME flag \/ ReadsAsWritten(s, narrow)
          PROVE  ReadsAsWritten(u, narrow)
      <4>1. SUFFICES ASSUME narrow, NEW c \in ToSet(u) PROVE ~WideClause(c)
        BY DEF ReadsAsWritten
      <4>2. PICK i \in DOMAIN u : u[i] = c
        BY <2>4, SeqIs
      <4>3. CASE flag
        BY <2>6, <2>7, <4>2, <4>3
      <4>4. CASE ReadsAsWritten(s, narrow)
        <5>1. i \in DOMAIN t /\ t[i].args = c.args /\ t[i] \in ToSet(s)
          BY <2>3, <2>4, <4>2, SeqIs DEF AlikeButErrno
        <5>2. ~WideClause(t[i])
          BY <4>1, <4>4, <5>1 DEF ReadsAsWritten
        <5> QED
          BY <5>1, <5>2 DEF WideClause
      <4> QED
        BY <3>2, <4>3, <4>4
    <3>3. \A c \in ToSet(u) : c \in Conditional
      <4>1. TAKE c \in ToSet(u)
      <4>2. PICK i \in DOMAIN u : u[i] = c
        BY <2>4, SeqIs
      <4>3. i \in DOMAIN t /\ t[i].args = c.args /\ t[i] \in ToSet(s)
        BY <2>3, <2>4, <4>2, SeqIs DEF AlikeButErrno
      <4>4. c \in Clause /\ t[i] \in Conditional
        BY <2>3, <2>4, <4>3, SeqIs
      <4> QED
        BY <4>3, <4>4 DEF Conditional
    <3>4. ToSet(u) \in SUBSET Clause /\ u \in Seq(Readable(FALSE))
      <4>1. ReadsAsWritten(u, FALSE)
        BY DEF ReadsAsWritten
      <4> QED
        BY <2>4, <3>3, <4>1, ConditionalReadable, SeqIs
    <3>5. R \in RulesType(FALSE) /\ ResultForm(R)
      BY <3>1, <3>4 DEF RulesType, ResultForm, Apart
    <3>10. ASSUME flag \/ ReadsAsWritten(s, narrow)
           PROVE  R \in RulesType(narrow)
      <4>1. u \in Seq(Readable(narrow))
        BY <2>4, <3>2, <3>3, <3>10, ConditionalReadable
      <4> QED
        BY <3>1, <4>1 DEF RulesType
    <3>6. R.conditional = u /\ Fallback(R, default) = default
      BY <3>1 DEF Fallback
    <3>7. ToSet(s) \in SUBSET Clause /\ t \in Seq(Clause)
      BY <2>3, SeqIs
    <3>8. /\ Compiled(ToSet(s))
          /\ \A c, d \in ToSet(s) : c.args \in M /\ d.args \in M => Rank(c) = Rank(d)
      <4>1. CASE u = t
        <5>1. ToSet(s) = ToSet(u)
          BY <2>3, <4>1
        <5>2. Compiled(ToSet(u))
          BY <3>1, <3>7, <5>1, ShapeCompiles
        <5>3. \A c, d \in ToSet(u) : c.args \in M /\ d.args \in M => Rank(c) = Rank(d)
          BY <3>1, <3>4, ShapeAgrees
        <5> QED
          BY <5>1, <5>2, <5>3
      <4>2. CASE ErrnoUnifiable(t)
        BY <2>3, <4>2, UnifiableCompiles
      <4> QED
        BY <2>4, <4>1, <4>2
    <3> HIDE DEF M
    <3>9. ASSUME NEW rank \in Evaluated(ToSet(s), default, narrow, call)
          PROVE  Heeds(ToSet(u), default, M, rank)
      <4>1. Heeds(ToSet(t), default, M, rank)
        BY <2>3, <3>7, <3>8, WrittenHeeds DEF M
      <4>2. rank \in Int
        BY <2>2, DirectTyped
      <4>3. Safer(ToSet(t), default, ToSet(u), default, M)
        BY <2>4, <3>7, AlikeHeeds
      <4> QED
        BY <4>1, <4>2, <4>3 DEF Safer
    <3> QED
      BY <2>2, <3>5, <3>6, <3>9, <3>10 DEF HeedsAll, R, M
  <2>8. CASE ~keeps
    <3>1. R = CollapsedRules(default, u)
      BY <2>5, <2>8
    <3>2. \A c \in ToSet(s) : \E d \in ToSet(u) : Rank(d) = Rank(c)
      <4>1. TAKE c \in ToSet(s)
      <4>2. c \in ToSet(t)
        BY <2>3
      <4>3. PICK i \in DOMAIN t : t[i] = c
        BY <2>3, <4>2, SeqIs
      <4>4. i \in DOMAIN u /\ Rank(u[i]) = Rank(c) /\ u[i] \in ToSet(u)
        BY <2>4, <4>3, SeqIs DEF AlikeButErrno
      <4> QED
        BY <4>4
    <3>3. HeedsAll(Direct(s, default, narrow, call), R, default, M)
      BY <2>4, <3>1, <3>2, CollapseHeeds
    <3>4. R \in RulesType(narrow) /\ R \in RulesType(FALSE) /\ ResultForm(R)
      BY <2>4, <3>1, CollapseSettles
    <3> QED
      BY <3>3, <3>4 DEF R
  <2> QED
    BY <2>7, <2>8
<1> QED
  BY <1>1, <1>2

-----------------------------------------------------------------------------
(* The rules of a name in a profile *)

\* collectRules and settleInputs are on the safe side of what the kernel makes
\* of a profile, within its budget and past it.
LEMMA SettledIs ==
  ASSUME NEW narrow \in BOOLEAN, NEW call \in Calls(narrow), NEW entries \in Seq(Entry),
         NEW default \in Decisive, NEW flag \in BOOLEAN, NEW name \in Name
  PROVE  LET s == LoadedClauses(entries, default, name)
             R == SettledRules(entries, default, flag)[name]
         IN /\ R \in RulesType(FALSE) /\ ResultForm(R)
            /\ flag \/ ReadsAsWritten(s, narrow) => R \in RulesType(narrow)
            /\ HeedsAll(Direct(s, default, narrow, call), R, default, Met(narrow, call))
<1> DEFINE s == LoadedClauses(entries, default, name)
           R == SettledRules(entries, default, flag)[name]
           M == Met(narrow, call)
<1>1. s \in Seq(Clause)
  BY LoadedAre
<1>2. R = IF name \in SummarizedNames(entries, default) THEN CollapsedRules(default, s)
          ELSE SettleInput(RulesOf(s), default, flag)
  BY DEF SettledRules, CollapsedRules
<1> HIDE DEF s, R
<1>3. CASE name \in SummarizedNames(entries, default)
  <2>1. R = CollapsedRules(default, s)
    BY <1>2, <1>3
  <2>2. R \in RulesType(FALSE) /\ R \in RulesType(narrow) /\ ResultForm(R)
    BY <1>1, <2>1, CollapseSettles
  <2>3. HeedsAll(Direct(s, default, narrow, call), R, default, M)
    BY <1>1, <2>1, CollapseHeeds
  <2> QED
    BY <2>2, <2>3 DEF s, R
<1>4. CASE name \notin SummarizedNames(entries, default)
  <2>1. R = SettleInput(RulesOf(s), default, flag)
    BY <1>2, <1>4
  <2> QED
    BY <1>1, <2>1, InputSettled DEF s, R
<1> QED
  BY <1>3, <1>4

-----------------------------------------------------------------------------
(* Rules as entries *)

LEMMA ErrnoModulo ==
  ASSUME NEW errno \in ErrnoValue
  PROVE  errno % 65536 = errno /\ errno # Unset /\ errno \in Int
<1>1. errno \in Int /\ 0 <= errno /\ errno < 65536
  BY DEF ErrnoValue
<1>2. errno % 65536 = errno
  BY <1>1
<1>3. errno # Unset
  BY <1>1 DEF Unset
<1> QED
  BY <1>1, <1>2, <1>3

LEMMA ErrnoWritten ==
  ASSUME NEW action \in Action, NEW errno \in Errnos(action)
  PROVE  /\ OutputErrno(action, errno) \in Int
         /\ RuntimeErrno(action, OutputErrno(action, errno)) = errno
<1>1. CASE ErrnoSignificant(action)
  <2>1. errno \in ErrnoValue
    BY <1>1 DEF Errnos
  <2>2. RuntimeErrno(action, errno) = errno
    BY <1>1, <2>1, ErrnoModulo DEF RuntimeErrno
  <2>3. CASE errno = DefaultErrno
    <3>1. OutputErrno(action, errno) = Unset
      BY <2>2, <2>3 DEF OutputErrno
    <3> QED
      BY <1>1, <2>3, <3>1 DEF RuntimeErrno, Unset
  <2>4. CASE errno # DefaultErrno
    <3>1. OutputErrno(action, errno) = errno
      BY <2>2, <2>4 DEF OutputErrno
    <3> QED
      BY <2>1, <2>2, <3>1, ErrnoModulo
  <2> QED
    BY <2>3, <2>4
<1>2. CASE ~ErrnoSignificant(action)
  <2>1. errno = Unset
    BY <1>2 DEF Errnos
  <2>2. RuntimeErrno(action, errno) = Unset
    BY <1>2 DEF RuntimeErrno
  <2>3. OutputErrno(action, errno) = Unset
    BY <2>2 DEF OutputErrno, Unset, DefaultErrno
  <2> QED
    BY <2>1, <2>2, <2>3 DEF Unset
<1> QED
  BY <1>1, <1>2

\* A runtime reads back the clause that an entry was written for.
LEMMA ClauseWritten ==
  ASSUME NEW name \in Name, NEW c \in Clause
  PROVE  LET e == ClauseToSyscall(name, c) IN
         /\ e \in Entry /\ e.names = {name}
         /\ EntryClauses(e) = <<c>>
         /\ Decision(e.action, e.errno) = Under(c, {})
<1> DEFINE e == ClauseToSyscall(name, c)
           order == SetToSeq(c.args)
           errno == OutputErrno(c.action, c.errno)
<1>1. /\ c.action \in Action \ {"KILL_THREAD"} /\ c.errno \in Errnos(c.action)
      /\ LoadedFilter(c.args) /\ c.args \in SUBSET Arg
      /\ c = [action |-> c.action, errno |-> c.errno, args |-> c.args]
  BY ClauseFields
<1>2. errno \in Int /\ RuntimeErrno(c.action, errno) = c.errno
  BY <1>1, ErrnoWritten
<1>3. /\ order \in Seq(c.args) /\ ToSet(order) = c.args
      /\ \A i, j \in DOMAIN order : order[i] = order[j] => i = j
  BY <1>1, InSomeOrder DEF LoadedFilter
<1>4. e = [names |-> {name}, action |-> c.action, errno |-> errno, args |-> order]
  BY DEF ClauseToSyscall
<1> HIDE DEF order, errno
<1>5. e.names = {name} /\ e.action = c.action /\ e.errno = errno /\ e.args = order
  BY <1>4
<1>6. order \in Seq(Arg)
  <2>1. DOMAIN order = 1..Len(order) /\ Len(order) \in Nat /\ \A i \in 1..Len(order) : order[i] \in Arg
    BY <1>1, <1>3, SeqIs
  <2> QED
    BY <1>3, <2>1
<1>7. e \in Entry
  BY <1>1, <1>2, <1>4, <1>6 DEF Entry
<1>8. ~RepeatsIndex(order)
  <2>1. SUFFICES ASSUME NEW i \in DOMAIN order, NEW j \in DOMAIN order, i # j,
                        order[i].index = order[j].index
                 PROVE  FALSE
    BY DEF RepeatsIndex
  <2>2. order[i] \in c.args /\ order[j] \in c.args
    BY <1>3, SeqIs
  <2>3. order[i] = order[j]
    BY <1>1, <2>1, <2>2 DEF LoadedFilter, Filter
  <2> QED
    BY <1>3, <2>1, <2>3
<1>9. LoadedArgs(order) = c.args
  <2>1. \A arg \in c.args : CanonicalArg(arg) = arg /\ ~Tautology(arg)
    BY <1>1 DEF LoadedFilter
  <2> QED
    BY <1>3, <2>1 DEF LoadedArgs
<1>10. Decision(e.action, e.errno) = [action |-> c.action, errno |-> c.errno, args |-> {}]
  <2>1. CanonicalAction(c.action) = c.action
    BY <1>1 DEF CanonicalAction
  <2> QED
    BY <1>2, <1>5, <2>1 DEF Decision
<1>11. Under(c, {}) = [action |-> c.action, errno |-> c.errno, args |-> {}]
  BY <1>1 DEF Under
<1>12. EntryClauses(e) = <<c>>
  <2> HIDE DEF e
  <2>1. EntryClauses(e) = <<[Decision(e.action, e.errno) EXCEPT !.args = LoadedArgs(order)]>>
    BY <1>5, <1>8 DEF EntryClauses
  <2>2. [Decision(e.action, e.errno) EXCEPT !.args = LoadedArgs(order)] = c
    BY <1>1, <1>9, <1>10
  <2> QED
    BY <2>1, <2>2
<1> QED
  BY <1>5, <1>7, <1>10, <1>11, <1>12

-----------------------------------------------------------------------------
(* What a runtime loads of entries, as a set *)

LEMMA LoadedOf ==
  ASSUME NEW entries \in Seq(Entry), NEW default, NEW name, NEW c
  PROVE  c \in ToSet(LoadedClauses(entries, default, name)) <=>
           \E e \in ToSet(entries) : /\ name \in e.names /\ ~Skipped(e, default)
                                     /\ c \in ToSet(EntryClauses(e))
<1>1. c \in ToSet(LoadedClauses(entries, default, name)) <=>
        \E i \in DOMAIN entries : /\ name \in entries[i].names /\ ~Skipped(entries[i], default)
                                  /\ c \in ToSet(EntryClauses(entries[i]))
  BY LoadedAre DEF Ruling
<1> QED
  BY <1>1, SeqIs

\* The clauses of a name's rules, without those with the default's result.
WrittenRules(rules, default) ==
  {c \in ({rules.unconditional} \ {NoClause}) \cup ToSet(rules.conditional) :
     ~SameResult(c, default)}

LEMMA EmittedIs ==
  ASSUME NEW name \in Name, NEW default \in Decisive, NEW rules \in RulesType(FALSE)
  PROVE  LET all == ({rules.unconditional} \ {NoClause}) \cup ToSet(rules.conditional) IN
         /\ Emitted(name, default, rules) \in Seq(Entry)
         /\ \A e \in ToSet(Emitted(name, default, rules)) :
              \E c \in all : e = ClauseToSyscall(name, c)
         /\ \A c \in all : ~SameResult(c, default) =>
              ClauseToSyscall(name, c) \in ToSet(Emitted(name, default, rules))
<1> DEFINE u == rules.unconditional
           s == rules.conditional
           all == ({u} \ {NoClause}) \cup ToSet(s)
           of(c) == ClauseToSyscall(name, c)
           none == u = NoClause \/ (default # NoClause /\ SameResult(u, default))
           first == IF none THEN <<>> ELSE <<of(u)>>
           rest == [i \in DOMAIN s |-> of(s[i])]
<1>1. u \in Decisive \cup {NoClause} /\ s \in Seq(Clause)
  BY RulesFields, ReadableClauses
<1>2. default # NoClause
  BY DecisiveIs
<1>3. Emitted(name, default, rules) = first \o rest
  BY DEF Emitted
<1>4. \A c \in Clause : of(c) \in Entry
  BY ClauseWritten
<1>5. /\ Len(s) \in Nat /\ DOMAIN s = 1..Len(s)
      /\ \A i \in 1..Len(s) : s[i] \in Clause /\ s[i] \in ToSet(s)
      /\ \A c \in ToSet(s) : \E i \in 1..Len(s) : s[i] = c
  BY <1>1, SeqIs
<1>6. u # NoClause => u \in Clause
  BY <1>1, DecisiveIs
<1> HIDE DEF u, s, of, none
<1>7. /\ rest \in Seq(Entry)
      /\ \A e \in ToSet(rest) : \E c \in ToSet(s) : e = of(c)
      /\ \A c \in ToSet(s) : of(c) \in ToSet(rest)
  <2>1. rest \in Seq(Entry) /\ DOMAIN rest = 1..Len(s) /\ \A i \in 1..Len(s) : rest[i] = of(s[i])
    BY <1>4, <1>5
  <2> HIDE DEF rest
  <2>2. ASSUME NEW e \in ToSet(rest) PROVE \E c \in ToSet(s) : e = of(c)
    <3>1. PICK i \in DOMAIN rest : rest[i] = e
      BY <2>1, SeqIs
    <3> QED
      BY <1>5, <2>1, <3>1
  <2>3. ASSUME NEW c \in ToSet(s) PROVE of(c) \in ToSet(rest)
    <3>1. PICK i \in 1..Len(s) : s[i] = c
      BY <1>5
    <3>2. rest[i] \in ToSet(rest)
      BY <2>1, SeqIs
    <3> QED
      BY <2>1, <3>1, <3>2
  <2> QED
    BY <2>1, <2>2, <2>3
<1>8. /\ first \in Seq(Entry)
      /\ ToSet(first) = IF none THEN {} ELSE {of(u)}
  <2>1. CASE none
    BY <2>1, EmptyList
  <2>2. CASE ~none
    <3>1. u # NoClause
      BY <2>2 DEF none
    <3>2. of(u) \in Entry
      BY <1>4, <1>6, <3>1
    <3> QED
      BY <2>2, <3>2, OneElement
  <2> QED
    BY <2>1, <2>2
<1> HIDE DEF first, rest
<1>9. first \o rest \in Seq(Entry) /\ ToSet(first \o rest) = ToSet(first) \cup ToSet(rest)
  BY <1>7, <1>8, ConcatElements
<1>10. ASSUME NEW e \in ToSet(first) \cup ToSet(rest) PROVE \E c \in all : e = of(c)
  <2>1. CASE e \in ToSet(rest)
    BY <1>7, <2>1
  <2>2. CASE e \in ToSet(first)
    BY <1>8, <2>2 DEF none
  <2> QED
    BY <1>10, <2>1, <2>2
<1>11. ASSUME NEW c \in all, ~SameResult(c, default) PROVE of(c) \in ToSet(first) \cup ToSet(rest)
  <2>1. CASE c \in ToSet(s)
    BY <1>7, <2>1
  <2>2. CASE c = u /\ u # NoClause
    BY <1>8, <1>11, <2>2 DEF none
  <2> QED
    BY <1>11, <2>1, <2>2
<1> QED
  BY <1>3, <1>9, <1>10, <1>11 DEF u, s, of

\* Entries of one name each, as a merge emits them before it regroups them.
OneNamed(entries) == \A e \in ToSet(entries) : \E name \in Name : e.names = {name}

LEMMA NamesAre ==
  /\ Len(Names) \in Nat /\ DOMAIN Names = 1..Len(Names)
  /\ \A i \in 1..Len(Names) : Names[i] \in Name
  /\ \A name \in Name : \E i \in 1..Len(Names) : Names[i] = name
<1>1. Names \in Seq(STRING) /\ Name = ToSet(Names)
  BY ClausesAssumption DEF Name
<1> QED
  BY <1>1, SeqIs

LEMMA SameUnder ==
  ASSUME NEW c \in Clause, NEW default
  PROVE  SameResult(Under(c, {}), default) <=> SameResult(c, default)
<1>1. Under(c, {}).action = c.action /\ Under(c, {}).errno = c.errno
  BY EmptyFilter, UnderIs
<1> QED
  BY <1>1 DEF SameResult, Equivalent

LEMMA WrittenAre ==
  ASSUME NEW default, NEW rules \in RulesType(FALSE)
  PROVE  ({rules.unconditional} \ {NoClause}) \cup ToSet(rules.conditional) \in SUBSET Clause
<1>1. /\ rules.unconditional \in Decisive \cup {NoClause}
      /\ ToSet(rules.conditional) \in SUBSET Clause
  BY RulesFields, ReadableClauses
<1> QED
  BY <1>1, DecisiveIs

LEMMA EmittedAllIs ==
  ASSUME NEW default \in Decisive, NEW rules, \A name \in Name : rules[name] \in RulesType(FALSE)
  PROVE  /\ EmittedAll(default, rules) \in Seq(Entry)
         /\ \A e \in ToSet(EmittedAll(default, rules)) :
              \E name \in Name : e \in ToSet(Emitted(name, default, rules[name]))
         /\ \A name \in Name : \A e \in ToSet(Emitted(name, default, rules[name])) :
              e \in ToSet(EmittedAll(default, rules))
<1> DEFINE n == Len(Names)
           lists == [i \in DOMAIN Names |-> Emitted(Names[i], default, rules[Names[i]])]
           all == FlattenSeq(lists)
<1>1. all = EmittedAll(default, rules)
  BY DEF EmittedAll
<1>2. \A name \in Name : Emitted(name, default, rules[name]) \in Seq(Entry)
  BY EmittedIs
<1>3. /\ lists \in [1..n -> Seq(Entry)] /\ n \in Nat
      /\ \A i \in 1..n : lists[i] = Emitted(Names[i], default, rules[Names[i]])
  BY <1>2, NamesAre
<1> HIDE DEF lists, n
<1>4. all \in Seq(Entry) /\ ToSet(all) = UNION {ToSet(lists[i]) : i \in 1..n}
  BY <1>3, FlattenedElements
<1> HIDE DEF all
<1>5. ASSUME NEW e \in ToSet(all)
      PROVE  \E name \in Name : e \in ToSet(Emitted(name, default, rules[name]))
  <2>1. PICK i \in 1..n : e \in ToSet(lists[i])
    BY <1>4
  <2> QED
    BY <1>3, <2>1, NamesAre DEF n
<1>6. ASSUME NEW name \in Name, NEW e \in ToSet(Emitted(name, default, rules[name]))
      PROVE  e \in ToSet(all)
  <2>1. PICK i \in 1..n : Names[i] = name
    BY NamesAre DEF n
  <2>2. e \in ToSet(lists[i])
    BY <1>3, <2>1
  <2> QED
    BY <1>4, <2>2
<1> QED
  BY <1>1, <1>4, <1>5, <1>6

\* A runtime loads the rules that were written, without what it skips.
LEMMA Reloaded ==
  ASSUME NEW default \in Decisive, NEW rules, \A name \in Name : rules[name] \in RulesType(FALSE)
  PROVE  /\ EmittedAll(default, rules) \in Seq(Entry) /\ OneNamed(EmittedAll(default, rules))
         /\ \A name \in Name :
              ToSet(LoadedClauses(EmittedAll(default, rules), default, name))
                = WrittenRules(rules[name], default)
<1> DEFINE E == EmittedAll(default, rules)
           of(name) == Emitted(name, default, rules[name])
           all(name) == ({rules[name].unconditional} \ {NoClause})
                          \cup ToSet(rules[name].conditional)
<1>1. /\ E \in Seq(Entry)
      /\ \A e \in ToSet(E) : \E name \in Name : e \in ToSet(of(name))
      /\ \A name \in Name : \A e \in ToSet(of(name)) : e \in ToSet(E)
  BY EmittedAllIs
<1>2. ASSUME NEW name \in Name
      PROVE  /\ \A e \in ToSet(of(name)) : \E c \in all(name) : e = ClauseToSyscall(name, c)
             /\ \A c \in all(name) : ~SameResult(c, default) =>
                  ClauseToSyscall(name, c) \in ToSet(of(name))
             /\ all(name) \in SUBSET Clause
             /\ WrittenRules(rules[name], default) = {c \in all(name) : ~SameResult(c, default)}
  <2>1. rules[name] \in RulesType(FALSE)
    OBVIOUS
  <2> QED
    BY <2>1, EmittedIs, WrittenAre DEF WrittenRules
<1> HIDE DEF E, of, all
<1>3. ASSUME NEW name \in Name, NEW c \in all(name)
      PROVE  LET e == ClauseToSyscall(name, c) IN
             /\ e.names = {name} /\ ToSet(EntryClauses(e)) = {c} /\ c \in Clause
             /\ Skipped(e, default) <=> SameResult(c, default)
  <2> DEFINE e == ClauseToSyscall(name, c)
  <2>1. c \in Clause
    BY <1>2
  <2>2. e.names = {name} /\ EntryClauses(e) = <<c>> /\ Decision(e.action, e.errno) = Under(c, {})
    BY <2>1, ClauseWritten
  <2> HIDE DEF e
  <2>3. ToSet(EntryClauses(e)) = {c}
    BY <2>2, OneElement
  <2>4. Skipped(e, default) <=> SameResult(Under(c, {}), default)
    BY <2>2, DecisiveIs DEF Skipped
  <2> QED
    BY <2>1, <2>2, <2>3, <2>4, SameUnder DEF e
<1>4. OneNamed(E)
  BY <1>1, <1>2, <1>3 DEF OneNamed
<1>5. ASSUME NEW name \in Name, NEW c
      PROVE  c \in ToSet(LoadedClauses(E, default, name)) <=> c \in WrittenRules(rules[name], default)
  <2>1. ASSUME c \in ToSet(LoadedClauses(E, default, name))
        PROVE  c \in WrittenRules(rules[name], default)
    <3>1. PICK e \in ToSet(E) : /\ name \in e.names /\ ~Skipped(e, default)
                                /\ c \in ToSet(EntryClauses(e))
      BY <1>1, <2>1, LoadedOf
    <3>2. PICK other \in Name : e \in ToSet(of(other))
      BY <1>1
    <3>3. PICK d \in all(other) : e = ClauseToSyscall(other, d)
      BY <1>2, <3>2
    <3>4. name = other /\ c = d /\ ~SameResult(d, default)
      BY <1>3, <3>1, <3>3
    <3> QED
      BY <1>2, <3>4
  <2>2. ASSUME c \in WrittenRules(rules[name], default)
        PROVE  c \in ToSet(LoadedClauses(E, default, name))
    <3> DEFINE e == ClauseToSyscall(name, c)
    <3>1. c \in all(name) /\ ~SameResult(c, default)
      BY <1>2, <2>2
    <3>2. e \in ToSet(E)
      BY <1>1, <1>2, <3>1
    <3>3. name \in e.names /\ ~Skipped(e, default) /\ c \in ToSet(EntryClauses(e))
      BY <1>3, <3>1
    <3> HIDE DEF e
    <3> QED
      BY <1>1, <3>2, <3>3, LoadedOf
  <2> QED
    BY <2>1, <2>2
<1>6. \A name \in Name :
        ToSet(LoadedClauses(E, default, name)) = WrittenRules(rules[name], default)
  BY <1>5
<1> QED
  BY <1>1, <1>4, <1>6 DEF E

-----------------------------------------------------------------------------
(* What the kernel makes of it *)

\* The clauses of a name that a runtime loads and the kernel compiles as they
\* are written: one that decides every call, or ones with conditions.
Exact(C) ==
  \/ \E c \in Decisive : C = {c}
  \/ C \in SUBSET Conditional /\ SafeShape(C)

LEMMA ShapeOfFewer ==
  ASSUME NEW C, NEW D \in SUBSET C, SafeShape(C)
  PROVE  SafeShape(D)
<1>1. CASE \A c, d \in C : c = d
  BY <1>1 DEF SafeShape
<1>2. CASE (\A c \in C : Single(c.args)) /\ DistinctEqualities(C)
  <2>1. DistinctEqualities(D)
    BY <1>2, Zenon DEF DistinctEqualities
  <2> QED
    BY <1>2, <2>1 DEF SafeShape
<1>3. CASE (\A c \in C : Single(c.args)) /\ ComplementPair(C)
  <2>1. PICK c \in C, d \in C : C = {c, d}
    BY <1>3 DEF ComplementPair
  <2>2. CASE D = C
    BY <2>2
  <2>3. CASE D # C
    <3>1. \A x, y \in D : x = y
      BY <2>1, <2>3
    <3> QED
      BY <3>1 DEF SafeShape
  <2> QED
    BY <2>2, <2>3
<1>4. CASE (\A c \in C : Single(c.args)) /\ UniformResult(C)
  <2>1. UniformResult(D)
    BY <1>4 DEF UniformResult
  <2> QED
    BY <1>4, <2>1 DEF SafeShape
<1> QED
  BY <1>1, <1>2, <1>3, <1>4 DEF SafeShape

LEMMA WrittenExact ==
  ASSUME NEW default \in Decisive, NEW rules \in RulesType(FALSE), ResultForm(rules)
  PROVE  Exact(WrittenRules(rules, default))
<1> DEFINE u == rules.unconditional
           C == ToSet(rules.conditional)
           W == WrittenRules(rules, default)
<1>1. u \in Decisive \cup {NoClause} /\ C \in SUBSET Readable(FALSE)
  BY RulesFields, ReadableClauses
<1>2. C \in SUBSET Conditional
  BY <1>1 DEF Readable
<1>3. W = {c \in ({u} \ {NoClause}) \cup C : ~SameResult(c, default)}
  BY DEF WrittenRules
<1>4. (u = NoClause \/ C = {}) /\ SafeShape(C)
  BY EmptyList DEF ResultForm, Apart
<1> HIDE DEF u, C, W
<1>5. CASE u = NoClause
  <2>1. W \in SUBSET C
    BY <1>3, <1>5
  <2> QED
    BY <1>2, <1>4, <2>1, ShapeOfFewer DEF Exact, W
<1>6. CASE u # NoClause
  <2>1. W = {u} \/ W = {}
    BY <1>3, <1>4, <1>6
  <2>2. {} \in SUBSET Conditional
    OBVIOUS
  <2>3. u \in Decisive
    BY <1>1, <1>6
  <2> QED
    BY <2>1, <2>2, <2>3, EmptyShape DEF Exact, W
<1> QED
  BY <1>5, <1>6

\* A result on the safe side of another one.
OnSide(rank, other) == IF Intersecting THEN rank <= other ELSE rank >= other

\* All results on the safe side of all of the others.
AllOnSide(ranks, others) == \A rank \in ranks : \A other \in others : OnSide(rank, other)

LEMMA SideTwice ==
  ASSUME NEW a \in Int, NEW b \in Int, NEW c \in Int, OnSide(a, b), OnSide(b, c)
  PROVE  OnSide(a, c)
  BY DEF OnSide

LEMMA AllSidesTwice ==
  ASSUME NEW A \in SUBSET Int, NEW B \in SUBSET Int, NEW C \in SUBSET Int, B # {},
         AllOnSide(A, B), AllOnSide(B, C)
  PROVE  AllOnSide(A, C)
<1>1. PICK b \in B : TRUE
  OBVIOUS
<1>2. SUFFICES ASSUME NEW a \in A, NEW c \in C PROVE OnSide(a, c)
  BY DEF AllOnSide
<1>3. OnSide(a, b) /\ OnSide(b, c)
  BY DEF AllOnSide
<1> QED
  BY <1>3, SideTwice

LEMMA DirectOne ==
  ASSUME NEW s \in Seq(Clause), NEW c \in Decisive, ToSet(s) = {c}, NEW default, NEW narrow,
         NEW call
  PROVE  FirstUnconditional(s) = c /\ Direct(s, default, narrow, call) = {Rank(c)}
<1>1. c \notin Conditional /\ c # NoClause
  BY DecisiveIs DEF Conditional
<1>2. FirstUnconditional(s) = c
  BY <1>1, FirstIs
<1> QED
  BY <1>1, <1>2 DEF Direct

LEMMA DirectMany ==
  ASSUME NEW s \in Seq(Clause), ToSet(s) \in SUBSET Conditional, NEW default, NEW narrow,
         NEW call
  PROVE  /\ FirstUnconditional(s) = NoClause
         /\ Direct(s, default, narrow, call) = Evaluated(ToSet(s), default, narrow, call)
<1>1. \A c \in ToSet(s) : c \notin Decisive
  BY DEF Decisive, Conditional
<1>2. FirstUnconditional(s) = NoClause
  BY <1>1, FirstIs
<1> QED
  BY <1>2 DEF Direct

LEMMA DirectSome ==
  ASSUME NEW s \in Seq(Clause), NEW default \in Decisive, NEW narrow, NEW call
  PROVE  Direct(s, default, narrow, call) # {} /\ Direct(s, default, narrow, call) \in SUBSET Int
<1>1. Direct(s, default, narrow, call) # {}
  BY DEF Direct, Evaluated, RanksOf
<1>2. \A rank \in Direct(s, default, narrow, call) : rank \in Int
  BY DirectTyped
<1> QED
  BY <1>1, <1>2

\* What a runtime makes of written rules is on the safe side of what the rules
\* heed.
LEMMA ReloadHeeds ==
  ASSUME NEW narrow \in BOOLEAN, NEW call \in Calls(narrow), NEW default \in Decisive,
         NEW rules \in RulesType(FALSE), ResultForm(rules), NEW s \in Seq(Clause),
         ToSet(s) = WrittenRules(rules, default), NEW rank \in Int,
         Heeds(ToSet(rules.conditional), Fallback(rules, default), Met(narrow, call), rank),
         NEW q \in Direct(s, default, narrow, call)
  PROVE  OnSide(q, rank)
<1> DEFINE M == Met(narrow, call)
           u == rules.unconditional
           C == ToSet(rules.conditional)
           W == ToSet(s)
<1>1. /\ u \in Decisive \cup {NoClause} /\ C \in SUBSET Conditional /\ C \in SUBSET Clause
      /\ (u = NoClause \/ C = {}) /\ SafeShape(C)
  <2>1. u \in Decisive \cup {NoClause} /\ C \in SUBSET Readable(FALSE)
    BY RulesFields, ReadableClauses
  <2>2. C \in SUBSET Conditional /\ C \in SUBSET Clause
    BY <2>1 DEF Readable, Conditional
  <2>3. (u = NoClause \/ C = {}) /\ SafeShape(C)
    BY EmptyList DEF ResultForm, Apart
  <2> QED
    BY <2>1, <2>2, <2>3
<1>2. W = {c \in ({u} \ {NoClause}) \cup C : ~SameResult(c, default)}
  BY DEF WrittenRules
<1>3. default \in Clause /\ Rank(default) \in Int
  BY DecisiveIs
<1>4. q \in Int
  BY DirectTyped
<1>5. Heeds(C, Fallback(rules, default), M, rank)
  OBVIOUS
<1> DEFINE f == Fallback(rules, default)
<1>6. f = IF u # NoClause THEN u ELSE default
  BY DEF Fallback
<1> HIDE DEF M, u, C, W, f
<1>7. CASE u # NoClause
  <2>1. C = {} /\ f = u /\ u \in Decisive
    BY <1>1, <1>6, <1>7
  <2>2. Rank(u) \in Int /\ OnSide(Rank(u), rank)
    <3>1. Rank(u) \in Int
      BY <2>1, DecisiveIs
    <3>2. Heeds({}, u, M, rank)
      BY <1>5, <2>1 DEF f
    <3> QED
      BY <3>1, <3>2 DEF Heeds, AtMost, AtLeast, OnSide
  <2>3. CASE SameResult(u, default)
    <3>1. W = {}
      BY <1>2, <2>1, <2>3
    <3>2. W \in SUBSET Conditional /\ Compiled({})
      BY <3>1, EmptyShape, ShapeCompiles
    <3>3. Direct(s, default, narrow, call) = Evaluated({}, default, narrow, call)
      BY <3>1, <3>2, DirectMany DEF W
    <3>4. q = Rank(default)
      BY <3>2, <3>3, EvaluatedIs
    <3>5. Rank(u) = Rank(default)
      BY <2>3, Comparisons
    <3> QED
      BY <2>2, <3>4, <3>5
  <2>4. CASE ~SameResult(u, default)
    <3>1. W = {u}
      BY <1>2, <1>7, <2>1, <2>4
    <3>2. q = Rank(u)
      BY <2>1, <3>1, DirectOne DEF W
    <3> QED
      BY <2>2, <3>2
  <2> QED
    BY <2>3, <2>4
<1>8. CASE u = NoClause
  <2>1. W = {c \in C : ~SameResult(c, default)} /\ f = default
    BY <1>2, <1>6, <1>8
  <2>2. /\ SafeShape(W) /\ W \in SUBSET Clause /\ W \in SUBSET Conditional
        /\ \A c \in C : c \in W \/ Rank(c) = Rank(default)
    BY <1>1, <2>1, ShapeOfFewer, Comparisons
  <2>3. Compiled(W)
    BY <2>2, ShapeCompiles
  <2>4. Direct(s, default, narrow, call) = Evaluated(W, default, narrow, call)
    BY <2>2, DirectMany DEF W
  <2>5. \/ (\A c \in W : c.args \notin M) /\ q = Rank(default)
        \/ \E c \in W : c.args \in M /\ q = Rank(c)
    BY <2>2, <2>3, <2>4, EvaluatedIs DEF M
  <2>6. \A c, d \in C : c.args \in M /\ d.args \in M => Rank(c) = Rank(d)
    BY <1>1, ShapeAgrees DEF M
  <2>7. Heeds(C, default, M, rank)
    BY <1>5, <2>1 DEF f
  <2>8. \A c \in C : Rank(c) \in Int
    BY <1>1, RankIs
  <2>9. \/ (\A c \in C : c.args \notin M) /\ q = Rank(default)
        \/ \E c \in C : c.args \in M /\ q = Rank(c)
    <3>1. CASE \E c \in W : c.args \in M /\ q = Rank(c)
      BY <2>1, <3>1
    <3>2. CASE (\A c \in W : c.args \notin M) /\ q = Rank(default)
      <4>1. CASE \A c \in C : c.args \notin M
        BY <3>2, <4>1
      <4>2. CASE \E c \in C : c.args \in M
        BY <2>2, <3>2, <4>2
      <4> QED
        BY <4>1, <4>2
    <3> QED
      BY <2>5, <3>1, <3>2
  <2>10. CASE Intersecting
    <3>1. AtMost(C, default, M, rank)
      BY <2>7, <2>10 DEF Heeds
    <3>2. q <= rank
      BY <2>9, <3>1 DEF AtMost
    <3> QED
      BY <2>10, <3>2 DEF OnSide
  <2>11. CASE ~Intersecting
    <3>1. AtLeast(C, default, M, rank)
      BY <2>7, <2>11 DEF Heeds
    <3>2. q >= rank
      <4>1. CASE \E c \in C : c.args \in M /\ Rank(c) >= rank
        <5>1. PICK c \in C : c.args \in M /\ Rank(c) >= rank
          BY <4>1
        <5>2. q = Rank(c)
          BY <2>6, <2>9, <5>1
        <5> QED
          BY <5>1, <5>2
      <4>2. CASE (\A c \in C : c.args \notin M) /\ Rank(default) >= rank
        BY <2>9, <4>2
      <4> QED
        BY <3>1, <4>1, <4>2 DEF AtLeast
    <3> QED
      BY <2>11, <3>2 DEF OnSide
  <2> QED
    BY <2>10, <2>11
<1> QED
  BY <1>7, <1>8

-----------------------------------------------------------------------------
(* Two profiles, before multiplexed syscalls are settled *)

Side(entries, default) == [entries |-> entries, default |-> default]

\* mergeProfileSyscalls, before the rules become entries.
MergedOf(le, ld, re, rd, flag) ==
  MergeSettled(SettledRules(le, ld, flag), SettledRules(re, rd, flag), ld, rd,
               PickClause(ld, rd))

LEMMA MergedExact ==
  ASSUME NEW le \in Seq(Entry), NEW re \in Seq(Entry), NEW ld \in Decisive, NEW rd \in Decisive,
         NEW flag \in BOOLEAN
  PROVE  LET rules == MergedOf(le, ld, re, rd, flag) IN
         /\ MergeProfileSyscalls(Side(le, ld), Side(re, rd), PickClause(ld, rd), flag)
              = EmittedAll(PickClause(ld, rd), rules)
         /\ \A name \in Name : rules[name] \in RulesType(FALSE) /\ ResultForm(rules[name])
<1> DEFINE default == PickClause(ld, rd)
           L == SettledRules(le, ld, flag)
           R == SettledRules(re, rd, flag)
           rules == MergedOf(le, ld, re, rd, flag)
<1>1. MergeProfileSyscalls(Side(le, ld), Side(re, rd), default, flag) = EmittedAll(default, rules)
  BY DEF MergeProfileSyscalls, Side, MergedOf
<1>2. ASSUME NEW name \in Name
      PROVE  rules[name] \in RulesType(FALSE) /\ ResultForm(rules[name])
  <2>1. PICK call : call \in Calls(FALSE)
    BY SomeCall
  <2>2. L[name] \in RulesType(FALSE) /\ R[name] \in RulesType(FALSE)
    BY <2>1, SettledIs
  <2>3. rules[name] = MergeSyscall(L[name], R[name], ld, rd, default)
    BY DEF MergeSettled, MergedOf
  <2> HIDE DEF L, R, rules
  <2> QED
    BY <2>1, <2>2, <2>3, MergedSyscall
<1> QED
  BY <1>1, <1>2

LEMMA MergedSides ==
  ASSUME NEW narrow \in BOOLEAN, NEW call \in Calls(narrow),
         NEW le \in Seq(Entry), NEW re \in Seq(Entry), NEW ld \in Decisive, NEW rd \in Decisive,
         NEW flag \in BOOLEAN, NEW name \in Name,
         flag \/ /\ ReadsAsWritten(LoadedClauses(le, ld, name), narrow)
                 /\ ReadsAsWritten(LoadedClauses(re, rd, name), narrow)
  PROVE  LET default == PickClause(ld, rd)
             E == MergeProfileSyscalls(Side(le, ld), Side(re, rd), default, flag)
             results == Direct(LoadedClauses(E, default, name), default, narrow, call)
         IN /\ AllOnSide(results, Direct(LoadedClauses(le, ld, name), ld, narrow, call))
            /\ AllOnSide(results, Direct(LoadedClauses(re, rd, name), rd, narrow, call))
<1> DEFINE default == PickClause(ld, rd)
           L == SettledRules(le, ld, flag)
           R == SettledRules(re, rd, flag)
           rules == MergedOf(le, ld, re, rd, flag)
           E == MergeProfileSyscalls(Side(le, ld), Side(re, rd), default, flag)
           M == Met(narrow, call)
           left == Direct(LoadedClauses(le, ld, name), ld, narrow, call)
           right == Direct(LoadedClauses(re, rd, name), rd, narrow, call)
           s == LoadedClauses(E, default, name)
<1>1. default \in Decisive
  BY PickedDecisive
<1>2. /\ E = EmittedAll(default, rules)
      /\ \A n \in Name : rules[n] \in RulesType(FALSE) /\ ResultForm(rules[n])
  BY MergedExact
<1>3. /\ L[name] \in RulesType(narrow) /\ R[name] \in RulesType(narrow)
      /\ HeedsAll(left, L[name], ld, M) /\ HeedsAll(right, R[name], rd, M)
  BY SettledIs
<1>4. rules[name] = MergeSyscall(L[name], R[name], ld, rd, default)
  BY DEF MergeSettled, MergedOf
<1>5. left \in SUBSET Int /\ right \in SUBSET Int
  BY LoadedAre, DirectSome
<1> HIDE DEF L, R, rules, E, left, right
<1>6. /\ Follows(ToSet(L[name].conditional), Fallback(L[name], ld), rules[name], default, M)
      /\ Follows(ToSet(R[name].conditional), Fallback(R[name], rd), rules[name], default, M)
  BY <1>3, <1>4, MergedSyscall
<1>7. s \in Seq(Clause) /\ ToSet(s) = WrittenRules(rules[name], default)
  <2> HIDE DEF default
  <2> QED
    BY <1>1, <1>2, Reloaded, LoadedAre
<1> DEFINE results == Direct(s, default, narrow, call)
<1> HIDE DEF default, s, M
<1>8. ASSUME NEW rank \in left PROVE \A q \in results : OnSide(q, rank)
  <2>1. rank \in Int
    BY <1>5
  <2>2. Heeds(ToSet(L[name].conditional), Fallback(L[name], ld), M, rank)
    BY <1>3 DEF HeedsAll
  <2>3. Heeds(ToSet(rules[name].conditional), Fallback(rules[name], default), M, rank)
    BY <1>6, <2>1, <2>2 DEF Follows, Safer
  <2> QED
    BY <1>1, <1>2, <1>7, <2>1, <2>3, ReloadHeeds DEF M
<1>9. ASSUME NEW rank \in right PROVE \A q \in results : OnSide(q, rank)
  <2>1. rank \in Int
    BY <1>5
  <2>2. Heeds(ToSet(R[name].conditional), Fallback(R[name], rd), M, rank)
    BY <1>3 DEF HeedsAll
  <2>3. Heeds(ToSet(rules[name].conditional), Fallback(rules[name], default), M, rank)
    BY <1>6, <2>1, <2>2 DEF Follows, Safer
  <2> QED
    BY <1>1, <1>2, <1>7, <2>1, <2>3, ReloadHeeds DEF M
<1>10. AllOnSide(results, left) /\ AllOnSide(results, right)
  BY <1>8, <1>9 DEF AllOnSide
<1> QED
  BY <1>10 DEF s, E, default, left, right

-----------------------------------------------------------------------------
(* One profile, normalized *)

LEMMA MakeRules ==
  ASSUME NEW narrow, NEW u \in Decisive \cup {NoClause}, NEW s \in Seq(Readable(narrow))
  PROVE  [unconditional |-> u, conditional |-> s] \in RulesType(narrow)
  BY DEF RulesType

LEMMA NormalRules ==
  ASSUME NEW entries \in Seq(Entry), NEW default \in Decisive, NEW name \in Name
  PROVE  LET L == SettledRules(entries, default, FALSE)
             R == SortedRules(L)
         IN /\ R[name] \in RulesType(FALSE) /\ ResultForm(R[name])
            /\ ToSet(R[name].conditional) = ToSet(L[name].conditional)
            /\ Fallback(R[name], default) = Fallback(L[name], default)
<1> DEFINE L == SettledRules(entries, default, FALSE)
           R == SortedRules(L)
           u == L[name].unconditional
           s == L[name].conditional
           t == SortClauses(s)
<1>1. PICK call : call \in Calls(FALSE)
  BY SomeCall
<1>2. L[name] \in RulesType(FALSE) /\ ResultForm(L[name])
  BY <1>1, SettledIs
<1>3. R[name] = [L[name] EXCEPT !.conditional = t]
  BY DEF SortedRules
<1> HIDE DEF L, R
<1>4. /\ s \in Seq(Readable(FALSE)) /\ u \in Decisive \cup {NoClause}
      /\ L[name] = [unconditional |-> u, conditional |-> s]
  BY <1>2, RulesFields
<1>5. t \in Seq(Readable(FALSE)) /\ ToSet(t) = ToSet(s)
  <2> HIDE DEF s
  <2> QED
    BY <1>4, SortIs
<1> HIDE DEF t
<1>6. R[name] = [unconditional |-> u, conditional |-> t]
  BY <1>3, <1>4
<1>7. s = <<>> => t = <<>>
  <2> HIDE DEF s
  <2> QED
    BY <1>4, <1>5, SeqIs, EmptyList
<1>8. R[name] \in RulesType(FALSE)
  <2> HIDE DEF u, s
  <2>1. [unconditional |-> u, conditional |-> t] \in RulesType(FALSE)
    BY <1>4, <1>5, MakeRules
  <2> QED
    BY <1>6, <2>1, Zenon
<1>11. ToSet(R[name].conditional) = ToSet(L[name].conditional)
  BY <1>5, <1>6
<1>9. ResultForm(R[name])
  BY <1>2, <1>5, <1>6, <1>7 DEF ResultForm, Apart
<1>10. Fallback(R[name], default) = Fallback(L[name], default)
  BY <1>6 DEF Fallback
<1> QED
  BY <1>8, <1>9, <1>10, <1>11 DEF R, L

\* settledSyscalls keeps on the safe side of the profile.
LEMMA NormalSides ==
  ASSUME NEW narrow \in BOOLEAN, NEW call \in Calls(narrow),
         NEW entries \in Seq(Entry), NEW default \in Decisive, NEW name \in Name
  PROVE  LET E == SettledSyscalls(entries, default) IN
         AllOnSide(Direct(LoadedClauses(E, default, name), default, narrow, call),
                   Direct(LoadedClauses(entries, default, name), default, narrow, call))
<1> DEFINE L == SettledRules(entries, default, FALSE)
           R == SortedRules(L)
           E == SettledSyscalls(entries, default)
           M == Met(narrow, call)
           before == Direct(LoadedClauses(entries, default, name), default, narrow, call)
           s == LoadedClauses(E, default, name)
           after == Direct(s, default, narrow, call)
<1>1. \A n \in Name : R[n] \in RulesType(FALSE)
  BY NormalRules
<1>2. /\ R[name] \in RulesType(FALSE) /\ ResultForm(R[name])
      /\ ToSet(R[name].conditional) = ToSet(L[name].conditional)
      /\ Fallback(R[name], default) = Fallback(L[name], default)
  BY NormalRules
<1>3. HeedsAll(before, L[name], default, M)
  BY SettledIs
<1>4. before \in SUBSET Int
  BY LoadedAre, DirectSome
<1>5. E = EmittedAll(default, R)
  BY DEF SettledSyscalls
<1> HIDE DEF L, R, E, before
<1>6. s \in Seq(Clause) /\ ToSet(s) = WrittenRules(R[name], default)
  BY <1>1, <1>5, Reloaded, LoadedAre
<1> HIDE DEF M, s
<1>7. ASSUME NEW rank \in before PROVE \A q \in after : OnSide(q, rank)
  <2>1. rank \in Int
    BY <1>4
  <2>2. Heeds(ToSet(R[name].conditional), Fallback(R[name], default), M, rank)
    BY <1>2, <1>3 DEF HeedsAll
  <2> QED
    BY <1>2, <1>6, <2>1, <2>2, ReloadHeeds DEF M
<1>8. AllOnSide(after, before)
  BY <1>7 DEF AllOnSide
<1> QED
  BY <1>8 DEF s, E, before

-----------------------------------------------------------------------------
(* What the settling of multiplexed syscalls reads *)

InputType == [rules : [MultiplexName -> Seq(Clause)], default : Decisive]

LEMMA MultiplexInputIs ==
  ASSUME NEW entries \in Seq(Entry), NEW default \in Decisive
  PROVE  /\ MultiplexInput(entries, default) \in InputType
         /\ MultiplexInput(entries, default).default = default
         /\ \A name \in MultiplexName :
              MultiplexInput(entries, default).rules[name] = LoadedClauses(entries, default, name)
<1>1. \A name \in MultiplexName : LoadedClauses(entries, default, name) \in Seq(Clause)
  BY LoadedAre
<1> QED
  BY <1>1 DEF MultiplexInput, InputType

LEMMA MultiplexNames ==
  /\ \A target \in ToSet(Multiplexers) :
       /\ target \in MultiplexName /\ Carried[target] \in Seq(Name)
       /\ \A name \in ToSet(Carried[target]) : name \in MultiplexName
  /\ MultiplexName \subseteq Name
<1>1. /\ ToSet(Multiplexers) \subseteq Name
      /\ \A target \in ToSet(Multiplexers) : Carried[target] \in Seq(Name)
  BY ClausesAssumption, SeqIs
<1>2. \A target \in ToSet(Multiplexers) : ToSet(Carried[target]) \subseteq Name
  BY <1>1, SeqIs
<1> QED
  BY <1>1, <1>2 DEF MultiplexName

LEMMA InputFields ==
  ASSUME NEW in \in InputType
  PROVE  /\ in.rules \in [MultiplexName -> Seq(Clause)] /\ in.default \in Decisive
         /\ in.default \in Clause
         /\ \A name \in MultiplexName : in.rules[name] \in Seq(Clause)
  BY DecisiveIs DEF InputType

LEMMA OneMore ==
  ASSUME NEW S, NEW s \in Seq(S), NEW t \in Seq(S), Len(t) = 1
  PROVE  s \o t \in Seq(S) /\ s \o t # <<>>
  OBVIOUS

LEMMA AnyCallIs ==
  ASSUME NEW in \in InputType, NEW target \in ToSet(Multiplexers)
  PROVE  AnyCall(in, target) \in Seq(Clause) /\ AnyCall(in, target) # <<>>
<1> DEFINE own == in.rules[target]
           names == Carried[target]
           n == Len(names)
           lists == [i \in DOMAIN names |-> in.rules[names[i]]]
           others == FlattenSeq(lists)
           last == <<in.default>>
<1>1. names \in Seq(Name) /\ \A name \in ToSet(names) : name \in MultiplexName
  BY MultiplexNames
<1>2. n \in Nat /\ DOMAIN names = 1..n /\ \A i \in 1..n : names[i] \in MultiplexName
  BY <1>1, SeqIs
<1>3. own \in Seq(Clause) /\ lists \in [1..n -> Seq(Clause)]
  BY <1>2, InputFields, MultiplexNames
<1> HIDE DEF n, lists, own
<1>4. others \in Seq(Clause)
  BY <1>2, <1>3, FlattenedElements
<1>5. last \in Seq(Clause) /\ Len(last) = 1
  BY InputFields
<1>6. AnyCall(in, target) = own \o others \o last
  BY DEF AnyCall, own, lists
<1> HIDE DEF others, last
<1>7. own \o others \in Seq(Clause)
  BY <1>3, <1>4
<1> DEFINE before == own \o others
<1> HIDE DEF before
<1>8. before \in Seq(Clause)
  BY <1>7 DEF before
<1>9. AnyCall(in, target) = before \o last
  BY <1>6 DEF before
<1> QED
  BY <1>5, <1>8, <1>9, OneMore

LEMMA ViewIs ==
  ASSUME NEW in \in InputType, NEW target \in ToSet(Multiplexers),
         NEW name \in ToSet(Carried[target])
  PROVE  View(in, target, name) \in Seq(Clause) /\ View(in, target, name) # <<>>
<1> DEFINE own == in.rules[name]
           first == FirstUnconditional(in.rules[target])
<1>1. /\ own \in Seq(Clause) /\ in.rules[target] \in Seq(Clause) /\ in.default \in Clause
  BY InputFields, MultiplexNames
<1>2. first # NoClause => first \in Clause
  BY <1>1, FirstIs, DecisiveIs
<1>3. Append(own, in.default) \in Seq(Clause) /\ Append(own, in.default) # <<>>
  BY <1>1
<1>4. first # NoClause => <<first>> \in Seq(Clause) /\ <<first>> # <<>>
  BY <1>2
<1> HIDE DEF first
<1> QED
  BY <1>1, <1>3, <1>4, AnyCallIs DEF View, first

LEMMA SafestIs ==
  ASSUME NEW s \in Seq(Clause), s # <<>>
  PROVE  Safest(s) \in Decisive /\ \A c \in ToSet(s) : OnSide(Rank(Safest(s)), Rank(c))
<1> DEFINE p == IF Intersecting THEN FirstStrictest(s) ELSE FirstLoosest(s)
<1>1. /\ p \in ToSet(s) /\ p \in Clause
      /\ \A c \in ToSet(s) : OnSide(Rank(p), Rank(c))
  <2>1. ToSet(s) \subseteq Clause
    BY SeqIs
  <2> QED
    BY <2>1, StrictestIs, LoosestIs DEF OnSide
<1>2. Safest(s) = Under(p, {})
  BY DEF Safest, Strictest, Loosest, Under
<1> HIDE DEF p
<1>3. Under(p, {}) \in Clause /\ Under(p, {}).args = {} /\ Rank(Under(p, {})) = Rank(p)
  BY <1>1, EmptyFilter, UnderIs, RankUnder
<1> QED
  BY <1>1, <1>2, <1>3 DEF Decisive

\* A pick among a clause and bounds is on the safe side of the clause.
LEMMA PickedBound ==
  ASSUME NEW c \in Clause, NEW bounds \in Seq(Clause)
  PROVE  /\ PickAmong(<<c>> \o bounds) \in Clause
         /\ OnSide(Rank(PickAmong(<<c>> \o bounds)), Rank(c))
<1> DEFINE one == <<c>>
           all == one \o bounds
<1>1. one \in Seq(Clause) /\ ToSet(one) = {c} /\ Len(one) = 1
  BY OneElement
<1> HIDE DEF one
<1>2. all \in Seq(Clause) /\ ToSet(all) = {c} \cup ToSet(bounds)
  BY <1>1, ConcatElements
<1>3. c \in ToSet(all)
  BY <1>2
<1>4. all # <<>>
  <2> HIDE DEF all
  <2> QED
    BY <1>3, EmptyList
<1> HIDE DEF all
<1>5. PickAmong(all) \in Clause /\ OnSide(Rank(PickAmong(all)), Rank(c))
  BY <1>2, <1>3, <1>4, PickedAmong DEF OnSide
<1> QED
  BY <1>5 DEF all, one

LEMMA BoundsAre ==
  ASSUME NEW target \in ToSet(Multiplexers), NEW name \in ToSet(Carried[target]),
         NEW inputs \in Seq(InputType)
  PROVE  Bounds(target, name, inputs) \in Seq(Clause)
<1>1. Len(inputs) \in Nat /\ DOMAIN inputs = 1..Len(inputs) /\ \A i \in 1..Len(inputs) : inputs[i] \in InputType
  BY SeqIs
<1>2. \A i \in 1..Len(inputs) : Safest(View(inputs[i], target, name)) \in Clause
  BY <1>1, ViewIs, SafestIs, DecisiveIs
<1> QED
  BY <1>1, <1>2 DEF Bounds

LEMMA PickInputsIs ==
  ASSUME NEW c \in Clause, NEW target \in ToSet(Multiplexers),
         NEW name \in ToSet(Carried[target]), NEW inputs \in Seq(InputType)
  PROVE  /\ PickInputs(c, target, name, inputs) \in Clause
         /\ OnSide(Rank(PickInputs(c, target, name, inputs)), Rank(c))
  BY BoundsAre, PickedBound DEF PickInputs

LEMMA PickAllInputsIs ==
  ASSUME NEW c \in Clause, NEW target \in ToSet(Multiplexers), NEW inputs \in Seq(InputType)
  PROVE  /\ PickAllInputs(c, target, inputs) \in Clause
         /\ OnSide(Rank(PickAllInputs(c, target, inputs)), Rank(c))
<1> DEFINE names == Carried[target]
           lists == [i \in DOMAIN names |-> Bounds(target, names[i], inputs)]
           all == FlattenSeq(lists)
<1>1. names \in Seq(Name)
  BY MultiplexNames
<1>2. /\ Len(names) \in Nat /\ DOMAIN names = 1..Len(names)
      /\ \A i \in 1..Len(names) : names[i] \in ToSet(names)
  BY <1>1, SeqIs
<1>3. \A i \in 1..Len(names) : Bounds(target, names[i], inputs) \in Seq(Clause)
  BY <1>2, BoundsAre
<1>4. lists \in [1..Len(names) -> Seq(Clause)]
  BY <1>2, <1>3
<1>5. PickAllInputs(c, target, inputs) = PickAmong(<<c>> \o all)
  BY DEF PickAllInputs
<1> HIDE DEF lists
<1>6. all \in Seq(Clause)
  <2> HIDE DEF names
  <2> QED
    BY <1>2, <1>4, FlattenedElements
<1> HIDE DEF all
<1> QED
  BY <1>5, <1>6, PickedBound

LEMMA PickAnyCallIs ==
  ASSUME NEW c \in Clause, NEW target \in ToSet(Multiplexers), NEW inputs \in Seq(InputType)
  PROVE  /\ PickAnyCall(c, target, inputs) \in Clause
         /\ OnSide(Rank(PickAnyCall(c, target, inputs)), Rank(c))
<1> DEFINE bounding == WithConditionalTarget(inputs, target)
           bounds == [i \in DOMAIN bounding |-> Safest(AnyCall(bounding[i], target))]
<1>1. bounding \in Seq(InputType)
  BY KeepIs DEF WithConditionalTarget
<1>2. PickAnyCall(c, target, inputs) = PickAmong(<<c>> \o bounds)
  BY DEF PickAnyCall
<1> HIDE DEF bounding
<1>3. /\ Len(bounding) \in Nat /\ DOMAIN bounding = 1..Len(bounding)
      /\ \A i \in 1..Len(bounding) : bounding[i] \in InputType
  BY <1>1, SeqIs
<1>4. \A i \in 1..Len(bounding) : Safest(AnyCall(bounding[i], target)) \in Clause
  BY <1>3, AnyCallIs, SafestIs, DecisiveIs
<1>5. bounds \in Seq(Clause)
  BY <1>3, <1>4
<1> HIDE DEF bounds
<1> QED
  BY <1>2, <1>5, PickedBound

-----------------------------------------------------------------------------
(* A rule in place of others *)

\* On the safe side of whatever the kernel makes of some clauses.
Beyond(c, s, default) ==
  \A narrow \in BOOLEAN : \A call \in Calls(narrow) :
    \A rank \in Direct(s, default, narrow, call) : OnSide(Rank(c), rank)

LEMMA BeyondAll ==
  ASSUME NEW c \in Clause, NEW s \in Seq(Clause), NEW default \in Decisive,
         OnSide(Rank(c), Rank(default)), \A d \in ToSet(s) : OnSide(Rank(c), Rank(d))
  PROVE  Beyond(c, s, default)
  BY DirectWithin DEF Beyond

LEMMA BeyondFirst ==
  ASSUME NEW c \in Clause, NEW s \in Seq(Clause), NEW default \in Decisive,
         FirstUnconditional(s) # NoClause, OnSide(Rank(c), Rank(FirstUnconditional(s)))
  PROVE  Beyond(c, s, default)
  BY DEF Beyond, Direct

LEMMA BeyondMore ==
  ASSUME NEW c \in Clause, NEW d \in Clause, OnSide(Rank(c), Rank(d)), NEW s \in Seq(Clause),
         NEW default \in Decisive, Beyond(d, s, default)
  PROVE  Beyond(c, s, default)
<1>1. Rank(c) \in Int /\ Rank(d) \in Int
  BY RankIs
<1>2. SUFFICES ASSUME NEW narrow \in BOOLEAN, NEW call \in Calls(narrow),
                      NEW rank \in Direct(s, default, narrow, call)
               PROVE  OnSide(Rank(c), rank)
  BY DEF Beyond
<1>3. rank \in Int
  BY DirectTyped
<1>4. OnSide(Rank(d), rank)
  BY DEF Beyond
<1> QED
  BY <1>1, <1>3, <1>4, SideTwice

\* The rule that replaces the rules of a name is on the safe side of them.
LEMMA CollapsedBeyond ==
  ASSUME NEW in \in InputType, NEW name \in MultiplexName
  PROVE  /\ Collapsed(in, name) \in Clause
         /\ Beyond(Collapsed(in, name), in.rules[name], in.default)
<1> DEFINE own == in.rules[name]
           c == Collapsed(in, name)
           first == FirstUnconditional(own)
<1>1. own \in Seq(Clause) /\ in.default \in Decisive /\ in.default \in Clause
  BY InputFields
<1>2. Rank(in.default) \in Int /\ OnSide(Rank(in.default), Rank(in.default))
  BY <1>1, RankIs DEF OnSide
<1>3. CASE own = <<>>
  <2>1. c = in.default /\ ToSet(own) = {}
    BY <1>3, EmptyList DEF Collapsed
  <2> HIDE DEF own, c
  <2> QED
    BY <1>1, <1>2, <2>1, BeyondAll DEF own, c
<1>4. CASE own # <<>> /\ first # NoClause
  <2>1. c = Safest(own)
    BY <1>4 DEF Collapsed
  <2>2. first \in ToSet(own)
    BY <1>1, <1>4, FirstIs
  <2>3. c \in Clause /\ OnSide(Rank(c), Rank(first))
    <3> HIDE DEF own, c, first
    <3> QED
      BY <1>1, <1>4, <2>1, <2>2, SafestIs, DecisiveIs
  <2>4. Beyond(c, own, in.default)
    <3> HIDE DEF own, c
    <3> QED
      BY <1>1, <1>4, <2>3, BeyondFirst
  <2> QED
    BY <2>3, <2>4
<1>5. CASE own # <<>> /\ first = NoClause
  <2> DEFINE p == Safest(own)
  <2>1. c = PickClause(p, in.default)
    BY <1>5 DEF Collapsed
  <2>2. p \in Clause /\ \A d \in ToSet(own) : OnSide(Rank(p), Rank(d))
    <3> HIDE DEF own
    <3> QED
      BY <1>1, <1>5, SafestIs, DecisiveIs
  <2>3. \A d \in ToSet(own) : Rank(d) \in Int
    BY <1>1, SeqIs, RankIs
  <2> HIDE DEF p, own, c
  <2>4. c \in Clause /\ OnSide(Rank(c), Rank(p)) /\ OnSide(Rank(c), Rank(in.default))
    BY <1>1, <2>1, <2>2, PickedClause DEF OnSide
  <2>5. \A d \in ToSet(own) : OnSide(Rank(c), Rank(d))
    BY <2>2, <2>3, <2>4, RankIs, SideTwice
  <2>6. Beyond(c, own, in.default)
    BY <1>1, <2>4, <2>5, BeyondAll
  <2> QED
    BY <2>4, <2>6 DEF own, c
<1> QED
  BY <1>3, <1>4, <1>5

-----------------------------------------------------------------------------
(* The states of the settling *)

Holding(kept) == IF kept = NoClause THEN <<>> ELSE <<kept>>

Deciding(kept, default) == IF kept = NoClause THEN default ELSE kept

\* The rule that stands for the ones a name had before, or for the default.
Stands(kept, rules, before, default) ==
  /\ kept \in Decisive \cup {NoClause}
  /\ rules = Holding(kept)
  /\ kept # NoClause => ~SameResult(kept, default)
  /\ Beyond(Deciding(kept, default), before, default)

Faithful(rules, replaced, before, default) ==
  \A name \in MultiplexName :
    IF name \in DOMAIN replaced THEN Stands(replaced[name], rules[name], before[name], default)
    ELSE rules[name] = before[name]

Replacing == UNION {[D -> Decisive \cup {NoClause}] : D \in SUBSET MultiplexName}

StateType(default) ==
  [result : [rules : [MultiplexName -> Seq(Clause)], default : {default}],
   replaced : Replacing, unhidden : SUBSET MultiplexName]

State(before, default) ==
  {st \in StateType(default) : Faithful(st.result.rules, st.replaced, before, default)}

LEMMA StateFields ==
  ASSUME NEW default \in Decisive, NEW before, NEW st \in State(before, default)
  PROVE  /\ st.result \in InputType /\ st.result.default = default
         /\ st.result.rules \in [MultiplexName -> Seq(Clause)]
         /\ st.replaced \in Replacing /\ DOMAIN st.replaced \in SUBSET MultiplexName
         /\ st.unhidden \in SUBSET MultiplexName
         /\ Faithful(st.result.rules, st.replaced, before, default)
         /\ st.result = [rules |-> st.result.rules, default |-> default]
         /\ st = [result |-> st.result, replaced |-> st.replaced, unhidden |-> st.unhidden]
<1>1. st \in StateType(default) /\ Faithful(st.result.rules, st.replaced, before, default)
  BY DEF State
<1>2. /\ st.result \in [rules : [MultiplexName -> Seq(Clause)], default : {default}]
      /\ st.replaced \in Replacing /\ st.unhidden \in SUBSET MultiplexName
      /\ st = [result |-> st.result, replaced |-> st.replaced, unhidden |-> st.unhidden]
  BY <1>1 DEF StateType
<1>3. DOMAIN st.replaced \in SUBSET MultiplexName
  BY <1>2 DEF Replacing
<1> QED
  BY <1>1, <1>2, <1>3 DEF InputType

LEMMA MakeState ==
  ASSUME NEW default, NEW before, NEW rules \in [MultiplexName -> Seq(Clause)],
         NEW replaced \in Replacing, NEW unhidden \in SUBSET MultiplexName,
         Faithful(rules, replaced, before, default)
  PROVE  [result |-> [rules |-> rules, default |-> default], replaced |-> replaced,
          unhidden |-> unhidden] \in State(before, default)
<1> DEFINE res == [rules |-> rules, default |-> default]
           st == [result |-> res, replaced |-> replaced, unhidden |-> unhidden]
<1>1. res \in [rules : [MultiplexName -> Seq(Clause)], default : {default}]
  OBVIOUS
<1>2. res.rules = rules
  OBVIOUS
<1> HIDE DEF res
<1>3. st \in StateType(default)
  BY <1>1 DEF StateType
<1>4. st.result.rules = rules /\ st.replaced = replaced
  BY <1>2
<1> HIDE DEF st
<1>5. st \in State(before, default)
  BY <1>3, <1>4 DEF State
<1> QED
  BY <1>5 DEF st, res

LEMMA HeldIs ==
  ASSUME NEW kept \in Decisive \cup {NoClause}, NEW default \in Decisive
  PROVE  /\ Holding(kept) \in Seq(Clause) /\ Deciding(kept, default) \in Decisive
         /\ \A narrow, call :
              Direct(Holding(kept), default, narrow, call) = {Rank(Deciding(kept, default))}
<1>1. CASE kept = NoClause
  <2>1. Holding(kept) = <<>> /\ Deciding(kept, default) = default
    BY <1>1 DEF Holding, Deciding
  <2>2. <<>> \in Seq(Clause) /\ ToSet(<<>>) = {}
    BY EmptyList
  <2>3. Compiled({})
    BY EmptyShape, ShapeCompiles
  <2>4. ASSUME NEW narrow, NEW call
        PROVE  Direct(<<>>, default, narrow, call) = {Rank(default)}
    <3>1. Direct(<<>>, default, narrow, call) = Evaluated({}, default, narrow, call)
      <4> DEFINE s == <<>>
      <4>1. s \in Seq(Clause) /\ ToSet(s) = {}
        BY <2>2
      <4> HIDE DEF s
      <4>2. Direct(s, default, narrow, call) = Evaluated(ToSet(s), default, narrow, call)
        BY <4>1, DirectMany
      <4> QED
        BY <4>1, <4>2 DEF s
    <3>2. Evaluated({}, default, narrow, call) = {Rank(default)}
      BY <2>3 DEF Evaluated
    <3> QED
      BY <3>1, <3>2
  <2> QED
    BY <2>1, <2>2, <2>4
<1>2. CASE kept # NoClause
  <2>1. Holding(kept) = <<kept>> /\ Deciding(kept, default) = kept /\ kept \in Decisive
    BY <1>2 DEF Holding, Deciding
  <2>2. <<kept>> \in Seq(Clause) /\ ToSet(<<kept>>) = {kept}
    BY <2>1, DecisiveIs, OneElement
  <2> DEFINE s == <<kept>>
  <2>3. s \in Seq(Clause) /\ ToSet(s) = {kept} /\ Holding(kept) = s
    BY <2>1, <2>2
  <2> HIDE DEF s
  <2>4. \A narrow, call : Direct(s, default, narrow, call) = {Rank(kept)}
    BY <2>1, <2>3, DirectOne
  <2> QED
    BY <2>1, <2>3, <2>4
<1> QED
  BY <1>1, <1>2

LEMMA BeyondHeld ==
  ASSUME NEW kept \in Decisive \cup {NoClause}, NEW default \in Decisive, NEW c,
         Beyond(c, Holding(kept), default)
  PROVE  OnSide(Rank(c), Rank(Deciding(kept, default)))
<1>1. PICK call : call \in Calls(FALSE)
  BY SomeCall
<1>2. Direct(Holding(kept), default, FALSE, call) = {Rank(Deciding(kept, default))}
  BY HeldIs
<1>3. \A rank \in Direct(Holding(kept), default, FALSE, call) : OnSide(Rank(c), rank)
  BY <1>1 DEF Beyond
<1> QED
  BY <1>2, <1>3

\* What is on the safe side of the rules so far is on that of the first ones.
LEMMA BeyondBefore ==
  ASSUME NEW default \in Decisive, NEW before \in [MultiplexName -> Seq(Clause)],
         NEW st \in State(before, default), NEW name \in MultiplexName, NEW c \in Clause,
         Beyond(c, st.result.rules[name], default)
  PROVE  Beyond(c, before[name], default)
<1>1. Faithful(st.result.rules, st.replaced, before, default)
  BY StateFields
<1>2. CASE name \in DOMAIN st.replaced
  <2> DEFINE kept == st.replaced[name]
             d == Deciding(kept, default)
  <2>1. Stands(kept, st.result.rules[name], before[name], default)
    BY <1>1, <1>2 DEF Faithful
  <2> HIDE DEF kept
  <2>2. /\ kept \in Decisive \cup {NoClause} /\ Beyond(c, Holding(kept), default)
        /\ Beyond(d, before[name], default)
    BY <2>1 DEF Stands
  <2>3. OnSide(Rank(c), Rank(d)) /\ d \in Clause
    BY <2>2, BeyondHeld, HeldIs, DecisiveIs
  <2> HIDE DEF d
  <2> QED
    BY <2>2, <2>3, BeyondMore
<1>3. CASE name \notin DOMAIN st.replaced
  BY <1>1, <1>3 DEF Faithful
<1> QED
  BY <1>2, <1>3

KeptRule(rule, default) == IF SameResult(rule, default) THEN NoClause ELSE Under(rule, {})

LEMMA KeptRuleIs ==
  ASSUME NEW rule \in Clause, NEW default \in Decisive
  PROVE  LET kept == KeptRule(rule, default) IN
         /\ kept \in Decisive \cup {NoClause}
         /\ kept # NoClause => ~SameResult(kept, default)
         /\ Deciding(kept, default) \in Clause
         /\ Rank(Deciding(kept, default)) = Rank(rule)
<1> DEFINE kept == KeptRule(rule, default)
<1>1. default \in Clause /\ Rank(rule) \in Int
  BY DecisiveIs, RankIs
<1>2. Under(rule, {}) \in Decisive /\ Rank(Under(rule, {})) = Rank(rule)
  BY EmptyFilter, UnderIs, RankUnder DEF Decisive
<1>3. kept \in Decisive \cup {NoClause}
  BY <1>2 DEF KeptRule
<1>4. kept # NoClause => ~SameResult(kept, default)
  <2>1. CASE SameResult(rule, default)
    BY <2>1 DEF KeptRule
  <2>2. CASE ~SameResult(rule, default)
    BY <2>2, SameUnder DEF KeptRule
  <2> QED
    BY <2>1, <2>2
<1>5. Rank(Deciding(kept, default)) = Rank(rule) /\ Deciding(kept, default) \in Clause
  <2>1. CASE SameResult(rule, default)
    <3>1. Deciding(kept, default) = default
      BY <2>1 DEF KeptRule, Deciding
    <3> QED
      BY <1>1, <2>1, <3>1, Comparisons
  <2>2. CASE ~SameResult(rule, default)
    <3>1. Under(rule, {}) # NoClause
      BY <1>2, DecisiveIs
    <3>2. Deciding(kept, default) = Under(rule, {})
      BY <2>2, <3>1 DEF KeptRule, Deciding
    <3> QED
      BY <1>2, <3>2, DecisiveIs
  <2> QED
    BY <2>1, <2>2
<1> QED
  BY <1>3, <1>4, <1>5

LEMMA KeptStands ==
  ASSUME NEW rule \in Clause, NEW default \in Decisive, NEW before \in Seq(Clause),
         Beyond(rule, before, default)
  PROVE  Stands(KeptRule(rule, default), Holding(KeptRule(rule, default)), before, default)
<1> DEFINE kept == KeptRule(rule, default)
<1>1. /\ kept \in Decisive \cup {NoClause}
      /\ kept # NoClause => ~SameResult(kept, default)
      /\ Deciding(kept, default) \in Clause
      /\ Rank(Deciding(kept, default)) = Rank(rule)
  BY KeptRuleIs
<1> HIDE DEF kept
<1>2. OnSide(Rank(Deciding(kept, default)), Rank(rule))
  BY <1>1, RankIs DEF OnSide
<1>3. Beyond(Deciding(kept, default), before, default)
  BY <1>1, <1>2, BeyondMore
<1> QED
  BY <1>1, <1>3 DEF Stands, kept

LEMMA ReplacedRecord ==
  ASSUME NEW st, NEW R, NEW d, NEW P, NEW U, NEW h, NEW name, NEW Q,
         st = [result |-> [rules |-> R, default |-> d], replaced |-> P, unhidden |-> U],
         NEW q, q = [st EXCEPT !.result.rules[name] = h, !.replaced = Q]
  PROVE  q = [result |-> [rules |-> [R EXCEPT ![name] = h], default |-> d], replaced |-> Q,
              unhidden |-> U]
<1> DEFINE res == [rules |-> R, default |-> d]
           new == [R EXCEPT ![name] = h]
<1>1. st.result = res /\ st.unhidden = U
  OBVIOUS
<1>2. res.rules = R /\ res.default = d
  OBVIOUS
<1>3. q = [st EXCEPT !.result = [res EXCEPT !.rules = new], !.replaced = Q]
  BY <1>1, <1>2
<1>4. [res EXCEPT !.rules = new] = [rules |-> new, default |-> d]
  OBVIOUS
<1> HIDE DEF res, new
<1>5. q = [st EXCEPT !.result = [rules |-> new, default |-> d], !.replaced = Q]
  BY <1>3, <1>4
<1> QED
  BY <1>5 DEF new

\* The names whose rules were replaced, with their rule, once another is.
WithRule(replaced, name, kept) ==
  [n \in DOMAIN replaced \cup {name} |-> IF n = name THEN kept ELSE replaced[n]]

LEMMA ReplaceIs ==
  ASSUME NEW default \in Decisive, NEW before, NEW st \in State(before, default),
         NEW name, NEW rule
  PROVE  Replace(st, name, rule)
           = [result |-> [rules |-> [st.result.rules EXCEPT
                                       ![name] = Holding(KeptRule(rule, default))],
                          default |-> default],
              replaced |-> WithRule(st.replaced, name, KeptRule(rule, default)),
              unhidden |-> st.unhidden]
<1> DEFINE kept == KeptRule(rule, default)
           R == st.result.rules
           P == st.replaced
           U == st.unhidden
           new == WithRule(P, name, kept)
           q == [st EXCEPT !.result.rules[name] = Holding(kept), !.replaced = new]
<1>1. /\ st.result.default = default
      /\ st = [result |-> [rules |-> R, default |-> default], replaced |-> P, unhidden |-> U]
  BY StateFields
<1>2. Replace(st, name, rule) = q
  BY <1>1 DEF Replace, Holding, KeptRule, Under, WithRule
<1>3. q = [st EXCEPT !.result.rules[name] = Holding(kept), !.replaced = new]
  OBVIOUS
<1> HIDE DEF q, new, kept
<1>4. st = [result |-> [rules |-> R, default |-> default], replaced |-> P, unhidden |-> U]
  BY <1>1
<1> HIDE DEF R, P, U
<1>5. q = [result |-> [rules |-> [R EXCEPT ![name] = Holding(kept)], default |-> default],
           replaced |-> new, unhidden |-> U]
  BY <1>3, <1>4, ReplacedRecord
<1> QED
  BY <1>2, <1>5, Zenon DEF new, R, P, U, kept, q

LEMMA ReplaceStays ==
  ASSUME NEW default \in Decisive, NEW before \in [MultiplexName -> Seq(Clause)],
         NEW st \in State(before, default), NEW name \in MultiplexName, NEW rule \in Clause,
         Beyond(rule, st.result.rules[name], default)
  PROVE  Replace(st, name, rule) \in State(before, default)
<1> DEFINE kept == KeptRule(rule, default)
           rules == [st.result.rules EXCEPT ![name] = Holding(kept)]
           replaced == WithRule(st.replaced, name, kept)
<1>1. /\ st.result.rules \in [MultiplexName -> Seq(Clause)]
      /\ st.replaced \in Replacing /\ DOMAIN st.replaced \in SUBSET MultiplexName
      /\ st.unhidden \in SUBSET MultiplexName
      /\ Faithful(st.result.rules, st.replaced, before, default)
  BY StateFields
<1>2. Stands(kept, Holding(kept), before[name], default)
  BY BeyondBefore, KeptStands
<1>3. kept \in Decisive \cup {NoClause} /\ Holding(kept) \in Seq(Clause)
  BY <1>2, HeldIs DEF Stands
<1>4. Replace(st, name, rule)
        = [result |-> [rules |-> rules, default |-> default], replaced |-> replaced,
           unhidden |-> st.unhidden]
  BY ReplaceIs
<1> HIDE DEF kept
<1>6. rules \in [MultiplexName -> Seq(Clause)]
  BY <1>1, <1>3
<1>7. replaced \in Replacing
  <2>1. \A n \in DOMAIN st.replaced : st.replaced[n] \in Decisive \cup {NoClause}
    BY <1>1 DEF Replacing
  <2>2. DOMAIN st.replaced \cup {name} \in SUBSET MultiplexName
    BY <1>1
  <2>3. replaced \in [DOMAIN st.replaced \cup {name} -> Decisive \cup {NoClause}]
    BY <1>3, <2>1 DEF WithRule
  <2> HIDE DEF replaced
  <2> QED
    BY <2>2, <2>3 DEF Replacing
<1>8. Faithful(rules, replaced, before, default)
  <2>1. SUFFICES ASSUME NEW n \in MultiplexName
                 PROVE  IF n \in DOMAIN replaced
                        THEN Stands(replaced[n], rules[n], before[n], default)
                        ELSE rules[n] = before[n]
    BY DEF Faithful
  <2>2. CASE n = name
    <3>1. n \in DOMAIN replaced /\ replaced[n] = kept /\ rules[n] = Holding(kept)
      BY <1>1, <2>2 DEF WithRule
    <3> QED
      BY <1>2, <2>2, <3>1
  <2>3. CASE n # name
    <3>1. /\ n \in DOMAIN replaced <=> n \in DOMAIN st.replaced
          /\ n \in DOMAIN st.replaced => replaced[n] = st.replaced[n]
          /\ rules[n] = st.result.rules[n]
      BY <1>1, <2>3 DEF WithRule
    <3> HIDE DEF replaced, rules
    <3> QED
      BY <1>1, <3>1 DEF Faithful
  <2> QED
    BY <2>2, <2>3
<1> HIDE DEF rules, replaced
<1>9. [result |-> [rules |-> rules, default |-> default], replaced |-> replaced,
       unhidden |-> st.unhidden] \in State(before, default)
  BY <1>1, <1>6, <1>7, <1>8, MakeState
<1> QED
  BY <1>4, <1>9, Zenon

LEMMA UnhiddenStays ==
  ASSUME NEW default \in Decisive, NEW before, NEW st \in State(before, default),
         NEW target \in MultiplexName
  PROVE  [st EXCEPT !.unhidden = @ \cup {target}] \in State(before, default)
<1> DEFINE R == st.result.rules
           P == st.replaced
           U == st.unhidden
           V == U \cup {target}
           q == [st EXCEPT !.unhidden = @ \cup {target}]
<1>1. /\ R \in [MultiplexName -> Seq(Clause)] /\ P \in Replacing /\ V \in SUBSET MultiplexName
      /\ Faithful(R, P, before, default)
      /\ st = [result |-> [rules |-> R, default |-> default], replaced |-> P, unhidden |-> U]
  BY StateFields
<1>2. q = [st EXCEPT !.unhidden = V]
  OBVIOUS
<1> HIDE DEF R, P, V
<1>3. q = [result |-> [rules |-> R, default |-> default], replaced |-> P, unhidden |-> V]
  <2> HIDE DEF U, q
  <2> QED
    BY <1>1, <1>2
<1> HIDE DEF q
<1>4. q \in State(before, default)
  BY <1>1, <1>3, MakeState
<1> QED
  BY <1>4 DEF q

LEMMA MultiplexerStays ==
  ASSUME NEW default \in Decisive, NEW before \in [MultiplexName -> Seq(Clause)],
         NEW st \in State(before, default), NEW target \in ToSet(Multiplexers),
         NEW inputs \in Seq(InputType)
  PROVE  SettleMultiplexer(st, target, inputs) \in State(before, default)
<1> DEFINE current == st.result.rules[target]
           own == Collapsed(st.result, target)
           collapsed == PickAnyCall(own, target, inputs)
           rule == PickAllInputs(collapsed, target, inputs)
           first == FirstUnconditional(current)
<1>1. target \in MultiplexName
  BY MultiplexNames
<1>2. st.result \in InputType /\ st.result.default = default /\ current \in Seq(Clause)
  <2>1. /\ st.result \in InputType /\ st.result.default = default
        /\ st.result.rules \in [MultiplexName -> Seq(Clause)]
    BY StateFields
  <2> QED
    BY <1>1, <2>1
<1>3. own \in Clause /\ Beyond(own, current, default)
  BY <1>1, <1>2, CollapsedBeyond
<1> HIDE DEF own
<1>4. collapsed \in Clause /\ OnSide(Rank(collapsed), Rank(own))
  BY <1>3, PickAnyCallIs
<1> HIDE DEF collapsed
<1>5. rule \in Clause /\ OnSide(Rank(rule), Rank(collapsed))
  BY <1>4, PickAllInputsIs
<1>6. Rank(own) \in Int /\ Rank(collapsed) \in Int /\ Rank(rule) \in Int
  BY <1>3, <1>4, <1>5, RankIs
<1> HIDE DEF rule
<1>7. Beyond(rule, current, default)
  <2>1. OnSide(Rank(rule), Rank(own))
    BY <1>4, <1>5, <1>6, SideTwice
  <2> HIDE DEF current
  <2> QED
    BY <1>2, <1>3, <1>5, <2>1, BeyondMore
<1>8. Replace(st, target, rule) \in State(before, default)
  BY <1>1, <1>5, <1>7, ReplaceStays
<1>9. ASSUME current # <<>>, HidesOnly(current, first, target, inputs),
             Unhides(st.result, target, inputs)
      PROVE  [Replace(st, target, st.result.default) EXCEPT !.unhidden = @ \cup {target}]
               \in State(before, default)
  <2>1. first # NoClause
    <3>1. PICK i \in DOMAIN current : Unconditional(current[i])
      <4>1. Len(current) \in Nat /\ DOMAIN current = 1..Len(current) /\ Len(current) # 0
        BY <1>2, <1>9
      <4>2. 1 \in DOMAIN current
        BY <4>1
      <4> QED
        BY <1>9, <4>2 DEF HidesOnly
    <3>2. current[i] \in ToSet(current) /\ current[i] \notin Conditional
      BY <1>2, <3>1, SeqIs DEF Conditional, Unconditional
    <3> QED
      BY <1>2, <3>2, FirstIs, DecisiveIs
  <2>2. Rank(first) = Rank(default) /\ Rank(default) \in Int /\ default \in Clause
    BY <1>2, <1>9, Comparisons, DecisiveIs DEF Unhides
  <2>3. OnSide(Rank(default), Rank(first))
    BY <2>2 DEF OnSide
  <2>4. Beyond(default, current, default)
    <3> HIDE DEF current
    <3> QED
      BY <1>2, <2>1, <2>2, <2>3, BeyondFirst DEF first
  <2> DEFINE r == Replace(st, target, st.result.default)
  <2>5. r = Replace(st, target, default)
    BY <1>2
  <2>6. r \in State(before, default)
    BY <1>1, <2>2, <2>4, <2>5, ReplaceStays
  <2> HIDE DEF r
  <2>7. [r EXCEPT !.unhidden = @ \cup {target}] \in State(before, default)
    BY <1>1, <2>6, UnhiddenStays
  <2> QED
    BY <2>7 DEF r
<1>10. SettleMultiplexer(st, target, inputs)
         = IF current = <<>> /\ SameResult(collapsed, st.result.default) THEN st
           ELSE IF current # <<>> /\ HidesOnly(current, first, target, inputs)
           THEN IF Unhides(st.result, target, inputs)
                THEN [Replace(st, target, st.result.default) EXCEPT !.unhidden = @ \cup {target}]
                ELSE st
           ELSE Replace(st, target, rule)
  BY DEF SettleMultiplexer, SettleTo, current, collapsed, rule, own
<1> HIDE DEF current, first
<1>11. CASE current = <<>> /\ SameResult(collapsed, st.result.default)
  BY <1>10, <1>11
<1>12. CASE current # <<>> /\ HidesOnly(current, first, target, inputs)
  BY <1>9, <1>10, <1>12
<1>13. CASE /\ ~(current = <<>> /\ SameResult(collapsed, st.result.default))
            /\ ~(current # <<>> /\ HidesOnly(current, first, target, inputs))
  BY <1>8, <1>10, <1>13
<1> QED
  BY <1>11, <1>12, <1>13

LEMMA SyscallStays ==
  ASSUME NEW default \in Decisive, NEW before \in [MultiplexName -> Seq(Clause)],
         NEW st \in State(before, default), NEW target \in ToSet(Multiplexers),
         NEW name \in ToSet(Carried[target]), NEW inputs \in Seq(InputType)
  PROVE  SettleMultiplexedSyscall(st, target, name, inputs) \in State(before, default)
<1> DEFINE collapsed == Collapsed(st.result, name)
           picked == PickInputs(collapsed, target, name, inputs)
           own == st.result.rules[name]
<1>1. name \in MultiplexName
  BY MultiplexNames
<1>2. st.result \in InputType /\ st.result.default = default /\ own \in Seq(Clause)
  <2>1. /\ st.result \in InputType /\ st.result.default = default
        /\ st.result.rules \in [MultiplexName -> Seq(Clause)]
    BY StateFields
  <2> QED
    BY <1>1, <2>1
<1>3. collapsed \in Clause /\ Beyond(collapsed, own, default)
  BY <1>1, <1>2, CollapsedBeyond
<1> HIDE DEF collapsed
<1>4. picked \in Clause /\ OnSide(Rank(picked), Rank(collapsed))
  BY <1>3, PickInputsIs
<1> HIDE DEF picked
<1>5. Beyond(picked, own, default)
  <2> HIDE DEF own
  <2> QED
    BY <1>2, <1>3, <1>4, BeyondMore
<1>6. /\ Replace(st, name, collapsed) \in State(before, default)
      /\ Replace(st, name, picked) \in State(before, default)
  BY <1>1, <1>3, <1>4, <1>5, ReplaceStays
<1>7. SettleMultiplexedSyscall(st, target, name, inputs)
        \in {st, Replace(st, name, collapsed), Replace(st, name, picked)}
  BY DEF SettleMultiplexedSyscall, collapsed, picked
<1> QED
  BY <1>6, <1>7

\* The states between the multiplexer and the syscalls it carries.
TargetSteps(iter, st, target, inputs) ==
  LET names == Carried[target] IN
  /\ iter[{}] = SettleMultiplexer(st, target, inputs)
  /\ \A s \in (SUBSET (1..Len(names))) \ {{}} :
       iter[s] = SettleMultiplexedSyscall(iter[s \ {Max(s)}], target, names[Max(s)], inputs)
  /\ iter[1..Len(names)] = SettleTarget(st, target, inputs)

LEMMA TargetUnfolds ==
  ASSUME NEW default \in Decisive, NEW before \in [MultiplexName -> Seq(Clause)],
         NEW st \in State(before, default), NEW target \in ToSet(Multiplexers),
         NEW inputs \in Seq(InputType)
  PROVE  \E iter \in [SUBSET (1..Len(Carried[target])) -> State(before, default)] :
           TargetSteps(iter, st, target, inputs)
<1> DEFINE names == Carried[target]
           n == Len(names)
           S == 1..n
           V == State(before, default)
           base == SettleMultiplexer(st, target, inputs)
           step(v, i) == SettleMultiplexedSyscall(v, target, names[i], inputs)
           Solves(g) == g = [s \in SUBSET S |->
                               IF s = {} THEN base ELSE step(g[s \ {Max(s)}], Max(s))]
           iter == CHOOSE g : Solves(g)
           op == [i \in S |-> [v \in V |-> step(v, i)]]
           choose == [s \in SUBSET S |-> Max(s)]
<1>1. n \in Nat /\ DOMAIN names = S /\ \A i \in S : names[i] \in ToSet(names)
  BY MultiplexNames, SeqIs
<1>2. SettleTarget(st, target, inputs) = iter[S]
  BY <1>1 DEF SettleTarget, FoldLeft, MapThenFoldSet
<1>3. IsFiniteSet(S)
  <2>1. n \in Int
    BY <1>1
  <2> HIDE DEF n
  <2> QED
    BY <2>1, FS_Interval
<1>4. \A s \in (SUBSET S) \ {{}} : Max(s) \in s
  BY <1>1, GreatestPicks
<1>5. Picks(choose, S)
  BY <1>4 DEF Picks
<1>6. base \in V
  BY MultiplexerStays
<1> HIDE DEF base
<1>7. \A i \in S, v \in V : step(v, i) \in V
  BY <1>1, SyscallStays
<1> HIDE DEF step, V, S
<1>8. op \in [S -> [V -> V]]
  BY <1>7
<1>9. \E g \in [SUBSET S -> V] : Unfolds(g, op, base, choose, S)
  <2> HIDE DEF op, choose
  <2> QED
    BY <1>3, <1>5, <1>6, <1>8, RecursionExists
<1>10. PICK h \in [SUBSET S -> V] : Unfolds(h, op, base, choose, S)
  BY <1>9
<1>11. Solves(h)
  <2>1. \A s \in (SUBSET S) \ {{}} :
          op[choose[s]][h[s \ {choose[s]}]] = step(h[s \ {Max(s)}], Max(s))
    BY <1>4, <1>10
  <2>2. h = [s \in SUBSET S |-> IF s = {} THEN base ELSE op[choose[s]][h[s \ {choose[s]}]]]
    BY <1>10 DEF Unfolds
  <2> HIDE DEF op, choose
  <2> QED
    BY <2>1, <2>2
<1>12. Solves(iter)
  BY <1>11, Zenon
<1> HIDE DEF iter, op
<1>13. iter[{}] = base /\ \A s \in (SUBSET S) \ {{}} : iter[s] = step(iter[s \ {Max(s)}], Max(s))
  BY <1>12
<1>14. ASSUME NEW t \in SUBSET S
       PROVE  iter[t] \in V
  <2>1. IsFiniteSet(t) /\ Picks(choose, t)
    BY <1>3, <1>5, FS_Subset DEF Picks
  <2>2. KeptBySteps(iter, V, choose, t)
    <3>1. SUFFICES ASSUME NEW s \in (SUBSET t) \ {{}}, iter[s \ {choose[s]}] \in V
                   PROVE  iter[s] \in V
      BY DEF KeptBySteps
    <3>2. s \in (SUBSET S) \ {{}}
      OBVIOUS
    <3>3. choose[s] = Max(s) /\ Max(s) \in S
      BY <1>4, <3>2
    <3>4. iter[s] = step(iter[s \ {Max(s)}], Max(s))
      BY <1>13, <3>2
    <3> QED
      BY <1>7, <3>1, <3>3, <3>4
  <2> HIDE DEF choose
  <2> QED
    BY <1>6, <1>13, <2>1, <2>2, RecursionStays
<1>15. iter = [s \in SUBSET S |-> iter[s]]
  BY <1>12
<1>16. iter \in [SUBSET S -> V]
  <2> HIDE DEF Solves
  <2> QED
    BY <1>14, <1>15
<1> QED
  BY <1>2, <1>13, <1>16 DEF TargetSteps, S, V, base, step

LEMMA TargetStays ==
  ASSUME NEW default \in Decisive, NEW before \in [MultiplexName -> Seq(Clause)],
         NEW st \in State(before, default), NEW target \in ToSet(Multiplexers),
         NEW inputs \in Seq(InputType)
  PROVE  SettleTarget(st, target, inputs) \in State(before, default)
<1> DEFINE S == 1..Len(Carried[target])
<1>1. PICK iter \in [SUBSET S -> State(before, default)] : TargetSteps(iter, st, target, inputs)
  BY TargetUnfolds
<1>2. S \in SUBSET S /\ iter[S] = SettleTarget(st, target, inputs)
  BY <1>1 DEF TargetSteps
<1> HIDE DEF S
<1> QED
  BY <1>1, <1>2

\* The state of the settling once every multiplexer has been settled.
SettledState(entries, default, inputs) ==
  FoldLeft(LAMBDA st, target : SettleTarget(st, target, inputs),
           [result |-> MultiplexInput(entries, default), replaced |-> <<>>, unhidden |-> {}],
           Multiplexers)

\* What a runtime loads for the names that multiplexers are about.
LoadedBefore(entries, default) == MultiplexInput(entries, default).rules

LEMMA FirstState ==
  ASSUME NEW entries \in Seq(Entry), NEW default \in Decisive
  PROVE  /\ LoadedBefore(entries, default) \in [MultiplexName -> Seq(Clause)]
         /\ [result |-> MultiplexInput(entries, default), replaced |-> <<>>, unhidden |-> {}]
              \in State(LoadedBefore(entries, default), default)
<1> DEFINE in == MultiplexInput(entries, default)
           rules == in.rules
           none == <<>>
<1>1. in \in InputType /\ in.default = default
  BY MultiplexInputIs
<1>2. rules \in [MultiplexName -> Seq(Clause)] /\ in = [rules |-> rules, default |-> default]
  BY <1>1 DEF InputType
<1>3. none \in Replacing /\ DOMAIN none = {}
  <2>1. none \in [{} -> Decisive \cup {NoClause}] /\ DOMAIN none = {}
    OBVIOUS
  <2> QED
    BY <2>1 DEF Replacing
<1> HIDE DEF none
<1>4. Faithful(rules, none, rules, default)
  BY <1>3 DEF Faithful
<1>5. {} \in SUBSET MultiplexName
  OBVIOUS
<1> HIDE DEF in, rules
<1>6. [result |-> [rules |-> rules, default |-> default], replaced |-> none, unhidden |-> {}]
        \in State(rules, default)
  BY <1>2, <1>3, <1>4, <1>5, MakeState
<1> QED
  BY <1>2, <1>6 DEF none, rules, in, LoadedBefore

\* The states between the multiplexers.
SettlingSteps(iter, entries, default, inputs) ==
  /\ iter[{}] = [result |-> MultiplexInput(entries, default), replaced |-> <<>>, unhidden |-> {}]
  /\ \A s \in (SUBSET (1..Len(Multiplexers))) \ {{}} :
       iter[s] = SettleTarget(iter[s \ {Max(s)}], Multiplexers[Max(s)], inputs)
  /\ iter[1..Len(Multiplexers)] = SettledState(entries, default, inputs)

LEMMA SettlingUnfolds ==
  ASSUME NEW entries \in Seq(Entry), NEW default \in Decisive, NEW inputs \in Seq(InputType)
  PROVE  \E iter \in [SUBSET (1..Len(Multiplexers)) -> State(LoadedBefore(entries, default), default)] :
           SettlingSteps(iter, entries, default, inputs)
<1> DEFINE before == LoadedBefore(entries, default)
           n == Len(Multiplexers)
           S == 1..n
           V == State(before, default)
           base == [result |-> MultiplexInput(entries, default), replaced |-> <<>>,
                    unhidden |-> {}]
           step(v, i) == SettleTarget(v, Multiplexers[i], inputs)
           Solves(g) == g = [s \in SUBSET S |->
                               IF s = {} THEN base ELSE step(g[s \ {Max(s)}], Max(s))]
           iter == CHOOSE g : Solves(g)
           op == [i \in S |-> [v \in V |-> step(v, i)]]
           choose == [s \in SUBSET S |-> Max(s)]
<1>1. n \in Nat /\ DOMAIN Multiplexers = S /\ \A i \in S : Multiplexers[i] \in ToSet(Multiplexers)
  BY ClausesAssumption, SeqIs
<1>2. SettledState(entries, default, inputs) = iter[S]
  BY <1>1 DEF SettledState, FoldLeft, MapThenFoldSet
<1>3. IsFiniteSet(S)
  <2>1. n \in Int
    BY <1>1
  <2> HIDE DEF n
  <2> QED
    BY <2>1, FS_Interval
<1>4. \A s \in (SUBSET S) \ {{}} : Max(s) \in s
  BY <1>1, GreatestPicks
<1>5. Picks(choose, S)
  BY <1>4 DEF Picks
<1>6. base \in V /\ before \in [MultiplexName -> Seq(Clause)]
  BY FirstState
<1> HIDE DEF base, before
<1>7. \A i \in S, v \in V : step(v, i) \in V
  BY <1>1, <1>6, TargetStays
<1> HIDE DEF step, V, S
<1>8. op \in [S -> [V -> V]]
  BY <1>7
<1>9. \E g \in [SUBSET S -> V] : Unfolds(g, op, base, choose, S)
  <2> HIDE DEF op, choose
  <2> QED
    BY <1>3, <1>5, <1>6, <1>8, RecursionExists
<1>10. PICK h \in [SUBSET S -> V] : Unfolds(h, op, base, choose, S)
  BY <1>9
<1>11. Solves(h)
  <2>1. \A s \in (SUBSET S) \ {{}} :
          op[choose[s]][h[s \ {choose[s]}]] = step(h[s \ {Max(s)}], Max(s))
    BY <1>4, <1>10
  <2>2. h = [s \in SUBSET S |-> IF s = {} THEN base ELSE op[choose[s]][h[s \ {choose[s]}]]]
    BY <1>10 DEF Unfolds
  <2> HIDE DEF op, choose
  <2> QED
    BY <2>1, <2>2
<1>12. Solves(iter)
  BY <1>11, Zenon
<1> HIDE DEF iter, op
<1>13. iter[{}] = base /\ \A s \in (SUBSET S) \ {{}} : iter[s] = step(iter[s \ {Max(s)}], Max(s))
  BY <1>12
<1>14. ASSUME NEW t \in SUBSET S
       PROVE  iter[t] \in V
  <2>1. IsFiniteSet(t) /\ Picks(choose, t)
    BY <1>3, <1>5, FS_Subset DEF Picks
  <2>2. KeptBySteps(iter, V, choose, t)
    <3>1. SUFFICES ASSUME NEW s \in (SUBSET t) \ {{}}, iter[s \ {choose[s]}] \in V
                   PROVE  iter[s] \in V
      BY DEF KeptBySteps
    <3>2. s \in (SUBSET S) \ {{}}
      OBVIOUS
    <3>3. choose[s] = Max(s) /\ Max(s) \in S
      BY <1>4, <3>2
    <3>4. iter[s] = step(iter[s \ {Max(s)}], Max(s))
      BY <1>13, <3>2
    <3> QED
      BY <1>7, <3>1, <3>3, <3>4
  <2> HIDE DEF choose
  <2> QED
    BY <1>6, <1>13, <2>1, <2>2, RecursionStays
<1>15. iter = [s \in SUBSET S |-> iter[s]]
  BY <1>12
<1>16. iter \in [SUBSET S -> V]
  <2> HIDE DEF Solves
  <2> QED
    BY <1>14, <1>15
<1> QED
  BY <1>2, <1>13, <1>16 DEF SettlingSteps, S, V, base, step, before

LEMMA AllStay ==
  ASSUME NEW entries \in Seq(Entry), NEW default \in Decisive, NEW inputs \in Seq(InputType)
  PROVE  SettledState(entries, default, inputs) \in State(LoadedBefore(entries, default), default)
<1> DEFINE S == 1..Len(Multiplexers)
           V == State(LoadedBefore(entries, default), default)
<1>1. PICK iter \in [SUBSET S -> V] : SettlingSteps(iter, entries, default, inputs)
  BY SettlingUnfolds
<1>2. S \in SUBSET S /\ iter[S] = SettledState(entries, default, inputs)
  BY <1>1 DEF SettlingSteps
<1> HIDE DEF S, V
<1>3. iter[S] \in V
  BY <1>1, <1>2
<1> QED
  BY <1>2, <1>3 DEF V

-----------------------------------------------------------------------------
(* Reading the settled entries *)

\* The rules of a name once one rule, or none, stands for them.
Replaced(kept) == [NoRules EXCEPT !.unconditional = kept]

LEMMA ReplacedRules ==
  ASSUME NEW kept \in Decisive \cup {NoClause}
  PROVE  /\ Replaced(kept) = [unconditional |-> kept, conditional |-> <<>>]
         /\ Replaced(kept) \in RulesType(FALSE)
         /\ Replaced(kept).unconditional = kept /\ ToSet(Replaced(kept).conditional) = {}
<1> DEFINE none == <<>>
<1>1. Replaced(kept) = [unconditional |-> kept, conditional |-> none]
  BY DEF Replaced, NoRules
<1>2. none \in Seq(Readable(FALSE)) /\ ToSet(none) = {}
  BY EmptyList
<1> HIDE DEF none
<1>3. [unconditional |-> kept, conditional |-> none] \in RulesType(FALSE)
  BY <1>2, MakeRules
<1>4. Replaced(kept) \in RulesType(FALSE)
  BY <1>1, <1>3, Zenon
<1>5. Replaced(kept).unconditional = kept /\ Replaced(kept).conditional = none
  BY <1>1
<1> QED
  BY <1>1, <1>2, <1>4, <1>5 DEF none

\* The entries of a replaced name: one, or none where its rule is the default's.
LEMMA ReplacedEntries ==
  ASSUME NEW name \in Name, NEW default \in Decisive, NEW kept \in Decisive \cup {NoClause},
         kept # NoClause => ~SameResult(kept, default)
  PROVE  /\ Emitted(name, default, Replaced(kept)) \in Seq(Entry)
         /\ \A e : e \in ToSet(Emitted(name, default, Replaced(kept))) <=>
                     kept # NoClause /\ e = ClauseToSyscall(name, kept)
<1> DEFINE rules == Replaced(kept)
           all == ({rules.unconditional} \ {NoClause}) \cup ToSet(rules.conditional)
<1>1. rules \in RulesType(FALSE) /\ all = {kept} \ {NoClause}
  BY ReplacedRules
<1> HIDE DEF rules
<1>2. /\ Emitted(name, default, rules) \in Seq(Entry)
      /\ \A e \in ToSet(Emitted(name, default, rules)) :
           \E c \in all : e = ClauseToSyscall(name, c)
      /\ \A c \in all : ~SameResult(c, default) =>
           ClauseToSyscall(name, c) \in ToSet(Emitted(name, default, rules))
  BY <1>1, EmittedIs
<1> HIDE DEF all
<1> QED
  BY <1>1, <1>2 DEF rules

\* The names whose rules were replaced, in the order of the strings.
InOrder(replaced) ==
  Keep(Names, {i \in DOMAIN Names : Names[i] \in DOMAIN replaced})

LEMMA InOrderIs ==
  ASSUME NEW replaced, DOMAIN replaced \in SUBSET Name
  PROVE  /\ InOrder(replaced) \in Seq(STRING) /\ ToSet(InOrder(replaced)) = DOMAIN replaced
<1> DEFINE I == {i \in DOMAIN Names : Names[i] \in DOMAIN replaced}
<1>1. Names \in Seq(STRING)
  BY ClausesAssumption
<1>2. /\ Keep(Names, I) \in Seq(STRING)
      /\ ToSet(Keep(Names, I)) = {Names[i] : i \in {j \in DOMAIN Names : j \in I}}
  BY <1>1, KeepIs
<1>3. \A name \in DOMAIN replaced : \E i \in DOMAIN Names : Names[i] = name
  BY NamesAre
<1>4. {Names[i] : i \in {j \in DOMAIN Names : j \in I}} = DOMAIN replaced
  BY <1>3
<1> QED
  BY <1>2, <1>4 DEF InOrder

\* Every rule that stands for others differs from the default.
Standing(replaced, default) ==
  \A name \in DOMAIN replaced :
    /\ replaced[name] \in Decisive \cup {NoClause}
    /\ replaced[name] # NoClause => ~SameResult(replaced[name], default)

ReplacedEmitted(replaced, default) ==
  FlattenSeq([i \in DOMAIN InOrder(replaced) |->
                Emitted(InOrder(replaced)[i], default, Replaced(replaced[InOrder(replaced)[i]]))])

LEMMA EmittedReplaced ==
  ASSUME NEW default \in Decisive, NEW replaced, DOMAIN replaced \in SUBSET Name,
         Standing(replaced, default)
  PROVE  /\ ReplacedEmitted(replaced, default) \in Seq(Entry)
         /\ \A e : e \in ToSet(ReplacedEmitted(replaced, default)) <=>
              \E name \in DOMAIN replaced :
                replaced[name] # NoClause /\ e = ClauseToSyscall(name, replaced[name])
<1> DEFINE order == InOrder(replaced)
           n == Len(order)
           of(name) == Emitted(name, default, Replaced(replaced[name]))
           lists == [i \in DOMAIN order |-> of(order[i])]
           all == FlattenSeq(lists)
<1>1. ReplacedEmitted(replaced, default) = all
  BY DEF ReplacedEmitted
<1>2. ToSet(order) = DOMAIN replaced /\ order \in Seq(STRING)
  BY InOrderIs
<1>3. /\ n \in Nat /\ DOMAIN order = 1..n
      /\ \A i \in 1..n : order[i] \in DOMAIN replaced
      /\ \A name \in DOMAIN replaced : \E i \in 1..n : order[i] = name
  BY <1>2, SeqIs
<1>4. \A name \in DOMAIN replaced :
        /\ of(name) \in Seq(Entry)
        /\ \A e : e \in ToSet(of(name)) <=>
             replaced[name] # NoClause /\ e = ClauseToSyscall(name, replaced[name])
  <2> SUFFICES ASSUME NEW name \in DOMAIN replaced
               PROVE  /\ of(name) \in Seq(Entry)
                      /\ \A e : e \in ToSet(of(name)) <=>
                           replaced[name] # NoClause /\ e = ClauseToSyscall(name, replaced[name])
    OBVIOUS
  <2> DEFINE kept == replaced[name]
  <2>1. /\ name \in Name /\ kept \in Decisive \cup {NoClause}
        /\ kept # NoClause => ~SameResult(kept, default)
    BY DEF Standing
  <2> HIDE DEF kept
  <2>2. /\ Emitted(name, default, Replaced(kept)) \in Seq(Entry)
        /\ \A e : e \in ToSet(Emitted(name, default, Replaced(kept))) <=>
                    kept # NoClause /\ e = ClauseToSyscall(name, kept)
    BY <2>1, ReplacedEntries
  <2> QED
    BY <2>2 DEF kept
<1> HIDE DEF order, of
<1>5. /\ lists \in [1..n -> Seq(Entry)]
      /\ \A i \in 1..n : lists[i] = of(order[i])
  BY <1>3, <1>4
<1> HIDE DEF lists, n
<1>6. all \in Seq(Entry) /\ ToSet(all) = UNION {ToSet(lists[i]) : i \in 1..n}
  BY <1>3, <1>5, FlattenedElements
<1> HIDE DEF all
<1>7. ASSUME NEW e
      PROVE  e \in ToSet(all) <=> \E name \in DOMAIN replaced :
               replaced[name] # NoClause /\ e = ClauseToSyscall(name, replaced[name])
  <2>1. e \in ToSet(all) <=> \E i \in 1..n : e \in ToSet(of(order[i]))
    BY <1>5, <1>6
  <2>2. e \in ToSet(all) <=> \E name \in DOMAIN replaced : e \in ToSet(of(name))
    BY <1>3, <2>1
  <2> QED
    BY <1>4, <2>2
<1> QED
  BY <1>1, <1>6, <1>7

\* The kernel makes the same of exact rules in any order.
LEMMA DirectAlike ==
  ASSUME NEW s \in Seq(Clause), NEW t \in Seq(Clause), ToSet(s) = ToSet(t), Exact(ToSet(s)),
         NEW default, NEW narrow, NEW call
  PROVE  Direct(s, default, narrow, call) = Direct(t, default, narrow, call)
<1>1. CASE \E c \in Decisive : ToSet(s) = {c}
  <2>1. PICK c \in Decisive : ToSet(s) = {c}
    BY <1>1
  <2>2. Direct(s, default, narrow, call) = {Rank(c)}
    BY <2>1, DirectOne
  <2>3. ToSet(t) = {c}
    BY <2>1
  <2>4. Direct(t, default, narrow, call) = {Rank(c)}
    BY <2>3, DirectOne
  <2> QED
    BY <2>2, <2>4
<1>2. CASE ToSet(s) \in SUBSET Conditional
  <2>1. Direct(s, default, narrow, call) = Evaluated(ToSet(s), default, narrow, call)
    BY <1>2, DirectMany
  <2>2. Direct(t, default, narrow, call) = Evaluated(ToSet(t), default, narrow, call)
    BY <1>2, DirectMany
  <2> QED
    BY <2>1, <2>2
<1> QED
  BY <1>1, <1>2 DEF Exact

LEMMA HeldExact ==
  ASSUME NEW kept \in Decisive \cup {NoClause}
  PROVE  /\ Exact(ToSet(Holding(kept)))
         /\ \A c : c \in ToSet(Holding(kept)) <=> c = kept /\ kept # NoClause
<1>1. CASE kept = NoClause
  <2>1. ToSet(Holding(kept)) = {}
    BY <1>1, EmptyList DEF Holding
  <2>2. Exact({})
    BY EmptyShape DEF Exact
  <2> QED
    BY <1>1, <2>1, <2>2
<1>2. CASE kept # NoClause
  <2>1. ToSet(Holding(kept)) = {kept} /\ kept \in Decisive
    BY <1>2, OneElement DEF Holding
  <2>2. Exact({kept})
    BY <2>1 DEF Exact
  <2> QED
    BY <1>2, <2>1, <2>2
<1> QED
  BY <1>1, <1>2

\* The entries that are read back: those of the names left alone, then one for
\* every rule that stands for others.
LEMMA ReadEntries ==
  ASSUME NEW entries \in Seq(Entry), NEW default \in Decisive, NEW st,
         DOMAIN st.replaced \in SUBSET Name, Standing(st.replaced, default)
  PROVE  LET F == ReadSettled(entries, default, st).entries
             R == DOMAIN st.replaced
         IN /\ F \in Seq(Entry)
            /\ \A e : e \in ToSet(F) <=>
                 \/ e \in ToSet(entries) /\ e.names \cap R = {}
                 \/ \E name \in R : /\ st.replaced[name] # NoClause
                                    /\ e = ClauseToSyscall(name, st.replaced[name])
<1> DEFINE R == DOMAIN st.replaced
           I == {i \in DOMAIN entries : entries[i].names \cap R = {}}
           kept == Keep(entries, I)
           new == ReplacedEmitted(st.replaced, default)
           F == ReadSettled(entries, default, st).entries
<1>1. F = IF R = {} THEN entries ELSE kept \o new
  BY DEF ReadSettled, ReplacedEmitted, InOrder, Replaced
<1> HIDE DEF F
<1>2. CASE R = {}
  BY <1>1, <1>2 DEF F
<1>3. CASE R # {}
  <2>1. kept \in Seq(Entry) /\ ToSet(kept) = {entries[i] : i \in {j \in DOMAIN entries : j \in I}}
    BY KeepIs
  <2>2. /\ new \in Seq(Entry)
        /\ \A e : e \in ToSet(new) <=>
             \E name \in R : st.replaced[name] # NoClause /\ e = ClauseToSyscall(name, st.replaced[name])
    <3> DEFINE replaced == st.replaced
    <3>1. DOMAIN replaced \in SUBSET Name /\ Standing(replaced, default)
      OBVIOUS
    <3> HIDE DEF replaced
    <3>2. /\ ReplacedEmitted(replaced, default) \in Seq(Entry)
          /\ \A e : e \in ToSet(ReplacedEmitted(replaced, default)) <=>
               \E name \in DOMAIN replaced :
                 replaced[name] # NoClause /\ e = ClauseToSyscall(name, replaced[name])
      BY <3>1, EmittedReplaced
    <3> QED
      BY <3>2 DEF replaced
  <2>3. \A e : e \in ToSet(kept) <=> e \in ToSet(entries) /\ e.names \cap R = {}
    <3>1. \A e : e \in ToSet(kept) <=> \E i \in DOMAIN entries : entries[i] = e /\ i \in I
      BY <2>1
    <3>2. \A e : e \in ToSet(entries) <=> \E i \in DOMAIN entries : entries[i] = e
      BY SeqIs
    <3> QED
      BY <3>1, <3>2
  <2> HIDE DEF kept, new, R
  <2>4. F \in Seq(Entry) /\ ToSet(F) = ToSet(kept) \cup ToSet(new)
    BY <1>1, <1>3, <2>1, <2>2, ConcatElements
  <2>5. /\ F \in Seq(Entry)
        /\ \A e : e \in ToSet(F) <=>
             \/ e \in ToSet(entries) /\ e.names \cap R = {}
             \/ \E name \in R : /\ st.replaced[name] # NoClause
                                /\ e = ClauseToSyscall(name, st.replaced[name])
    BY <2>2, <2>3, <2>4
  <2> QED
    BY <2>5 DEF F, R
<1> QED
  BY <1>2, <1>3

LEMMA ReadLoads ==
  ASSUME NEW entries \in Seq(Entry), OneNamed(entries), NEW default \in Decisive, NEW st,
         DOMAIN st.replaced \in SUBSET Name, Standing(st.replaced, default)
  PROVE  LET F == ReadSettled(entries, default, st).entries
             R == DOMAIN st.replaced
         IN /\ F \in Seq(Entry) /\ OneNamed(F)
            /\ \A name \in Name :
                 ToSet(LoadedClauses(F, default, name)) =
                   IF name \in R THEN ToSet(Holding(st.replaced[name]))
                   ELSE ToSet(LoadedClauses(entries, default, name))
<1> DEFINE R == DOMAIN st.replaced
           kept(name) == st.replaced[name]
           F == ReadSettled(entries, default, st).entries
<1>1. /\ F \in Seq(Entry)
      /\ \A e : e \in ToSet(F) <=>
           \/ e \in ToSet(entries) /\ e.names \cap R = {}
           \/ \E name \in R : kept(name) # NoClause /\ e = ClauseToSyscall(name, kept(name))
  BY ReadEntries
<1>2. \A name \in R : /\ name \in Name /\ kept(name) \in Decisive \cup {NoClause}
                      /\ kept(name) # NoClause => ~SameResult(kept(name), default)
  BY DEF Standing
<1>3. default # NoClause
  BY DecisiveIs
<1> HIDE DEF F, kept, R
<1>4. ASSUME NEW name \in R, kept(name) # NoClause
      PROVE  LET e == ClauseToSyscall(name, kept(name)) IN
             /\ e.names = {name} /\ ToSet(EntryClauses(e)) = {kept(name)}
             /\ ~Skipped(e, default)
  <2> DEFINE c == kept(name)
             e == ClauseToSyscall(name, c)
  <2>1. c \in Clause /\ ~SameResult(c, default) /\ name \in Name
    BY <1>2, <1>4, DecisiveIs
  <2> HIDE DEF c
  <2>2. e.names = {name} /\ EntryClauses(e) = <<c>> /\ Decision(e.action, e.errno) = Under(c, {})
    BY <2>1, ClauseWritten
  <2>3. ToSet(<<c>>) = {c}
    BY <2>1, OneElement
  <2>4. ~SameResult(Under(c, {}), default)
    BY <2>1, SameUnder
  <2> HIDE DEF e
  <2>5. ~Skipped(e, default)
    BY <2>2, <2>4 DEF Skipped
  <2> QED
    BY <2>2, <2>3, <2>5 DEF c, e
<1>5. OneNamed(F)
  BY <1>1, <1>2, <1>4 DEF OneNamed
<1>6. ASSUME NEW name \in Name, NEW c
      PROVE  c \in ToSet(LoadedClauses(F, default, name)) <=>
               \E e \in ToSet(F) : name \in e.names /\ ~Skipped(e, default) /\ c \in ToSet(EntryClauses(e))
  BY <1>1, LoadedOf
<1>7. ASSUME NEW name \in Name, name \in R
      PROVE  ToSet(LoadedClauses(F, default, name)) = ToSet(Holding(kept(name)))
  <2>1. ASSUME NEW c
        PROVE  c \in ToSet(LoadedClauses(F, default, name)) <=> c = kept(name) /\ kept(name) # NoClause
    <3>1. ASSUME NEW e \in ToSet(F), name \in e.names, ~Skipped(e, default),
                 c \in ToSet(EntryClauses(e))
          PROVE  c = kept(name) /\ kept(name) # NoClause
      <4>1. ~(e.names \cap R = {})
        BY <1>7, <3>1
      <4>2. PICK other \in R : kept(other) # NoClause /\ e = ClauseToSyscall(other, kept(other))
        BY <1>1, <3>1, <4>1
      <4>3. other = name /\ ToSet(EntryClauses(e)) = {kept(other)}
        BY <1>4, <3>1, <4>2
      <4> QED
        BY <3>1, <4>2, <4>3
    <3>2. ASSUME c = kept(name), kept(name) # NoClause
          PROVE  \E e \in ToSet(F) : name \in e.names /\ ~Skipped(e, default) /\ c \in ToSet(EntryClauses(e))
      <4> DEFINE e == ClauseToSyscall(name, kept(name))
      <4>1. e.names = {name} /\ ToSet(EntryClauses(e)) = {kept(name)} /\ ~Skipped(e, default)
        BY <1>4, <1>7, <3>2
      <4>2. e \in ToSet(F)
        BY <1>1, <1>7, <3>2
      <4> HIDE DEF e
      <4> QED
        BY <3>2, <4>1, <4>2
    <3> QED
      BY <1>6, <3>1, <3>2
  <2>2. \A c : c \in ToSet(Holding(kept(name))) <=> c = kept(name) /\ kept(name) # NoClause
    BY <1>2, <1>7, HeldExact
  <2> QED
    BY <2>1, <2>2
<1>8. ASSUME NEW name \in Name, name \notin R
      PROVE  ToSet(LoadedClauses(F, default, name)) = ToSet(LoadedClauses(entries, default, name))
  <2>1. ASSUME NEW c
        PROVE  c \in ToSet(LoadedClauses(F, default, name)) <=>
                 c \in ToSet(LoadedClauses(entries, default, name))
    <3>1. c \in ToSet(LoadedClauses(entries, default, name)) <=>
            \E e \in ToSet(entries) : /\ name \in e.names /\ ~Skipped(e, default)
                                      /\ c \in ToSet(EntryClauses(e))
      BY LoadedOf
    <3>2. ASSUME NEW e, name \in e.names PROVE e \in ToSet(F) <=> e \in ToSet(entries)
      <4>1. ASSUME e \in ToSet(F) PROVE e \in ToSet(entries)
        <5>1. ASSUME NEW other \in R, kept(other) # NoClause, e = ClauseToSyscall(other, kept(other))
              PROVE  FALSE
          <6>1. e.names = {other}
            BY <1>4, <5>1
          <6> QED
            BY <1>8, <3>2, <6>1
        <5> QED
          BY <1>1, <4>1, <5>1
      <4>2. ASSUME e \in ToSet(entries) PROVE e \in ToSet(F)
        <5>1. e.names = {name}
          BY <3>2, <4>2 DEF OneNamed
        <5>2. e.names \cap R = {}
          BY <1>8, <5>1
        <5> QED
          BY <1>1, <4>2, <5>2
      <4> QED
        BY <4>1, <4>2
    <3> QED
      BY <1>6, <3>1, <3>2
  <2> QED
    BY <2>1
<1> QED
  BY <1>1, <1>5, <1>7, <1>8 DEF F, R, kept

\* Exact rules decide a call in one way.
LEMMA DirectSingle ==
  ASSUME NEW narrow \in BOOLEAN, NEW call \in Calls(narrow), NEW s \in Seq(Clause),
         Exact(ToSet(s)), NEW default,
         NEW x \in Direct(s, default, narrow, call), NEW y \in Direct(s, default, narrow, call)
  PROVE  x = y
<1>1. CASE \E c \in Decisive : ToSet(s) = {c}
  <2>1. PICK c \in Decisive : ToSet(s) = {c}
    BY <1>1
  <2>2. Direct(s, default, narrow, call) = {Rank(c)}
    BY <2>1, DirectOne
  <2> QED
    BY <2>2
<1>2. CASE ToSet(s) \in SUBSET Conditional /\ SafeShape(ToSet(s))
  <2> DEFINE C == ToSet(s)
             M == Met(narrow, call)
  <2>1. Direct(s, default, narrow, call) = Evaluated(C, default, narrow, call)
    BY <1>2, DirectMany
  <2>2. C \in SUBSET Clause /\ SafeShape(C)
    BY <1>2, SeqIs
  <2>3. x \in Evaluated(C, default, narrow, call) /\ y \in Evaluated(C, default, narrow, call)
    BY <2>1
  <2> HIDE DEF C
  <2>4. Compiled(C)
    BY <2>2, ShapeCompiles
  <2>5. \A rank : rank \in Evaluated(C, default, narrow, call) <=>
           \/ (\A c \in C : c.args \notin M) /\ rank = Rank(default)
           \/ \E c \in C : c.args \in M /\ rank = Rank(c)
    BY <2>2, <2>4, EvaluatedIs
  <2> HIDE DEF M
  <2>6. CASE \A c \in C : c.args \notin M
    BY <2>3, <2>5, <2>6
  <2>7. CASE \E c \in C : c.args \in M
    <3>1. PICK c \in C : c.args \in M /\ x = Rank(c)
      BY <2>3, <2>5, <2>7
    <3>2. PICK d \in C : d.args \in M /\ y = Rank(d)
      BY <2>3, <2>5, <2>7
    <3>3. Rank(c) = Rank(d)
      BY <2>2, <3>1, <3>2, ShapeAgrees DEF M
    <3> QED
      BY <3>1, <3>2, <3>3
  <2> QED
    BY <2>6, <2>7
<1> QED
  BY <1>1, <1>2 DEF Exact

\* The result of a merge once its multiplexed syscalls are settled: the rules of
\* every name stay exact, and on the safe side of what they were.
LEMMA MultiplexSettled ==
  ASSUME NEW entries \in Seq(Entry), OneNamed(entries), NEW default \in Decisive,
         NEW inputs \in Seq(InputType),
         \A name \in Name : Exact(ToSet(LoadedClauses(entries, default, name)))
  PROVE  LET F == SettleMultiplexed(entries, default, inputs).entries IN
         /\ F \in Seq(Entry) /\ OneNamed(F)
         /\ \A name \in Name : Exact(ToSet(LoadedClauses(F, default, name)))
         /\ \A narrow \in BOOLEAN : \A call \in Calls(narrow) : \A name \in Name :
              AllOnSide(Direct(LoadedClauses(F, default, name), default, narrow, call),
                        Direct(LoadedClauses(entries, default, name), default, narrow, call))
<1> DEFINE st == SettledState(entries, default, inputs)
           before == LoadedBefore(entries, default)
           R == DOMAIN st.replaced
           kept(name) == st.replaced[name]
           F == SettleMultiplexed(entries, default, inputs).entries
           old(name) == LoadedClauses(entries, default, name)
           new(name) == LoadedClauses(F, default, name)
<1>1. st \in State(before, default)
  BY AllStay
<1>2. F = ReadSettled(entries, default, st).entries
  BY DEF SettleMultiplexed, SettledState
<1> HIDE DEF st
<1>3. /\ R \in SUBSET MultiplexName /\ Faithful(st.result.rules, st.replaced, before, default)
  BY <1>1, StateFields
<1>4. R \in SUBSET Name
  BY <1>3, MultiplexNames
<1>5. \A name \in R : /\ kept(name) \in Decisive \cup {NoClause}
                      /\ kept(name) # NoClause => ~SameResult(kept(name), default)
                      /\ Beyond(Deciding(kept(name), default), before[name], default)
  BY <1>3 DEF Faithful, Stands
<1>6. Standing(st.replaced, default)
  BY <1>5 DEF Standing
<1>7. \A name \in MultiplexName : before[name] = old(name)
  BY MultiplexInputIs DEF LoadedBefore
<1>8. /\ F \in Seq(Entry) /\ OneNamed(F)
      /\ \A name \in Name :
           ToSet(new(name)) = IF name \in R THEN ToSet(Holding(kept(name))) ELSE ToSet(old(name))
  BY <1>2, <1>4, <1>6, ReadLoads
<1>9. \A name \in Name : old(name) \in Seq(Clause) /\ new(name) \in Seq(Clause)
  BY <1>8, LoadedAre
<1> HIDE DEF F, before, kept, R, old, new
<1>10. ASSUME NEW name \in Name PROVE Exact(ToSet(new(name)))
  <2>1. CASE name \in R
    BY <1>5, <1>8, <2>1, HeldExact
  <2>2. CASE name \notin R
    BY <1>8, <2>2 DEF old
  <2> QED
    BY <2>1, <2>2
<1>11. ASSUME NEW narrow \in BOOLEAN, NEW call \in Calls(narrow), NEW name \in Name
       PROVE  AllOnSide(Direct(new(name), default, narrow, call),
                        Direct(old(name), default, narrow, call))
  <2> DEFINE s == new(name)
             t == old(name)
             after == Direct(s, default, narrow, call)
             first == Direct(t, default, narrow, call)
  <2>1. /\ s \in Seq(Clause) /\ t \in Seq(Clause) /\ Exact(ToSet(s)) /\ Exact(ToSet(t))
        /\ default \in Decisive
    BY <1>9, <1>10 DEF old
  <2> HIDE DEF s, t
  <2>2. CASE name \in R
    <3> DEFINE k == kept(name)
               h == Holding(k)
               d == Deciding(k, default)
    <3>1. k \in Decisive \cup {NoClause} /\ ToSet(s) = ToSet(h)
      BY <1>5, <1>8, <2>2 DEF s
    <3>2. name \in MultiplexName /\ Beyond(d, t, default)
      BY <1>3, <1>5, <1>7, <2>2 DEF t, R
    <3> HIDE DEF k
    <3>3. h \in Seq(Clause) /\ Direct(h, default, narrow, call) = {Rank(d)}
      BY <3>1, HeldIs
    <3> HIDE DEF h, d
    <3>4. after = {Rank(d)}
      BY <2>1, <3>1, <3>3, DirectAlike
    <3>5. \A rank \in first : OnSide(Rank(d), rank)
      BY <3>2 DEF Beyond
    <3> QED
      BY <3>4, <3>5 DEF AllOnSide, s, t
  <2>3. CASE name \notin R
    <3>1. ToSet(s) = ToSet(t)
      BY <1>8, <2>3 DEF s, t
    <3>2. after = first
      BY <2>1, <3>1, DirectAlike
    <3>3. \A x, y \in first : x = y /\ x \in Int
      BY <2>1, DirectSingle, DirectSome
    <3>4. AllOnSide(first, first)
      <4> HIDE DEF first
      <4> QED
        BY <3>3 DEF AllOnSide, OnSide
    <3> QED
      BY <3>2, <3>4 DEF s, t
  <2> QED
    BY <2>2, <2>3
<1> QED
  BY <1>8, <1>10, <1>11 DEF F, old, new

-----------------------------------------------------------------------------
(* Conditions that some architectures read in half *)

\* The conditions of an entry's clauses are its own, as a runtime loads them.
LEMMA EntryArgs ==
  ASSUME NEW entry \in Entry, NEW c \in ToSet(EntryClauses(entry)), NEW arg \in c.args
  PROVE  \E j \in DOMAIN entry.args : arg = CanonicalArg(entry.args[j])
<1> DEFINE base == Decision(entry.action, entry.errno)
           args == entry.args
           n == Len(args)
           s == EntryClauses(entry)
<1>1. n \in Nat /\ DOMAIN args = 1..n /\ \A i \in 1..n : args[i] \in Arg
  BY SeqIs DEF Entry
<1>2. base \in Clause
  BY DecisionIs, DecisiveIs DEF Entry
<1> HIDE DEF base
<1>3. \A f : Under(base, f).args = f
  BY DEF Under
<1>4. CASE RepeatsIndex(args)
  <2> DEFINE each(i) == Under(base, LoadedArgs(<<args[i]>>))
  <2>1. s = [i \in DOMAIN args |-> each(i)]
    BY <1>4 DEF EntryClauses, Under, base
  <2> HIDE DEF each
  <2>2. PICK i \in 1..n : c = each(i)
    BY <1>1, <2>1 DEF ToSet
  <2>3. arg \in LoadedArgs(<<args[i]>>)
    BY <1>3, <2>2 DEF each
  <2>4. ToSet(<<args[i]>>) = {args[i]}
    BY OneElement
  <2>5. arg = CanonicalArg(args[i])
    BY <2>3, <2>4 DEF LoadedArgs
  <2> QED
    BY <1>1, <2>5
<1>5. CASE ~RepeatsIndex(args)
  <2> DEFINE d == Under(base, LoadedArgs(args))
  <2>1. s = <<d>>
    BY <1>5 DEF EntryClauses, Under, base
  <2>2. d.args = LoadedArgs(args)
    BY <1>3
  <2> HIDE DEF d
  <2>3. ToSet(<<d>>) = {d}
    BY OneElement
  <2>4. arg \in LoadedArgs(args)
    BY <2>1, <2>2, <2>3
  <2>5. \A a \in ToSet(args) : \E i \in 1..n : args[i] = a
    BY <1>1 DEF ToSet
  <2>6. PICK a \in ToSet(args) : arg = CanonicalArg(a)
    BY <2>4 DEF LoadedArgs
  <2> QED
    BY <1>1, <2>5, <2>6
<1> QED
  BY <1>4, <1>5

\* Where no entry loads a wide value, every clause is read as it is written.
LEMMA NarrowlyLoaded ==
  ASSUME NEW profile, profile.entries \in Seq(Entry), ~LoadsWideValue(profile), NEW name,
         NEW narrow
  PROVE  ReadsAsWritten(LoadedClauses(profile.entries, Default(profile), name), narrow)
<1> DEFINE entries == profile.entries
           default == Default(profile)
           s == LoadedClauses(entries, default, name)
<1>1. ASSUME NEW c \in ToSet(s), NEW arg \in c.args
      PROVE  ~WideArg(arg)
  <2>1. PICK e \in ToSet(entries) : /\ name \in e.names /\ ~Skipped(e, default)
                                    /\ c \in ToSet(EntryClauses(e))
    BY LoadedOf
  <2>2. PICK i \in DOMAIN entries : entries[i] = e
    BY SeqIs
  <2>3. e \in Entry
    BY SeqIs
  <2>4. PICK j \in DOMAIN e.args : arg = CanonicalArg(e.args[j])
    BY <2>1, <2>3, EntryArgs
  <2>5. e.names # {}
    BY <2>1
  <2> HIDE DEF entries, default
  <2>6. ~WideArg(CanonicalArg(e.args[j]))
    BY <2>1, <2>2, <2>4, <2>5 DEF LoadsWideValue, entries, default
  <2> QED
    BY <2>4, <2>6
<1>2. \A c \in ToSet(s) : ~WideClause(c)
  BY <1>1 DEF WideClause
<1> QED
  BY <1>2 DEF ReadsAsWritten

LEMMA WidthsAre ==
  ASSUME NEW A, NEW narrow \in Widths(A)
  PROVE  narrow \in BOOLEAN /\ (narrow => A \cap NarrowArchitectures # {})
<1>1. PICK arch \in A : narrow = (arch \in NarrowArchitectures)
  BY Zenon DEF Widths
<1>2. narrow \in BOOLEAN
  BY <1>1
<1>3. ASSUME narrow PROVE A \cap NarrowArchitectures # {}
  BY <1>1, <1>3
<1> QED
  BY <1>2, <1>3

LEMMA WidthsGrow ==
  ASSUME NEW A, NEW B, A \subseteq B, NEW narrow \in Widths(A)
  PROVE  narrow \in Widths(B)
  BY Zenon DEF Widths

LEMMA WideReadsAsWritten ==
  ASSUME NEW s, NEW narrow, ~narrow
  PROVE  ReadsAsWritten(s, narrow)
  BY DEF ReadsAsWritten

-----------------------------------------------------------------------------
(* Clauses that leave nothing to a listener *)

\* No operator of a merge makes up an action: it picks the result of one of the
\* clauses it reads, whichever the strategy prefers.
Mute(clause) == clause.action # "NOTIFY"

Quiet(clauses) == \A c \in clauses : Mute(c)

QuietRules(rules) == Mute(rules.unconditional) /\ Quiet(ToSet(rules.conditional))

LEMMA NoClauseMute == Mute(NoClause)
  BY DEF Mute, NoClause

LEMMA MutePick ==
  ASSUME NEW c, NEW d, Mute(c), Mute(d)
  PROVE  Mute(PickClause(c, d))
  BY DEF PickClause, MoreRestrictive, LessRestrictive

LEMMA MuteUnder ==
  ASSUME NEW c \in Clause, Mute(c), NEW args
  PROVE  Mute([c EXCEPT !.args = args]) /\ Mute([c EXCEPT !.errno = args])
<1>1. c = [action |-> c.action, errno |-> c.errno, args |-> c.args]
  BY ClauseFields
<1> QED
  BY <1>1 DEF Mute

LEMMA QuietJoined ==
  ASSUME NEW V, NEW s \in Seq(V), NEW t \in Seq(V), Quiet(ToSet(s)), Quiet(ToSet(t))
  PROVE  s \o t \in Seq(V) /\ Quiet(ToSet(s \o t))
  BY ConcatElements DEF Quiet

LEMMA QuietMore ==
  ASSUME NEW c \in Clause, Mute(c), NEW s \in Seq(Clause), Quiet(ToSet(s))
  PROVE  /\ <<c>> \o s \in Seq(Clause) /\ <<c>> \o s # <<>>
         /\ Quiet(ToSet(<<c>> \o s)) /\ Mute(PickAmong(<<c>> \o s))
<1>1. <<c>> \in Seq(Clause) /\ ToSet(<<c>>) = {c} /\ Len(<<c>>) = 1
  BY OneElement
<1>2. <<c>> \o s \in Seq(Clause) /\ ToSet(<<c>> \o s) = {c} \cup ToSet(s)
  <2>1. PICK one : one = <<c>>
    OBVIOUS
  <2>2. one \in Seq(Clause) /\ ToSet(one) = {c}
    BY <1>1, <2>1
  <2>3. one \o s \in Seq(Clause) /\ ToSet(one \o s) = ToSet(one) \cup ToSet(s)
    BY <2>2, ConcatElements
  <2> QED
    BY <2>1, <2>2, <2>3
<1>3. Quiet(ToSet(<<c>> \o s))
  BY <1>2 DEF Quiet
<1>4. <<c>> \o s # <<>>
  BY <1>1
<1> QED
  BY <1>2, <1>3, <1>4, PickedAmong DEF Quiet

LEMMA MuteCollapseAll ==
  ASSUME NEW f \in Decisive, Mute(f), NEW s \in Seq(Clause), Quiet(ToSet(s))
  PROVE  Mute(CollapseAll(f, s))
<1>1. f \in Clause /\ f # NoClause
  BY DecisiveIs
<1>2. /\ <<f>> \o s \in Seq(Clause) /\ <<f>> \o s # <<>> /\ Mute(PickAmong(<<f>> \o s))
  BY <1>1, QuietMore
<1>3. PickAmong(<<f>> \o s) \in Clause
  BY <1>2, PickedAmong
<1>4. CollapseAll(f, s) = [PickAmong(<<f>> \o s) EXCEPT !.args = {}]
  BY <1>1, <1>2 DEF CollapseAll
<1> QED
  BY <1>2, <1>3, <1>4, MuteUnder

LEMMA MuteCollapse ==
  ASSUME NEW f \in Decisive, Mute(f), NEW s \in Seq(Clause), Quiet(ToSet(s))
  PROVE  Mute(Collapse(f, s))
<1>1. Mute(CollapseAll(f, s)) /\ Mute(NoClause)
  BY MuteCollapseAll, NoClauseMute
<1> QED
  BY <1>1 DEF Collapse

LEMMA QuietUnified ==
  ASSUME NEW s \in Seq(Clause), Quiet(ToSet(s))
  PROVE  UnifyErrno(s) \in Seq(Clause) /\ Quiet(ToSet(UnifyErrno(s)))
<1>1. UnifyErrno(s) \in Seq(Clause)
  BY UnifiedIs
<1>2. CASE ~ErrnoUnifiable(s)
  BY <1>1, <1>2 DEF UnifyErrno
<1>3. CASE ErrnoUnifiable(s)
  <2> DEFINE t == [i \in DOMAIN s |-> [s[i] EXCEPT !.errno = s[1].errno]]
  <2>1. UnifyErrno(s) = t
    BY <1>3 DEF UnifyErrno
  <2>2. ASSUME NEW c \in ToSet(t) PROVE Mute(c)
    <3>1. PICK i \in DOMAIN t : c = t[i]
      BY DEF ToSet
    <3>2. i \in DOMAIN s /\ s[i] \in Clause /\ s[i] \in ToSet(s)
      BY SeqIs
    <3>3. c = [s[i] EXCEPT !.errno = s[1].errno] /\ Mute(s[i])
      BY <3>1, <3>2 DEF Quiet
    <3> QED
      BY <3>2, <3>3, MuteUnder
  <2> QED
    BY <1>1, <2>1, <2>2 DEF Quiet
<1> QED
  BY <1>2, <1>3

-----------------------------------------------------------------------------
(* The rules of a profile, settled *)

LEMMA QuietRulesOf ==
  ASSUME NEW s \in Seq(Clause), Quiet(ToSet(s))
  PROVE  /\ QuietRules(RulesOf(s)) /\ RulesOf(s).conditional \in Seq(Clause)
         /\ RulesOf(s) = [unconditional |-> RulesOf(s).unconditional,
                          conditional |-> RulesOf(s).conditional]
<1>1. FirstUnconditional(s) = NoClause \/ FirstUnconditional(s) \in ToSet(s)
  BY FirstIs
<1>2. Mute(FirstUnconditional(s))
  BY <1>1, NoClauseMute DEF Quiet
<1>3. DedupeClauses(s) \in Seq(Clause) /\ Quiet(ToSet(DedupeClauses(s)))
  BY DedupeIs
<1>4. <<>> \in Seq(Clause) /\ ToSet(<<>>) = {}
  BY EmptyList
<1>5. \/ RulesOf(s) = [unconditional |-> FirstUnconditional(s), conditional |-> <<>>]
      \/ RulesOf(s) = [unconditional |-> NoClause, conditional |-> DedupeClauses(s)]
  BY DEF RulesOf, NoRules
<1>6. PICK R : R = RulesOf(s)
  OBVIOUS
<1> DEFINE t == DedupeClauses(s)
           first == FirstUnconditional(s)
<1>7. t \in Seq(Clause) /\ Quiet(ToSet(t)) /\ Mute(first)
  BY <1>2, <1>3
<1>8. \/ R = [unconditional |-> first, conditional |-> <<>>]
      \/ R = [unconditional |-> NoClause, conditional |-> t]
  BY <1>5, <1>6
<1> HIDE DEF t, first
<1>9. /\ R.conditional \in {t, <<>>} /\ R.unconditional \in {first, NoClause}
      /\ R = [unconditional |-> R.unconditional, conditional |-> R.conditional]
  BY <1>8
<1>10. Quiet(ToSet(<<>>))
  BY <1>4 DEF Quiet
<1>11. QuietRules(R) /\ R.conditional \in Seq(Clause)
  BY <1>4, <1>7, <1>9, <1>10, NoClauseMute DEF QuietRules
<1> QED
  BY <1>6, <1>9, <1>11

LEMMA QuietCollapsedTo ==
  ASSUME NEW default \in Decisive, Mute(default), NEW s \in Seq(Clause), Quiet(ToSet(s)),
         NEW R, R = [NoRules EXCEPT !.unconditional = Collapse(default, s)]
  PROVE  QuietRules(R)
<1>1. Mute(Collapse(default, s)) /\ ToSet(<<>>) = {}
  BY MuteCollapse, EmptyList
<1>2. R = [unconditional |-> Collapse(default, s), conditional |-> <<>>]
  BY DEF NoRules
<1> QED
  BY <1>1, <1>2 DEF QuietRules, Quiet

LEMMA QuietWith ==
  ASSUME NEW rules, QuietRules(rules),
         rules = [unconditional |-> rules.unconditional, conditional |-> rules.conditional],
         NEW s, Quiet(ToSet(s))
  PROVE  QuietRules([rules EXCEPT !.conditional = s])
<1>1. [rules EXCEPT !.conditional = s]
        = [unconditional |-> rules.unconditional, conditional |-> s]
  OBVIOUS
<1> QED
  BY <1>1 DEF QuietRules

LEMMA QuietInput ==
  ASSUME NEW default \in Decisive, Mute(default), NEW flag, NEW rules, QuietRules(rules),
         rules = [unconditional |-> rules.unconditional, conditional |-> rules.conditional],
         rules.conditional \in Seq(Clause)
  PROVE  QuietRules(SettleInput(rules, default, flag))
<1> DEFINE unified == UnifyErrno(rules.conditional)
<1>1. unified \in Seq(Clause) /\ Quiet(ToSet(unified))
  BY QuietUnified DEF QuietRules
<1>2. \/ SettleInput(rules, default, flag) = rules
      \/ SettleInput(rules, default, flag) = [rules EXCEPT !.conditional = unified]
      \/ SettleInput(rules, default, flag)
           = [NoRules EXCEPT !.unconditional = Collapse(default, unified)]
  BY Zenon DEF SettleInput
<1> HIDE DEF unified
<1>3. QuietRules([rules EXCEPT !.conditional = unified])
  BY <1>1, QuietWith
<1>4. QuietRules([NoRules EXCEPT !.unconditional = Collapse(default, unified)])
  BY <1>1, QuietCollapsedTo
<1> QED
  BY <1>2, <1>3, <1>4

LEMMA QuietSettled ==
  ASSUME NEW entries \in Seq(Entry), NEW default \in Decisive, Mute(default), NEW flag,
         NEW name \in Name, Quiet(ToSet(LoadedClauses(entries, default, name)))
  PROVE  QuietRules(SettledRules(entries, default, flag)[name])
<1> DEFINE loaded == LoadedClauses(entries, default, name)
<1>1. loaded \in Seq(Clause) /\ Quiet(ToSet(loaded))
  BY LoadedAre
<1>2. \/ SettledRules(entries, default, flag)[name]
           = [NoRules EXCEPT !.unconditional = Collapse(default, loaded)]
      \/ SettledRules(entries, default, flag)[name]
           = SettleInput(RulesOf(loaded), default, flag)
  BY Zenon DEF SettledRules
<1> HIDE DEF loaded
<1>3. QuietRules([NoRules EXCEPT !.unconditional = Collapse(default, loaded)])
  BY <1>1, QuietCollapsedTo
<1>4. QuietRules(SettleInput(RulesOf(loaded), default, flag))
  BY <1>1, QuietRulesOf, QuietInput
<1> QED
  BY <1>2, <1>3, <1>4

-----------------------------------------------------------------------------
(* Two rules merged leave nothing more to a listener *)

LEMMA MuteAdjusted ==
  ASSUME NEW narrow, NEW c \in Readable(narrow), NEW others \in Seq(Clause), NEW f \in Decisive,
         Mute(c), Quiet(ToSet(others)), Mute(f)
  PROVE  Mute(AdjustClause(c, others, f))
<1> DEFINE over == Overlapping(c, others)
           most == PickAmong(<<c>> \o over)
           adjusted == IF Intersecting THEN most ELSE c
<1>1. c \in Clause /\ f \in Clause
  BY ReadableIs, DecisiveIs
<1>2. over \in Seq(Clause) /\ Quiet(ToSet(over))
  <2>1. /\ over \in Seq(Clause)
        /\ ToSet(over) = {others[i] : i \in {j \in DOMAIN others : ~ArgsDisjoint(c.args, others[j].args)}}
    BY OverlappingIs
  <2>2. \A i \in DOMAIN others : others[i] \in ToSet(others)
    BY SeqIs
  <2> QED
    BY <2>1, <2>2 DEF Quiet
<1> HIDE DEF over
<1>3. <<c>> \o over \in Seq(Clause) /\ <<c>> \o over # <<>> /\ Mute(most)
  BY <1>1, <1>2, QuietMore
<1>4. most \in Clause
  BY <1>3, PickedAmong
<1> HIDE DEF most
<1>5. adjusted \in Clause /\ Mute(adjusted)
  BY <1>1, <1>3, <1>4
<1> HIDE DEF adjusted
<1>6. PickClause(adjusted, f) \in Clause /\ Mute(PickClause(adjusted, f))
  BY <1>1, <1>5, PickedClause, MutePick
<1>7. \/ AdjustClause(c, others, f) = [adjusted EXCEPT !.args = c.args]
      \/ AdjustClause(c, others, f) = [PickClause(adjusted, f) EXCEPT !.args = c.args]
  BY Zenon DEF AdjustClause, adjusted, most, over
<1> QED
  BY <1>5, <1>6, <1>7, MuteUnder

LEMMA QuietAdjusted ==
  ASSUME NEW narrow, NEW clauses \in Seq(Readable(narrow)), NEW others \in Seq(Readable(narrow)),
         NEW f \in Decisive, Quiet(ToSet(clauses)), Quiet(ToSet(others)), Mute(f)
  PROVE  Quiet(ToSet(AdjustClauses(clauses, others, f)))
<1> DEFINE V == Readable(narrow)
           each == [i \in DOMAIN clauses |-> AdjustClause(clauses[i], others, f)]
           kept == {i \in DOMAIN clauses :
                      Intersecting /\ f = NoClause => Subsumed(clauses[i], others)}
<1>1. f # NoClause
  BY NoClauseIsNone DEF Decisive
<1>2. /\ Len(clauses) \in Nat /\ DOMAIN clauses = 1..Len(clauses)
      /\ \A i \in DOMAIN clauses : clauses[i] \in V /\ clauses[i] \in ToSet(clauses)
  BY SeqIs
<1>3. others \in Seq(Clause)
  <2>1. Readable(narrow) \subseteq Clause
    BY ReadableIs
  <2> QED
    BY <2>1
<1>4. \A i \in DOMAIN clauses : each[i] \in V /\ Mute(each[i])
  BY <1>2, <1>3, AdjustedIs, MuteAdjusted DEF Quiet
<1>5. each \in Seq(V)
  BY <1>2, <1>4
<1>6. AdjustClauses(clauses, others, f) = Keep(each, kept)
  BY <1>1 DEF AdjustClauses
<1>7. DOMAIN each = DOMAIN clauses
  OBVIOUS
<1> HIDE DEF each, kept, V
<1>8. ToSet(Keep(each, kept)) = {each[i] : i \in {j \in DOMAIN each : j \in kept}}
  BY <1>5, KeepIs
<1> QED
  BY <1>4, <1>6, <1>7, <1>8 DEF Quiet

LEMMA MutePair ==
  ASSUME NEW l \in Clause, NEW r \in Clause, Mute(l), Mute(r)
  PROVE  Quiet(ToSet(ConjoinClauses(l, r)))
<1> DEFINE p == PickClause(l, r)
           both == ConjoinArgs(l.args, r.args)
           under == [p EXCEPT !.args = both]
<1>1. p \in Clause /\ Mute(p)
  BY PickedClause, MutePick
<1> HIDE DEF p, both
<1>2. Mute(under)
  BY <1>1, MuteUnder
<1>3. \/ ConjoinClauses(l, r) = <<p>>
      \/ ConjoinClauses(l, r) = <<under>>
      \/ ConjoinClauses(l, r) = <<>>
  BY Zenon DEF ConjoinClauses, p, both
<1> HIDE DEF under
<1>4. ToSet(<<p>>) = {p} /\ ToSet(<<under>>) = {under} /\ ToSet(<<>>) = {}
  BY DEF ToSet
<1> QED
  BY <1>1, <1>2, <1>3, <1>4 DEF Quiet

LEMMA QuietConjoined ==
  ASSUME NEW narrow \in BOOLEAN, NEW call \in Calls(narrow), Intersecting,
         NEW left \in Seq(Readable(narrow)), NEW right \in Seq(Readable(narrow)),
         Quiet(ToSet(left)), Quiet(ToSet(right))
  PROVE  /\ ConjoinedClauses(left, right) \in Seq(Readable(narrow))
         /\ Quiet(ToSet(ConjoinedClauses(left, right)))
<1>1. /\ \A i \in DOMAIN left : left[i] \in Clause /\ Mute(left[i])
      /\ \A j \in DOMAIN right : right[j] \in Clause /\ Mute(right[j])
  BY SeqIs, ReadableIs DEF Quiet
<1>2. \A x \in ToSet(ConjoinedClauses(left, right)) :
        \E i \in DOMAIN left, j \in DOMAIN right : x \in ToSet(ConjoinClauses(left[i], right[j]))
  BY ConjoinedAre
<1> QED
  BY <1>1, <1>2, ConjoinedAre, MutePair DEF Quiet

LEMMA MuteFallback ==
  ASSUME NEW rules, QuietRules(rules), NEW default, Mute(default)
  PROVE  Mute(Fallback(rules, default))
  BY DEF Fallback, QuietRules

LEMMA QuietMerged ==
  ASSUME NEW left \in RulesType(FALSE), NEW right \in RulesType(FALSE),
         NEW ld \in Decisive, NEW rd \in Decisive,
         QuietRules(left), QuietRules(right), Mute(ld), Mute(rd)
  PROVE  QuietRules(MergeRules(left, right, ld, rd))
<1> DEFINE V == Readable(FALSE)
           ls == left.conditional
           rs == right.conditional
           lf == Fallback(left, ld)
           rf == Fallback(right, rd)
           f == PickClause(lf, rf)
           A == AdjustClauses(ls, rs, rf)
           B == AdjustClauses(rs, ls, lf)
           C == IF Intersecting THEN ConjoinedClauses(ls, rs) ELSE <<>>
<1>1. PICK call : call \in Calls(FALSE)
  BY SomeCall
<1>2. /\ ls \in Seq(V) /\ rs \in Seq(V) /\ Quiet(ToSet(ls)) /\ Quiet(ToSet(rs))
      /\ ls \in Seq(Clause) /\ rs \in Seq(Clause)
  <2>1. ls \in Seq(V) /\ rs \in Seq(V)
    BY RulesFields
  <2>2. ls \in Seq(Clause) /\ rs \in Seq(Clause)
    BY <2>1, ReadableClauses
  <2> QED
    BY <2>1, <2>2 DEF QuietRules
<1>3. lf \in Decisive /\ rf \in Decisive /\ Mute(lf) /\ Mute(rf)
  BY FallbackIs, MuteFallback
<1>4. f \in Decisive /\ Mute(f)
  BY <1>3, PickedDecisive, MutePick
<1>5. \/ MergeRules(left, right, ld, rd)
           = [unconditional |-> CollapseAll(f, ls \o rs), conditional |-> <<>>]
      \/ MergeRules(left, right, ld, rd)
           = [unconditional |-> f, conditional |-> A \o B \o C]
  BY MergeWays
<1>6. /\ A \in Seq(V) /\ Quiet(ToSet(A)) /\ B \in Seq(V) /\ Quiet(ToSet(B))
  <2> HIDE DEF ls, rs, lf, rf, V
  <2>1. ls \in Seq(Readable(FALSE)) /\ rs \in Seq(Readable(FALSE))
    BY <1>2 DEF V
  <2> QED
    BY <1>2, <1>3, <2>1, AdjustedClausesAre, QuietAdjusted DEF V
<1>7. C \in Seq(V) /\ Quiet(ToSet(C))
  <2> HIDE DEF ls, rs
  <2>1. CASE Intersecting
    BY <1>1, <1>2, <2>1, QuietConjoined
  <2>2. CASE ~Intersecting
    BY <2>2, EmptyList DEF Quiet
  <2> QED
    BY <2>1, <2>2
<1> HIDE DEF A, B, C, f, lf, rf, V, ls, rs
<1>8. ls \o rs \in Seq(Clause) /\ Quiet(ToSet(ls \o rs))
  BY <1>2, QuietJoined
<1>9. Quiet(ToSet(A \o B \o C))
  <2>1. A \o B \in Seq(V) /\ Quiet(ToSet(A \o B))
    BY <1>6, QuietJoined
  <2> QED
    BY <1>7, <2>1, QuietJoined
<1>10. Mute(CollapseAll(f, ls \o rs))
  BY <1>4, <1>8, MuteCollapseAll
<1>11. Quiet(ToSet(<<>>))
  BY EmptyList DEF Quiet
<1> DEFINE all == CollapseAll(f, ls \o rs)
           list == A \o B \o C
<1>12. PICK R : R = MergeRules(left, right, ld, rd)
  OBVIOUS
<1>13. \/ R = [unconditional |-> all, conditional |-> <<>>]
       \/ R = [unconditional |-> f, conditional |-> list]
  BY <1>5, <1>12
<1>14. Mute(all) /\ Quiet(ToSet(list))
  BY <1>9, <1>10
<1> HIDE DEF all, list
<1>15. QuietRules(R)
  BY <1>4, <1>11, <1>13, <1>14 DEF QuietRules
<1> QED
  BY <1>12, <1>15

-----------------------------------------------------------------------------
(* Nor do the steps that make merged rules expressible *)

LEMMA QuietTops ==
  ASSUME NEW some, NEW clauses, NEW met, Tops(some, clauses, met), Quiet(clauses)
  PROVE  Quiet(some)
  BY DEF Tops, Quiet

LEMMA QuietDropped ==
  ASSUME NEW s \in Seq(Readable(FALSE)), NEW f \in Decisive, NEW errnoCounts \in BOOLEAN,
         Quiet(ToSet(s))
  PROVE  /\ DropRedundant(s, f, errnoCounts) \in Seq(Readable(FALSE))
         /\ Quiet(ToSet(DropRedundant(s, f, errnoCounts)))
<1>1. DropRedundant(s, f, errnoCounts) \in Seq(Readable(FALSE))
  BY DroppedAre
<1>2. PICK dropped : /\ Droppable(s, dropped, f)
                     /\ ToSet(DropRedundant(s, f, errnoCounts)) = Left(s, dropped)
  BY DroppedAre
<1>3. \A i \in DOMAIN s : s[i] \in ToSet(s)
  BY SeqIs
<1> QED
  BY <1>1, <1>2, <1>3 DEF Left, Quiet

LEMMA QuietGrouped ==
  ASSUME NEW s \in Seq(Readable(FALSE)), Quiet(ToSet(s))
  PROVE  GroupByArgs(s) \in Seq(Readable(FALSE)) /\ Quiet(ToSet(GroupByArgs(s)))
<1>1. /\ GroupByArgs(s) \in Seq(Readable(FALSE))
      /\ Tops(ToSet(GroupByArgs(s)), ToSet(s), {})
  BY GroupedIs
<1> QED
  BY <1>1, QuietTops

LEMMA QuietCollapsed ==
  ASSUME NEW s \in Seq(Readable(FALSE)), NEW f \in Decisive, Quiet(ToSet(s))
  PROVE  /\ CollapseClauses(s, f) \in Seq(Readable(FALSE))
         /\ Quiet(ToSet(CollapseClauses(s, f)))
<1> DEFINE V == Readable(FALSE)
           a == GroupByArgs(s)
           b == DropRedundant(a, f, TRUE)
           c == PruneDominated(b)
<1>1. PICK call : call \in Calls(FALSE)
  BY SomeCall
<1>2. CollapseClauses(s, f) = SortClauses(c)
  BY DecisiveIs DEF CollapseClauses, WithoutRedundant
<1>3. a \in Seq(V) /\ Quiet(ToSet(a))
  BY QuietGrouped
<1> HIDE DEF a
<1>4. b \in Seq(V) /\ Quiet(ToSet(b))
  BY <1>3, QuietDropped
<1> HIDE DEF b
<1>5. c \in Seq(V) /\ Quiet(ToSet(c))
  <2>1. c \in Seq(V) /\ Tops(ToSet(c), ToSet(b), Met(FALSE, call))
    BY <1>1, <1>4, PrunedAre
  <2> HIDE DEF c
  <2> QED
    BY <1>4, <2>1, QuietTops
<1> HIDE DEF c, V
<1>6. SortClauses(c) \in Seq(V) /\ ToSet(SortClauses(c)) = ToSet(c)
  BY <1>5, SortIs
<1> QED
  BY <1>2, <1>5, <1>6 DEF V

LEMMA QuietFolded ==
  ASSUME NEW s \in Seq(Readable(FALSE)), NEW f \in Decisive, Quiet(ToSet(s))
  PROVE  /\ FoldIntoFallback(f, s) \in Seq(Readable(FALSE))
         /\ Quiet(ToSet(FoldIntoFallback(f, s)))
<1> DEFINE a == GroupByArgs(s)
<1>1. a \in Seq(Readable(FALSE)) /\ Quiet(ToSet(a))
  BY QuietGrouped
<1>2. FoldIntoFallback(f, s) = DropRedundant(a, f, FALSE)
  BY DEF FoldIntoFallback
<1> HIDE DEF a
<1> QED
  BY <1>1, <1>2, QuietDropped

LEMMA QuietKept ==
  ASSUME NEW kept \in Seq(Readable(FALSE)), NEW f \in Decisive, Quiet(ToSet(kept)), Mute(f)
  PROVE  QuietRules(ResolveKept(f, kept))
<1> DEFINE k == kept[1]
           other == [f EXCEPT !.args = {ComplementArg(OnlyArg(k))}]
           two == <<k, other>>
           all == CollapseAll(f, kept)
           R == ResolveKept(f, kept)
<1>1. kept \in Seq(Clause) /\ f \in Clause
  BY ReadableClauses, DecisiveIs
<1>2. Mute(all)
  BY <1>1, MuteCollapseAll
<1>3. Mute(other)
  BY <1>1, MuteUnder
<1> HIDE DEF other, all
<1>4. \/ R = [unconditional |-> f, conditional |-> <<>>]
      \/ Len(kept) = 1 /\ R = [unconditional |-> NoClause, conditional |-> SortClauses(two)]
      \/ R = [unconditional |-> all, conditional |-> <<>>]
  BY Zenon DEF ResolveKept, NoRules, other, all
<1>5. ASSUME Len(kept) = 1 PROVE Quiet(ToSet(SortClauses(two)))
  <2>1. k \in ToSet(kept)
    BY <1>5 DEF ToSet
  <2>2. two \in Seq({k, other}) /\ ToSet(two) = {k, other}
    BY DEF ToSet
  <2> HIDE DEF two, k
  <2>3. ToSet(SortClauses(two)) = {k, other}
    BY <2>2, SortIs
  <2> QED
    BY <1>3, <2>1, <2>3 DEF Quiet
<1> HIDE DEF R, two
<1>6. ToSet(<<>>) = {} /\ Mute(NoClause)
  BY EmptyList, NoClauseMute
<1>7. QuietRules(R)
  BY <1>2, <1>4, <1>5, <1>6 DEF QuietRules, Quiet
<1> QED
  BY <1>7 DEF R

LEMMA QuietMixed ==
  ASSUME NEW rules \in RulesType(FALSE), QuietRules(rules)
  PROVE  QuietRules(ResolveMixed(rules))
<1> DEFINE f == rules.unconditional
           s == rules.conditional
<1>1. s \in Seq(Readable(FALSE)) /\ f \in Decisive \cup {NoClause}
  BY RulesFields
<1>2. CASE f = NoClause \/ s = <<>>
  BY <1>2 DEF ResolveMixed
<1>3. CASE ~(f = NoClause \/ s = <<>>)
  <2>1. ResolveMixed(rules) = ResolveKept(f, FoldIntoFallback(f, s))
    BY <1>3 DEF ResolveMixed
  <2>2. f \in Decisive /\ Mute(f) /\ Quiet(ToSet(s))
    BY <1>1, <1>3 DEF QuietRules
  <2> HIDE DEF f, s
  <2> QED
    BY <1>1, <2>1, <2>2, QuietFolded, QuietKept
<1> QED
  BY <1>2, <1>3

LEMMA QuietElided ==
  ASSUME NEW rules \in RulesType(FALSE), QuietRules(rules), NEW default \in Decisive,
         Mute(default)
  PROVE  QuietRules(ElidedOrBeside(default, rules))
<1> DEFINE f == rules.unconditional
           s == rules.conditional
           t == CollapseClauses(s, default)
           u == CollapseClauses(s, f)
           v == CollapseClauses(u, default)
           R == ElidedOrBeside(default, rules)
<1>1. /\ s \in Seq(Readable(FALSE)) /\ f \in Decisive \cup {NoClause}
      /\ Quiet(ToSet(s)) /\ Mute(f)
  BY RulesFields DEF QuietRules
<1>2. Quiet(ToSet(t))
  BY <1>1, QuietCollapsed
<1> HIDE DEF t
<1>3. CASE f = NoClause \/ SameResult(f, default)
  <2>1. R = [unconditional |-> NoClause, conditional |-> t]
    BY <1>3 DEF ElidedOrBeside, NoRules, t
  <2> HIDE DEF R
  <2>2. QuietRules(R)
    BY <1>2, <2>1, NoClauseMute DEF QuietRules
  <2> QED
    BY <2>2 DEF R
<1>4. CASE ~(f = NoClause \/ SameResult(f, default))
  <2>1. f \in Decisive
    BY <1>1, <1>4
  <2>2. R = BesideOrTraded(default, f, u)
    BY <1>4 DEF ElidedOrBeside
  <2> HIDE DEF f, s
  <2>3. u \in Seq(Readable(FALSE)) /\ Quiet(ToSet(u))
    BY <1>1, <2>1, QuietCollapsed
  <2> HIDE DEF u
  <2>4. Quiet(ToSet(v))
    BY <2>3, QuietCollapsed
  <2> HIDE DEF v
  <2>5. \/ R = [unconditional |-> NoClause, conditional |-> v]
        \/ R = [unconditional |-> f, conditional |-> u]
    BY <2>2, Zenon DEF BesideOrTraded, NoRules, v
  <2> HIDE DEF R
  <2>6. QuietRules(R)
    BY <1>1, <2>3, <2>4, <2>5, NoClauseMute DEF QuietRules
  <2> QED
    BY <2>6 DEF R
<1> QED
  BY <1>3, <1>4

LEMMA QuietOutput ==
  ASSUME NEW rules \in RulesType(FALSE), QuietRules(rules), NEW default \in Decisive,
         Mute(default)
  PROVE  QuietRules(SettleOutput(default, rules))
<1> DEFINE unified == UnifyErrno(rules.conditional)
<1>1. /\ rules.conditional \in Seq(Clause) /\ Quiet(ToSet(rules.conditional))
      /\ rules = [unconditional |-> rules.unconditional, conditional |-> rules.conditional]
  BY RulesFields, ReadableClauses DEF QuietRules
<1>2. unified \in Seq(Clause) /\ Quiet(ToSet(unified))
  BY <1>1, QuietUnified
<1>3. \/ SettleOutput(default, rules) = [rules EXCEPT !.conditional = unified]
      \/ SettleOutput(default, rules)
           = [NoRules EXCEPT !.unconditional = Collapse(default, unified)]
  BY Zenon DEF SettleOutput, SafeOrCollapsed
<1> HIDE DEF unified
<1>4. QuietRules([rules EXCEPT !.conditional = unified])
  BY <1>1, <1>2, QuietWith
<1>5. QuietRules([NoRules EXCEPT !.unconditional = Collapse(default, unified)])
  BY <1>2, QuietCollapsedTo
<1> QED
  BY <1>3, <1>4, <1>5

LEMMA QuietSyscall ==
  ASSUME NEW left \in RulesType(FALSE), NEW right \in RulesType(FALSE),
         NEW ld \in Decisive, NEW rd \in Decisive,
         QuietRules(left), QuietRules(right), Mute(ld), Mute(rd)
  PROVE  QuietRules(MergeSyscall(left, right, ld, rd, PickClause(ld, rd)))
<1> DEFINE default == PickClause(ld, rd)
           R == MergeRules(left, right, ld, rd)
           E == ElidedOrBeside(default, R)
           X == ResolveMixed(E)
<1>1. PICK call : call \in Calls(FALSE)
  BY SomeCall
<1>2. default \in Decisive /\ Mute(default)
  BY PickedDecisive, MutePick
<1>3. \/ MergeSyscall(left, right, ld, rd, default) = NoRules
      \/ MergeSyscall(left, right, ld, rd, default) = SettleOutput(default, X)
  BY Zenon DEF MergeSyscall, FinishRules
<1> HIDE DEF default
<1>4. R \in RulesType(FALSE) /\ QuietRules(R)
  BY <1>1, MergedRules, QuietMerged
<1> HIDE DEF R
<1>5. E \in RulesType(FALSE) /\ QuietRules(E)
  BY <1>1, <1>2, <1>4, ElidedIsSafer, QuietElided
<1> HIDE DEF E
<1>6. X \in RulesType(FALSE) /\ QuietRules(X)
  BY <1>1, <1>2, <1>5, MixedResolved, QuietMixed
<1> HIDE DEF X
<1>7. QuietRules(SettleOutput(default, X))
  BY <1>2, <1>6, QuietOutput
<1>8. QuietRules(NoRules)
  BY EmptyList, NoClauseMute DEF NoRules, QuietRules, Quiet
<1>9. QuietRules(MergeSyscall(left, right, ld, rd, default))
  BY <1>3, <1>7, <1>8
<1> QED
  BY <1>9 DEF default

-----------------------------------------------------------------------------
(* Entries that leave nothing to a listener *)

Notifying(entry) == entry.action = "NOTIFY"

\* No entry leaves the calls of a name to a listener.
QuietAt(entries, name) == \A e \in ToSet(entries) : name \in e.names => ~Notifying(e)

LEMMA QuietLoaded ==
  ASSUME NEW entries \in Seq(Entry), NEW name, QuietAt(entries, name), NEW default
  PROVE  Quiet(ToSet(LoadedClauses(entries, default, name)))
<1>1. ASSUME NEW c \in ToSet(LoadedClauses(entries, default, name)) PROVE Mute(c)
  <2>1. PICK e \in ToSet(entries) : name \in e.names /\ c \in ToSet(EntryClauses(e))
    BY LoadedOf
  <2>2. e \in Entry /\ e.action # "NOTIFY"
    BY <2>1, SeqIs DEF QuietAt, Notifying
  <2>3. Bears(c, Decision(e.action, e.errno))
    BY <2>1, <2>2, EntryLoads
  <2>4. c.action = CanonicalAction(e.action)
    BY <2>3 DEF Bears, Decision
  <2> QED
    BY <2>2, <2>4 DEF CanonicalAction, Mute
<1> QED
  BY <1>1 DEF Quiet

LEMMA QuietEmitted ==
  ASSUME NEW default \in Decisive, NEW rules, \A name \in Name : rules[name] \in RulesType(FALSE),
         NEW e \in ToSet(EmittedAll(default, rules))
  PROVE  \E name \in Name : e.names = {name} /\ (QuietRules(rules[name]) => ~Notifying(e))
<1>1. PICK name \in Name : e \in ToSet(Emitted(name, default, rules[name]))
  BY EmittedAllIs
<1> DEFINE R == rules[name]
           all == ({R.unconditional} \ {NoClause}) \cup ToSet(R.conditional)
<1>2. R \in RulesType(FALSE)
  OBVIOUS
<1>3. PICK c \in all : e = ClauseToSyscall(name, c)
  BY <1>1, <1>2, EmittedIs
<1>4. e.names = {name} /\ e.action = c.action
  BY <1>3 DEF ClauseToSyscall
<1>5. QuietRules(R) => Mute(c)
  BY <1>3 DEF QuietRules, Quiet
<1> QED
  BY <1>4, <1>5 DEF Mute, Notifying

LEMMA QuietWritten ==
  ASSUME NEW default \in Decisive, NEW rules, \A name \in Name : rules[name] \in RulesType(FALSE),
         NEW name, name \in Name => QuietRules(rules[name])
  PROVE  QuietAt(EmittedAll(default, rules), name)
<1>1. ASSUME NEW e \in ToSet(EmittedAll(default, rules)), name \in e.names PROVE ~Notifying(e)
  <2>1. PICK other \in Name : e.names = {other} /\ (QuietRules(rules[other]) => ~Notifying(e))
    BY QuietEmitted
  <2>2. other = name
    BY <1>1, <2>1
  <2> QED
    BY <2>1, <2>2
<1> QED
  BY <1>1 DEF QuietAt

LEMMA QuietMergedEntries ==
  ASSUME NEW le \in Seq(Entry), NEW re \in Seq(Entry), NEW ld \in Decisive, NEW rd \in Decisive,
         Mute(ld), Mute(rd), NEW flag \in BOOLEAN, NEW name, QuietAt(le, name), QuietAt(re, name)
  PROVE  QuietAt(MergeProfileSyscalls(Side(le, ld), Side(re, rd), PickClause(ld, rd), flag), name)
<1> DEFINE default == PickClause(ld, rd)
           L == SettledRules(le, ld, flag)
           R == SettledRules(re, rd, flag)
           rules == MergedOf(le, ld, re, rd, flag)
<1>1. /\ MergeProfileSyscalls(Side(le, ld), Side(re, rd), default, flag)
           = EmittedAll(default, rules)
      /\ \A other \in Name : rules[other] \in RulesType(FALSE)
  BY MergedExact
<1>2. default \in Decisive
  BY PickedDecisive
<1>3. ASSUME name \in Name PROVE QuietRules(rules[name])
  <2>1. PICK call : call \in Calls(FALSE)
    BY SomeCall
  <2>2. L[name] \in RulesType(FALSE) /\ R[name] \in RulesType(FALSE)
    BY <1>3, <2>1, SettledIs
  <2>3. QuietRules(L[name]) /\ QuietRules(R[name])
    BY <1>3, QuietLoaded, QuietSettled
  <2>4. rules[name] = MergeSyscall(L[name], R[name], ld, rd, default)
    BY <1>3 DEF MergeSettled, MergedOf
  <2> HIDE DEF L, R, rules
  <2> QED
    BY <2>2, <2>3, <2>4, QuietSyscall
<1> HIDE DEF rules, default
<1>4. QuietAt(EmittedAll(default, rules), name)
  BY <1>1, <1>2, <1>3, QuietWritten
<1> QED
  BY <1>1, <1>4 DEF default

LEMMA QuietNormalEntries ==
  ASSUME NEW entries \in Seq(Entry), NEW default \in Decisive, Mute(default), NEW name,
         QuietAt(entries, name)
  PROVE  QuietAt(SettledSyscalls(entries, default), name)
<1> DEFINE L == SettledRules(entries, default, FALSE)
           rules == SortedRules(L)
<1>1. \A other \in Name : rules[other] \in RulesType(FALSE)
  BY NormalRules
<1>2. ASSUME name \in Name PROVE QuietRules(rules[name])
  <2>1. QuietRules(L[name])
    BY <1>2, QuietLoaded, QuietSettled
  <2>2. ToSet(rules[name].conditional) = ToSet(L[name].conditional)
    BY <1>2, NormalRules
  <2>3. PICK call : call \in Calls(FALSE)
    BY SomeCall
  <2>4. L[name] \in RulesType(FALSE)
    BY <1>2, <2>3, SettledIs
  <2>5. rules[name] = [L[name] EXCEPT !.conditional = SortClauses(L[name].conditional)]
    BY <1>2 DEF SortedRules
  <2> HIDE DEF L, rules
  <2>6. L[name] = [unconditional |-> L[name].unconditional, conditional |-> L[name].conditional]
    BY <2>4, RulesFields
  <2>7. rules[name].unconditional = L[name].unconditional
    BY <2>5, <2>6
  <2> QED
    BY <2>1, <2>2, <2>7 DEF QuietRules
<1>3. SettledSyscalls(entries, default) = EmittedAll(default, rules)
  BY DEF SettledSyscalls
<1> HIDE DEF rules
<1> QED
  BY <1>1, <1>2, <1>3, QuietWritten
=============================================================================
