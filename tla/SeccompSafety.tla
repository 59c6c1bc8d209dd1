---------------------------- MODULE SeccompSafety ----------------------------
(***************************************************************************)
(* What seccomp.Intersect and seccomp.Union promise, judged by what the    *)
(* kernel does with the profiles once a runtime has loaded them.           *)
(***************************************************************************)
EXTENDS SeccompMerge, SeccompKernel

-----------------------------------------------------------------------------
(* Comparing the result with an input *)

Loaded(profile) ==
  [name \in Name |-> LoadedClauses(profile.entries, Default(profile), name)]

\* A runtime adds the native architecture to those the profile lists.
Covered(profile) == profile.architectures \cup ({native} \ {NoArch})

\* The architectures on which the result is compared with an input: on any
\* other an intersection kills every call, and so does the input of a union.
Compared(input) == IF Intersecting THEN Covered(result) ELSE Covered(input)

\* Which of the two ways to compare values some architectures use.
Widths(architectures) == {(arch \in NarrowArchitectures) : arch \in architectures}

OnSafeSide(merged, input) ==
  \A m \in merged, i \in input : IF Intersecting THEN m <= i ELSE m >= i

SafeOnDirectPath(input, narrow) ==
  LET merged == Loaded(result) loaded == Loaded(input) IN
  \A name \in Name, call \in Calls(narrow) :
    OnSafeSide(DirectResults(merged, Default(result), name, narrow, call),
               DirectResults(loaded, Default(input), name, narrow, call))

\* Whatever libseccomp makes of some rules, it makes the same of the same ones.
SameFilter(merged, loaded, input, names) ==
  /\ Equivalent(Default(result), Default(input))
  /\ \A name \in names : RuleKeys(merged[name]) = RuleKeys(loaded[name])

SafeOnMultiplexer(input, target, narrow) ==
  LET merged == Loaded(result) loaded == Loaded(input) IN
  /\ OnSafeSide(OtherSubcallResults(merged, Default(result), target),
                OtherSubcallResults(loaded, Default(input), target))
  /\ \A name \in ToSet(Carried[target]) :
       \/ merged[target] = <<>> /\ SameFilter(merged, loaded, input, {target, name})
       \/ \A call \in Calls(narrow) :
            OnSafeSide(
              SubcallResults(merged, Default(result), target, name, narrow, call),
              SubcallResults(loaded, Default(input), target, name, narrow, call))

-----------------------------------------------------------------------------
(* Properties *)

\* At every step of the fold, and past any budget, a call that is made directly
\* gets no more from an intersection than from each of the profiles folded so
\* far, and no less from a union, on every architecture they share.
DirectCallsOnTheSafeSide ==
  \A i \in 1..folded :
    /\ Compared(passed[i]) \subseteq Covered(result) \cap Covered(passed[i])
    /\ \A narrow \in Widths(Compared(passed[i])) : SafeOnDirectPath(passed[i], narrow)

\* The same of a call that is made through a multiplexer, whose rules
\* libseccomp derives from those of other syscalls.
MultiplexedCallsOnTheSafeSide ==
  \A i \in 1..folded :
    \A narrow \in Widths(Compared(passed[i]) \cap MultiplexingArchitectures),
       target \in ToSet(Multiplexers) :
      SafeOnMultiplexer(passed[i], target, narrow)

\* Whatever rules the inputs hold, the result loads and means what it says: no
\* syscall has an unconditional rule beside others, which would hide them, and
\* no rules whose outcome libseccomp leaves to an order of its own.
ResultIsCompiledAsWritten ==
  folded > 0 => \A name \in Name :
    LET clauses == Loaded(result)[name] IN
    IF FirstUnconditional(clauses) # NoClause THEN Len(clauses) = 1
    ELSE Compiled(ToSet(clauses))

\* No rule of the result is refused on a multiplexer, and none there is left
\* to the order of the compiler, on the architectures it covers.
MultiplexersTakeTheResult ==
  folded > 0 /\ Covered(result) \cap MultiplexingArchitectures # {} =>
    \A target \in ToSet(Multiplexers) :
      LET loaded == Loaded(result) IN
      /\ \A i \in DOMAIN loaded[target] : Unconditional(loaded[target][i])
      /\ \A name \in ToSet(Carried[target]) : ~Refusable(loaded[name])

\* A result passes Validate, so it can be merged again, and Intersect and
\* Union refuse nothing that Validate accepts: no action that needs a listener
\* comes without one.
ResultIsValid ==
  /\ error # "notify without a listener"
  /\ pc = "done" => ValidProfile(result)

-----------------------------------------------------------------------------
(* The fields beside the rules *)

\* A flag that loosens is set by an intersection when every input sets it, by a
\* union when any does, and the other way around for one that hardens, whether
\* an input names it or leaves it to the runtime.
FlagsFollowTheirPolarity ==
  folded > 0 =>
    \A flag \in {"SPEC_ALLOW", "LOG"} :
      LET sets(i) == flag \in LoadedFlags(passed[i].flags)
          every == \A i \in 1..folded : sets(i)
          any == \E i \in 1..folded : sets(i)
      IN flag \in LoadedFlags(result.flags)
           <=> IF Intersecting = (Polarity[flag] = "permissive") THEN every ELSE any

\* The listener, its metadata and its flag come from the first input with a
\* listener, and the flag the kernel refuses beside one does not.
ListenerComesWhole ==
  pc = "done" =>
    LET with == {i \in 1..arity : passed[i].path # NoPath}
        source == passed[IF with = {} THEN 1 ELSE Min(with)]
    IN /\ result.path = source.path /\ result.metadata = source.metadata
       /\ with # {} => /\ "WAIT_KILLABLE_RECV" \in result.flags
                            <=> "WAIT_KILLABLE_RECV" \in source.flags
                       /\ "TSYNC" \notin result.flags
=============================================================================
