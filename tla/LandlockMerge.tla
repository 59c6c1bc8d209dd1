---------------------------- MODULE LandlockMerge ----------------------------
(***************************************************************************)
(* One call of landlock.Intersect or landlock.Union: foldProfiles takes    *)
(* the arguments in order, validates and normalizes each of them, folds    *)
(* the normalized profiles from the left, and settles the result against   *)
(* every input at the end.                                                 *)
(***************************************************************************)
EXTENDS LandlockKernel

CONSTANTS
  Strategy,   \* "intersect" or "union"
  Arities,    \* how many profiles a call passes
  Profiles    \* the ones it may pass, of each arity

ASSUME CallsAssumption ==
  /\ Strategy \in {"intersect", "union"}
  /\ Arities \subseteq Nat
  /\ \A n \in Arities : \A profile \in Profiles[n] \ {NilProfile} :
       /\ profile.pathRules \in Seq([path : RawPath, access : SUBSET STRING])
       /\ profile.netRules \in Seq([port : Port, access : SUBSET STRING])

\* A profile names a few paths: there is always a directory that only rules
\* on "/" apply to.
ASSUME FreshPathAssumption ==
  \E fresh \in Path \ {Root} :
    /\ fresh.rooted
    /\ \A n \in Arities : \A profile \in Profiles[n] \ {NilProfile} :
         \A i \in DOMAIN profile.pathRules :
           LET path == CleanPath(profile.pathRules[i].path)
           IN Covers(path, fresh) => path = Root

VARIABLES
  arity,       \* how many profiles the call passes
  args,        \* the ones read so far, as passed
  pc,          \* validate, fold, done or failed
  normalized,  \* the inputs accepted so far, in canonical form
  folded,      \* how many of them the result stands for
  result,      \* the profile being built
  failedAt     \* the input an error names, 0 where it names none

vars == <<arity, args, pc, normalized, folded, result, failedAt>>

NoResult == [handledFS |-> {}, handledNet |-> {}, scoped |-> {},
             pathRules |-> [path \in Path |-> {}],
             netRules |-> [port \in Port |-> {}]]

Init ==
  /\ arity \in Arities
  /\ args = <<>>
  /\ pc = "validate"
  /\ normalized = <<>>
  /\ folded = 0
  /\ result = NoResult
  /\ failedAt = 0

-----------------------------------------------------------------------------
\* The arguments do not change during the call, so each is chosen when it is
\* read.
AcceptInput(profile) ==
  /\ pc = "validate"
  /\ Len(args) < arity
  /\ ValidProfile(profile)
  /\ args' = Append(args, profile)
  /\ normalized' = Append(normalized, PruneUnhandledRights(NormalizeProfile(profile)))
  /\ UNCHANGED <<arity, pc, folded, result, failedAt>>

\* An InputError names the first input that fails.
RejectInput(profile) ==
  /\ pc = "validate"
  /\ Len(args) < arity
  /\ ~ValidProfile(profile)
  /\ args' = Append(args, profile)
  /\ pc' = "failed"
  /\ failedAt' = Len(args')
  /\ UNCHANGED <<arity, normalized, folded, result>>

\* Fold refuses an empty call with ErrNoProfiles.
RejectEmptyCall ==
  /\ pc = "validate"
  /\ arity = 0
  /\ pc' = "failed"
  /\ UNCHANGED <<arity, args, normalized, folded, result, failedAt>>

\* A single profile is taken as it is, being owned by the call already.
FoldFirst ==
  /\ pc = "validate"
  /\ arity > 0
  /\ Len(args) = arity
  /\ pc' = "fold"
  /\ result' = normalized[1]
  /\ folded' = 1
  /\ UNCHANGED <<arity, args, normalized, failedAt>>

\* Fault: every pairwise merge settles its own result, so a later input no
\* longer counts for the refer or the rights settled before it.
MergeTwoSettled(left, right) ==
  IF Strategy = "intersect"
  THEN FinishIntersect(IntersectTwo(left, right), <<left, right>>)
  ELSE FinishUnion(UnionTwo(left, right), <<left, right>>)

MergeTwo(left, right) ==
  IF Strategy = "intersect" THEN IntersectTwo(left, right) ELSE UnionTwo(left, right)

FoldNext ==
  /\ pc = "fold"
  /\ folded < Len(normalized)
  /\ result' = MergeTwo(result, normalized[folded + 1])
  /\ folded' = folded + 1
  /\ UNCHANGED <<arity, args, pc, normalized, failedAt>>

Settled(profile, inputs) ==
  IF Strategy = "intersect" THEN FinishIntersect(profile, inputs)
                            ELSE FinishUnion(profile, inputs)

Finish ==
  /\ pc = "fold"
  /\ folded = Len(normalized)
  /\ result' = Settled(result, normalized)
  /\ pc' = "done"
  /\ UNCHANGED <<arity, args, normalized, folded, failedAt>>

Returned ==
  /\ pc \in {"done", "failed"}
  /\ UNCHANGED vars

Next ==
  \/ \E profile \in Profiles[arity] : AcceptInput(profile) \/ RejectInput(profile)
  \/ RejectEmptyCall
  \/ FoldFirst \/ FoldNext \/ Finish
  \/ Returned

Spec == Init /\ [][Next]_vars

-----------------------------------------------------------------------------
(* Properties *)

Inputs == DOMAIN normalized
FoldedInputs == 1..folded

\* Whether the merge of some layers is to permit what each of them answers.
Combined(layers, permits(_)) ==
  IF Strategy = "intersect" THEN \A i \in layers : permits(i)
                            ELSE \E i \in layers : permits(i)

\* The types of the variables.
TypeOK ==
  /\ arity \in Arities
  /\ Len(args) <= arity
  /\ pc \in {"validate", "fold", "done", "failed"}
  /\ normalized \in Seq(NormalProfile)
  /\ Len(normalized) <= Len(args)
  /\ folded \in 0..Len(normalized)
  /\ result \in NormalProfile
  /\ failedAt \in 0..Len(args)

\* Before it is settled, the folded profile permits a filesystem access, a
\* port or a scope exactly where all (intersect) or any (union) of the inputs
\* folded so far do: no pairwise step loses a grant another input made on an
\* ancestor, forgets that refer is denied by default, or keeps a grant of a
\* right no longer handled.
FoldIsExact ==
  pc = "fold" =>
    /\ \A path \in Path, right \in FSRight :
         PermitsFS(result, path, right) <=>
           Combined(FoldedInputs, LAMBDA i : PermitsFS(normalized[i], path, right))
    /\ \A port \in Port, right \in NetRight :
         PermitsNet(result, port, right) <=>
           Combined(FoldedInputs, LAMBDA i : PermitsNet(normalized[i], port, right))
    /\ \A right \in ScopeRight :
         PermitsScope(result, right) <=>
           Combined(FoldedInputs, LAMBDA i : PermitsScope(normalized[i], right))

\* A settled intersection permits no access an input denies, and denies none
\* that every input permits, refer apart, which it may drop: minimizing rules
\* under their ancestors and stripping refer lose nothing else.
IntersectNeverPermitsMore ==
  pc = "done" /\ Strategy = "intersect" =>
    \A path \in Path, right \in FSRight :
      LET all == \A i \in Inputs : PermitsFS(normalized[i], path, right)
      IN /\ PermitsFS(result, path, right) => all
         /\ all => PermitsFS(result, path, right) \/ right = Refer

\* The filesystem rights every input handles and the union does not.
StoppedHandling ==
  {right \in FSRight : /\ \A i \in Inputs : right \in DeniedByDefault(normalized[i])
                       /\ right \notin DeniedByDefault(result)}

\* A settled union permits whatever an input permits, and beyond that only
\* rights it stopped handling altogether, refer never among them.
UnionNeverPermitsLess ==
  pc = "done" /\ Strategy = "union" =>
    /\ Refer \notin StoppedHandling
    /\ \A path \in Path, right \in FSRight :
         PermitsFS(result, path, right) <=>
           \/ right \in StoppedHandling
           \/ \E i \in Inputs : PermitsFS(normalized[i], path, right)

AllowsItsMoves(input) ==
  \A m \in {m \in Moves : ReferGranted(input, m) /\ (m.rootMount \/ m.src.rooted = m.dst.rooted)} :
    AllowsMove(input, m) =>
      /\ ReferGranted(result, m)
      /\ \/ Gained(result, m) = {}
         \/ /\ Gained(result, m) = {Refer}
            /\ m.directory /\ ~m.rootMount
            /\ Refer \in result.pathRules[Root]

\* Some input grants refer on two directories, another one grants the right on
\* the second, the first input does not, and nothing grants it on the first
\* directory.
GivenUpForAMove(right) ==
  \E i \in Inputs, m \in Moves :
    /\ ReferGranted(normalized[i], m)
    /\ right \notin CountedAt(normalized[i], m.dst, m)
    /\ \E j \in Inputs : right \in CountedAt(normalized[j], m.dst, m)
    /\ \A j \in Inputs : right \notin CountedAt(normalized[j], m.src, m)

\* A settled union allows every move or link an input allows, in the root mount
\* and in others, and gives a right up for nothing but such a move.  One kind
\* stays denied: below another mount, a directory moved where a rule repeats
\* the refer the union's rule on "/" grants.  Below another mount, a directory
\* named by a relative path and one named by an absolute path are not compared:
\* "/" is above the one and not above the other.
UnionAllowsEveryMove ==
  pc = "done" /\ Strategy = "union" =>
    /\ \A i \in Inputs : AllowsItsMoves(normalized[i])
    /\ \A right \in StoppedHandling : GivenUpForAMove(right)

\* A result is loadable: when the inputs use absolute paths, the result
\* restricts something and is not too large, it passes ValidateArtifact,
\* whatever the settlement stripped or stopped handling.  And an intersection
\* puts refer on no path that no input's own rule grants it on, which might
\* be a plain file, where the kernel would refuse the rule.
ResultIsLoadable ==
  pc = "done" =>
    /\ \/ \E i \in Inputs : \E path \in RuleKeys(normalized[i].pathRules) : ~path.rooted
       \/ result.handledFS \cup result.handledNet \cup result.scoped = {}
       \/ ~FewEnoughRules(result)
       \/ Loadable(result)
    /\ Strategy = "intersect" =>
         \A path \in RuleKeys(result.pathRules) :
           Refer \in result.pathRules[path] =>
             \E i \in Inputs : Refer \in normalized[i].pathRules[path]

\* The rules of an intersection that LoweredRulePaths does not report are
\* safe on a file system with symlinks: wherever the path of such a rule
\* leads, the right it grants there is one that no input handles without
\* granting it by a rule on that very path.
UnreportedRulesSurviveSymlinks ==
  pc = "done" /\ Strategy = "intersect" =>
    LET asWritten == [i \in Inputs |-> NormalizeProfile(args[i])]
    IN \A path \in RuleKeys(result.pathRules)
                     \ LoweredRulePaths(result, asWritten) :
         \A right \in result.pathRules[path], i \in Inputs :
           right \in DeniedByDefault(normalized[i]) =>
             right \in normalized[i].pathRules[path]

\* The result does not depend on the order of the arguments, nor on how the
\* pairwise merges are grouped.
GroupingDoesNotMatter ==
  pc = "done" =>
    \A order \in Bijection(Inputs, Inputs) :
      LET inputs == [i \in Inputs |-> normalized[order[i]]]
          pairs  == FoldLeft(MergeTwo, inputs[1], Tail(inputs))
          nested == FoldRight(MergeTwo, Front(inputs), Last(inputs))
      IN result = Settled(pairs, inputs) /\ result = Settled(nested, inputs)

-----------------------------------------------------------------------------
(* The merge as layers that answer questions *)

AnswerOf(profile) ==
  [fs |-> {q \in Path \X FSRight : PermitsFS(profile, q[1], q[2])},
   net |-> {q \in Port \X NetRight : PermitsNet(profile, q[1], q[2])},
   scope |-> {right \in ScopeRight : PermitsScope(profile, right)}]

PhaseOf == [validate |-> "reading", fold |-> "combining",
            done |-> "settled", failed |-> "refused"]

Layers == INSTANCE LandlockLayers WITH
  phase  <- PhaseOf[pc],
  layers <- [i \in Inputs |-> AnswerOf(normalized[i])],
  merged <- folded,
  answer <- AnswerOf(result)

\* The merge behaves as the combination of layers: after every step of the
\* fold the profile being built permits what the layers folded so far permit
\* together, and settling it drops refer or frees whole rights, nothing else.
MergesLayers == Layers!Spec
=============================================================================
