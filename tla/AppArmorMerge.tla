---------------------------- MODULE AppArmorMerge ----------------------------
(***************************************************************************)
(* One call of apparmor.Intersect or apparmor.Union: every argument is     *)
(* checked as the caller wrote it, then canonicalized and validated one by *)
(* one, all of them are given common spellings and prepared, and the       *)
(* profiles are folded from the left.                                      *)
(***************************************************************************)
EXTENDS AppArmorRules, SequencesExt, FiniteSets

CONSTANTS
  Arities,    \* how many profiles a call passes
  Profiles    \* the ones it may pass, of each arity

ASSUME CallsAssumption ==
  /\ Arities \subseteq Nat
  /\ \A n \in Arities : Profiles[n] \subseteq Profile \cup {Nil}

VARIABLES
  strategy,    \* "intersect" or "union"
  arity,       \* how many profiles the call passes
  args,        \* the ones read so far, as passed
  pc,          \* read, validate, fold, done or failed
  normalized,  \* canonical copies of the inputs accepted so far
  folded,      \* how many of them the result stands for
  result,      \* the profile being built
  failedAt     \* the input an error names, 0 where it names none

vars == <<strategy, arity, args, pc, normalized, folded, result, failedAt>>

Init ==
  /\ strategy \in {"intersect", "union"}
  /\ arity \in Arities
  /\ args = <<>>
  /\ pc = "read"
  /\ normalized = <<>>
  /\ folded = 0
  /\ result = Nil
  /\ failedAt = 0

-----------------------------------------------------------------------------
\* The arguments do not change during the call, so each is chosen when it is
\* read.
ReadProfile(profile) ==
  /\ pc = "read"
  /\ Len(args) < arity
  /\ args' = Append(args, profile)
  /\ IF RawPathsValid(profile) THEN UNCHANGED <<pc, failedAt>>
     ELSE pc' = "failed" /\ failedAt' = Len(args')
  /\ UNCHANGED <<strategy, arity, normalized, folded, result>>

AllRead ==
  /\ pc = "read"
  /\ Len(args) = arity
  /\ pc' = "validate"
  /\ UNCHANGED <<strategy, arity, args, normalized, folded, result, failedAt>>

ValidateNext ==
  /\ pc = "validate"
  /\ Len(normalized) < arity
  /\ LET profile == Canonical(args[Len(normalized) + 1]) IN
     IF ValidProfile(profile)
     THEN normalized' = Append(normalized, profile) /\ UNCHANGED <<pc, failedAt>>
     ELSE /\ pc' = "failed" /\ failedAt' = Len(normalized) + 1
          /\ UNCHANGED normalized
  /\ UNCHANGED <<strategy, arity, args, folded, result>>

\* The strategy's own preparation.
Prepared(profile) ==
  IF strategy = "intersect" THEN PrepareIntersect(profile) ELSE profile

\* Common spellings first, since preparing may drop paths.
Prepare ==
  /\ pc = "validate"
  /\ Len(normalized) = arity
  /\ pc' = "fold"
  /\ LET unified == UnifyAliasSpellings(normalized)
     IN normalized' = [i \in DOMAIN normalized |-> Prepared(unified[i])]
  /\ UNCHANGED <<strategy, arity, args, folded, result, failedAt>>

\* Fold refuses an empty call with ErrNoProfiles.
RejectEmptyCall ==
  /\ pc = "fold"
  /\ arity = 0
  /\ pc' = "failed"
  /\ UNCHANGED <<strategy, arity, args, normalized, folded, result, failedAt>>

MergeTwo(left, right) == MergeProfiles(left, right, strategy = "intersect")

FoldNext ==
  /\ pc = "fold"
  /\ folded < arity
  /\ result' = IF folded = 0 THEN normalized[1]
               ELSE MergeTwo(result, normalized[folded + 1])
  /\ folded' = folded + 1
  /\ UNCHANGED <<strategy, arity, args, pc, normalized, failedAt>>

\* Sorting the lists of the result changes no set of them.
Finish ==
  /\ pc = "fold"
  /\ arity > 0
  /\ folded = arity
  /\ pc' = "done"
  /\ UNCHANGED <<strategy, arity, args, normalized, folded, result, failedAt>>

Returned ==
  /\ pc \in {"done", "failed"}
  /\ UNCHANGED vars

Next ==
  \/ \E profile \in Profiles[arity] : ReadProfile(profile)
  \/ AllRead \/ ValidateNext \/ Prepare
  \/ RejectEmptyCall \/ FoldNext \/ Finish
  \/ Returned

Spec == Init /\ [][Next]_vars

-----------------------------------------------------------------------------
(* What a profile permits: the names AppArmor lets through, and by how much *)

Permits(paths, name) == \E p \in paths : Matches(p, name)

\* Everything a profile can be asked for.
Question ==
  [about : {"exe", "lib", "read", "write"}, name : Name]
    \cup [about : {"capability"}, name : {Upper[cap] : cap \in Capability}]
    \cup [about : {"network"}, name : {"raw", "tcp", "udp"}]

Allowed(b) == b # Nil /\ b

\* An omitted section or boolean denies what it covers.
Answers(profile, q) ==
  CASE q.about = "exe" -> profile.exec # Nil /\ Permits(profile.exec.exe, q.name)
    [] q.about = "lib" -> profile.exec # Nil /\ Permits(profile.exec.lib, q.name)
    [] q.about = "read" ->
         profile.fs # Nil /\ Permits(profile.fs.ro \cup profile.fs.rw, q.name)
    [] q.about = "write" ->
         profile.fs # Nil /\ Permits(profile.fs.wo \cup profile.fs.rw, q.name)
    [] q.about = "capability" ->
         profile.caps # Nil /\ \E cap \in profile.caps : Upper[cap] = q.name
    [] q.about = "network" ->
         /\ profile.net # Nil
         /\ IF q.name = "raw" THEN Allowed(profile.net.raw)
            ELSE profile.net.protocols # Nil /\ Allowed(profile.net.protocols[q.name])

-----------------------------------------------------------------------------
(* Properties *)

\* An intersection of two profiles, within its budget, keeps every permission
\* one of them grants a literal and the other grants that name, by whatever
\* spelling or pattern.
SharedLiteralsSurvive ==
  pc = "done" /\ strategy = "intersect" /\ arity = 2 =>
    LET fs(i) == ExpandFsPerms(normalized[i].fs) IN
    ~ExceedsPairBudget(fs(1), fs(2)) =>
      \A i \in 1..2 : \A p \in Literals(fs(i)) : \A perm \in fs(i)[p] :
        LET q == [about |-> perm, name |-> Matcher[p].literal] IN
        Answers(args[3 - i], q) => Answers(result, q)

OnSafeSide(merged, inputs) ==
  \A q \in Question :
    IF strategy = "intersect"
    THEN Answers(merged, q) => \A i \in inputs : Answers(args[i], q)
    ELSE Answers(merged, q) <=> \E i \in inputs : Answers(args[i], q)

\* At every step of the fold, within a pairwise budget or past it, and grouped
\* from the right as well, an intersection permits only what all the inputs
\* merged so far permit as their authors wrote them, and a union exactly what
\* one of them does: no pattern is narrowed to one that covers more, no
\* omitted section opens, no literal is lost or granted too much.
EveryGroupingIsSafe ==
  /\ folded > 0 => OnSafeSide(result, 1..folded)
  /\ pc = "done" /\ arity > 2 =>
       OnSafeSide(FoldRight(MergeTwo, Front(normalized), Last(normalized)), 1..arity)
=============================================================================
