---------------------------- MODULE SeccompMerge ----------------------------
(***************************************************************************)
(* One call of seccomp.Intersect or seccomp.Union, or of their ForArch     *)
(* forms (seccomp/merge.go, foldProfiles): every profile is validated, a   *)
(* single one is normalized and several are folded from the left, and the  *)
(* result gets its flags and its entries in their final form.              *)
(***************************************************************************)
EXTENDS SeccompMultiplex, SeccompFlags

CONSTANTS
  Architectures,               \* of the filters
  NarrowArchitectures,         \* those that compare 32 bits
  MultiplexingArchitectures,   \* those with a multiplexer
  Natives,                     \* the architectures of nodes
  NoArch,                      \* a node whose architecture is not named
  Arities,                     \* how many profiles a call passes
  Profiles,                    \* the ones it may pass, and Nil, of each arity
  Nil,
  NotifyWriteSyscall           \* the syscall a listener needs itself

\* A profile, as specs.LinuxSeccomp holds it.
Profile ==
  [default : Action, errno : Int, entries : Seq(Entry), architectures : SUBSET Architectures,
   flags : FlagList, path : STRING, metadata : STRING]

ASSUME CallsAssumption ==
  /\ NarrowArchitectures \cup MultiplexingArchitectures \subseteq Architectures
  /\ NoArch \notin Architectures
  /\ Natives \subseteq Architectures \cup {NoArch}
  /\ Arities \subseteq Nat
  /\ Nil \notin Profile
  /\ \A n \in Arities : Profiles[n] \subseteq Profile \cup {Nil}
  /\ NotifyWriteSyscall \notin MultiplexName

VARIABLES
  arity,   \* how many profiles the call passes
  native,  \* the architecture of the node
  passed,  \* the profiles validated so far
  pc,      \* validate, fold, listener, regroup, done or failed
  folded,  \* how many of them the result stands for
  result,  \* the profile being built
  error    \* what the call returns in its place

vars == <<strategy, arity, native, passed, pc, folded, result, error>>

Default(profile) == Decision(profile.default, profile.errno)

-----------------------------------------------------------------------------
(* Validation *)

\* Validate.  What it says of unknown actions, operators, indices,
\* architectures and flags is in the types of the profiles.
ValidProfile(profile) ==
  /\ profile # Nil
  /\ profile.default # "NOTIFY"
  /\ \A i \in DOMAIN profile.entries :
       LET entry == profile.entries[i] IN
       /\ entry.names # {}
       /\ entry.action = "NOTIFY" =>
            NotifyWriteSyscall \notin entry.names /\ profile.path # NoPath

-----------------------------------------------------------------------------
(* Two profiles: mergeTwo *)

CoversAny(architectures, set) == native \in set \/ architectures \cap set # {}

LoadsWideValue(profile) ==
  \E i \in DOMAIN profile.entries :
    LET entry == profile.entries[i] IN
    /\ entry.names # {}
    /\ ~Skipped(entry, Default(profile))
    /\ \E j \in DOMAIN entry.args : WideArg(CanonicalArg(entry.args[j]))

\* A profile with these fields, and its own default and listener.
Rebuilt(profile, architectures, entries, flags) ==
  [default |-> profile.default, errno |-> profile.errno, entries |-> entries,
   architectures |-> architectures, flags |-> flags, path |-> profile.path,
   metadata |-> profile.metadata]

\* An intersection would rather give up the architectures than the filters.
NarrowOrSettle(profile, settled) ==
  IF settled.unsafe /\ Intersecting /\ native \notin MultiplexingArchitectures
  THEN Rebuilt(profile, profile.architectures \ MultiplexingArchitectures,
               profile.entries, profile.flags)
  ELSE Rebuilt(profile, profile.architectures, settled.entries, profile.flags)

SettleArchitectures(profile, inputs) ==
  LET read == [i \in DOMAIN inputs |-> MultiplexInput(inputs[i].entries, Default(inputs[i]))]
  IN IF ~CoversAny(profile.architectures, MultiplexingArchitectures) THEN profile
     ELSE NarrowOrSettle(profile, SettleMultiplexed(profile.entries, Default(profile), read))

\* normalizeProfile.
Normalized(profile) ==
  LET default == Default(profile) IN
  SettleArchitectures(
    [default |-> default.action,
     errno |-> OutputErrno(default.action, default.errno),
     entries |-> SettledSyscalls(profile.entries, default),
     architectures |-> profile.architectures, flags |-> profile.flags,
     path |-> profile.path, metadata |-> profile.metadata],
    <<profile>>)

\* Fault: the listener comes from the left unless it has none to give, and
\* the right one's is dropped.
ListenerOfLeft(left, right) == left

\* The first profile with a listener, else the left one.
ListenerOf(left, right) ==
  IF left.path = NoPath /\ right.path # NoPath THEN right ELSE left

MergeTwo(left, right) ==
  LET default == PickClause(Default(left), Default(right))
      listener == ListenerOf(left, right)
      shared == IF Intersecting THEN left.architectures \cap right.architectures
                ELSE left.architectures \cup right.architectures
      misread == /\ CoversAny(shared, NarrowArchitectures)
                 /\ LoadsWideValue(left) \/ LoadsWideValue(right)
      drops == misread /\ Intersecting /\ native \notin NarrowArchitectures
      side(profile) == [entries |-> profile.entries, default |-> Default(profile)]
  IN SettleArchitectures(
       [default |-> default.action,
        errno |-> OutputErrno(default.action, default.errno),
        path |-> listener.path, metadata |-> listener.metadata,
        flags |-> MergeFlags(left.flags, right.flags, Intersecting, listener = left),
        architectures |-> IF drops THEN shared \ NarrowArchitectures ELSE shared,
        entries |-> MergeProfileSyscalls(side(left), side(right), default, misread /\ ~drops)],
       <<left, right>>)

-----------------------------------------------------------------------------
(* The result *)

Notifies(profile) ==
  \E i \in DOMAIN profile.entries : profile.entries[i].action = "NOTIFY"

SameRule(left, right) ==
  left.action = right.action /\ left.errno = right.errno /\ left.args = right.args

\* regroupSyscalls: one entry for the names that share a rule.  The entries of
\* the result are ordered by their first name, then by their filter.
Regrouped(entries) ==
  LET firsts == Keep(entries, {i \in DOMAIN entries :
                  \A j \in 1..(i - 1) : ~SameRule(entries[j], entries[i])})
      names(entry) == UNION {other.names : other \in
                              {e \in ToSet(entries) : SameRule(e, entry)}}
      first(entry) == Min({i \in DOMAIN Names : Names[i] \in entry.names})
      grouped == [i \in DOMAIN firsts |-> [firsts[i] EXCEPT !.names = names(firsts[i])]]
      key == [i \in DOMAIN grouped |-> ArgsKey(ToSet(grouped[i].args))]
      place == [i \in DOMAIN grouped |-> first(grouped[i])]
  IN Arranged(grouped,
       [i \in DOMAIN grouped |-> {j \in DOMAIN grouped \ {i} :
          \/ place[j] < place[i]
          \/ place[j] = place[i] /\ (key[j] < key[i] \/ (key[j] = key[i] /\ j < i))}])

-----------------------------------------------------------------------------
(* The call *)

Init ==
  /\ strategy \in {"intersect", "union"}
  /\ arity \in Arities
  /\ native \in Natives
  /\ passed = <<>>
  /\ pc = "validate"
  /\ folded = 0
  /\ result = Nil
  /\ error = "none"

\* Every profile is validated before any is read, and none changes during the
\* call, so each is chosen when it is validated.
ValidateNext(profile) ==
  /\ pc = "validate"
  /\ Len(passed) < arity
  /\ passed' = Append(passed, profile)
  /\ IF ValidProfile(profile) THEN UNCHANGED <<pc, error>>
     ELSE pc' = "failed" /\ error' = "invalid input"
  /\ UNCHANGED <<strategy, arity, native, folded, result>>

RejectEmptyCall ==
  /\ pc = "validate"
  /\ arity = 0
  /\ pc' = "failed"
  /\ error' = "no profiles"
  /\ UNCHANGED <<strategy, arity, native, passed, folded, result>>

NormalizeOnly ==
  /\ pc = "validate"
  /\ Len(passed) = 1 /\ arity = 1
  /\ result' = Normalized(passed[1])
  /\ folded' = 1
  /\ pc' = "listener"
  /\ UNCHANGED <<strategy, arity, native, passed, error>>

FoldFirstTwo ==
  /\ pc = "validate"
  /\ Len(passed) = arity /\ arity > 1
  /\ result' = MergeTwo(passed[1], passed[2])
  /\ folded' = 2
  /\ pc' = "fold"
  /\ UNCHANGED <<strategy, arity, native, passed, error>>

FoldNext ==
  /\ pc = "fold"
  /\ folded < arity
  /\ result' = MergeTwo(result, passed[folded + 1])
  /\ folded' = folded + 1
  /\ UNCHANGED <<strategy, arity, native, passed, pc, error>>

Folded ==
  /\ pc = "fold"
  /\ folded = arity
  /\ pc' = "listener"
  /\ UNCHANGED <<strategy, arity, native, passed, folded, result, error>>

\* resolveListener.
ResolveListener ==
  /\ pc = "listener"
  /\ IF result.path = NoPath /\ Notifies(result)
     THEN pc' = "failed" /\ error' = "notify without a listener"
     ELSE pc' = "regroup" /\ UNCHANGED error
  /\ UNCHANGED <<strategy, arity, native, passed, folded, result>>

Regroup ==
  /\ pc = "regroup"
  /\ result' = Rebuilt(result, result.architectures, Regrouped(result.entries),
                       FlagsForListener(result.flags, result.path))
  /\ pc' = "done"
  /\ UNCHANGED <<strategy, arity, native, passed, folded, error>>

Returned ==
  /\ pc \in {"done", "failed"}
  /\ UNCHANGED vars

Next ==
  \/ \E profile \in Profiles[arity] : ValidateNext(profile)
  \/ RejectEmptyCall \/ NormalizeOnly \/ FoldFirstTwo \/ FoldNext \/ Folded
  \/ ResolveListener \/ Regroup
  \/ Returned

Spec == Init /\ [][Next]_vars
=============================================================================
