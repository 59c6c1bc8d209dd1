----------------------------- MODULE LandlockABI -----------------------------
(***************************************************************************)
(* The ABI versions of kernels (landlock/validate.go): which version a     *)
(* profile needs, whether a version takes it, and what is left of it for a *)
(* kernel that knows fewer rights.                                         *)
(***************************************************************************)
EXTENDS LandlockMerge, LandlockDiff

CONSTANTS
  RightABI,           \* the version that introduced each right
  LatestABIVersion

ABIVersion == 1..LatestABIVersion

ASSUME ABIAssumption ==
  /\ LatestABIVersion \in Nat \ {0}
  /\ RightABI \in [FSRight \cup NetRight \cup ScopeRight -> ABIVersion]

-----------------------------------------------------------------------------

RulesAccess(rules) == UNION {rules[i].access : i \in DOMAIN rules}

UsedRights(profile) ==
  profile.handledFS \cup profile.handledNet \cup profile.scoped
    \cup RulesAccess(profile.pathRules) \cup RulesAccess(profile.netRules)

\* Rights that the package does not know are ignored here.
RequiredABIVersion(profile) ==
  Max({1} \cup {RightABI[right] : right \in UsedRights(profile) \cap DOMAIN RightABI})

\* Rights that the package does not know are left to Validate.
SupportedRights(rights, abi) ==
  {right \in rights : right \in DOMAIN RightABI => RightABI[right] <= abi}

ValidForABI(profile, abi) ==
  ValidProfile(profile) /\ SupportedRights(UsedRights(profile), abi) = UsedRights(profile)

\* A rule that granted nothing stays for the validation to report.
SupportedRules(rules, abi) ==
  LET emptied == {rule \in Range(rules) :
                    rule.access # {} /\ SupportedRights(rule.access, abi) = {}}
      kept == Without(rules, emptied)
  IN [i \in DOMAIN kept |-> [kept[i] EXCEPT !.access = SupportedRights(@, abi)]]

DowngradeToABI(profile, abi) ==
  [handledFS  |-> SupportedRights(profile.handledFS, abi),
   handledNet |-> SupportedRights(profile.handledNet, abi),
   scoped     |-> SupportedRights(profile.scoped, abi),
   pathRules  |-> SupportedRules(profile.pathRules, abi),
   netRules   |-> SupportedRules(profile.netRules, abi)]

-----------------------------------------------------------------------------
(* What is validated of a profile that nobody merged *)

RestrictsSomething(profile) ==
  profile.handledFS \cup profile.handledNet \cup profile.scoped # {}

\* validateLoadable, with the limit on rules.
LoadableAsWritten(profile) ==
  /\ Len(profile.pathRules) + Len(profile.netRules) <= MaxArtifactRules
  /\ RestrictsSomething(profile)
  /\ \A i \in DOMAIN profile.pathRules :
       LET rule == profile.pathRules[i] IN
       StartsAtRoot(rule.path) /\ rule.access \in (SUBSET profile.handledFS) \ {{}}
  /\ \A i \in DOMAIN profile.netRules :
       profile.netRules[i].access \in (SUBSET profile.handledNet) \ {{}}

\* A merged profile as the caller gets it.
Spelling(path) ==
  IF path = Root THEN <<"", "">> ELSE (IF path.rooted THEN <<"">> ELSE <<>>) \o path.names

AsWritten(profile) ==
  [handledFS  |-> profile.handledFS,
   handledNet |-> profile.handledNet,
   scoped     |-> profile.scoped,
   pathRules  |-> SetToSeq({[path |-> Spelling(path), access |-> profile.pathRules[path]] :
                              path \in RuleKeys(profile.pathRules)}),
   netRules   |-> SetToSeq({[port |-> port, access |-> profile.netRules[port]] :
                              port \in RuleKeys(profile.netRules)})]

Normalized(profile) == PruneUnhandledRights(NormalizeProfile(profile))

-----------------------------------------------------------------------------
(* Properties *)

MergedWithItself(profile) ==
  LET input == Normalized(profile)
  IN AsWritten(FinishIntersect(IntersectTwo(input, input), <<input, input>>))

MergedWithItselfShows(written) ==
  LET granted == PathMap(written)
      ports == NetMap(written)
      change == Diff(written, MergedWithItself(written))
      above(path) == UNION {granted[upper] : upper \in StrictlyAbove[path] \cap DOMAIN granted}
  IN /\ AddsNothing(change)
     /\ Equal(change) <=>
          /\ \A path \in DOMAIN granted :
               granted[path] \in (SUBSET (written.handledFS \ above(path))) \ {{}}
          /\ \A port \in DOMAIN ports :
               ports[port] \in (SUBSET written.handledNet) \ {{}}

\* Rewriting a profile for a merge, or for a kernel that knows fewer rights,
\* keeps what it says of the rights that are left: a right is granted at a
\* path when some rule on a spelling of that path or of one above grants it,
\* a grant of a right that is not handled is ignored, and a right that the
\* kernel does not know is not restricted, but for refer, which is denied as
\* long as another filesystem right is handled.  The rewritten profile is
\* one that this kernel takes, and allows the moves that the kernel can allow.
\* A comparison with the rewritten profile adds nothing, and finds the two
\* equal just where there was nothing to rewrite: for an older kernel, where
\* it is as new as the profile needs, and for a merge of the profile with
\* itself, where no rule is empty or repeats a right that is not handled or
\* that a rule above grants (diff.go).
\* Every profile that a call may pass is the first of some call.
RewritingKeepsPolicy ==
  pc = "validate" /\ Len(normalized) = 1 =>
    /\ MergedWithItselfShows(args[1])
    /\ \A abi \in ABIVersion :
      LET written == args[1]
          rewritten == DowngradeToABI(written, abi)
          loaded == Normalized(rewritten)
          known(right) == RightABI[right] <= abi
          grants(path, right) ==
            \E j \in DOMAIN written.pathRules :
              /\ right \in written.pathRules[j].access
              /\ Covers(CleanPath(written.pathRules[j].path), path)
      IN /\ ValidForABI(rewritten, abi)
         /\ AddsNothing(Diff(written, rewritten))
         /\ Equal(Diff(rewritten, written)) <=> RequiredABIVersion(written) <= abi
         /\ LoadableAsWritten(written) /\ RestrictsSomething(rewritten)
              => LoadableAsWritten(rewritten)
         /\ abi >= RightABI[Refer] =>
              \A m \in Moves : AllowsMove(normalized[1], m) => AllowsMove(loaded, m)
         /\ \A path \in Path, right \in FSRight :
              PermitsFS(loaded, path, right) <=>
                \/ \A handled \in written.handledFS : ~known(handled)
                \/ right # Refer /\ ~(known(right) /\ right \in written.handledFS)
                \/ known(right) /\ right \in written.handledFS /\ grants(path, right)
         /\ \A port \in Port, right \in NetRight :
              PermitsNet(loaded, port, right) <=>
                \/ ~known(right) \/ right \notin written.handledNet
                \/ \E j \in DOMAIN written.netRules :
                     written.netRules[j].port = port /\ right \in written.netRules[j].access

\* The version a result needs is one that some input needs, but for a union
\* of profiles that handle filesystem rights and share none of them, which
\* has to list refer to deny it (doc.go, ABI versions).
ResultNeedsNoNewerKernel ==
  pc = "done" =>
    LET needed == RequiredABIVersion(AsWritten(result)) IN
    \/ \E i \in Inputs : needed <= RequiredABIVersion(args[i])
    \/ /\ Strategy = "union" /\ needed = RightABI[Refer]
       /\ \A i \in Inputs : args[i].handledFS # {}
       /\ \A right \in FSRight \ {Refer} : \E i \in Inputs : right \notin args[i].handledFS

\* A settled intersection allows no move or link, inside the root mount, that
\* an input denies, although each input's check reads the rights of two
\* directories at once and the result keeps only those all inputs permit.  And
\* what is left of the result for a kernel that does not know some of the
\* rights, refer not among them, allows no move that what is left of an input
\* denies.
IntersectAllowsNoDeniedMove ==
  pc = "done" /\ Strategy = "intersect" =>
    /\ \A m \in {m \in Moves : m.rootMount /\ ReferGranted(result, m)} :
         AllowsMove(result, m) => \A i \in Inputs : AllowsMove(normalized[i], m)
    /\ \A abi \in {abi \in RightABI[Refer] .. LatestABIVersion :
                    SupportedRights(FSRight, abi) # FSRight} :
         LET left(profile) == Normalized(DowngradeToABI(profile, abi))
             merged == left(AsWritten(result))
         IN \A m \in {m \in Moves : m.rootMount /\ ReferGranted(merged, m)} :
              AllowsMove(merged, m) => \A i \in Inputs : AllowsMove(left(args[i]), m)
=============================================================================
