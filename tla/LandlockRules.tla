---------------------------- MODULE LandlockRules ----------------------------
(***************************************************************************)
(* The rule arithmetic of landlock/merge.go: validation and normalization  *)
(* of one profile, the two pairwise merges, and the settlement of refer    *)
(* and of moves a merge ends with.                                         *)
(*                                                                         *)
(* A profile as a caller writes it holds sequences of rules over raw paths *)
(* and ports.  Normalized, every path and port is mapped to the rights its *)
(* rules grant, {} where there is no rule: the merge keys rules by path    *)
(* and port, folds duplicates, and drops rules left without rights.        *)
(*                                                                         *)
(* A definition under a comment that starts with "Fault:" is the one after *)
(* it with a plausible bug, which a property of LandlockMerge must reject. *)
(***************************************************************************)
EXTENDS RulePaths

CONSTANTS
  FSRight, NetRight, ScopeRight,  \* the known rights
  Refer,                          \* FSAccessRefer
  FileRight,                      \* the rights that apply to plain files
  Port,
  MaxArtifactRules,
  NilProfile                      \* the nil *Profile

ASSUME RightsAssumption ==
  /\ Refer \in FSRight
  /\ FileRight \subseteq FSRight \ {Refer}
  /\ MaxArtifactRules \in Nat

\* No profile is the nil one.
ASSUME NilAssumption ==
  NilProfile \notin
    [handledFS : SUBSET FSRight, handledNet : SUBSET NetRight, scoped : SUBSET ScopeRight,
     pathRules : Seq([path : RawPath, access : SUBSET FSRight]),
     netRules : Seq([port : Port, access : SUBSET NetRight])]

NormalProfile ==
  [handledFS : SUBSET FSRight, handledNet : SUBSET NetRight,
   scoped : SUBSET ScopeRight,
   pathRules : [Path -> SUBSET FSRight], netRules : [Port -> SUBSET NetRight]]

RuleKeys(rules) == {key \in DOMAIN rules : rules[key] # {}}

-----------------------------------------------------------------------------
(* One input: validateProfile, normalizeProfile, pruneUnhandledRights *)

ValidProfile(profile) ==
  /\ profile # NilProfile
  /\ profile.handledFS \subseteq FSRight
  /\ profile.handledNet \subseteq NetRight
  /\ profile.scoped \subseteq ScopeRight
  /\ \A i \in DOMAIN profile.pathRules :
       /\ ValidPath(profile.pathRules[i].path)
       /\ profile.pathRules[i].access \subseteq FSRight
  /\ \A i \in DOMAIN profile.netRules :
       profile.netRules[i].access \subseteq NetRight

\* Fault: of several rules for a path or port, the last one counts.
NormalizeProfileFaulty(profile) ==
  LET onPath(path) == {i \in DOMAIN profile.pathRules :
                         CleanPath(profile.pathRules[i].path) = path}
      onPort(port) == {i \in DOMAIN profile.netRules :
                         profile.netRules[i].port = port}
      last(S) == {i \in S : \A j \in S : j <= i}
  IN [handledFS  |-> profile.handledFS,
      handledNet |-> profile.handledNet,
      scoped     |-> profile.scoped,
      pathRules  |-> [path \in Path |->
                       UNION {profile.pathRules[i].access : i \in last(onPath(path))}],
      netRules   |-> [port \in Port |->
                       UNION {profile.netRules[i].access : i \in last(onPort(port))}]]

NormalizeProfile(profile) ==
  LET onPath(path) == {i \in DOMAIN profile.pathRules :
                         CleanPath(profile.pathRules[i].path) = path}
      onPort(port) == {i \in DOMAIN profile.netRules :
                         profile.netRules[i].port = port}
  IN [handledFS  |-> profile.handledFS,
      handledNet |-> profile.handledNet,
      scoped     |-> profile.scoped,
      pathRules  |-> [path \in Path |->
                       UNION {profile.pathRules[i].access : i \in onPath(path)}],
      netRules   |-> [port \in Port |->
                       UNION {profile.netRules[i].access : i \in onPort(port)}]]

PruneRules(rules, handled) == [key \in DOMAIN rules |-> rules[key] \cap handled]

PruneUnhandledRights(profile) ==
  [handledFS  |-> profile.handledFS,
   handledNet |-> profile.handledNet,
   scoped     |-> profile.scoped,
   pathRules  |-> PruneRules(profile.pathRules, profile.handledFS),
   netRules   |-> PruneRules(profile.netRules, profile.handledNet)]

-----------------------------------------------------------------------------
(* The pairwise merges *)

\* Fault: refer counts as handled only where it is listed.
EffectiveHandledFSFaulty(handled) == handled

\* A ruleset handling any filesystem right denies refer, listed or not.
EffectiveHandledFS(handled) ==
  IF handled = {} THEN {} ELSE handled \cup {Refer}

\* The rights granted at every path, by its own rule and those above it.
EffectiveFSAccess(rules) ==
  [path \in Path |-> UNION {rules[upper] : upper \in Above[path]}]

Permits(right, access, handled) == right \in handled => right \in access

IntersectAccess(left, right, leftHandled, rightHandled) ==
  {r \in left \cup right : /\ Permits(r, left, leftHandled)
                           /\ Permits(r, right, rightHandled)}

\* leftAt and rightAt: the rights each side grants effectively at a key.
IntersectRules(left, right, leftAt, rightAt, leftHandled, rightHandled) ==
  [key \in DOMAIN left |->
    IF key \in RuleKeys(left) \cup RuleKeys(right)
    THEN IntersectAccess(leftAt[key], rightAt[key], leftHandled, rightHandled)
    ELSE {}]

IntersectTwo(left, right) ==
  PruneUnhandledRights(
    [handledFS  |-> left.handledFS \cup right.handledFS,
     handledNet |-> left.handledNet \cup right.handledNet,
     scoped     |-> left.scoped \cup right.scoped,
     pathRules  |-> IntersectRules(left.pathRules, right.pathRules,
                      EffectiveFSAccess(left.pathRules),
                      EffectiveFSAccess(right.pathRules),
                      EffectiveHandledFS(left.handledFS),
                      EffectiveHandledFS(right.handledFS)),
     netRules   |-> IntersectRules(left.netRules, right.netRules,
                      left.netRules, right.netRules,
                      left.handledNet, right.handledNet)])

UnionRules(left, right) == [key \in DOMAIN left |-> left[key] \cup right[key]]

RulesGrant(rules, right) == \E key \in DOMAIN rules : right \in rules[key]

\* Fault: refer is listed only when nothing else is handled.
UnionHandledFSDropped(left, right, pathRules) ==
  LET both == left \cap right
      listsRefer == left # {} /\ right # {} /\ both = {}
  IN IF listsRefer THEN both \cup {Refer} ELSE both

\* Fault: refer is listed wherever both sides handle a right.
UnionHandledFSAlways(left, right, pathRules) ==
  IF left # {} /\ right # {} THEN (left \cap right) \cup {Refer} ELSE {}

\* Both sides deny refer unless a rule grants it.  The union lists it when a
\* rule grants it, or when nothing else is left to make the kernel deny it.
UnionHandledFS(left, right, pathRules) ==
  LET both == left \cap right
      listsRefer == /\ left # {} /\ right # {}
                    /\ both = {} \/ RulesGrant(pathRules, Refer)
  IN IF listsRefer THEN both \cup {Refer} ELSE both

UnionTwo(left, right) ==
  LET pathRules == UnionRules(left.pathRules, right.pathRules)
  IN PruneUnhandledRights(
       [handledFS  |-> UnionHandledFS(left.handledFS, right.handledFS, pathRules),
        handledNet |-> left.handledNet \cap right.handledNet,
        scoped     |-> left.scoped \cap right.scoped,
        pathRules  |-> pathRules,
        netRules   |-> UnionRules(left.netRules, right.netRules)])

-----------------------------------------------------------------------------
(* How an intersection ends: finishIntersect *)

InputRulePaths(inputs) ==
  UNION {RuleKeys(inputs[i].pathRules) : i \in DOMAIN inputs}

ReferRulePaths(inputs) ==
  {path \in InputRulePaths(inputs) :
     \E i \in DOMAIN inputs : Refer \in inputs[i].pathRules[path]}

\* The input rule paths the rules grant refer on.
ReferAt(rules, inputs) ==
  {path \in InputRulePaths(inputs) : Refer \in EffectiveFSAccess(rules)[path]}

\* The paths of referAt where the input grants a right the rules do not,
\* unless it grants that right on all of referAt.
MarkUnsafeRefer(rules, referAt, input) ==
  LET inputAt == EffectiveFSAccess(input.pathRules)
      resultAt == EffectiveFSAccess(rules)
  IN {path \in referAt :
        \E right \in inputAt[path] \ resultAt[path] :
          \E other \in referAt : right \notin inputAt[other]}

\* Fault: refer stays on the rules above an unsafe path.
StripReferBelowOnly(rules, unsafe, inputs) ==
  LET strip == unsafe \cup (Path \ ReferRulePaths(inputs))
  IN [path \in Path |->
       IF path \in strip THEN rules[path] \ {Refer} ELSE rules[path]]

\* Fault: refer stays on rules that only inherited it.
StripReferKeepsLowered(rules, unsafe, inputs) ==
  LET strip == UNION {Above[path] : path \in unsafe}
  IN [path \in Path |->
       IF path \in strip THEN rules[path] \ {Refer} ELSE rules[path]]

StripRefer(rules, unsafe, inputs) ==
  LET strip == (Path \ ReferRulePaths(inputs)) \cup UNION {Above[path] : path \in unsafe}
  IN [path \in Path |->
       IF path \in strip THEN rules[path] \ {Refer} ELSE rules[path]]

DropUnsafeRefer(rules, inputs) ==
  LET referAt == ReferAt(rules, inputs)
      unsafe == UNION {MarkUnsafeRefer(rules, referAt, inputs[i]) :
                         i \in DOMAIN inputs}
  IN IF unsafe = {} THEN rules ELSE StripRefer(rules, unsafe, inputs)

\* Fault: a rule inherits from itself.
MinimizePathRulesFaulty(rules) ==
  [path \in Path |->
    rules[path] \ UNION {rules[upper] : upper \in Above[path]}]

MinimizePathRules(rules) ==
  [path \in Path |->
    rules[path] \ UNION {rules[upper] : upper \in StrictlyAbove[path]}]

FinishIntersect(result, inputs) ==
  [handledFS  |-> result.handledFS,
   handledNet |-> result.handledNet,
   scoped     |-> result.scoped,
   pathRules  |-> MinimizePathRules(DropUnsafeRefer(result.pathRules, inputs)),
   netRules   |-> result.netRules]

-----------------------------------------------------------------------------
(* How a union ends: finishUnion *)

\* The rights compared at a path, with or without those of the rule on "/".
ComparedAccess(rules, path, withRoot) ==
  UNION {rules[upper] : upper \in IF withRoot THEN Above[path]
                                  ELSE Above[path] \ {Root}}

\* What the input grants on the children of a path, which a child keeps when
\* it moves away.
ChildAccess(input, path) ==
  UNION {input.pathRules[child] : child \in ChildrenOf[path]}

\* The rights through which the union could deny a move the input allows.
\* Rights change only at rule paths, so a destination answers as the deepest
\* rule path above it; a source depends on its children too, so the parents
\* of rule paths are asked as well.
MoveConflicts(input, resultRules, paths, withRoot) ==
  LET grantsRefer(path) == Refer \in EffectiveFSAccess(input.pathRules)[path]
      parents == {path \in Path : ChildrenOf[path] \cap paths # {}}
      sources == {path \in paths \cup parents : grantsRefer(path)}
      destinations == {path \in paths : grantsRefer(path)}
      inputAt(path) == ComparedAccess(input.pathRules, path, withRoot)
      resultAt(path) == ComparedAccess(resultRules, path, withRoot)
      mayMove(src, dst) ==
        (inputAt(dst) \ (inputAt(src) \cup ChildAccess(input, src)))
          \cap FileRight = {}
      conflicts(src) ==
        UNION {resultAt(dst) \ (inputAt(dst) \cup resultAt(src)) :
                 dst \in {d \in destinations : mayMove(src, d)}}
  IN UNION {conflicts(src) : src \in sources}

\* The moves are judged with and, where there is one, without the rule on "/".
Conflicting(result, inputs, ways) ==
  UNION {MoveConflicts(inputs[i], result.pathRules, InputRulePaths(inputs), withRoot) :
           i \in DOMAIN inputs, withRoot \in ways}

Unhandle(result, rights) ==
  [handledFS  |-> result.handledFS \ rights,
   handledNet |-> result.handledNet,
   scoped     |-> result.scoped,
   pathRules  |-> result.pathRules,
   netRules   |-> result.netRules]

\* Fault: moves are judged with the rule on "/" only.
UnhandleMoveConflictsRootOnly(result, inputs) ==
  PruneUnhandledRights(
    Unhandle(result, Conflicting(result, inputs, {TRUE}) \ {Refer}))

UnhandleMoveConflicts(result, inputs) ==
  LET ways == IF result.pathRules[Root] = {} THEN {TRUE} ELSE {TRUE, FALSE}
  IN PruneUnhandledRights(
       Unhandle(result, Conflicting(result, inputs, ways) \ {Refer}))

FinishUnion(result, inputs) == UnhandleMoveConflicts(result, inputs)

-----------------------------------------------------------------------------
(* What a caller asks about a result *)

\* validateRuleCount and validateLoadable, the checks ValidateArtifact adds.
FewEnoughRules(profile) ==
  Cardinality(RuleKeys(profile.pathRules)) + Cardinality(RuleKeys(profile.netRules))
    <= MaxArtifactRules

Loadable(profile) ==
  /\ FewEnoughRules(profile)
  /\ profile.handledFS \cup profile.handledNet \cup profile.scoped # {}
  /\ \A path \in RuleKeys(profile.pathRules) :
       path.rooted /\ profile.pathRules[path] \subseteq profile.handledFS
  /\ \A port \in RuleKeys(profile.netRules) :
       profile.netRules[port] \subseteq profile.handledNet

\* Fault: an input with a rule on the path is taken to grant all there.
LoweredAtFaulty(path, access, input) ==
  LET inherited == UNION {input.pathRules[upper] : upper \in StrictlyAbove[path]}
  IN input.pathRules[path] = {} /\ access \cap inherited # {}

\* Whether the input grants one of the rights through a rule above the path
\* and not on the path itself.
LoweredAt(path, access, input) ==
  LET inherited == UNION {input.pathRules[upper] : upper \in StrictlyAbove[path]}
  IN (access \ input.pathRules[path]) \cap inherited # {}

LoweredRulePaths(result, inputs) ==
  {path \in RuleKeys(result.pathRules) :
     \E i \in DOMAIN inputs : LoweredAt(path, result.pathRules[path], inputs[i])}
=============================================================================
