---------------------------- MODULE AppArmorRules ----------------------------
(***************************************************************************)
(* AppArmor profiles: their normalization and validation, and the merge of *)
(* two of them.  A list of paths or capabilities is the set of what it     *)
(* holds: the merge drops exact duplicates first and sorts last.           *)
(***************************************************************************)
EXTENDS AppArmorPaths

CONSTANTS
  Nil,            \* a section or boolean a profile omits, or a nil profile
  Unreadable,     \* empty and oversized paths
  Variables,      \* the paths that reference an AppArmor variable
  Capability,     \* capability names, in any case
  Upper,          \* their upper-cased form
  EmptyCapability

ASSUME RulesAssumption ==
  /\ Unreadable \subseteq Path /\ Variables \subseteq Path
  /\ \A p \in Path : Filtered[p] \in Unreadable => p \in Unreadable
  /\ \A cap \in Capability : /\ Upper[cap] \in Capability /\ Upper[Upper[cap]] = Upper[cap]
                             /\ Upper[cap] = EmptyCapability => cap = EmptyCapability

Bool == {Nil, TRUE, FALSE}
PathLists == [exe : SUBSET Path, lib : SUBSET Path]
FsLists == [ro : SUBSET Path, wo : SUBSET Path, rw : SUBSET Path]
Protocols == [tcp : Bool, udp : Bool]
Network == [raw : Bool, protocols : Protocols \cup {Nil}]
Profile == [exec : PathLists \cup {Nil}, fs : FsLists \cup {Nil},
            net : Network \cup {Nil}, caps : (SUBSET Capability) \cup {Nil}]

\* What is omitted is none of the values it might have.
ASSUME NilAssumption ==
  /\ Nil \notin BOOLEAN \cup PathLists \cup FsLists \cup Protocols \cup Network \cup Profile
  /\ \A caps \in SUBSET Capability : caps # Nil

-----------------------------------------------------------------------------
(* Validation *)

\* mapPathLists: every list of paths the profile holds, with apply applied.
MapPathLists(profile, apply(_)) ==
  [profile EXCEPT
     !.exec = IF @ = Nil THEN Nil ELSE [exe |-> apply(@.exe), lib |-> apply(@.lib)],
     !.fs = IF @ = Nil THEN Nil
            ELSE [ro |-> apply(@.ro), wo |-> apply(@.wo), rw |-> apply(@.rw)]]

PathListsOf(profile) ==
  (IF profile.exec = Nil THEN {} ELSE {profile.exec.exe, profile.exec.lib})
    \cup (IF profile.fs = Nil THEN {} ELSE {profile.fs.ro, profile.fs.wo, profile.fs.rw})

PathsOf(profile) == UNION PathListsOf(profile)

RawPathsValid(profile) == profile # Nil /\ PathsOf(profile) \cap Unreadable = {}

\* normalizeProfile, deduplicateProfile and canonicalizeAliases.
Canonical(profile) ==
  LET filtered == MapPathLists(profile, LAMBDA paths : {Filtered[p] : p \in paths})
      folded   == MapPathLists(filtered, FoldAliasList)
  IN [folded EXCEPT !.caps = IF @ = Nil THEN Nil ELSE {Upper[cap] : cap \in @}]

KeysOf(paths) == {Key[p] : p \in paths}

\* Validate, on a canonical profile: no variables, no rule in two filesystem
\* categories, no empty capability.
ValidProfile(profile) ==
  /\ PathsOf(profile) \cap Variables = {}
  /\ profile.fs # Nil =>
       /\ KeysOf(profile.fs.ro) \cap KeysOf(profile.fs.wo) = {}
       /\ KeysOf(profile.fs.ro \cup profile.fs.wo) \cap KeysOf(profile.fs.rw) = {}
  /\ profile.caps # Nil => EmptyCapability \notin profile.caps

\* Fault: every input keeps its own spellings.
UnifyAliasSpellingsNever(profiles) == profiles

\* Every profile takes the simplest spelling any of them has for a rule.
UnifyAliasSpellings(profiles) ==
  LET all == UNION {PathsOf(profiles[i]) : i \in DOMAIN profiles}
  IN [i \in DOMAIN profiles |->
        MapPathLists(profiles[i], LAMBDA paths : {Simplest(p, all) : p \in paths})]

-----------------------------------------------------------------------------
(* Preparing an intersection *)

OrFalse(b) == IF b = Nil THEN FALSE ELSE b

PopulateEmpty(profile) ==
  [exec |-> IF profile.exec = Nil THEN [exe |-> {}, lib |-> {}] ELSE profile.exec,
   fs |-> IF profile.fs = Nil THEN [ro |-> {}, wo |-> {}, rw |-> {}] ELSE profile.fs,
   net |-> LET net == IF profile.net = Nil THEN [raw |-> Nil, protocols |-> Nil]
                      ELSE profile.net
               protocols == IF net.protocols = Nil THEN [tcp |-> Nil, udp |-> Nil]
                            ELSE net.protocols
           IN [raw |-> OrFalse(net.raw),
               protocols |-> [tcp |-> OrFalse(protocols.tcp),
                              udp |-> OrFalse(protocols.udp)]],
   caps |-> IF profile.caps = Nil THEN {} ELSE profile.caps]

PrepareIntersect(profile) == MapPathLists(PopulateEmpty(profile), DropUnusableGlobs)

-----------------------------------------------------------------------------
(* Merging two profiles *)

ReadPerms(paths) == [p \in Path |-> IF p \in paths THEN {"read"} ELSE {}]

ExpandFsPerms(fs) ==
  [p \in Path |-> (IF p \in fs.ro \cup fs.rw THEN {"read"} ELSE {})
                    \cup (IF p \in fs.wo \cup fs.rw THEN {"write"} ELSE {})]

CollapseFsPerms(perms) ==
  [ro |-> {p \in Path : perms[p] = {"read"}},
   wo |-> {p \in Path : perms[p] = {"write"}},
   rw |-> {p \in Path : perms[p] = {"read", "write"}}]

\* A section only one profile has is taken from it.
MergeOptional(left, right, merged) ==
  CASE left = Nil -> right [] right = Nil -> left [] OTHER -> merged

MergePerms(left, right, intersect) ==
  IF intersect THEN IntersectPerms(left, right, ExceedsPairBudget(left, right))
  ELSE UnionPerms(left, right, ExceedsPairBudget(left, right))

MergePaths(left, right, intersect) ==
  Listed(MergePerms(ReadPerms(left), ReadPerms(right), intersect))

MergeBool(left, right, intersect) ==
  MergeOptional(left, right, IF intersect THEN left /\ right ELSE left \/ right)

MergeProfiles(left, right, intersect) ==
  [exec |-> MergeOptional(left.exec, right.exec,
              [exe |-> MergePaths(left.exec.exe, right.exec.exe, intersect),
               lib |-> MergePaths(left.exec.lib, right.exec.lib, intersect)]),
   fs |-> MergeOptional(left.fs, right.fs,
            CollapseFsPerms(
              MergePerms(ExpandFsPerms(left.fs), ExpandFsPerms(right.fs), intersect))),
   net |-> MergeOptional(left.net, right.net,
             [raw |-> MergeBool(left.net.raw, right.net.raw, intersect),
              protocols |-> MergeOptional(left.net.protocols, right.net.protocols,
                [tcp |-> MergeBool(left.net.protocols.tcp, right.net.protocols.tcp, intersect),
                 udp |-> MergeBool(left.net.protocols.udp, right.net.protocols.udp,
                                   intersect)])]),
   caps |-> MergeOptional(left.caps, right.caps,
              IF intersect THEN left.caps \cap right.caps ELSE left.caps \cup right.caps)]
=============================================================================
