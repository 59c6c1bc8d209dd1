--------------------------- MODULE LandlockKernel ---------------------------
(***************************************************************************)
(* What the Linux kernel does with a loaded ruleset, as landlock/doc.go    *)
(* and the comments of landlock/merge.go describe it: which accesses a     *)
(* ruleset permits and which moves or links of a file into another         *)
(* directory it allows.  External to the repository: the merge never runs  *)
(* this, but what a merge promises is said in its terms.                   *)
(***************************************************************************)
EXTENDS LandlockRules

Granted(profile, path) == UNION {profile.pathRules[upper] : upper \in Above[path]}

\* Unhandled rights are permitted; refer is denied by default as soon as a
\* ruleset handles any filesystem right.
DeniedByDefault(profile) ==
  IF profile.handledFS = {} THEN {} ELSE profile.handledFS \cup {Refer}

PermitsFS(profile, path, right) ==
  right \in DeniedByDefault(profile) => right \in Granted(profile, path)

PermitsNet(profile, port, right) ==
  right \in profile.handledNet => right \in profile.netRules[port]

PermitsScope(profile, right) == right \notin profile.scoped

-----------------------------------------------------------------------------
(* Moves.  A move takes a child of src, plain file or directory, to dst.   *)
(* "named" holds the child's path when rules may name it.  A move inside a *)
(* mount other than the root mount is compared without the rule on "/".    *)

MovesFrom(src) ==
  {m \in [src : {src}, dst : Path \ {src}, directory : BOOLEAN, rootMount : BOOLEAN,
          named : {{}} \cup {{child} : child \in ChildrenOf[src]}] :
     /\ m.named \cap Above[m.dst] = {}
     /\ m.rootMount \/ Root \notin {m.src, m.dst}}

Moves == UNION {MovesFrom(src) : src \in Path}

\* The rights the two directories are compared on.
MoveRights(profile, m) ==
  DeniedByDefault(profile) \cap (IF m.directory THEN FSRight ELSE FileRight)

\* What counts at a directory when a move compares it with another one.
CountedAt(profile, path, m) ==
  UNION {profile.pathRules[upper] : upper \in IF m.rootMount THEN Above[path]
                                              ELSE Above[path] \ {Root}}

OwnRules(profile, m) == UNION {profile.pathRules[child] : child \in m.named}

\* The rights a moved file would gain.
Gained(profile, m) ==
  (MoveRights(profile, m) \cap CountedAt(profile, m.dst, m))
    \ (CountedAt(profile, m.src, m) \cup OwnRules(profile, m))

ReferGranted(profile, m) ==
  PermitsFS(profile, m.src, Refer) /\ PermitsFS(profile, m.dst, Refer)

AllowsMove(profile, m) == ReferGranted(profile, m) /\ Gained(profile, m) = {}
=============================================================================
