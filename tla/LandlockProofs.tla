---------------------------- MODULE LandlockProofs ----------------------------
(***************************************************************************)
(* Theorems about LandlockMerge for every set of paths, rights and         *)
(* profiles, and for calls of any number of profiles.  First, on which     *)
(* side of its inputs a result lies, and what a caller may rely on in it:  *)
(* it loads, the rules an intersection does not report stay safe on a file *)
(* system with symlinks, neither the order nor the grouping of the inputs  *)
(* changes it, and merging implements LandlockLayers, a combination of     *)
(* layers that answer which accesses they permit.  Then what becomes of it *)
(* on a kernel older than it needs: that no such kernel allows a move      *)
(* through the result of an intersection that it denies under some input,  *)
(* which kernels take the result, and that rewriting a profile for a       *)
(* kernel, merging it with itself and comparing it with what became of it  *)
(* tell no lie.                                                            *)
(***************************************************************************)
EXTENDS LandlockABI, SequenceTheorems, FoldLemmas

-----------------------------------------------------------------------------
(* The hierarchy of paths *)

LEMMA CoversReflexive == ASSUME NEW p \in Path PROVE Covers(p, p)
  BY PathAssumption DEF Covers

\* A rule above a path that lies above another one lies above that one too.
LEMMA CoversTransitive ==
  ASSUME NEW p \in Path, NEW q \in Path, NEW r \in Path,
         Covers(p, q), Covers(q, r)
  PROVE  Covers(p, r)
<1>1. Len(p.names) \in Nat /\ Len(q.names) \in Nat /\ Len(r.names) \in Nat
  BY PathAssumption
<1>2. QED
  BY <1>1 DEF Covers

\* Of two paths above a path, one lies above the other.
LEMMA CoversChain ==
  ASSUME NEW p \in Path, NEW q \in Path, NEW r \in Path,
         Covers(p, r), Covers(q, r)
  PROVE  Covers(p, q) \/ Covers(q, p)
<1>1. Len(p.names) \in Nat /\ Len(q.names) \in Nat /\ Len(r.names) \in Nat
  BY PathAssumption
<1>2. QED
  BY <1>1 DEF Covers

\* A path above another one has fewer names, unless they are the same.
LEMMA CoversShorter ==
  ASSUME NEW p \in Path, NEW q \in Path, Covers(p, q), p # q
  PROVE  Len(p.names) < Len(q.names)
<1>1. /\ p \in [rooted : BOOLEAN, names : Seq(STRING)]
      /\ q \in [rooted : BOOLEAN, names : Seq(STRING)]
  BY PathAssumption
<1>2. /\ p.names \in Seq(STRING) /\ q.names \in Seq(STRING)
      /\ p = [rooted |-> p.rooted, names |-> p.names]
      /\ q = [rooted |-> q.rooted, names |-> q.names]
      /\ Len(p.names) \in Nat /\ Len(q.names) \in Nat
  BY <1>1
<1>3. SUFFICES ASSUME Len(p.names) = Len(q.names) PROVE FALSE
  BY <1>2 DEF Covers
<1>4. p.names = q.names
  BY <1>2, <1>3, SeqEqual DEF Covers
<1>5. QED
  BY <1>2, <1>4 DEF Covers

LEMMA AboveFacts ==
  ASSUME NEW p \in Path
  PROVE  /\ Above[p] = {upper \in Path : Covers(upper, p)}
         /\ p \in Above[p]
  BY CoversReflexive DEF Above

-----------------------------------------------------------------------------
(* Profiles in canonical form *)

\* A normalized profile whose rules grant only rights it handles.
WellFormed(profile) ==
  /\ profile \in NormalProfile
  /\ \A path \in Path : profile.pathRules[path] \subseteq profile.handledFS
  /\ \A port \in Port : profile.netRules[port] \subseteq profile.handledNet

LEMMA PruneWellFormed ==
  ASSUME NEW p \in NormalProfile
  PROVE  /\ WellFormed(PruneUnhandledRights(p))
         /\ PruneUnhandledRights(p).handledFS = p.handledFS
         /\ PruneUnhandledRights(p).handledNet = p.handledNet
         /\ PruneUnhandledRights(p).scoped = p.scoped
         /\ \A path \in Path : PruneUnhandledRights(p).pathRules[path]
                               = p.pathRules[path] \cap p.handledFS
         /\ \A port \in Port : PruneUnhandledRights(p).netRules[port]
                               = p.netRules[port] \cap p.handledNet
<1> DEFINE pp == PruneUnhandledRights(p)
<1>1. /\ p.pathRules \in [Path -> SUBSET FSRight]
      /\ p.netRules \in [Port -> SUBSET NetRight]
      /\ p.handledFS \in SUBSET FSRight /\ p.handledNet \in SUBSET NetRight
      /\ p.scoped \in SUBSET ScopeRight
  BY DEF NormalProfile
<1>2. pp = [handledFS |-> p.handledFS, handledNet |-> p.handledNet, scoped |-> p.scoped,
            pathRules |-> [path \in Path |-> p.pathRules[path] \cap p.handledFS],
            netRules  |-> [port \in Port |-> p.netRules[port] \cap p.handledNet]]
  BY <1>1 DEF PruneUnhandledRights, PruneRules, NormalProfile
<1>3. pp \in NormalProfile
  BY <1>1, <1>2 DEF NormalProfile
<1> QED
  BY <1>1, <1>2, <1>3 DEF WellFormed

\* The rights a normalized profile grants on a path, all of them handled.
LEMMA GrantedFacts ==
  ASSUME NEW p, WellFormed(p), NEW path \in Path
  PROVE  /\ Granted(p, path) \subseteq p.handledFS
         /\ EffectiveFSAccess(p.pathRules)[path] = Granted(p, path)
         /\ \A r : r \in Granted(p, path) <=>
              \E upper \in Path : Covers(upper, path) /\ r \in p.pathRules[upper]
  BY AboveFacts DEF WellFormed, Granted, EffectiveFSAccess

LEMMA GrantedDownwards ==
  ASSUME NEW p, WellFormed(p), NEW upper \in Path, NEW path \in Path,
         Covers(upper, path)
  PROVE  Granted(p, upper) \subseteq Granted(p, path)
  BY GrantedFacts, CoversTransitive

-----------------------------------------------------------------------------
(* The pairwise merges *)

\* The profile IntersectTwo prunes.
RawIntersection(l, r) ==
  [handledFS  |-> l.handledFS \cup r.handledFS,
   handledNet |-> l.handledNet \cup r.handledNet,
   scoped     |-> l.scoped \cup r.scoped,
   pathRules  |-> IntersectRules(l.pathRules, r.pathRules,
                    EffectiveFSAccess(l.pathRules), EffectiveFSAccess(r.pathRules),
                    EffectiveHandledFS(l.handledFS), EffectiveHandledFS(r.handledFS)),
   netRules   |-> IntersectRules(l.netRules, r.netRules, l.netRules, r.netRules,
                    l.handledNet, r.handledNet)]

\* What the rules of an intersection grant at a path and a port.
LEMMA IntersectTwoRules ==
  ASSUME NEW l, NEW r, WellFormed(l), WellFormed(r)
  PROVE  /\ WellFormed(IntersectTwo(l, r))
         /\ IntersectTwo(l, r).handledFS = l.handledFS \cup r.handledFS
         /\ IntersectTwo(l, r).handledNet = l.handledNet \cup r.handledNet
         /\ IntersectTwo(l, r).scoped = l.scoped \cup r.scoped
         /\ \A path \in Path : \A right :
              right \in IntersectTwo(l, r).pathRules[path] <=>
                /\ l.pathRules[path] \cup r.pathRules[path] # {}
                /\ right \in Granted(l, path) \cup Granted(r, path)
                /\ right \in EffectiveHandledFS(l.handledFS) => right \in Granted(l, path)
                /\ right \in EffectiveHandledFS(r.handledFS) => right \in Granted(r, path)
         /\ \A port \in Port : \A right :
              right \in IntersectTwo(l, r).netRules[port] <=>
                /\ right \in l.netRules[port] \cup r.netRules[port]
                /\ right \in l.handledNet => right \in l.netRules[port]
                /\ right \in r.handledNet => right \in r.netRules[port]
<1> DEFINE raw == RawIntersection(l, r)
<1>1. /\ l.pathRules \in [Path -> SUBSET FSRight] /\ r.pathRules \in [Path -> SUBSET FSRight]
      /\ l.netRules \in [Port -> SUBSET NetRight] /\ r.netRules \in [Port -> SUBSET NetRight]
      /\ l.handledFS \in SUBSET FSRight /\ r.handledFS \in SUBSET FSRight
      /\ l.handledNet \in SUBSET NetRight /\ r.handledNet \in SUBSET NetRight
      /\ l.scoped \in SUBSET ScopeRight /\ r.scoped \in SUBSET ScopeRight
  BY DEF WellFormed, NormalProfile
<1>2. \A path \in Path :
        raw.pathRules[path] =
          IF l.pathRules[path] \cup r.pathRules[path] = {} THEN {}
          ELSE IntersectAccess(Granted(l, path), Granted(r, path),
                 EffectiveHandledFS(l.handledFS), EffectiveHandledFS(r.handledFS))
  BY <1>1, GrantedFacts DEF RawIntersection, IntersectRules, RuleKeys
<1>3. \A port \in Port :
        raw.netRules[port] =
          IF l.netRules[port] \cup r.netRules[port] = {} THEN {}
          ELSE IntersectAccess(l.netRules[port], r.netRules[port], l.handledNet, r.handledNet)
  BY <1>1 DEF RawIntersection, IntersectRules, RuleKeys
<1>4. \A path \in Path : raw.pathRules[path] \subseteq l.handledFS \cup r.handledFS
  <2> SUFFICES ASSUME NEW path \in Path
               PROVE  raw.pathRules[path] \subseteq l.handledFS \cup r.handledFS
    OBVIOUS
  <2>1. Granted(l, path) \subseteq l.handledFS /\ Granted(r, path) \subseteq r.handledFS
    BY GrantedFacts
  <2>2. raw.pathRules[path] \subseteq Granted(l, path) \cup Granted(r, path)
    BY <1>2 DEF IntersectAccess
  <2> QED
    BY <2>1, <2>2
<1>5. \A port \in Port : raw.netRules[port] \subseteq l.handledNet \cup r.handledNet
  BY <1>3 DEF IntersectAccess, WellFormed
<1>6. /\ raw.pathRules \in [Path -> SUBSET FSRight]
      /\ raw.netRules \in [Port -> SUBSET NetRight]
  <2>1. /\ raw.pathRules = [path \in Path |-> raw.pathRules[path]]
        /\ raw.netRules = [port \in Port |-> raw.netRules[port]]
    BY <1>1 DEF RawIntersection, IntersectRules
  <2> QED
    BY <2>1, <1>1, <1>4, <1>5
<1>7. raw \in NormalProfile
  BY <1>1, <1>6 DEF RawIntersection, NormalProfile
<1>8. IntersectTwo(l, r) = PruneUnhandledRights(raw)
  BY DEF IntersectTwo, RawIntersection
<1>9. /\ raw.handledFS = l.handledFS \cup r.handledFS
      /\ raw.handledNet = l.handledNet \cup r.handledNet
      /\ raw.scoped = l.scoped \cup r.scoped
  BY DEF RawIntersection
<1> HIDE DEF raw
<1>10. /\ WellFormed(IntersectTwo(l, r))
       /\ IntersectTwo(l, r).handledFS = l.handledFS \cup r.handledFS
       /\ IntersectTwo(l, r).handledNet = l.handledNet \cup r.handledNet
       /\ IntersectTwo(l, r).scoped = l.scoped \cup r.scoped
  BY <1>7, <1>8, <1>9, PruneWellFormed
<1>11. /\ \A path \in Path : IntersectTwo(l, r).pathRules[path] = raw.pathRules[path]
       /\ \A port \in Port : IntersectTwo(l, r).netRules[port] = raw.netRules[port]
  <2>1. /\ \A path \in Path : IntersectTwo(l, r).pathRules[path]
                              = raw.pathRules[path] \cap raw.handledFS
        /\ \A port \in Port : IntersectTwo(l, r).netRules[port]
                              = raw.netRules[port] \cap raw.handledNet
    BY <1>7, <1>8, PruneWellFormed
  <2>2. \A path \in Path : raw.pathRules[path] \cap raw.handledFS = raw.pathRules[path]
    BY <1>4, <1>9
  <2>3. \A port \in Port : raw.netRules[port] \cap raw.handledNet = raw.netRules[port]
    BY <1>5, <1>9
  <2> QED
    BY <2>1, <2>2, <2>3
<1>12. ASSUME NEW path \in Path, NEW right
       PROVE  right \in raw.pathRules[path] <=>
                /\ l.pathRules[path] \cup r.pathRules[path] # {}
                /\ right \in Granted(l, path) \cup Granted(r, path)
                /\ right \in EffectiveHandledFS(l.handledFS) => right \in Granted(l, path)
                /\ right \in EffectiveHandledFS(r.handledFS) => right \in Granted(r, path)
  BY <1>2 DEF IntersectAccess, Permits
<1>13. ASSUME NEW port \in Port, NEW right
       PROVE  right \in raw.netRules[port] <=>
                /\ right \in l.netRules[port] \cup r.netRules[port]
                /\ right \in l.handledNet => right \in l.netRules[port]
                /\ right \in r.handledNet => right \in r.netRules[port]
  BY <1>3 DEF IntersectAccess, Permits
<1>14. QED
  BY <1>10, <1>11, <1>12, <1>13

\* An intersection of two profiles permits exactly what both permit.
LEMMA IntersectTwoExact ==
  ASSUME NEW l, NEW r, WellFormed(l), WellFormed(r)
  PROVE  /\ \A path \in Path, right \in FSRight :
              PermitsFS(IntersectTwo(l, r), path, right) <=>
                PermitsFS(l, path, right) /\ PermitsFS(r, path, right)
         /\ \A port \in Port, right \in NetRight :
              PermitsNet(IntersectTwo(l, r), port, right) <=>
                PermitsNet(l, port, right) /\ PermitsNet(r, port, right)
         /\ \A right \in ScopeRight :
              PermitsScope(IntersectTwo(l, r), right) <=>
                PermitsScope(l, right) /\ PermitsScope(r, right)
<1> DEFINE x == IntersectTwo(l, r)
<1>1. ASSUME NEW path \in Path, NEW right \in FSRight
      PROVE  PermitsFS(x, path, right) <=>
               PermitsFS(l, path, right) /\ PermitsFS(r, path, right)
  <2>1. /\ right \in DeniedByDefault(x) <=>
             right \in DeniedByDefault(l) \/ right \in DeniedByDefault(r)
        /\ DeniedByDefault(l) = EffectiveHandledFS(l.handledFS)
        /\ DeniedByDefault(r) = EffectiveHandledFS(r.handledFS)
    BY IntersectTwoRules DEF DeniedByDefault, EffectiveHandledFS
  <2>2. \A p \in Path : right \in x.pathRules[p] <=>
          /\ l.pathRules[p] \cup r.pathRules[p] # {}
          /\ right \in Granted(l, p) \cup Granted(r, p)
          /\ PermitsFS(l, p, right) /\ PermitsFS(r, p, right)
    BY <2>1, IntersectTwoRules DEF PermitsFS
  <2>3. right \in Granted(x, path) <=>
          \E p \in Path : Covers(p, path) /\ right \in x.pathRules[p]
    BY IntersectTwoRules, GrantedFacts
  <2>4. /\ right \in Granted(l, path) <=>
             \E p \in Path : Covers(p, path) /\ right \in l.pathRules[p]
        /\ right \in Granted(r, path) <=>
             \E p \in Path : Covers(p, path) /\ right \in r.pathRules[p]
    BY GrantedFacts
  \* What a rule above the path grants, both sides permit there and so below.
  <2>5. ASSUME PermitsFS(x, path, right)
        PROVE  PermitsFS(l, path, right) /\ PermitsFS(r, path, right)
    <3>1. CASE right \notin DeniedByDefault(x)
      BY <3>1, <2>1 DEF PermitsFS
    <3>2. CASE right \in Granted(x, path)
      <4>1. PICK p \in Path : Covers(p, path) /\ right \in x.pathRules[p]
        BY <3>2, <2>3
      <4>2. /\ Granted(l, p) \subseteq Granted(l, path)
            /\ Granted(r, p) \subseteq Granted(r, path)
        BY <4>1, GrantedDownwards
      <4> QED
        BY <4>1, <4>2, <2>2 DEF PermitsFS
    <3> QED
      BY <2>5, <3>1, <3>2 DEF PermitsFS
  \* Of the rules by which the sides grant the right, the deeper one carries it.
  <2>6. ASSUME PermitsFS(l, path, right), PermitsFS(r, path, right),
               right \in DeniedByDefault(x)
        PROVE  right \in Granted(x, path)
    <3>1. SUFFICES \E p \in Path : /\ Covers(p, path)
                                  /\ l.pathRules[p] \cup r.pathRules[p] # {}
                                  /\ right \in Granted(l, p) \cup Granted(r, p)
                                  /\ PermitsFS(l, p, right) /\ PermitsFS(r, p, right)
      BY <2>2, <2>3
    <3>2. \A p, q \in Path : Covers(q, p) /\ right \in l.pathRules[q] => right \in Granted(l, p)
      BY GrantedFacts
    <3>3. \A p, q \in Path : Covers(q, p) /\ right \in r.pathRules[q] => right \in Granted(r, p)
      BY GrantedFacts
    <3>4. \A p \in Path : Covers(p, p)
      BY CoversReflexive
    <3>5. CASE right \notin DeniedByDefault(l)
      <4>1. PICK p \in Path : Covers(p, path) /\ right \in r.pathRules[p]
        BY <3>5, <2>1, <2>4, <2>6 DEF PermitsFS
      <4> QED
        BY <4>1, <3>3, <3>4, <3>5 DEF PermitsFS
    <3>6. CASE right \notin DeniedByDefault(r)
      <4>1. PICK p \in Path : Covers(p, path) /\ right \in l.pathRules[p]
        BY <3>6, <2>1, <2>4, <2>6 DEF PermitsFS
      <4> QED
        BY <4>1, <3>2, <3>4, <3>6 DEF PermitsFS
    <3>7. CASE right \in DeniedByDefault(l) /\ right \in DeniedByDefault(r)
      <4>1. PICK p \in Path : Covers(p, path) /\ right \in l.pathRules[p]
        BY <3>7, <2>4, <2>6 DEF PermitsFS
      <4>2. PICK q \in Path : Covers(q, path) /\ right \in r.pathRules[q]
        BY <3>7, <2>4, <2>6 DEF PermitsFS
      <4>3. Covers(p, q) \/ Covers(q, p)
        BY <4>1, <4>2, CoversChain
      <4>4. CASE Covers(p, q)
        BY <4>1, <4>2, <4>4, <3>2, <3>3, <3>4 DEF PermitsFS
      <4>5. CASE Covers(q, p)
        BY <4>1, <4>2, <4>5, <3>2, <3>3, <3>4 DEF PermitsFS
      <4> QED
        BY <4>3, <4>4, <4>5
    <3> QED
      BY <3>5, <3>6, <3>7
  <2> QED
    BY <2>5, <2>6 DEF PermitsFS
<1>2. ASSUME NEW port \in Port, NEW right \in NetRight
      PROVE  PermitsNet(x, port, right) <=>
               PermitsNet(l, port, right) /\ PermitsNet(r, port, right)
  BY IntersectTwoRules DEF PermitsNet, WellFormed
<1>3. ASSUME NEW right \in ScopeRight
      PROVE  PermitsScope(x, right) <=> PermitsScope(l, right) /\ PermitsScope(r, right)
  BY IntersectTwoRules DEF PermitsScope
<1> QED
  BY <1>1, <1>2, <1>3

\* What the rules of a union grant, and the filesystem rights it handles.
LEMMA UnionTwoRules ==
  ASSUME NEW l, NEW r, WellFormed(l), WellFormed(r)
  PROVE  /\ WellFormed(UnionTwo(l, r))
         /\ UnionTwo(l, r).handledFS =
              UnionHandledFS(l.handledFS, r.handledFS, UnionRules(l.pathRules, r.pathRules))
         /\ UnionTwo(l, r).handledNet = l.handledNet \cap r.handledNet
         /\ UnionTwo(l, r).scoped = l.scoped \cap r.scoped
         /\ \A path \in Path : UnionTwo(l, r).pathRules[path]
              = (l.pathRules[path] \cup r.pathRules[path]) \cap UnionTwo(l, r).handledFS
         /\ \A port \in Port : UnionTwo(l, r).netRules[port]
              = (l.netRules[port] \cup r.netRules[port]) \cap UnionTwo(l, r).handledNet
<1> DEFINE paths == UnionRules(l.pathRules, r.pathRules)
           ports == UnionRules(l.netRules, r.netRules)
           handled == UnionHandledFS(l.handledFS, r.handledFS, paths)
           raw == [handledFS  |-> handled,
                   handledNet |-> l.handledNet \cap r.handledNet,
                   scoped     |-> l.scoped \cap r.scoped,
                   pathRules  |-> paths, netRules |-> ports]
<1>1. /\ l.pathRules \in [Path -> SUBSET FSRight] /\ r.pathRules \in [Path -> SUBSET FSRight]
      /\ l.netRules \in [Port -> SUBSET NetRight] /\ r.netRules \in [Port -> SUBSET NetRight]
      /\ l.handledFS \in SUBSET FSRight /\ r.handledFS \in SUBSET FSRight
      /\ l.handledNet \in SUBSET NetRight /\ r.handledNet \in SUBSET NetRight
      /\ l.scoped \in SUBSET ScopeRight /\ r.scoped \in SUBSET ScopeRight
  BY DEF WellFormed, NormalProfile
<1>2. /\ paths = [path \in Path |-> l.pathRules[path] \cup r.pathRules[path]]
      /\ ports = [port \in Port |-> l.netRules[port] \cup r.netRules[port]]
  BY <1>1 DEF UnionRules
<1>3. handled \in SUBSET FSRight
  BY <1>1, RightsAssumption DEF UnionHandledFS
<1>4. raw \in NormalProfile
  BY <1>1, <1>2, <1>3 DEF NormalProfile
<1>5. UnionTwo(l, r) = PruneUnhandledRights(raw)
  BY DEF UnionTwo
<1>6. /\ raw.handledFS = handled
      /\ raw.handledNet = l.handledNet \cap r.handledNet
      /\ raw.scoped = l.scoped \cap r.scoped
      /\ \A path \in Path : raw.pathRules[path] = l.pathRules[path] \cup r.pathRules[path]
      /\ \A port \in Port : raw.netRules[port] = l.netRules[port] \cup r.netRules[port]
  BY <1>2
<1> HIDE DEF raw, handled, paths, ports
<1>7. /\ WellFormed(UnionTwo(l, r))
      /\ UnionTwo(l, r).handledFS = raw.handledFS
      /\ UnionTwo(l, r).handledNet = raw.handledNet
      /\ UnionTwo(l, r).scoped = raw.scoped
      /\ \A path \in Path : UnionTwo(l, r).pathRules[path]
                            = raw.pathRules[path] \cap raw.handledFS
      /\ \A port \in Port : UnionTwo(l, r).netRules[port]
                            = raw.netRules[port] \cap raw.handledNet
  BY <1>4, <1>5, PruneWellFormed
<1>8. QED
  BY <1>6, <1>7 DEF handled, paths

\* A union of two profiles permits exactly what either permits.
LEMMA UnionTwoExact ==
  ASSUME NEW l, NEW r, WellFormed(l), WellFormed(r)
  PROVE  /\ \A path \in Path, right \in FSRight :
              PermitsFS(UnionTwo(l, r), path, right) <=>
                PermitsFS(l, path, right) \/ PermitsFS(r, path, right)
         /\ \A port \in Port, right \in NetRight :
              PermitsNet(UnionTwo(l, r), port, right) <=>
                PermitsNet(l, port, right) \/ PermitsNet(r, port, right)
         /\ \A right \in ScopeRight :
              PermitsScope(UnionTwo(l, r), right) <=>
                PermitsScope(l, right) \/ PermitsScope(r, right)
<1> DEFINE x == UnionTwo(l, r)
           both == l.handledFS \cap r.handledFS
           rules == UnionRules(l.pathRules, r.pathRules)
<1>1. ASSUME NEW path \in Path, NEW right \in FSRight
      PROVE  PermitsFS(x, path, right) <=>
               PermitsFS(l, path, right) \/ PermitsFS(r, path, right)
  <2>. DEFINE listed == l.handledFS # {} /\ r.handledFS # {}
                        /\ (both = {} \/ RulesGrant(rules, Refer))
  <2>0. x.handledFS = IF listed THEN both \cup {Refer} ELSE both
    <3>1. x.handledFS = UnionHandledFS(l.handledFS, r.handledFS, rules)
      BY UnionTwoRules
    <3> QED
      BY <3>1 DEF UnionHandledFS
  <2>1. CASE l.handledFS = {} \/ r.handledFS = {}
    <3>1. x.handledFS = {}
      BY <2>0, <2>1
    <3> QED
      BY <2>1, <3>1 DEF PermitsFS, DeniedByDefault
  <2>2. CASE l.handledFS # {} /\ r.handledFS # {}
    <3>1. /\ x.handledFS = both \/ x.handledFS = both \cup {Refer}
          /\ both = {} \/ RulesGrant(rules, Refer) => Refer \in x.handledFS
      BY <2>0, <2>2
    <3>2. /\ DeniedByDefault(x) = both \cup {Refer}
          /\ DeniedByDefault(l) = l.handledFS \cup {Refer}
          /\ DeniedByDefault(r) = r.handledFS \cup {Refer}
      BY <2>2, <3>1 DEF DeniedByDefault
    <3>3. right \in Granted(x, path) <=>
            \E p \in Path : Covers(p, path) /\ right \in x.pathRules[p]
      BY UnionTwoRules, GrantedFacts
    <3>4. /\ right \in Granted(l, path) <=>
               \E p \in Path : Covers(p, path) /\ right \in l.pathRules[p]
          /\ right \in Granted(r, path) <=>
               \E p \in Path : Covers(p, path) /\ right \in r.pathRules[p]
      BY GrantedFacts
    <3>5. \A p \in Path : right \in l.pathRules[p] \cup r.pathRules[p] /\ right = Refer
            => RulesGrant(rules, Refer)
      <4>1. /\ DOMAIN rules = Path
            /\ \A p \in Path : rules[p] = l.pathRules[p] \cup r.pathRules[p]
        BY DEF UnionRules, WellFormed, NormalProfile
      <4> QED
        BY <4>1 DEF RulesGrant
    <3>6. right \in both \cup {Refer} =>
            \A p \in Path : right \in x.pathRules[p] <=>
                            right \in l.pathRules[p] \cup r.pathRules[p]
      <4>1. \A p \in Path : x.pathRules[p] =
              (l.pathRules[p] \cup r.pathRules[p]) \cap x.handledFS
        BY UnionTwoRules
      <4> QED
        BY <3>1, <3>5, <4>1
    <3> QED
      BY <3>2, <3>3, <3>4, <3>6 DEF PermitsFS
  <2> QED
    BY <2>1, <2>2
<1>2. ASSUME NEW port \in Port, NEW right \in NetRight
      PROVE  PermitsNet(x, port, right) <=>
               PermitsNet(l, port, right) \/ PermitsNet(r, port, right)
  BY UnionTwoRules DEF PermitsNet, WellFormed
<1>3. ASSUME NEW right \in ScopeRight
      PROVE  PermitsScope(x, right) <=> PermitsScope(l, right) \/ PermitsScope(r, right)
  BY UnionTwoRules DEF PermitsScope
<1> QED
  BY <1>1, <1>2, <1>3

\* An intersection denies by default what either side does, a union what both do.
LEMMA MergeTwoDenies ==
  ASSUME NEW l, NEW r, WellFormed(l), WellFormed(r)
  PROVE  /\ DeniedByDefault(IntersectTwo(l, r)) = DeniedByDefault(l) \cup DeniedByDefault(r)
         /\ DeniedByDefault(UnionTwo(l, r)) = DeniedByDefault(l) \cap DeniedByDefault(r)
<1>1. DeniedByDefault(IntersectTwo(l, r)) = DeniedByDefault(l) \cup DeniedByDefault(r)
  <2>1. IntersectTwo(l, r).handledFS = l.handledFS \cup r.handledFS
    BY IntersectTwoRules
  <2> QED
    BY <2>1 DEF DeniedByDefault
<1>2. DeniedByDefault(UnionTwo(l, r)) = DeniedByDefault(l) \cap DeniedByDefault(r)
  <2>1. UnionTwo(l, r).handledFS =
          UnionHandledFS(l.handledFS, r.handledFS, UnionRules(l.pathRules, r.pathRules))
    BY UnionTwoRules
  <2> QED
    BY <2>1 DEF DeniedByDefault, UnionHandledFS
<1> QED
  BY <1>1, <1>2

-----------------------------------------------------------------------------
(* Settling an intersection *)

LEMMA DropUnsafeReferRules ==
  ASSUME NEW rules \in [Path -> SUBSET FSRight], NEW inputs
  PROVE  LET dropped == DropUnsafeRefer(rules, inputs)
         IN /\ dropped \in [Path -> SUBSET FSRight]
            /\ \A path \in Path : /\ dropped[path] \subseteq rules[path]
                                  /\ rules[path] \ {Refer} \subseteq dropped[path]
<1>1. ASSUME NEW unsafe
      PROVE  /\ StripRefer(rules, unsafe, inputs) \in [Path -> SUBSET FSRight]
             /\ \A path \in Path :
                  /\ StripRefer(rules, unsafe, inputs)[path] \subseteq rules[path]
                  /\ rules[path] \ {Refer} \subseteq StripRefer(rules, unsafe, inputs)[path]
  BY DEF StripRefer
<1> QED
  BY <1>1 DEF DropUnsafeRefer

\* Taking from every rule what the rules above it grant changes no access: of
\* the rules by which a right reaches a path, the topmost one keeps it.
LEMMA MinimizeKeepsAccess ==
  ASSUME NEW rules \in [Path -> SUBSET FSRight]
  PROVE  /\ MinimizePathRules(rules) \in [Path -> SUBSET FSRight]
         /\ \A path \in Path : MinimizePathRules(rules)[path] \subseteq rules[path]
         /\ \A path \in Path : \A right :
              (\E p \in Path : Covers(p, path) /\ right \in rules[p]) <=>
              (\E p \in Path : Covers(p, path) /\ right \in MinimizePathRules(rules)[p])
<1> DEFINE min == MinimizePathRules(rules)
<1>1. \A p \in Path : StrictlyAbove[p] = {q \in Path : Covers(q, p) /\ q # p}
  BY AboveFacts DEF StrictlyAbove
<1>2. \A p \in Path : min[p] = rules[p] \ UNION {rules[q] : q \in StrictlyAbove[p]}
  BY DEF MinimizePathRules
<1>3. /\ min \in [Path -> SUBSET FSRight]
      /\ \A p \in Path : min[p] \subseteq rules[p]
  BY DEF MinimizePathRules
<1>4. \A p \in Path : \A right : right \in min[p] <=>
        /\ right \in rules[p]
        /\ \A q \in Path : Covers(q, p) /\ q # p => right \notin rules[q]
  BY <1>1, <1>2
<1> HIDE DEF min
<1>5. ASSUME NEW path \in Path, NEW right,
             NEW p \in Path, Covers(p, path), right \in rules[p]
      PROVE  \E q \in Path : Covers(q, path) /\ right \in min[q]
  <2> DEFINE carriers == {q \in Path : Covers(q, path) /\ right \in rules[q]}
             depths == {Len(q.names) : q \in carriers}
  <2>1. depths \in SUBSET Nat /\ depths # {}
    <3>1. \A q \in Path : Len(q.names) \in Nat
      BY PathAssumption
    <3>2. p \in carriers
      BY <1>5
    <3>3. Len(p.names) \in depths
      BY <3>2
    <3> QED
      BY <3>1, <3>3
  <2>2. PICK m \in depths : \A k \in depths : m <= k
    <3> HIDE DEF depths
    <3> QED
      BY <2>1, LeastNatural
  <2>3. PICK top \in carriers : Len(top.names) = m
    BY <2>2
  <2>4. ASSUME NEW q \in Path, Covers(q, top), q # top, right \in rules[q]
        PROVE  FALSE
    <3>1. Covers(q, path)
      BY <2>3, <2>4, CoversTransitive
    <3>2. Len(q.names) \in depths
      BY <2>4, <3>1
    <3>3. m <= Len(q.names)
      BY <2>2, <3>2
    <3>4. Len(q.names) < Len(top.names)
      BY <2>3, <2>4, CoversShorter
    <3>5. m \in Nat /\ Len(q.names) \in Nat
      BY <2>1, <2>2, <3>2
    <3> QED
      BY <2>3, <3>3, <3>4, <3>5
  <2> QED
    BY <1>4, <2>3, <2>4
<1> QED
  BY <1>3, <1>5 DEF min

\* Settling an intersection changes nothing but grants of refer.
LEMMA FinishIntersectFacts ==
  ASSUME NEW p, WellFormed(p), NEW inputs
  PROVE  LET f == FinishIntersect(p, inputs)
         IN /\ WellFormed(f)
            /\ f.handledFS = p.handledFS /\ f.handledNet = p.handledNet
            /\ f.scoped = p.scoped /\ f.netRules = p.netRules
            /\ \A path \in Path : /\ f.pathRules[path] \subseteq p.pathRules[path]
                                  /\ Granted(f, path) \subseteq Granted(p, path)
                                  /\ Granted(p, path) \ {Refer} \subseteq Granted(f, path)
<1> DEFINE f == FinishIntersect(p, inputs)
           dropped == DropUnsafeRefer(p.pathRules, inputs)
<1>1. /\ p.pathRules \in [Path -> SUBSET FSRight]
      /\ p.netRules \in [Port -> SUBSET NetRight]
      /\ p.handledFS \in SUBSET FSRight /\ p.handledNet \in SUBSET NetRight
      /\ p.scoped \in SUBSET ScopeRight
  BY DEF WellFormed, NormalProfile
<1>2. /\ dropped \in [Path -> SUBSET FSRight]
      /\ \A path \in Path : /\ dropped[path] \subseteq p.pathRules[path]
                            /\ p.pathRules[path] \ {Refer} \subseteq dropped[path]
  BY <1>1, DropUnsafeReferRules
<1> HIDE DEF dropped
<1>3. f = [handledFS |-> p.handledFS, handledNet |-> p.handledNet, scoped |-> p.scoped,
           pathRules |-> MinimizePathRules(dropped), netRules |-> p.netRules]
  BY DEF FinishIntersect, dropped
<1>4. /\ f.pathRules \in [Path -> SUBSET FSRight]
      /\ \A path \in Path : f.pathRules[path] \subseteq dropped[path]
      /\ \A path \in Path : \A right :
           (\E q \in Path : Covers(q, path) /\ right \in dropped[q]) <=>
           (\E q \in Path : Covers(q, path) /\ right \in f.pathRules[q])
  BY <1>2, <1>3, MinimizeKeepsAccess
<1>5. /\ f.handledFS = p.handledFS /\ f.handledNet = p.handledNet
      /\ f.scoped = p.scoped /\ f.netRules = p.netRules
  BY <1>3
<1>6. f \in NormalProfile
  BY <1>1, <1>3, <1>4 DEF NormalProfile
<1> HIDE DEF f
<1>7. \A path \in Path : f.pathRules[path] \subseteq p.pathRules[path]
  BY <1>2, <1>4
<1>8. WellFormed(f)
  BY <1>5, <1>6, <1>7 DEF WellFormed
<1>9. ASSUME NEW path \in Path
      PROVE  /\ Granted(f, path) \subseteq Granted(p, path)
             /\ Granted(p, path) \ {Refer} \subseteq Granted(f, path)
  <2>1. \A r : r \in Granted(f, path) <=>
          \E q \in Path : Covers(q, path) /\ r \in f.pathRules[q]
    BY <1>8, GrantedFacts
  <2>2. \A r : r \in Granted(p, path) <=>
          \E q \in Path : Covers(q, path) /\ r \in p.pathRules[q]
    BY GrantedFacts
  <2>3. ASSUME NEW r \in Granted(f, path) PROVE r \in Granted(p, path)
    BY <2>1, <2>2, <1>7
  <2>4. ASSUME NEW r \in Granted(p, path), r # Refer PROVE r \in Granted(f, path)
    <3>1. PICK q \in Path : Covers(q, path) /\ r \in p.pathRules[q]
      BY <2>2
    <3>2. r \in dropped[q]
      BY <3>1, <2>4, <1>2
    <3> QED
      BY <3>1, <3>2, <2>1, <1>4
  <2> QED
    BY <2>3, <2>4
<1> QED
  BY <1>5, <1>7, <1>8, <1>9 DEF f

-----------------------------------------------------------------------------
(* Settling a union *)

\* The rights settling a union gives up.
GivenUp(p, inputs) ==
  Conflicting(p, inputs, IF p.pathRules[Root] = {} THEN {TRUE} ELSE {TRUE, FALSE}) \ {Refer}

\* Settling a union gives rights other than refer up, handled set and rules
\* alike; one it gives up means that some input grants refer by a rule.
LEMMA FinishUnionFacts ==
  ASSUME NEW p, WellFormed(p),
         NEW inputs, \A i \in DOMAIN inputs : WellFormed(inputs[i])
  PROVE  LET f == FinishUnion(p, inputs)
         IN /\ WellFormed(f)
            /\ f.handledNet = p.handledNet /\ f.scoped = p.scoped
            /\ f.netRules = p.netRules
            /\ GivenUp(p, inputs) \in SUBSET (FSRight \ {Refer})
            /\ f.handledFS = p.handledFS \ GivenUp(p, inputs)
            /\ \A path \in Path : f.pathRules[path] = p.pathRules[path] \ GivenUp(p, inputs)
            /\ GivenUp(p, inputs) # {} =>
                 /\ p.handledFS # {}
                 /\ \E i \in DOMAIN inputs, path \in Path :
                      Refer \in EffectiveFSAccess(inputs[i].pathRules)[path]
<1> DEFINE f == FinishUnion(p, inputs)
           ways == IF p.pathRules[Root] = {} THEN {TRUE} ELSE {TRUE, FALSE}
           rights == GivenUp(p, inputs)
           raw == Unhandle(p, rights)
<1>1. /\ p.pathRules \in [Path -> SUBSET FSRight]
      /\ p.netRules \in [Port -> SUBSET NetRight]
      /\ p.handledFS \in SUBSET FSRight /\ p.handledNet \in SUBSET NetRight
      /\ p.scoped \in SUBSET ScopeRight
      /\ \A path \in Path : p.pathRules[path] \subseteq p.handledFS
      /\ \A port \in Port : p.netRules[port] \subseteq p.handledNet
  BY DEF WellFormed, NormalProfile
\* Conflicts are about rights the rules of the union grant.
<1>2. ASSUME NEW input, NEW paths \in SUBSET Path, NEW withRoot,
             NEW right \in MoveConflicts(input, p.pathRules, paths, withRoot)
      PROVE  /\ right \in p.handledFS
             /\ \E path \in Path : Refer \in EffectiveFSAccess(input.pathRules)[path]
  <2>1. PICK src \in Path, dst \in Path :
          /\ Refer \in EffectiveFSAccess(input.pathRules)[src]
          /\ right \in ComparedAccess(p.pathRules, dst, withRoot)
    BY <1>2 DEF MoveConflicts
  <2>2. PICK upper \in Above[dst] : right \in p.pathRules[upper]
    BY <2>1 DEF ComparedAccess
  <2>3. upper \in Path
    BY <2>2, AboveFacts
  <2> QED
    BY <2>1, <2>2, <2>3, <1>1
<1>3. InputRulePaths(inputs) \in SUBSET Path
  BY DEF InputRulePaths, RuleKeys, WellFormed, NormalProfile
<1>4. ASSUME NEW right \in Conflicting(p, inputs, ways)
      PROVE  /\ right \in p.handledFS
             /\ \E i \in DOMAIN inputs, path \in Path :
                  Refer \in EffectiveFSAccess(inputs[i].pathRules)[path]
  <2>1. PICK i \in DOMAIN inputs, withRoot \in ways :
          right \in MoveConflicts(inputs[i], p.pathRules, InputRulePaths(inputs), withRoot)
    <3> HIDE DEF ways
    <3> QED
      BY <1>4 DEF Conflicting
  <2> QED
    BY <2>1, <1>2, <1>3
<1>5. /\ rights \in SUBSET (FSRight \ {Refer})
      /\ rights # {} => /\ p.handledFS # {}
                        /\ \E i \in DOMAIN inputs, path \in Path :
                             Refer \in EffectiveFSAccess(inputs[i].pathRules)[path]
  BY <1>1, <1>4 DEF GivenUp
<1> HIDE DEF rights
<1>6. /\ raw = [handledFS |-> p.handledFS \ rights, handledNet |-> p.handledNet,
                scoped |-> p.scoped, pathRules |-> p.pathRules, netRules |-> p.netRules]
      /\ raw \in NormalProfile
  BY <1>1 DEF Unhandle, NormalProfile
<1>7. f = PruneUnhandledRights(raw)
  BY DEF FinishUnion, UnhandleMoveConflicts, rights, GivenUp
<1> HIDE DEF f, raw
<1>8. /\ WellFormed(f)
      /\ f.handledFS = p.handledFS \ rights
      /\ f.handledNet = p.handledNet /\ f.scoped = p.scoped
      /\ \A path \in Path : f.pathRules[path] = p.pathRules[path] \cap (p.handledFS \ rights)
      /\ \A port \in Port : f.netRules[port] = p.netRules[port] \cap p.handledNet
  BY <1>6, <1>7, PruneWellFormed
<1>9. \A path \in Path : f.pathRules[path] = p.pathRules[path] \ rights
  BY <1>1, <1>8
<1>10. f.netRules = p.netRules
  <2>1. f.netRules \in [Port -> SUBSET NetRight]
    BY <1>8 DEF WellFormed, NormalProfile
  <2>2. \A port \in Port : f.netRules[port] = p.netRules[port]
    BY <1>1, <1>8
  <2> QED
    BY <1>1, <2>1, <2>2
<1> QED
  BY <1>5, <1>8, <1>9, <1>10 DEF f, rights

-----------------------------------------------------------------------------
(* The inductive invariant *)

\* A profile that passes validation is normalized to a well-formed one.
LEMMA NormalizeWellFormed ==
  ASSUME NEW profile, ValidProfile(profile)
  PROVE  WellFormed(PruneUnhandledRights(NormalizeProfile(profile)))
<1>1. NormalizeProfile(profile) \in NormalProfile
  BY DEF ValidProfile, NormalizeProfile, NormalProfile
<1> QED
  BY <1>1, PruneWellFormed

Passed == UNION {Profiles[n] : n \in Arities}

\* The phases: reading keeps the arguments accepted so far, folding starts
\* with the first of at least one.
PhasesOK ==
  /\ args \in Seq(Passed)
  /\ pc = "validate" => folded = 0 /\ Len(normalized) = Len(args)
  /\ pc \in {"fold", "done"} => folded >= 1
  /\ pc = "done" => folded = Len(normalized)

ProfilesWellFormed ==
  /\ \A i \in Inputs : WellFormed(normalized[i])
  /\ WellFormed(result)

\* What the folded profile denies by default, its inputs deny.
FoldDenies ==
  pc = "fold" =>
    \A right \in FSRight : right \in DeniedByDefault(result) <=>
      IF Strategy = "intersect"
      THEN \E i \in FoldedInputs : right \in DeniedByDefault(normalized[i])
      ELSE \A i \in FoldedInputs : right \in DeniedByDefault(normalized[i])

Inv ==
  /\ TypeOK /\ PhasesOK /\ ProfilesWellFormed
  /\ FoldIsExact /\ FoldDenies
  /\ IntersectNeverPermitsMore /\ UnionNeverPermitsLess

LEMMA InitInv == Init => Inv
<1> SUFFICES ASSUME Init PROVE Inv
  OBVIOUS
<1> USE DEF Init
<1>1. WellFormed(NoResult)
  BY DEF NoResult, WellFormed, NormalProfile
<1>2. PhasesOK
  BY DEF PhasesOK
<1>3. TypeOK
  BY <1>1, CallsAssumption DEF TypeOK, WellFormed
<1>4. ProfilesWellFormed
  BY <1>1 DEF ProfilesWellFormed, Inputs
<1> QED
  BY <1>2, <1>3, <1>4
  DEF Inv, FoldIsExact, FoldDenies, IntersectNeverPermitsMore, UnionNeverPermitsLess

LEMMA AcceptInputInv ==
  ASSUME Inv, NEW profile \in Profiles[arity], AcceptInput(profile) PROVE Inv'
<1> DEFINE n == PruneUnhandledRights(NormalizeProfile(profile))
<1>1. WellFormed(n)
  BY NormalizeWellFormed DEF AcceptInput
<1> HIDE DEF n
<1>2. /\ pc = "validate" /\ pc' = "validate" /\ Len(args) < arity
      /\ args' = Append(args, profile) /\ normalized' = Append(normalized, n)
      /\ arity' = arity /\ folded' = folded /\ result' = result /\ failedAt' = failedAt
  BY DEF AcceptInput, n
<1>3. /\ normalized \in Seq(NormalProfile) /\ n \in NormalProfile
      /\ args \in Seq(Passed) /\ arity \in Arities /\ arity \in Nat
  BY <1>1, CallsAssumption DEF Inv, TypeOK, PhasesOK, WellFormed
<1>4. PhasesOK'
  <2>1. profile \in Passed
    BY <1>3 DEF Passed
  <2> QED
    BY <2>1, <1>2, <1>3 DEF Inv, PhasesOK
<1>5. TypeOK'
  BY <1>2, <1>3 DEF Inv, TypeOK
<1>6. ProfilesWellFormed'
  BY <1>1, <1>2, <1>3 DEF Inv, ProfilesWellFormed, Inputs
<1> QED
  BY <1>2, <1>4, <1>5, <1>6
  DEF Inv, FoldIsExact, FoldDenies, IntersectNeverPermitsMore, UnionNeverPermitsLess

LEMMA RejectInv ==
  ASSUME Inv, RejectEmptyCall \/ \E profile \in Profiles[arity] : RejectInput(profile) PROVE Inv'
<1>1. /\ pc' = "failed" /\ pc = "validate"
      /\ UNCHANGED <<arity, normalized, folded, result>>
  BY DEF RejectEmptyCall, RejectInput
<1>2. args' \in Seq(Passed) /\ Len(args) <= Len(args') /\ Len(args') <= arity
      /\ failedAt' \in 0..Len(args')
  <2>1. args \in Seq(Passed) /\ Len(args) <= arity /\ arity \in Nat
        /\ failedAt \in 0..Len(args)
    BY CallsAssumption DEF Inv, TypeOK, PhasesOK
  <2>2. CASE RejectEmptyCall
    BY <2>1, <2>2 DEF RejectEmptyCall
  <2>3. CASE \E profile \in Profiles[arity] : RejectInput(profile)
    <3>1. PICK profile \in Profiles[arity] : RejectInput(profile)
      BY <2>3
    <3>2. /\ args' = Append(args, profile) /\ failedAt' = Len(args')
          /\ arity' = arity /\ Len(args) < arity
      BY <3>1 DEF RejectInput
    <3>3. profile \in Passed
      BY <3>1 DEF Inv, TypeOK, Passed
    <3>4. args' \in Seq(Passed) /\ Len(args') = Len(args) + 1
      BY <2>1, <3>2, <3>3
    <3> QED
      BY <2>1, <3>2, <3>4
  <2> QED
    BY <2>2, <2>3
<1>3. TypeOK' /\ PhasesOK'
  BY <1>1, <1>2 DEF Inv, TypeOK, PhasesOK
<1>4. ProfilesWellFormed'
  BY <1>1 DEF Inv, ProfilesWellFormed, Inputs
<1> QED
  BY <1>1, <1>3, <1>4
  DEF Inv, FoldIsExact, FoldDenies, IntersectNeverPermitsMore, UnionNeverPermitsLess

LEMMA FoldFirstInv == ASSUME Inv, FoldFirst PROVE Inv'
<1>1. /\ pc = "validate" /\ pc' = "fold" /\ result' = normalized[1] /\ folded' = 1
      /\ UNCHANGED <<arity, args, normalized, failedAt>>
      /\ 1 \in Inputs /\ Len(normalized) >= 1
  BY CallsAssumption DEF FoldFirst, Inv, TypeOK, PhasesOK, Inputs
<1>2. WellFormed(normalized[1])
  BY <1>1 DEF Inv, ProfilesWellFormed
<1>3. TypeOK' /\ PhasesOK' /\ ProfilesWellFormed'
  BY <1>1, <1>2 DEF Inv, TypeOK, PhasesOK, ProfilesWellFormed, WellFormed, Inputs
<1>4. FoldedInputs' = {1}
  BY <1>1 DEF FoldedInputs
<1>5. FoldIsExact'
  BY <1>1, <1>4 DEF FoldIsExact, Combined, PermitsFS, PermitsNet, PermitsScope,
     Granted, DeniedByDefault
<1>6. FoldDenies'
  BY <1>1, <1>4 DEF FoldDenies, DeniedByDefault
<1> QED
  BY <1>1, <1>3, <1>5, <1>6 DEF Inv, IntersectNeverPermitsMore, UnionNeverPermitsLess

\* One step of the fold combines what the next input permits and denies.
LEMMA MergeTwoFacts ==
  ASSUME NEW l, NEW r, WellFormed(l), WellFormed(r)
  PROVE  LET x == MergeTwo(l, r)
             both(a, b) == IF Strategy = "intersect" THEN a /\ b ELSE a \/ b
         IN /\ WellFormed(x)
            /\ \A path \in Path, right \in FSRight :
                 PermitsFS(x, path, right) <=>
                   both(PermitsFS(l, path, right), PermitsFS(r, path, right))
            /\ \A port \in Port, right \in NetRight :
                 PermitsNet(x, port, right) <=>
                   both(PermitsNet(l, port, right), PermitsNet(r, port, right))
            /\ \A right \in ScopeRight :
                 PermitsScope(x, right) <=>
                   both(PermitsScope(l, right), PermitsScope(r, right))
            /\ \A right \in FSRight :
                 right \in DeniedByDefault(x) <=>
                   IF Strategy = "intersect"
                   THEN right \in DeniedByDefault(l) \/ right \in DeniedByDefault(r)
                   ELSE right \in DeniedByDefault(l) /\ right \in DeniedByDefault(r)
<1>1. CASE Strategy = "intersect"
  <2>1. MergeTwo(l, r) = IntersectTwo(l, r)
    BY <1>1 DEF MergeTwo
  <2>2. WellFormed(IntersectTwo(l, r))
    BY IntersectTwoRules
  <2>3. \A right \in FSRight : right \in DeniedByDefault(IntersectTwo(l, r)) <=>
          right \in DeniedByDefault(l) \/ right \in DeniedByDefault(r)
    BY MergeTwoDenies
  <2> QED
    BY <1>1, <2>1, <2>2, <2>3, IntersectTwoExact
<1>2. CASE Strategy # "intersect"
  <2>1. MergeTwo(l, r) = UnionTwo(l, r)
    BY <1>2 DEF MergeTwo
  <2>2. WellFormed(UnionTwo(l, r))
    BY UnionTwoRules
  <2>3. \A right \in FSRight : right \in DeniedByDefault(UnionTwo(l, r)) <=>
          right \in DeniedByDefault(l) /\ right \in DeniedByDefault(r)
    BY MergeTwoDenies
  <2> QED
    BY <1>2, <2>1, <2>2, <2>3, UnionTwoExact
<1> QED
  BY <1>1, <1>2

LEMMA FoldNextInv == ASSUME Inv, FoldNext PROVE Inv'
<1> DEFINE next == normalized[folded + 1]
<1>1. /\ pc = "fold" /\ pc' = "fold" /\ folded' = folded + 1 /\ folded + 1 \in Inputs
      /\ result' = MergeTwo(result, next)
      /\ UNCHANGED <<arity, args, normalized, failedAt>>
      /\ folded \in Nat /\ folded >= 1 /\ folded + 1 <= Len(normalized)
  BY DEF FoldNext, Inv, TypeOK, PhasesOK, Inputs
<1>2. WellFormed(result) /\ WellFormed(next)
  BY <1>1 DEF Inv, ProfilesWellFormed
<1> HIDE DEF next
<1>3. WellFormed(result')
  BY <1>1, <1>2, MergeTwoFacts
<1>4. TypeOK' /\ PhasesOK' /\ ProfilesWellFormed'
  BY <1>1, <1>3 DEF Inv, TypeOK, PhasesOK, ProfilesWellFormed, WellFormed, Inputs
<1>5. FoldedInputs' = FoldedInputs \cup {folded + 1}
  BY <1>1 DEF FoldedInputs
<1>6. FoldIsExact'
  <2>1. ASSUME NEW path \in Path, NEW right \in FSRight
        PROVE  PermitsFS(result', path, right) <=>
                 IF Strategy = "intersect"
                 THEN \A i \in FoldedInputs' : PermitsFS(normalized[i], path, right)
                 ELSE \E i \in FoldedInputs' : PermitsFS(normalized[i], path, right)
    <3>1. PermitsFS(result, path, right) <=>
            IF Strategy = "intersect"
            THEN \A i \in FoldedInputs : PermitsFS(normalized[i], path, right)
            ELSE \E i \in FoldedInputs : PermitsFS(normalized[i], path, right)
      BY <1>1 DEF Inv, FoldIsExact, Combined
    <3>2. PermitsFS(result', path, right) <=>
            IF Strategy = "intersect"
            THEN PermitsFS(result, path, right) /\ PermitsFS(next, path, right)
            ELSE PermitsFS(result, path, right) \/ PermitsFS(next, path, right)
      BY <1>1, <1>2, MergeTwoFacts
    <3> QED
      BY <1>5, <3>1, <3>2 DEF next
  <2>2. ASSUME NEW port \in Port, NEW right \in NetRight
        PROVE  PermitsNet(result', port, right) <=>
                 IF Strategy = "intersect"
                 THEN \A i \in FoldedInputs' : PermitsNet(normalized[i], port, right)
                 ELSE \E i \in FoldedInputs' : PermitsNet(normalized[i], port, right)
    <3>1. PermitsNet(result, port, right) <=>
            IF Strategy = "intersect"
            THEN \A i \in FoldedInputs : PermitsNet(normalized[i], port, right)
            ELSE \E i \in FoldedInputs : PermitsNet(normalized[i], port, right)
      BY <1>1 DEF Inv, FoldIsExact, Combined
    <3>2. PermitsNet(result', port, right) <=>
            IF Strategy = "intersect"
            THEN PermitsNet(result, port, right) /\ PermitsNet(next, port, right)
            ELSE PermitsNet(result, port, right) \/ PermitsNet(next, port, right)
      BY <1>1, <1>2, MergeTwoFacts
    <3> QED
      BY <1>5, <3>1, <3>2 DEF next
  <2>3. ASSUME NEW right \in ScopeRight
        PROVE  PermitsScope(result', right) <=>
                 IF Strategy = "intersect"
                 THEN \A i \in FoldedInputs' : PermitsScope(normalized[i], right)
                 ELSE \E i \in FoldedInputs' : PermitsScope(normalized[i], right)
    <3>1. PermitsScope(result, right) <=>
            IF Strategy = "intersect"
            THEN \A i \in FoldedInputs : PermitsScope(normalized[i], right)
            ELSE \E i \in FoldedInputs : PermitsScope(normalized[i], right)
      BY <1>1 DEF Inv, FoldIsExact, Combined
    <3>2. PermitsScope(result', right) <=>
            IF Strategy = "intersect"
            THEN PermitsScope(result, right) /\ PermitsScope(next, right)
            ELSE PermitsScope(result, right) \/ PermitsScope(next, right)
      BY <1>1, <1>2, MergeTwoFacts
    <3> QED
      BY <1>5, <3>1, <3>2 DEF next
  <2>4. normalized' = normalized
    BY <1>1
  <2> QED
    BY <2>1, <2>2, <2>3, <2>4
    DEF FoldIsExact, Combined, PermitsFS, PermitsNet, PermitsScope,
     Granted, DeniedByDefault
<1>7. FoldDenies'
  <2>1. ASSUME NEW right \in FSRight
        PROVE  right \in DeniedByDefault(result') <=>
                 IF Strategy = "intersect"
                 THEN right \in DeniedByDefault(result) \/ right \in DeniedByDefault(next)
                 ELSE right \in DeniedByDefault(result) /\ right \in DeniedByDefault(next)
    BY <1>1, <1>2, MergeTwoFacts
  <2>2. \A i : DeniedByDefault(normalized[i])' = DeniedByDefault(normalized[i])
    BY <1>1 DEF DeniedByDefault
  <2>3. DeniedByDefault(result)' = DeniedByDefault(result')
    BY DEF DeniedByDefault
  <2> QED
    BY <1>1, <1>5, <2>1, <2>2, <2>3 DEF Inv, FoldDenies, next
<1> QED
  BY <1>1, <1>4, <1>6, <1>7 DEF Inv, IntersectNeverPermitsMore, UnionNeverPermitsLess

\* What the fold ends with, when every input has been folded.
LEMMA FoldedAll ==
  ASSUME Inv, Finish
  PROVE  /\ pc = "fold" /\ pc' = "done" /\ result' = Settled(result, normalized)
         /\ folded = Len(normalized) /\ FoldedInputs = Inputs
         /\ UNCHANGED <<arity, args, normalized, folded, failedAt>>
         /\ WellFormed(result) /\ \A i \in DOMAIN normalized : WellFormed(normalized[i])
         /\ \A path \in Path, right \in FSRight :
              PermitsFS(result, path, right) <=>
                IF Strategy = "intersect"
                THEN \A i \in Inputs : PermitsFS(normalized[i], path, right)
                ELSE \E i \in Inputs : PermitsFS(normalized[i], path, right)
<1>1. /\ pc = "fold" /\ pc' = "done" /\ result' = Settled(result, normalized)
      /\ folded = Len(normalized)
      /\ UNCHANGED <<arity, args, normalized, folded, failedAt>>
  BY DEF Finish
<1>2. FoldedInputs = Inputs
  BY <1>1 DEF FoldedInputs, Inputs, Inv, TypeOK
<1>3. WellFormed(result) /\ \A i \in DOMAIN normalized : WellFormed(normalized[i])
  BY DEF Inv, ProfilesWellFormed, Inputs
<1> QED
  BY <1>1, <1>2, <1>3 DEF Inv, FoldIsExact, Combined

LEMMA SettledIntersection ==
  ASSUME Inv, Finish, Strategy = "intersect"
  PROVE  WellFormed(result') /\ IntersectNeverPermitsMore'
<1> DEFINE f == FinishIntersect(result, normalized)
<1>1. result' = f /\ WellFormed(result)
  BY FoldedAll DEF Settled
<1>2. /\ WellFormed(f) /\ f.handledFS = result.handledFS
      /\ \A path \in Path : /\ Granted(f, path) \subseteq Granted(result, path)
                            /\ Granted(result, path) \ {Refer} \subseteq Granted(f, path)
  BY <1>1, FinishIntersectFacts
<1> HIDE DEF f
<1>3. DeniedByDefault(f) = DeniedByDefault(result)
  BY <1>2 DEF DeniedByDefault
<1>4. ASSUME NEW path \in Path, NEW right \in FSRight
      PROVE  LET all == \A i \in Inputs : PermitsFS(normalized[i], path, right)
             IN /\ PermitsFS(f, path, right) => all
                /\ all => PermitsFS(f, path, right) \/ right = Refer
  <2>1. PermitsFS(result, path, right) <=> \A i \in Inputs : PermitsFS(normalized[i], path, right)
    BY FoldedAll
  <2>2. /\ PermitsFS(f, path, right) => PermitsFS(result, path, right)
        /\ PermitsFS(result, path, right) /\ right # Refer => PermitsFS(f, path, right)
    BY <1>2, <1>3 DEF PermitsFS
  <2> QED
    BY <2>1, <2>2
<1>5. normalized' = normalized /\ Inputs' = Inputs
  BY FoldedAll DEF Inputs
<1>6. IntersectNeverPermitsMore'
  BY <1>1, <1>4, <1>5 DEF IntersectNeverPermitsMore, PermitsFS, Granted, DeniedByDefault
<1> QED
  BY <1>1, <1>2, <1>6

\* A settled union permits what the fold ended with and the rights it stopped
\* handling.
LEMMA SettledUnionFreed ==
  ASSUME Inv, Finish, Strategy # "intersect"
  PROVE  LET f == FinishUnion(result, normalized)
         IN /\ WellFormed(f)
            /\ Refer \notin StoppedHandling'
            /\ StoppedHandling' = DeniedByDefault(result) \ DeniedByDefault(f)
            /\ \A path \in Path, right \in FSRight :
                 PermitsFS(f, path, right) <=>
                   right \in StoppedHandling' \/ PermitsFS(result, path, right)
<1> DEFINE f == FinishUnion(result, normalized)
           freed == GivenUp(result, normalized)
<1>1. /\ result' = f /\ WellFormed(result)
      /\ \A i \in DOMAIN normalized : WellFormed(normalized[i])
  BY FoldedAll DEF Settled
<1>2. WellFormed(f)
  BY <1>1, FinishUnionFacts
<1>3. /\ freed \in SUBSET (FSRight \ {Refer})
      /\ f.handledFS = result.handledFS \ freed
      /\ \A path \in Path : f.pathRules[path] = result.pathRules[path] \ freed
      /\ freed # {} => /\ result.handledFS # {}
                       /\ \E i \in DOMAIN normalized, path \in Path :
                            Refer \in EffectiveFSAccess(normalized[i].pathRules)[path]
  BY <1>1, FinishUnionFacts
<1> HIDE DEF f, freed
\* The input that grants refer permits it, so the folded rules grant it too.
<1>4. freed # {} => Refer \in result.handledFS
  <2> SUFFICES ASSUME freed # {} PROVE Refer \in result.handledFS
    OBVIOUS
  <2>1. PICK i \in Inputs, path \in Path :
          Refer \in EffectiveFSAccess(normalized[i].pathRules)[path]
    BY <1>3 DEF Inputs
  <2>2. Refer \in Granted(normalized[i], path)
    BY <1>1, <2>1, GrantedFacts DEF Inputs
  <2>3. Refer \in FSRight
    BY RightsAssumption
  <2>4. PermitsFS(normalized[i], path, Refer)
    BY <2>2 DEF PermitsFS
  <2>5. PermitsFS(result, path, Refer)
    BY <2>3, <2>4, FoldedAll
  <2>6. Refer \in DeniedByDefault(result)
    BY <1>3 DEF DeniedByDefault
  <2> QED
    BY <1>1, <2>5, <2>6, GrantedFacts DEF PermitsFS
<1>5. DeniedByDefault(f) = DeniedByDefault(result) \ freed
  BY <1>3, <1>4 DEF DeniedByDefault
<1>6. ASSUME NEW path \in Path
      PROVE  Granted(f, path) = Granted(result, path) \ freed
  <2>1. \A r : r \in Granted(f, path) <=>
          \E q \in Path : Covers(q, path) /\ r \in f.pathRules[q]
    BY <1>2, GrantedFacts
  <2>2. \A r : r \in Granted(result, path) <=>
          \E q \in Path : Covers(q, path) /\ r \in result.pathRules[q]
    BY <1>1, GrantedFacts
  <2>3. \A r : r \in Granted(f, path) <=> r \in Granted(result, path) /\ r \notin freed
    BY <1>3, <2>1, <2>2
  <2> QED
    BY <2>3
<1>7. normalized' = normalized /\ Inputs' = Inputs /\ result' = f
  BY <1>1, FoldedAll DEF Inputs
<1>8. StoppedHandling' = {right \in FSRight :
        /\ \A i \in Inputs : right \in DeniedByDefault(normalized[i])
        /\ right \notin DeniedByDefault(f)}
  BY <1>7 DEF StoppedHandling, DeniedByDefault
<1>9. \A right \in FSRight :
        right \in DeniedByDefault(result) <=>
          \A i \in Inputs : right \in DeniedByDefault(normalized[i])
  BY FoldedAll DEF Inv, FoldDenies
<1>10. StoppedHandling' = DeniedByDefault(result) \cap freed
  <2>1. \A right \in FSRight : right \in StoppedHandling' <=>
          right \in DeniedByDefault(result) /\ right \in freed
    BY <1>5, <1>8, <1>9
  <2>2. StoppedHandling' \subseteq FSRight /\ freed \subseteq FSRight
    BY <1>3, <1>8
  <2>3. \A right : right \in StoppedHandling' <=>
          right \in DeniedByDefault(result) \cap freed
    BY <2>1, <2>2
  <2> QED
    BY <2>3
<1>11. Refer \notin StoppedHandling'
  BY <1>3, <1>10
<1>12. StoppedHandling' = DeniedByDefault(result) \ DeniedByDefault(f)
  BY <1>5, <1>10
<1>13. ASSUME NEW path \in Path, NEW right \in FSRight
       PROVE  PermitsFS(f, path, right) <=>
                right \in StoppedHandling' \/ PermitsFS(result, path, right)
  <2>1. Granted(f, path) = Granted(result, path) \ freed
    BY <1>6
  <2> QED
    BY <1>5, <1>10, <2>1 DEF PermitsFS
<1> QED
  BY <1>2, <1>11, <1>12, <1>13 DEF f

LEMMA SettledUnion ==
  ASSUME Inv, Finish, Strategy # "intersect"
  PROVE  WellFormed(result') /\ UnionNeverPermitsLess'
<1> DEFINE f == FinishUnion(result, normalized)
<1>1. result' = f /\ normalized' = normalized /\ Inputs' = Inputs
  BY FoldedAll DEF Settled, Inputs
<1>2. WellFormed(f) /\ Refer \notin StoppedHandling'
  BY SettledUnionFreed
<1>3. ASSUME NEW path \in Path, NEW right \in FSRight
      PROVE  PermitsFS(f, path, right) <=>
               \/ right \in StoppedHandling'
               \/ \E i \in Inputs : PermitsFS(normalized[i], path, right)
  BY SettledUnionFreed, FoldedAll
<1> HIDE DEF f
<1>4. \A path : \A right : PermitsFS(result, path, right)' = PermitsFS(f, path, right)
  BY <1>1 DEF PermitsFS, Granted, DeniedByDefault
<1>5. \A i : \A path : \A right :
        PermitsFS(normalized[i], path, right)' = PermitsFS(normalized[i], path, right)
  BY <1>1 DEF PermitsFS, Granted, DeniedByDefault
<1>6. UnionNeverPermitsLess'
  BY <1>1, <1>2, <1>3, <1>4, <1>5 DEF UnionNeverPermitsLess
<1> QED
  BY <1>1, <1>2, <1>6

LEMMA FinishInv == ASSUME Inv, Finish PROVE Inv'
<1>1. /\ pc = "fold" /\ pc' = "done" /\ folded = Len(normalized)
      /\ UNCHANGED <<arity, args, normalized, folded, failedAt>>
  BY FoldedAll
<1>2. Strategy \in {"intersect", "union"}
  BY CallsAssumption
<1>3. WellFormed(result')
  BY SettledIntersection, SettledUnion
<1>4. TypeOK' /\ PhasesOK' /\ ProfilesWellFormed'
  BY <1>1, <1>3 DEF Inv, TypeOK, PhasesOK, ProfilesWellFormed, WellFormed, Inputs
<1>5. IntersectNeverPermitsMore'
  BY SettledIntersection DEF IntersectNeverPermitsMore
<1>6. UnionNeverPermitsLess'
  BY <1>2, SettledUnion DEF UnionNeverPermitsLess
<1> QED
  BY <1>1, <1>4, <1>5, <1>6 DEF Inv, FoldIsExact, FoldDenies

LEMMA StutterInv == ASSUME Inv, UNCHANGED vars PROVE Inv'
<1> USE DEF vars
<1>1. TypeOK' /\ PhasesOK' /\ ProfilesWellFormed'
  BY DEF Inv, TypeOK, PhasesOK, ProfilesWellFormed, Inputs
<1>2. FoldIsExact'
  BY DEF Inv, FoldIsExact, FoldedInputs, Combined, PermitsFS, PermitsNet, PermitsScope,
         Granted, DeniedByDefault
<1>5. FoldDenies'
  BY DEF Inv, FoldDenies, FoldedInputs, DeniedByDefault
<1>3. IntersectNeverPermitsMore'
  BY DEF Inv, IntersectNeverPermitsMore, Inputs, PermitsFS, Granted, DeniedByDefault
<1>4. UnionNeverPermitsLess'
  BY DEF Inv, UnionNeverPermitsLess, StoppedHandling, Inputs, PermitsFS, Granted,
         DeniedByDefault
<1> QED
  BY <1>1, <1>2, <1>3, <1>4, <1>5 DEF Inv

LEMMA NextInv == Inv /\ [Next]_vars => Inv'
<1> SUFFICES ASSUME Inv, [Next]_vars PROVE Inv'
  OBVIOUS
<1>1. CASE \E profile \in Profiles[arity] : AcceptInput(profile)
  BY <1>1, AcceptInputInv
<1>2. CASE \E profile \in Profiles[arity] : RejectInput(profile)
  BY <1>2, RejectInv
<1>3. CASE RejectEmptyCall
  BY <1>3, RejectInv
<1>4. CASE FoldFirst
  BY <1>4, FoldFirstInv
<1>5. CASE FoldNext
  BY <1>5, FoldNextInv
<1>6. CASE Finish
  BY <1>6, FinishInv
<1>7. CASE Returned \/ UNCHANGED vars
  BY <1>7, StutterInv DEF Returned
<1> QED
  BY <1>1, <1>2, <1>3, <1>4, <1>5, <1>6, <1>7 DEF Next

LEMMA Invariance == Spec => []Inv
  BY InitInv, NextInv, PTL DEF Spec

-----------------------------------------------------------------------------
(* Theorems *)

\* The variables keep their types: every profile the merge builds has a rule
\* map on every path and port, over known rights.
THEOREM TypeCorrect == Spec => []TypeOK
<1>1. Inv => TypeOK
  BY DEF Inv
<1> QED
  BY <1>1, Invariance, PTL

\* After every step of the fold the profile being built permits exactly what
\* all (intersect) or any (union) of the inputs folded so far permit.
THEOREM FoldExact == Spec => []FoldIsExact
<1>1. Inv => FoldIsExact
  BY DEF Inv
<1> QED
  BY <1>1, Invariance, PTL

\* landlock.Intersect permits no access an input denies, and loses nothing but
\* refer.
THEOREM IntersectionIsTight == Spec => []IntersectNeverPermitsMore
<1>1. Inv => IntersectNeverPermitsMore
  BY DEF Inv
<1> QED
  BY <1>1, Invariance, PTL

\* landlock.Union permits what an input permits, and beyond that only rights it
\* stopped handling, never refer.
THEOREM UnionKeepsAccess == Spec => []UnionNeverPermitsLess
<1>1. Inv => UnionNeverPermitsLess
  BY DEF Inv
<1> QED
  BY <1>1, Invariance, PTL


-----------------------------------------------------------------------------
(* The parent that rules are given for *)
\* Of the paths strictly above a path, all others lie above the deepest.
LEMMA NearestAbove ==
  ASSUME NEW path \in Path, NEW some \in Path, Covers(some, path), some # path
  PROVE  \E q \in Path : /\ Covers(q, path) /\ q # path
                        /\ \A p \in Path : Covers(p, path) /\ p # path => Covers(p, q)
<1> DEFINE upper == {p \in Path : Covers(p, path) /\ p # path}
           depths == {Len(p.names) : p \in upper}
<1>1. \A p \in Path : Len(p.names) \in Nat
  BY PathAssumption
<1>2. \A p \in upper : Len(p.names) < Len(path.names)
  BY CoversShorter
<1>3. depths \in SUBSET (0..Len(path.names)) /\ depths # {} /\ Len(path.names) \in Nat
  <2>1. some \in upper
    OBVIOUS
  <2>2. \A p \in upper : Len(p.names) \in 0..Len(path.names)
    BY <1>1, <1>2
  <2>3. depths # {}
    BY <2>1
  <2> HIDE DEF upper
  <2> QED
    BY <1>1, <2>2, <2>3
<1>4. PICK m \in depths : \A k \in depths : k <= m
  <2> HIDE DEF depths, upper
  <2> QED
    BY <1>3, GreatestNatural
<1>5. PICK q \in upper : Len(q.names) = m
  BY <1>4
<1>6. ASSUME NEW p \in Path, Covers(p, path), p # path PROVE Covers(p, q)
  <2>1. Len(p.names) <= Len(q.names)
    BY <1>4, <1>5, <1>6
  <2>2. Covers(p, q) \/ Covers(q, p)
    BY <1>5, <1>6, CoversChain
  <2>3. CASE Covers(q, p) /\ p # q
    <3>1. Len(q.names) < Len(p.names)
      BY <1>5, <2>3, CoversShorter
    <3> QED
      BY <1>1, <1>5, <2>1, <3>1
  <2>4. CASE p = q
    BY <2>4, CoversReflexive
  <2> QED
    BY <2>2, <2>3, <2>4
<1> QED
  BY <1>5, <1>6

-----------------------------------------------------------------------------
(* Where the rules of a result come from *)

\* The result has rules only where some input has one.
KeysOfInputs(profile, inputs) ==
  \A path \in Path : profile.pathRules[path] # {} =>
    \E i \in DOMAIN inputs : inputs[i].pathRules[path] # {}

LEMMA FoldKeys ==
  ASSUME NEW l, NEW r, WellFormed(l), WellFormed(r), NEW path \in Path,
         MergeTwo(l, r).pathRules[path] # {}
  PROVE  l.pathRules[path] # {} \/ r.pathRules[path] # {}
<1>1. CASE Strategy = "intersect"
  BY <1>1, IntersectTwoRules DEF MergeTwo
<1>2. CASE Strategy # "intersect"
  BY <1>2, UnionTwoRules DEF MergeTwo
<1> QED
  BY <1>1, <1>2

LEMMA SettledKeys ==
  ASSUME NEW p, WellFormed(p),
         NEW inputs, \A i \in DOMAIN inputs : WellFormed(inputs[i]), NEW path \in Path
  PROVE  Settled(p, inputs).pathRules[path] \subseteq p.pathRules[path]
<1>1. CASE Strategy = "intersect"
  BY <1>1, FinishIntersectFacts DEF Settled
<1>2. CASE Strategy # "intersect"
  BY <1>2, FinishUnionFacts DEF Settled
<1> QED
  BY <1>1, <1>2

LEMMA DropUnsafeReferCases ==
  ASSUME NEW rules, NEW inputs
  PROVE  \/ DropUnsafeRefer(rules, inputs) = rules
         \/ \E unsafe : DropUnsafeRefer(rules, inputs) = StripRefer(rules, unsafe, inputs)
  BY DEF DropUnsafeRefer

LEMMA StrippedRefer ==
  ASSUME NEW rules, NEW unsafe, NEW inputs, NEW path \in Path,
         path \notin ReferRulePaths(inputs)
  PROVE  Refer \notin StripRefer(rules, unsafe, inputs)[path]
  BY DEF StripRefer

\* Settling an intersection keeps refer only where an input's own rule grants
\* it: what rules merely inherited is stripped when any refer is unsafe, and
\* else granted by a rule above, which minimizing keeps instead.
LEMMA SettledRefer ==
  ASSUME Inv, Finish, Strategy = "intersect", NEW path \in Path,
         Refer \in FinishIntersect(result, normalized).pathRules[path]
  PROVE  \E i \in Inputs : Refer \in normalized[i].pathRules[path]
<1> DEFINE dropped == DropUnsafeRefer(result.pathRules, normalized)
<1>1. /\ WellFormed(result) /\ \A i \in Inputs : WellFormed(normalized[i])
      /\ FoldedInputs = Inputs /\ pc = "fold"
      /\ \A p \in Path, right \in FSRight :
           PermitsFS(result, p, right) <=>
             \A i \in Inputs : PermitsFS(normalized[i], p, right)
  BY FoldedAll DEF Inputs
<1>2. result.pathRules \in [Path -> SUBSET FSRight] /\ Refer \in FSRight
  BY <1>1, RightsAssumption DEF WellFormed, NormalProfile
<1>3. /\ Refer \in dropped[path]
      /\ \A p \in StrictlyAbove[path] : Refer \notin dropped[p]
  BY <1>2 DEF FinishIntersect, MinimizePathRules
<1>4. dropped[path] \subseteq result.pathRules[path]
  BY <1>2, DropUnsafeReferRules
<1>5. SUFFICES ASSUME \A i \in Inputs : Refer \notin normalized[i].pathRules[path]
               PROVE  FALSE
  OBVIOUS
<1>6. path \notin ReferRulePaths(normalized)
  BY <1>5 DEF ReferRulePaths, Inputs
<1>7. dropped = result.pathRules
  <2>1. CASE \E unsafe : dropped = StripRefer(result.pathRules, unsafe, normalized)
    <3>1. PICK unsafe : dropped = StripRefer(result.pathRules, unsafe, normalized)
      BY <2>1
    <3> QED
      BY <1>3, <1>6, <3>1, StrippedRefer
  <2> QED
    BY <2>1, DropUnsafeReferCases
<1> HIDE DEF dropped
<1>8. Refer \in DeniedByDefault(result)
  BY <1>1, <1>3, <1>4 DEF WellFormed, DeniedByDefault
\* Every input that denies refer grants it above the path.
<1>9. ASSUME NEW i \in Inputs, Refer \in DeniedByDefault(normalized[i])
       PROVE  \E p \in Path : /\ Covers(p, path) /\ p # path
                             /\ Refer \in normalized[i].pathRules[p]
  <2>1. Refer \in Granted(result, path)
    BY <1>1, <1>3, <1>4, GrantedFacts, CoversReflexive
  <2>2. PermitsFS(normalized[i], path, Refer)
    BY <1>1, <1>2, <2>1 DEF PermitsFS
  <2>3. Refer \in Granted(normalized[i], path)
    BY <1>9, <2>2 DEF PermitsFS
  <2> QED
    BY <1>1, <1>5, <2>3, GrantedFacts
<1>10. PICK i \in Inputs : Refer \in DeniedByDefault(normalized[i])
  BY <1>1, <1>2, <1>8 DEF Inv, FoldDenies
<1>11. PICK q \in Path : /\ Covers(q, path) /\ q # path
                         /\ \A p \in Path : Covers(p, path) /\ p # path => Covers(p, q)
  BY <1>9, <1>10, NearestAbove
<1>12. \A j \in Inputs : PermitsFS(normalized[j], q, Refer)
  BY <1>1, <1>9, <1>11, GrantedFacts DEF PermitsFS
<1>13. Refer \in Granted(result, q)
  BY <1>1, <1>2, <1>8, <1>12 DEF PermitsFS
<1>14. PICK p \in Path : Covers(p, q) /\ Refer \in result.pathRules[p]
  BY <1>1, <1>13, GrantedFacts
<1>15. Covers(p, path) /\ p # path
  <2>1. Len(p.names) <= Len(q.names) /\ Len(q.names) < Len(path.names)
    BY <1>11, <1>14, CoversShorter DEF Covers
  <2>2. Len(p.names) \in Nat /\ Len(q.names) \in Nat /\ Len(path.names) \in Nat
    BY PathAssumption
  <2>3. p # path
    BY <2>1, <2>2
  <2> QED
    BY <1>11, <1>14, <2>3, CoversTransitive
<1> QED
  BY <1>3, <1>7, <1>14, <1>15, AboveFacts DEF StrictlyAbove

-----------------------------------------------------------------------------
(* The inductive invariant *)

\* The inputs are the canonical forms of the arguments, valid ones of the call.
FromArgs ==
  /\ Len(normalized) <= Len(args)
  /\ \A i \in Inputs :
       /\ normalized[i] = PruneUnhandledRights(NormalizeProfile(args[i]))
       /\ ValidProfile(args[i]) /\ args[i] \in Passed

ResultKeys ==
  pc \in {"fold", "done"} => KeysOfInputs(result, normalized)

ReferOnOwnRules ==
  pc = "done" /\ Strategy = "intersect" =>
    \A path \in Path : Refer \in result.pathRules[path] =>
      \E i \in Inputs : Refer \in normalized[i].pathRules[path]

ResultInv == FromArgs /\ ResultKeys /\ ReferOnOwnRules

LEMMA InitResultInv == Init => ResultInv
  BY DEF Init, ResultInv, FromArgs, ResultKeys, ReferOnOwnRules, Inputs

LEMMA AcceptInputFromArgs ==
  ASSUME Inv, FromArgs, NEW profile \in Profiles[arity], AcceptInput(profile)
  PROVE  FromArgs'
<1> DEFINE n == PruneUnhandledRights(NormalizeProfile(profile))
<1>1. /\ args' = Append(args, profile) /\ normalized' = Append(normalized, n)
      /\ pc = "validate"
  BY DEF AcceptInput
<1>2. n \in NormalProfile
  BY NormalizeWellFormed DEF AcceptInput, WellFormed
<1> HIDE DEF n
<1>3. /\ args \in Seq(Passed) /\ normalized \in Seq(NormalProfile)
      /\ Len(normalized) = Len(args)
  BY <1>1 DEF Inv, TypeOK, PhasesOK
<1>4. ASSUME NEW i \in DOMAIN normalized'
      PROVE  /\ normalized'[i] = PruneUnhandledRights(NormalizeProfile(args'[i]))
             /\ ValidProfile(args'[i]) /\ args'[i] \in Passed
  <2>1. CASE i \in DOMAIN normalized
    <3>1. normalized'[i] = normalized[i] /\ args'[i] = args[i]
      BY <1>1, <1>2, <1>3, <2>1
    <3> QED
      BY <2>1, <3>1 DEF FromArgs, Inputs
  <2>2. CASE i \notin DOMAIN normalized
    <3>1. normalized'[i] = n /\ args'[i] = profile
      BY <1>1, <1>2, <1>3, <2>2
    <3> QED
      BY <3>1 DEF n, AcceptInput, Inv, TypeOK, Passed
  <2> QED
    BY <2>1, <2>2
<1>5. Len(normalized') <= Len(args')
  BY <1>1, <1>2, <1>3
<1> QED
  BY <1>4, <1>5 DEF FromArgs, Inputs

LEMMA RejectFromArgs ==
  ASSUME Inv, FromArgs,
         RejectEmptyCall \/ \E profile \in Profiles[arity] : RejectInput(profile)
  PROVE  FromArgs'
<1>1. args \in Seq(Passed) /\ normalized \in Seq(NormalProfile)
  BY DEF Inv, TypeOK, PhasesOK
<1>2. CASE RejectEmptyCall
  BY <1>2 DEF RejectEmptyCall, FromArgs, Inputs
<1>3. CASE \E profile \in Profiles[arity] : RejectInput(profile)
  <2>1. PICK profile \in Profiles[arity] : RejectInput(profile)
    BY <1>3
  <2>2. args' = Append(args, profile) /\ normalized' = normalized
    BY <2>1 DEF RejectInput
  <2>3. /\ Len(args') = Len(args) + 1
        /\ \A i \in DOMAIN normalized : args'[i] = args[i]
    BY <1>1, <2>2 DEF FromArgs
  <2>4. Len(normalized) <= Len(args')
    BY <1>1, <2>3 DEF FromArgs
  <2> QED
    BY <2>2, <2>3, <2>4 DEF FromArgs, Inputs
<1> QED
  BY <1>2, <1>3

LEMMA FoldResultKeys ==
  ASSUME Inv, ResultKeys, FoldFirst \/ FoldNext PROVE ResultKeys'
<1>1. CASE FoldFirst
  <2>1. result' = normalized[1] /\ normalized' = normalized /\ 1 \in DOMAIN normalized
    BY <1>1, CallsAssumption DEF FoldFirst, Inv, TypeOK, PhasesOK
  <2> QED
    BY <2>1 DEF ResultKeys, KeysOfInputs
<1>2. CASE FoldNext
  <2> DEFINE next == normalized[folded + 1]
  <2>1. /\ pc = "fold" /\ result' = MergeTwo(result, next) /\ normalized' = normalized
        /\ folded + 1 \in DOMAIN normalized
    BY <1>2 DEF FoldNext, Inv, TypeOK
  <2>2. WellFormed(result) /\ WellFormed(next)
    BY <2>1 DEF Inv, ProfilesWellFormed, Inputs
  <2>3. \A path \in Path : result'.pathRules[path] # {} =>
          result.pathRules[path] # {} \/ next.pathRules[path] # {}
    <3> HIDE DEF next
    <3> QED
      BY <2>1, <2>2, FoldKeys
  <2> QED
    BY <2>1, <2>3 DEF ResultKeys, KeysOfInputs
<1> QED
  BY <1>1, <1>2

LEMMA FinishResultInv ==
  ASSUME Inv, ResultInv, Finish PROVE ResultInv'
<1>1. /\ result' = Settled(result, normalized) /\ normalized' = normalized
      /\ args' = args /\ pc = "fold" /\ WellFormed(result)
      /\ \A i \in DOMAIN normalized : WellFormed(normalized[i])
  BY FoldedAll
<1>2. FromArgs'
  BY <1>1 DEF ResultInv, FromArgs, Inputs
<1>3. ResultKeys'
  <2>1. \A path \in Path : result'.pathRules[path] \subseteq result.pathRules[path]
    BY <1>1, SettledKeys
  <2> QED
    BY <1>1, <2>1 DEF ResultInv, ResultKeys, KeysOfInputs
<1>4. ReferOnOwnRules'
  <2>1. ASSUME Strategy = "intersect", NEW path \in Path, Refer \in result'.pathRules[path]
        PROVE  \E i \in Inputs : Refer \in normalized[i].pathRules[path]
    <3>1. result' = FinishIntersect(result, normalized)
      BY <1>1, <2>1 DEF Settled
    <3> QED
      BY <2>1, <3>1, SettledRefer
  <2> QED
    BY <1>1, <2>1 DEF ReferOnOwnRules, Inputs
<1> QED
  BY <1>2, <1>3, <1>4 DEF ResultInv

LEMMA NextResultInv == Inv /\ ResultInv /\ [Next]_vars => ResultInv'
<1> SUFFICES ASSUME Inv, ResultInv, [Next]_vars PROVE ResultInv'
  OBVIOUS
<1> USE DEF ResultInv
<1>1. ASSUME NEW profile \in Profiles[arity], AcceptInput(profile) PROVE ResultInv'
  <2>1. pc' = "validate"
    BY <1>1 DEF AcceptInput
  <2> QED
    BY <1>1, <2>1, AcceptInputFromArgs DEF ResultKeys, ReferOnOwnRules
<1>2. CASE RejectEmptyCall \/ \E profile \in Profiles[arity] : RejectInput(profile)
  <2>1. pc' = "failed"
    BY <1>2 DEF RejectEmptyCall, RejectInput
  <2> QED
    BY <1>2, <2>1, RejectFromArgs DEF ResultKeys, ReferOnOwnRules
<1>3. CASE FoldFirst \/ FoldNext
  <2>1. pc' = "fold" /\ args' = args /\ normalized' = normalized
    BY <1>3 DEF FoldFirst, FoldNext
  <2>2. FromArgs' /\ ReferOnOwnRules'
    BY <2>1 DEF FromArgs, ReferOnOwnRules, Inputs
  <2> QED
    BY <1>3, <2>2, FoldResultKeys
<1>4. CASE Finish
  BY <1>4, FinishResultInv
<1>5. CASE Returned \/ UNCHANGED vars
  BY <1>5 DEF Returned, vars, FromArgs, ResultKeys, KeysOfInputs, ReferOnOwnRules, Inputs
<1> QED
  BY <1>1, <1>2, <1>3, <1>4, <1>5 DEF Next

LEMMA ResultInvariance == Spec => [](Inv /\ ResultInv)
  BY Invariance, InitResultInv, NextResultInv, PTL DEF Spec

-----------------------------------------------------------------------------
(* Theorems *)

\* A rule that LoweredRulePaths does not report grants rights which every
\* input that handles them grants on the same path: the intersection permits
\* the right there, so the input grants it there or above, and what it grants
\* above only is what is reported.
THEOREM ReportIsComplete == Spec => []UnreportedRulesSurviveSymlinks
<1>1. ASSUME Inv, FromArgs, pc = "done", Strategy = "intersect",
             NEW path \in Path,
             path \notin LoweredRulePaths(result, [i \in Inputs |-> NormalizeProfile(args[i])]),
             NEW right \in result.pathRules[path], NEW i \in Inputs,
             right \in DeniedByDefault(normalized[i])
      PROVE  right \in normalized[i].pathRules[path]
  <2> DEFINE written == NormalizeProfile(args[i])
             own == normalized[i]
  <2>1. /\ WellFormed(result) /\ WellFormed(own)
        /\ result.pathRules \in [Path -> SUBSET FSRight]
    BY <1>1 DEF Inv, ProfilesWellFormed, WellFormed, NormalProfile
  <2>2. right \in Granted(own, path)
    <3>1. right \in Granted(result, path) /\ right \in FSRight
      BY <1>1, <2>1, GrantedFacts, CoversReflexive
    <3>2. PermitsFS(own, path, right)
      BY <1>1, <3>1 DEF Inv, IntersectNeverPermitsMore, PermitsFS
    <3> QED
      BY <1>1, <3>2 DEF PermitsFS
  <2>3. PICK upper \in Path : Covers(upper, path) /\ right \in own.pathRules[upper]
    BY <2>1, <2>2, GrantedFacts
  <2>4. /\ own = PruneUnhandledRights(written)
        /\ right \in own.handledFS
    BY <1>1, <2>1, <2>3 DEF FromArgs, WellFormed
  <2>5. /\ DOMAIN written.pathRules = Path
        /\ own.handledFS = written.handledFS
        /\ \A p \in Path : own.pathRules[p] = written.pathRules[p] \cap written.handledFS
    BY <2>4 DEF PruneUnhandledRights, PruneRules, NormalizeProfile
  <2>6. path \in RuleKeys(result.pathRules)
    BY <1>1, <2>1 DEF RuleKeys
  <2>7. ~LoweredAt(path, result.pathRules[path], written)
    BY <1>1, <2>6 DEF LoweredRulePaths
  <2>8. CASE upper # path
    <3>1. upper \in StrictlyAbove[path]
      BY <2>3, <2>8, AboveFacts DEF StrictlyAbove
    <3>2. right \in written.pathRules[upper]
      BY <2>3, <2>5
    <3>3. right \in written.pathRules[path]
      BY <1>1, <2>7, <3>1, <3>2 DEF LoweredAt
    <3> QED
      BY <2>4, <2>5, <3>3
  <2> QED
    BY <2>3, <2>8
<1>2. Inv /\ ResultInv => UnreportedRulesSurviveSymlinks
  <2> SUFFICES ASSUME Inv, ResultInv, pc = "done", Strategy = "intersect"
               PROVE  UnreportedRulesSurviveSymlinks
    BY DEF UnreportedRulesSurviveSymlinks
  <2>1. DOMAIN result.pathRules = Path
    BY DEF Inv, ProfilesWellFormed, WellFormed, NormalProfile
  <2> QED
    BY <1>1, <2>1 DEF UnreportedRulesSurviveSymlinks, ResultInv, RuleKeys
<1> QED
  BY <1>2, ResultInvariance, PTL

\* The result of a merge loads wherever its inputs use absolute paths, it
\* restricts something and is not too large; and an intersection grants refer
\* by no rule on a path where no input does.
THEOREM ResultLoads == Spec => []ResultIsLoadable
<1>1. ASSUME Inv, ResultInv, pc = "done" PROVE ResultIsLoadable
  <2>1. /\ WellFormed(result) /\ \A i \in Inputs : WellFormed(normalized[i])
        /\ DOMAIN result.pathRules = Path /\ DOMAIN result.netRules = Port
        /\ \A i \in Inputs : DOMAIN normalized[i].pathRules = Path
    BY <1>1 DEF Inv, ProfilesWellFormed, WellFormed, NormalProfile
  <2>2. ASSUME \A i \in Inputs : \A path \in RuleKeys(normalized[i].pathRules) : path.rooted,
               NEW path \in RuleKeys(result.pathRules)
        PROVE  path.rooted /\ result.pathRules[path] \subseteq result.handledFS
    <3>1. path \in Path /\ result.pathRules[path] # {}
      BY <2>1, <2>2 DEF RuleKeys
    <3>2. PICK i \in Inputs : normalized[i].pathRules[path] # {}
      BY <1>1, <3>1 DEF ResultInv, ResultKeys, KeysOfInputs, Inputs
    <3> QED
      BY <2>1, <2>2, <3>1, <3>2 DEF RuleKeys, WellFormed
  <2>3. \A port \in RuleKeys(result.netRules) :
          result.netRules[port] \subseteq result.handledNet
    BY <2>1 DEF RuleKeys, WellFormed
  <2>4. ASSUME Strategy = "intersect", NEW path \in RuleKeys(result.pathRules),
               Refer \in result.pathRules[path]
        PROVE  \E i \in Inputs : Refer \in normalized[i].pathRules[path]
    BY <1>1, <2>1, <2>4 DEF ResultInv, ReferOnOwnRules, RuleKeys
  <2>5. ASSUME /\ \A i \in Inputs : \A path \in RuleKeys(normalized[i].pathRules) : path.rooted
               /\ result.handledFS \cup result.handledNet \cup result.scoped # {}
               /\ FewEnoughRules(result)
        PROVE  Loadable(result)
    BY <2>2, <2>3, <2>5 DEF Loadable
  <2> QED
    BY <2>4, <2>5 DEF ResultIsLoadable
<1>2. Inv /\ ResultInv => ResultIsLoadable
  BY <1>1 DEF ResultIsLoadable
<1> QED
  BY <1>2, ResultInvariance, PTL

-----------------------------------------------------------------------------
(* The merge implements the combination of layers *)

LayersOf(profiles) == [i \in DOMAIN profiles |-> AnswerOf(profiles[i])]

LEMMA AnswerOfType == ASSUME NEW p PROVE AnswerOf(p) \in Layers!Answer
  BY DEF AnswerOf, Layers!Answer

\* The layers are a sequence as long as the accepted inputs.
LEMMA LayersOfFacts ==
  ASSUME NEW profiles \in Seq(NormalProfile)
  PROVE  /\ LayersOf(profiles) \in Seq(Layers!Answer)
         /\ Len(LayersOf(profiles)) = Len(profiles)
         /\ DOMAIN LayersOf(profiles) = 1..Len(profiles)
         /\ \A i \in 1..Len(profiles) : LayersOf(profiles)[i] = AnswerOf(profiles[i])
<1>1. DOMAIN profiles = 1..Len(profiles) /\ Len(profiles) \in Nat
  OBVIOUS
<1>2. LayersOf(profiles) \in [1..Len(profiles) -> Layers!Answer]
  BY <1>1, AnswerOfType DEF LayersOf
<1>3. LayersOf(profiles) \in Seq(Layers!Answer) /\ Len(LayersOf(profiles)) = Len(profiles)
  BY <1>1, <1>2
<1> QED
  BY <1>1, <1>3 DEF LayersOf

\* The mapped state, spelled out.
LEMMA Mapping ==
  /\ [i \in Inputs |-> AnswerOf(normalized[i])] = LayersOf(normalized)
  /\ [i \in Inputs |-> AnswerOf(normalized[i])]' = LayersOf(normalized')
  /\ AnswerOf(result)' = AnswerOf(result')
  /\ PhaseOf[pc]' = PhaseOf[pc']
<1>1. [i \in Inputs |-> AnswerOf(normalized[i])] = LayersOf(normalized)
  BY DEF LayersOf, Inputs
<1>2. [i \in Inputs |-> AnswerOf(normalized[i])]' = LayersOf(normalized')
  BY DEF LayersOf, Inputs, AnswerOf, PermitsFS, PermitsNet, PermitsScope, Granted,
         DeniedByDefault
<1>3. AnswerOf(result)' = AnswerOf(result')
  BY DEF AnswerOf, PermitsFS, PermitsNet, PermitsScope, Granted, DeniedByDefault
<1>4. PhaseOf[pc]' = PhaseOf[pc']
  BY DEF PhaseOf
<1> QED
  BY <1>1, <1>2, <1>3, <1>4

-----------------------------------------------------------------------------
(* The steps *)

LEMMA RefinesInit == Init => Layers!Init
<1> SUFFICES ASSUME Init PROVE Layers!Init
  OBVIOUS
<1>1. PhaseOf[pc] = "reading" /\ normalized = <<>> /\ folded = 0
  BY DEF Init, PhaseOf
<1>2. LayersOf(normalized) = <<>>
  <2>1. normalized \in Seq(NormalProfile) /\ Len(normalized) = 0
    BY <1>1
  <2>2. /\ LayersOf(normalized) \in Seq(Layers!Answer)
        /\ Len(LayersOf(normalized)) = 0
    BY <2>1, LayersOfFacts
  <2> QED
    BY <2>2, EmptySeq
<1>3. AnswerOf(result) \in Layers!Answer
  BY AnswerOfType
<1> QED
  BY <1>1, <1>2, <1>3, Mapping DEF Layers!Init

LEMMA RefinesAccept ==
  ASSUME Inv, Inv', NEW profile \in Profiles[arity], AcceptInput(profile)
  PROVE  Layers!ReadLayer
<1>1. /\ pc = "validate" /\ pc' = pc /\ folded' = folded /\ result' = result
      /\ normalized' = Append(normalized, PruneUnhandledRights(NormalizeProfile(profile)))
  BY DEF AcceptInput
<1>2. normalized \in Seq(NormalProfile) /\ normalized' \in Seq(NormalProfile)
  BY DEF Inv, TypeOK
<1>3. /\ Len(normalized') = Len(normalized) + 1
      /\ \A i \in 1..Len(normalized) : normalized'[i] = normalized[i] /\ i \in 1..Len(normalized')
  BY <1>1, <1>2
<1>4. /\ LayersOf(normalized') \in Seq(Layers!Answer)
      /\ Len(LayersOf(normalized')) = Len(LayersOf(normalized)) + 1
      /\ \A i \in DOMAIN LayersOf(normalized) : LayersOf(normalized')[i] = LayersOf(normalized)[i]
  BY <1>2, <1>3, LayersOfFacts
<1>5. PhaseOf[pc] = "reading" /\ PhaseOf[pc'] = PhaseOf[pc]
  BY <1>1 DEF PhaseOf
<1>6. AnswerOf(result') = AnswerOf(result)
  BY <1>1
<1> QED
  BY <1>1, <1>4, <1>5, <1>6, Mapping DEF Layers!ReadLayer

LEMMA RefinesReject ==
  ASSUME RejectEmptyCall \/ \E profile \in Profiles[arity] : RejectInput(profile)
  PROVE  Layers!Refuse
<1>1. /\ pc = "validate" /\ pc' = "failed"
      /\ normalized' = normalized /\ folded' = folded /\ result' = result
  BY DEF RejectEmptyCall, RejectInput
<1>2. PhaseOf[pc] = "reading" /\ PhaseOf[pc'] = "refused"
  BY <1>1 DEF PhaseOf
<1> QED
  BY <1>1, <1>2, Mapping DEF Layers!Refuse

LEMMA RefinesFoldFirst ==
  ASSUME Inv, FoldFirst
  PROVE  Layers!CombineNext
<1>1. /\ pc = "validate" /\ pc' = "fold" /\ folded = 0 /\ folded' = 1
      /\ result' = normalized[1] /\ normalized' = normalized
      /\ normalized \in Seq(NormalProfile) /\ 0 < Len(normalized)
  BY CallsAssumption DEF FoldFirst, Inv, TypeOK, PhasesOK
<1>2. PhaseOf[pc] = "reading" /\ PhaseOf[pc'] = "combining"
  BY <1>1 DEF PhaseOf
<1>3. folded < Len(LayersOf(normalized)) /\ LayersOf(normalized)[1] = AnswerOf(normalized[1])
  BY <1>1, LayersOfFacts
<1> QED
  BY <1>1, <1>2, <1>3, Mapping DEF Layers!CombineNext

LEMMA MergedAnswer ==
  ASSUME NEW l, NEW r, WellFormed(l), WellFormed(r)
  PROVE  AnswerOf(MergeTwo(l, r)) = Layers!Combine(AnswerOf(l), AnswerOf(r))
<1> DEFINE x == AnswerOf(MergeTwo(l, r))
           a == AnswerOf(l)
           b == AnswerOf(r)
<1>1. /\ \A path \in Path, right \in FSRight : <<path, right>> \in x.fs <=>
           IF Strategy = "intersect" THEN <<path, right>> \in a.fs \cap b.fs
                                     ELSE <<path, right>> \in a.fs \cup b.fs
      /\ \A port \in Port, right \in NetRight : <<port, right>> \in x.net <=>
           IF Strategy = "intersect" THEN <<port, right>> \in a.net \cap b.net
                                     ELSE <<port, right>> \in a.net \cup b.net
      /\ \A right \in ScopeRight : right \in x.scope <=>
           IF Strategy = "intersect" THEN right \in a.scope \cap b.scope
                                     ELSE right \in a.scope \cup b.scope
  BY MergeTwoFacts DEF AnswerOf
<1>2. /\ x \in Layers!Answer /\ a \in Layers!Answer /\ b \in Layers!Answer
      /\ x = [fs |-> x.fs, net |-> x.net, scope |-> x.scope]
  BY AnswerOfType DEF AnswerOf
<1> HIDE DEF x, a, b
<1>3. x.fs = IF Strategy = "intersect" THEN a.fs \cap b.fs ELSE a.fs \cup b.fs
  BY <1>1, <1>2 DEF Layers!Answer
<1>4. x.net = IF Strategy = "intersect" THEN a.net \cap b.net ELSE a.net \cup b.net
  BY <1>1, <1>2 DEF Layers!Answer
<1>5. x.scope = IF Strategy = "intersect" THEN a.scope \cap b.scope
                                          ELSE a.scope \cup b.scope
  BY <1>1, <1>2 DEF Layers!Answer
<1>6. x = Layers!Combine(a, b)
  BY <1>2, <1>3, <1>4, <1>5 DEF Layers!Combine
<1> QED
  BY <1>6 DEF x, a, b

LEMMA RefinesFoldNext ==
  ASSUME Inv, FoldNext
  PROVE  Layers!CombineNext
<1>1. /\ pc = "fold" /\ pc' = "fold" /\ folded' = folded + 1 /\ folded + 1 \in Inputs
      /\ result' = MergeTwo(result, normalized[folded + 1]) /\ normalized' = normalized
      /\ normalized \in Seq(NormalProfile) /\ folded \in Nat /\ folded >= 1
      /\ folded < Len(normalized)
  BY DEF FoldNext, Inv, TypeOK, PhasesOK, Inputs
<1>2. WellFormed(result) /\ WellFormed(normalized[folded + 1])
  BY <1>1 DEF Inv, ProfilesWellFormed
<1>3. PhaseOf[pc] = "combining" /\ PhaseOf[pc'] = "combining"
  BY <1>1 DEF PhaseOf
<1>4. /\ folded < Len(LayersOf(normalized))
      /\ LayersOf(normalized)[folded + 1] = AnswerOf(normalized[folded + 1])
  BY <1>1, LayersOfFacts
<1>5. AnswerOf(result') = Layers!Combine(AnswerOf(result), AnswerOf(normalized[folded + 1]))
  BY <1>1, <1>2, MergedAnswer
<1>6. folded # 0
  BY <1>1
<1> QED
  BY <1>1, <1>3, <1>4, <1>5, <1>6, Mapping DEF Layers!CombineNext

\* Settling an intersection drops refer at most.
LEMMA SettledIntersectionAnswer ==
  ASSUME NEW p, WellFormed(p), NEW inputs, Strategy = "intersect"
  PROVE  Layers!SettledFrom(AnswerOf(p), AnswerOf(FinishIntersect(p, inputs)))
<1> DEFINE f == FinishIntersect(p, inputs)
           before == AnswerOf(p)
           after == AnswerOf(f)
<1>1. /\ f.handledFS = p.handledFS /\ f.handledNet = p.handledNet
      /\ f.scoped = p.scoped /\ f.netRules = p.netRules
      /\ \A path \in Path : /\ Granted(f, path) \subseteq Granted(p, path)
                            /\ Granted(p, path) \ {Refer} \subseteq Granted(f, path)
  BY FinishIntersectFacts
<1> HIDE DEF f
<1>2. after.net = before.net /\ after.scope = before.scope
  BY <1>1 DEF AnswerOf, PermitsNet, PermitsScope
<1>3. DeniedByDefault(f) = DeniedByDefault(p)
  BY <1>1 DEF DeniedByDefault
<1>4. ASSUME NEW path \in Path, NEW right \in FSRight
      PROVE  /\ <<path, right>> \in after.fs => <<path, right>> \in before.fs
             /\ <<path, right>> \in before.fs /\ right # Refer => <<path, right>> \in after.fs
  BY <1>1, <1>3 DEF AnswerOf, PermitsFS
<1>5. before.fs \subseteq Path \X FSRight /\ after.fs \subseteq Path \X FSRight
  BY DEF AnswerOf
<1> HIDE DEF before, after
<1>6. after.fs \subseteq before.fs
  BY <1>4, <1>5
<1>7. before.fs \ after.fs \subseteq Path \X {Refer}
  BY <1>4, <1>5
<1>8. Layers!SettledFrom(before, after)
  BY <1>2, <1>6, <1>7 DEF Layers!SettledFrom
<1> QED
  BY <1>8 DEF before, after, f

\* Settling a union frees whole rights, refer never among them.
LEMMA SettledUnionAnswer ==
  ASSUME Inv, Finish, Strategy # "intersect"
  PROVE  Layers!SettledFrom(AnswerOf(result), AnswerOf(FinishUnion(result, normalized)))
<1> DEFINE f == FinishUnion(result, normalized)
           before == AnswerOf(result)
           after == AnswerOf(f)
           freed == DeniedByDefault(result) \ DeniedByDefault(f)
<1>1. /\ WellFormed(result) /\ result' = f
      /\ \A i \in DOMAIN normalized : WellFormed(normalized[i])
  BY FoldedAll DEF Settled
<1>2. /\ WellFormed(f) /\ f.handledNet = result.handledNet
      /\ f.scoped = result.scoped /\ f.netRules = result.netRules
  BY <1>1, FinishUnionFacts
<1> HIDE DEF f
<1>3. after.net = before.net /\ after.scope = before.scope
  BY <1>2 DEF AnswerOf, PermitsNet, PermitsScope
<1>4. freed \in SUBSET (FSRight \ {Refer})
  <2>1. /\ Refer \notin StoppedHandling'
        /\ StoppedHandling' = freed
    BY <1>1, SettledUnionFreed DEF f
  <2>2. freed \subseteq FSRight
    BY <1>1, RightsAssumption DEF WellFormed, NormalProfile, DeniedByDefault
  <2> QED
    BY <2>1, <2>2
<1>5. ASSUME NEW path \in Path, NEW right \in FSRight
      PROVE  <<path, right>> \in after.fs <=> <<path, right>> \in before.fs \/ right \in freed
  BY <1>1, SettledUnionFreed DEF AnswerOf, f
<1>6. before.fs \subseteq Path \X FSRight /\ after.fs \subseteq Path \X FSRight
  BY DEF AnswerOf
<1> HIDE DEF before, after, freed
<1>7. after.fs = before.fs \cup (Path \X freed)
  BY <1>4, <1>5, <1>6
<1>8. Layers!SettledFrom(before, after)
  BY <1>3, <1>4, <1>7 DEF Layers!SettledFrom
<1> QED
  BY <1>8 DEF before, after, f

LEMMA RefinesFinish ==
  ASSUME Inv, Finish
  PROVE  Layers!Settle
<1>1. /\ pc = "fold" /\ pc' = "done" /\ result' = Settled(result, normalized)
      /\ folded = Len(normalized) /\ folded' = folded /\ normalized' = normalized
      /\ WellFormed(result) /\ normalized \in Seq(NormalProfile)
      /\ \A i \in DOMAIN normalized : WellFormed(normalized[i])
  BY FoldedAll DEF Inv, TypeOK
<1>2. PhaseOf[pc] = "combining" /\ PhaseOf[pc'] = "settled"
  BY <1>1 DEF PhaseOf
<1>3. folded = Len(LayersOf(normalized))
  BY <1>1, LayersOfFacts
<1>4. AnswerOf(result') \in Layers!Answer
  BY AnswerOfType
<1>5. Layers!SettledFrom(AnswerOf(result), AnswerOf(result'))
  <2>1. CASE Strategy = "intersect"
    BY <1>1, <2>1, SettledIntersectionAnswer DEF Settled
  <2>2. CASE Strategy # "intersect"
    BY <1>1, <2>2, SettledUnionAnswer DEF Settled
  <2> QED
    BY <2>1, <2>2
<1> QED
  BY <1>1, <1>2, <1>3, <1>4, <1>5, Mapping DEF Layers!Settle

\* A step that changes none of the variables changes no layer.
LEMMA RefinesStutter ==
  ASSUME UNCHANGED vars
  PROVE  UNCHANGED Layers!vars
<1>1. pc' = pc /\ normalized' = normalized /\ folded' = folded /\ result' = result
  BY DEF vars
<1> QED
  BY <1>1, Mapping DEF Layers!vars

LEMMA RefinesNext ==
  ASSUME Inv, Inv', [Next]_vars
  PROVE  [Layers!Next]_(Layers!vars)
<1>1. CASE \E profile \in Profiles[arity] : AcceptInput(profile)
  BY <1>1, RefinesAccept DEF Layers!Next
<1>2. CASE RejectEmptyCall \/ \E profile \in Profiles[arity] : RejectInput(profile)
  BY <1>2, RefinesReject DEF Layers!Next
<1>3. CASE FoldFirst
  BY <1>3, RefinesFoldFirst DEF Layers!Next
<1>4. CASE FoldNext
  BY <1>4, RefinesFoldNext DEF Layers!Next
<1>5. CASE Finish
  BY <1>5, RefinesFinish DEF Layers!Next
<1>6. CASE Returned \/ UNCHANGED vars
  BY <1>6, RefinesStutter DEF Returned
<1> QED
  BY <1>1, <1>2, <1>3, <1>4, <1>5, <1>6 DEF Next

\* Whatever Intersect or Union is called with, the call behaves as the
\* combination of layers: foldProfiles permits after every pairwise merge what
\* the inputs folded so far permit together, and its settlement drops refer
\* from an intersection, or frees whole rights in a union, and nothing else.
THEOREM ImplementsLayers == Spec => MergesLayers
<1>1. Init => Layers!Init
  BY RefinesInit
<1>2. Inv /\ Inv' /\ [Next]_vars => [Layers!Next]_(Layers!vars)
  BY RefinesNext
<1>3. Spec => []Inv
  BY Invariance
<1> QED
  BY <1>1, <1>2, <1>3, PTL DEF Spec, MergesLayers, Layers!Spec

-----------------------------------------------------------------------------
(* What a fold comes to, whatever its order *)

LEMMA CoversBothWays ==
  ASSUME NEW p \in Path, NEW q \in Path, Covers(p, q), Covers(q, p)
  PROVE  p = q
<1>1. /\ p = [rooted |-> p.rooted, names |-> p.names] /\ p.names \in Seq(STRING)
      /\ q = [rooted |-> q.rooted, names |-> q.names] /\ q.names \in Seq(STRING)
  BY PathAssumption
<1>2. /\ p.rooted = q.rooted /\ Len(p.names) = Len(q.names)
      /\ \A i \in 1..Len(p.names) : p.names[i] = q.names[i]
  BY <1>1 DEF Covers
<1>3. p.names = q.names
  BY <1>1, <1>2, SeqEqual
<1>4. QED
  BY <1>1, <1>2, <1>3

\* The profiles of some set, intersected in any order and any grouping.
IntersectionOf(x, inputs) ==
  /\ WellFormed(x)
  /\ x.handledFS = UNION {p.handledFS : p \in inputs}
  /\ x.handledNet = UNION {p.handledNet : p \in inputs}
  /\ x.scoped = UNION {p.scoped : p \in inputs}
  /\ \A path \in Path, right \in FSRight :
       PermitsFS(x, path, right) <=> \A p \in inputs : PermitsFS(p, path, right)
  /\ \A port \in Port, right \in NetRight :
       PermitsNet(x, port, right) <=> \A p \in inputs : PermitsNet(p, port, right)
  /\ \A path \in Path :
       Refer \in Granted(x, path) /\ (\E p \in inputs : Refer \in p.pathRules[path]) =>
         Refer \in x.pathRules[path]

LEMMA IntersectionOfOne ==
  ASSUME NEW x, WellFormed(x)
  PROVE  IntersectionOf(x, {x})
  BY DEF IntersectionOf

\* What a profile grants, from what it permits and denies by default.
LEMMA GrantedIs ==
  ASSUME NEW x, WellFormed(x), NEW path \in Path
  PROVE  \A right : right \in Granted(x, path) <=>
           /\ right \in FSRight /\ right \in DeniedByDefault(x) /\ PermitsFS(x, path, right)
<1>1. Granted(x, path) \subseteq x.handledFS /\ x.handledFS \subseteq FSRight
  BY GrantedFacts DEF WellFormed, NormalProfile
<1>2. x.handledFS \subseteq DeniedByDefault(x)
  BY DEF DeniedByDefault
<1>3. QED
  BY <1>1, <1>2 DEF PermitsFS

LEMMA IntersectionOfBoth ==
  ASSUME NEW l, NEW r, NEW P, NEW Q, IntersectionOf(l, P), IntersectionOf(r, Q),
         \A p \in P \cup Q : WellFormed(p)
  PROVE  IntersectionOf(IntersectTwo(l, r), P \cup Q)
<1> DEFINE x == IntersectTwo(l, r)
<1>1. WellFormed(l) /\ WellFormed(r)
  BY DEF IntersectionOf
<1>2. /\ WellFormed(x)
      /\ x.handledFS = l.handledFS \cup r.handledFS
      /\ x.handledNet = l.handledNet \cup r.handledNet
      /\ x.scoped = l.scoped \cup r.scoped
      /\ \A path \in Path : \A right :
           right \in x.pathRules[path] <=>
             /\ l.pathRules[path] \cup r.pathRules[path] # {}
             /\ right \in Granted(l, path) \cup Granted(r, path)
             /\ right \in EffectiveHandledFS(l.handledFS) => right \in Granted(l, path)
             /\ right \in EffectiveHandledFS(r.handledFS) => right \in Granted(r, path)
  BY <1>1, IntersectTwoRules
<1>3. /\ \A path \in Path, right \in FSRight :
           PermitsFS(x, path, right) <=> PermitsFS(l, path, right) /\ PermitsFS(r, path, right)
      /\ \A port \in Port, right \in NetRight :
           PermitsNet(x, port, right) <=> PermitsNet(l, port, right) /\ PermitsNet(r, port, right)
  BY <1>1, IntersectTwoExact
<1> HIDE DEF x
<1>4. /\ x.handledFS = UNION {p.handledFS : p \in P \cup Q}
      /\ x.handledNet = UNION {p.handledNet : p \in P \cup Q}
      /\ x.scoped = UNION {p.scoped : p \in P \cup Q}
  BY <1>2 DEF IntersectionOf
<1>5. /\ \A path \in Path, right \in FSRight :
           PermitsFS(x, path, right) <=> \A p \in P \cup Q : PermitsFS(p, path, right)
      /\ \A port \in Port, right \in NetRight :
           PermitsNet(x, port, right) <=> \A p \in P \cup Q : PermitsNet(p, port, right)
  BY <1>3 DEF IntersectionOf
<1>6. ASSUME NEW path \in Path, Refer \in Granted(x, path),
             NEW p \in P \cup Q, Refer \in p.pathRules[path]
      PROVE  Refer \in x.pathRules[path]
  <2>1. Refer \in FSRight /\ PermitsFS(x, path, Refer)
    BY <1>2, <1>6, RightsAssumption, GrantedIs
  <2>2. PermitsFS(l, path, Refer) /\ PermitsFS(r, path, Refer)
    BY <1>3, <2>1
  <2>3. Refer \in p.handledFS
    BY <1>6 DEF WellFormed
  <2>4. /\ EffectiveHandledFS(l.handledFS) = DeniedByDefault(l)
        /\ EffectiveHandledFS(r.handledFS) = DeniedByDefault(r)
    BY DEF EffectiveHandledFS, DeniedByDefault
  <2>5. /\ Refer \in EffectiveHandledFS(l.handledFS) => Refer \in Granted(l, path)
        /\ Refer \in EffectiveHandledFS(r.handledFS) => Refer \in Granted(r, path)
    BY <2>2, <2>4 DEF PermitsFS
  <2>6. CASE p \in P
    <3>1. Refer \in l.handledFS
      BY <2>3, <2>6 DEF IntersectionOf
    <3>2. Refer \in Granted(l, path)
      BY <2>2, <3>1 DEF PermitsFS, DeniedByDefault
    <3>3. Refer \in l.pathRules[path]
      BY <1>6, <2>6, <3>2 DEF IntersectionOf
    <3>4. QED
      BY <1>2, <2>5, <3>2, <3>3
  <2>7. CASE p \in Q
    <3>1. Refer \in r.handledFS
      BY <2>3, <2>7 DEF IntersectionOf
    <3>2. Refer \in Granted(r, path)
      BY <2>2, <3>1 DEF PermitsFS, DeniedByDefault
    <3>3. Refer \in r.pathRules[path]
      BY <1>6, <2>7, <3>2 DEF IntersectionOf
    <3>4. QED
      BY <1>2, <2>5, <3>2, <3>3
  <2>8. QED
    BY <2>6, <2>7
<1>7. QED
  BY <1>2, <1>4, <1>5, <1>6 DEF IntersectionOf, x

\* Two intersections of the same profiles may hold other rules, but grant the
\* same on every path, and hold the same rules for refer where an input has one.
LEMMA IntersectionsAgree ==
  ASSUME NEW x, NEW y, NEW P, IntersectionOf(x, P), IntersectionOf(y, P)
  PROVE  /\ x.handledFS = y.handledFS /\ x.handledNet = y.handledNet /\ x.scoped = y.scoped
         /\ x.netRules = y.netRules
         /\ \A path \in Path : Granted(x, path) = Granted(y, path)
         /\ \A path \in Path : (\E p \in P : Refer \in p.pathRules[path]) =>
              (Refer \in x.pathRules[path] <=> Refer \in y.pathRules[path])
<1>1. WellFormed(x) /\ WellFormed(y)
  BY DEF IntersectionOf
<1>2. x.handledFS = y.handledFS /\ x.handledNet = y.handledNet /\ x.scoped = y.scoped
  BY DEF IntersectionOf
<1>3. DeniedByDefault(x) = DeniedByDefault(y)
  BY <1>2 DEF DeniedByDefault
<1>4. \A path \in Path : Granted(x, path) = Granted(y, path)
  <2>1. SUFFICES ASSUME NEW path \in Path PROVE Granted(x, path) = Granted(y, path)
    OBVIOUS
  <2>2. \A right \in FSRight : PermitsFS(x, path, right) <=> PermitsFS(y, path, right)
    BY DEF IntersectionOf
  <2>3. \A right : right \in Granted(x, path) <=> right \in Granted(y, path)
    BY <1>1, <1>3, <2>2, GrantedIs
  <2>4. QED
    BY <2>3
<1>5. x.netRules = y.netRules
  <2>1. /\ x.netRules \in [Port -> SUBSET NetRight] /\ y.netRules \in [Port -> SUBSET NetRight]
        /\ \A port \in Port : x.netRules[port] \subseteq x.handledNet
                              /\ y.netRules[port] \subseteq y.handledNet
    BY <1>1 DEF WellFormed, NormalProfile
  <2>2. \A port \in Port, right \in NetRight : PermitsNet(x, port, right) <=> PermitsNet(y, port, right)
    BY DEF IntersectionOf
  <2>3. ASSUME NEW port \in Port PROVE x.netRules[port] = y.netRules[port]
    BY <1>2, <2>1, <2>2 DEF PermitsNet
  <2>4. QED
    BY <2>1, <2>3
<1>6. ASSUME NEW path \in Path PROVE /\ Refer \in x.pathRules[path] => Refer \in Granted(x, path)
                                     /\ Refer \in y.pathRules[path] => Refer \in Granted(y, path)
  BY AboveFacts DEF Granted
<1>7. QED
  BY <1>2, <1>4, <1>5, <1>6 DEF IntersectionOf

\* Minimized rules are determined by what they grant.
LEMMA MinimizeByAccess ==
  ASSUME NEW rules \in [Path -> SUBSET FSRight], NEW path \in Path
  PROVE  MinimizePathRules(rules)[path] =
           {right \in EffectiveFSAccess(rules)[path] :
              \A upper \in StrictlyAbove[path] : right \notin EffectiveFSAccess(rules)[upper]}
<1>1. /\ StrictlyAbove[path] = {upper \in Path : Covers(upper, path) /\ upper # path}
      /\ MinimizePathRules(rules)[path] = rules[path] \ UNION {rules[upper] : upper \in StrictlyAbove[path]}
  BY AboveFacts DEF StrictlyAbove, MinimizePathRules
<1>2. \A q \in Path : \A right : right \in EffectiveFSAccess(rules)[q] <=>
        \E upper \in Path : Covers(upper, q) /\ right \in rules[upper]
  BY AboveFacts DEF EffectiveFSAccess
<1>3. ASSUME NEW right, right \in rules[path], \A upper \in StrictlyAbove[path] : right \notin rules[upper],
             NEW upper \in StrictlyAbove[path]
      PROVE  right \notin EffectiveFSAccess(rules)[upper]
  <2>1. SUFFICES ASSUME NEW w \in Path, Covers(w, upper), right \in rules[w] PROVE FALSE
    BY <1>1, <1>2
  <2>2. Covers(w, path)
    BY <1>1, <2>1, CoversTransitive
  <2>3. w = path
    BY <1>1, <1>3, <2>1, <2>2
  <2>4. QED
    BY <1>1, <2>1, <2>3, CoversBothWays
<1>4. ASSUME NEW right, right \in EffectiveFSAccess(rules)[path],
             \A upper \in StrictlyAbove[path] : right \notin EffectiveFSAccess(rules)[upper]
      PROVE  right \in rules[path] /\ \A upper \in StrictlyAbove[path] : right \notin rules[upper]
  <2>1. \A upper \in StrictlyAbove[path] : right \notin rules[upper]
    BY <1>1, <1>2, <1>4, CoversReflexive
  <2>2. QED
    BY <1>1, <1>2, <1>4, <2>1
<1>5. ASSUME NEW right, right \in rules[path] PROVE right \in EffectiveFSAccess(rules)[path]
  BY <1>2, <1>5, CoversReflexive
<1>6. \A right : right \in MinimizePathRules(rules)[path] <=>
        /\ right \in rules[path]
        /\ \A upper \in StrictlyAbove[path] : right \notin rules[upper]
  BY <1>1
<1>7. QED
  BY <1>3, <1>4, <1>5, <1>6

LEMMA MinimizeAlike ==
  ASSUME NEW rules \in [Path -> SUBSET FSRight], NEW others \in [Path -> SUBSET FSRight],
         \A path \in Path : EffectiveFSAccess(rules)[path] = EffectiveFSAccess(others)[path]
  PROVE  MinimizePathRules(rules) = MinimizePathRules(others)
<1>1. \A path \in Path : StrictlyAbove[path] \subseteq Path
  BY AboveFacts DEF StrictlyAbove
<1>2. ASSUME NEW path \in Path PROVE MinimizePathRules(rules)[path] = MinimizePathRules(others)[path]
  <2>1. \A upper \in StrictlyAbove[path] : EffectiveFSAccess(rules)[upper] = EffectiveFSAccess(others)[upper]
    BY <1>1
  <2>2. MinimizePathRules(rules)[path] =
          {right \in EffectiveFSAccess(rules)[path] :
             \A upper \in StrictlyAbove[path] : right \notin EffectiveFSAccess(rules)[upper]}
    BY MinimizeByAccess
  <2>3. MinimizePathRules(others)[path] =
          {right \in EffectiveFSAccess(others)[path] :
             \A upper \in StrictlyAbove[path] : right \notin EffectiveFSAccess(others)[upper]}
    BY MinimizeByAccess
  <2>4. QED
    BY <2>1, <2>2, <2>3
<1>3. MinimizePathRules(rules) \in [Path -> SUBSET FSRight]
      /\ MinimizePathRules(others) \in [Path -> SUBSET FSRight]
  BY MinimizeKeepsAccess
<1>4. QED
  BY <1>2, <1>3

Stripped(rules, strip) ==
  [path \in Path |-> IF path \in strip THEN rules[path] \ {Refer} ELSE rules[path]]

\* Rules that grant the same, refer on the same of the paths where an input
\* grants it, lose refer alike.
LEMMA StripAlike ==
  ASSUME NEW rules \in [Path -> SUBSET FSRight], NEW others \in [Path -> SUBSET FSRight],
         \A path \in Path : EffectiveFSAccess(rules)[path] = EffectiveFSAccess(others)[path],
         NEW strip,
         \A path \in Path \ strip : Refer \in rules[path] <=> Refer \in others[path]
  PROVE  \A path \in Path : EffectiveFSAccess(Stripped(rules, strip))[path]
                              = EffectiveFSAccess(Stripped(others, strip))[path]
<1> DEFINE stripped(r) == Stripped(r, strip)
<1>1. \A r : \A path \in Path : \A right : right \in EffectiveFSAccess(r)[path] <=>
        \E upper \in Path : Covers(upper, path) /\ right \in r[upper]
  BY AboveFacts DEF EffectiveFSAccess
<1>2. \A r : \A path \in Path : \A right : right \in stripped(r)[path] <=>
        right \in r[path] /\ ~(right = Refer /\ path \in strip)
  BY DEF Stripped
<1> HIDE DEF stripped
<1>3. ASSUME NEW path \in Path, NEW right
      PROVE  right \in EffectiveFSAccess(stripped(rules))[path] <=>
               right \in EffectiveFSAccess(stripped(others))[path]
  <2>1. /\ right \in EffectiveFSAccess(stripped(rules))[path] <=>
             \E upper \in Path : Covers(upper, path) /\ right \in stripped(rules)[upper]
        /\ right \in EffectiveFSAccess(stripped(others))[path] <=>
             \E upper \in Path : Covers(upper, path) /\ right \in stripped(others)[upper]
    BY <1>1
  <2>2. CASE right = Refer
    BY <1>2, <2>1, <2>2
  <2>3. CASE right # Refer
    <3>1. right \in EffectiveFSAccess(rules)[path] <=> right \in EffectiveFSAccess(others)[path]
      OBVIOUS
    <3>2. (\E upper \in Path : Covers(upper, path) /\ right \in rules[upper])
            <=> (\E upper \in Path : Covers(upper, path) /\ right \in others[upper])
      BY <1>1, <3>1
    <3>3. QED
      BY <1>2, <2>1, <2>3, <3>2
  <2>4. QED
    BY <2>2, <2>3
<1>4. \A path \in Path : EffectiveFSAccess(stripped(rules))[path] = EffectiveFSAccess(stripped(others))[path]
  BY <1>3
<1>5. QED
  BY <1>4 DEF stripped

LEMMA UnsafeAlike ==
  ASSUME NEW rules, NEW others, NEW input, NEW referAt \in SUBSET Path,
         \A path \in Path : EffectiveFSAccess(rules)[path] = EffectiveFSAccess(others)[path]
  PROVE  MarkUnsafeRefer(rules, referAt, input) = MarkUnsafeRefer(others, referAt, input)
  BY DEF MarkUnsafeRefer

\* The inputs of a call, whatever their order.
LEMMA InputsAlike ==
  ASSUME NEW a, NEW b, Range(a) = Range(b)
  PROVE  /\ InputRulePaths(a) = InputRulePaths(b)
         /\ \A path : (\E i \in DOMAIN a : Refer \in a[i].pathRules[path])
                        <=> (\E i \in DOMAIN b : Refer \in b[i].pathRules[path])
         /\ ReferRulePaths(a) = ReferRulePaths(b)
<1>1. /\ \A i \in DOMAIN a : \E j \in DOMAIN b : a[i] = b[j]
      /\ \A i \in DOMAIN b : \E j \in DOMAIN a : b[i] = a[j]
  BY DEF Range
<1>2. InputRulePaths(a) = InputRulePaths(b)
  <2>1. \A path : path \in InputRulePaths(a) <=> path \in InputRulePaths(b)
    BY <1>1 DEF InputRulePaths
  <2>2. QED
    BY <2>1
<1>3. \A path : (\E i \in DOMAIN a : Refer \in a[i].pathRules[path])
                  <=> (\E i \in DOMAIN b : Refer \in b[i].pathRules[path])
  BY <1>1
<1>4. ReferRulePaths(a) = ReferRulePaths(b)
  BY <1>2, <1>3 DEF ReferRulePaths
<1>5. QED
  BY <1>2, <1>3, <1>4

LEMMA IntersectionsSettleAlike ==
  ASSUME NEW x, NEW y, NEW a, NEW b, Range(a) = Range(b),
         IntersectionOf(x, Range(a)), IntersectionOf(y, Range(a)),
         \A p \in Range(a) : WellFormed(p)
  PROVE  FinishIntersect(x, a) = FinishIntersect(y, b)
<1> DEFINE referAt(rules) == ReferAt(rules, a)
           unsafe(rules) == UNION {MarkUnsafeRefer(rules, referAt(rules), a[i]) : i \in DOMAIN a}
<1>1. /\ WellFormed(x) /\ WellFormed(y)
      /\ x.pathRules \in [Path -> SUBSET FSRight] /\ y.pathRules \in [Path -> SUBSET FSRight]
  BY DEF IntersectionOf, WellFormed, NormalProfile
<1>2. /\ x.handledFS = y.handledFS /\ x.handledNet = y.handledNet /\ x.scoped = y.scoped
      /\ x.netRules = y.netRules
      /\ \A path \in Path : Granted(x, path) = Granted(y, path)
      /\ \A path \in Path : (\E p \in Range(a) : Refer \in p.pathRules[path]) =>
           (Refer \in x.pathRules[path] <=> Refer \in y.pathRules[path])
  BY IntersectionsAgree
<1>3. \A path \in Path : EffectiveFSAccess(x.pathRules)[path] = EffectiveFSAccess(y.pathRules)[path]
  BY <1>1, <1>2, GrantedFacts
<1>4. InputRulePaths(a) \subseteq Path
  BY DEF InputRulePaths, RuleKeys, Range, WellFormed, NormalProfile
<1>5. referAt(x.pathRules) = referAt(y.pathRules) /\ referAt(x.pathRules) \in SUBSET Path
  BY <1>3, <1>4 DEF ReferAt
<1>6. ReferAt(y.pathRules, b) = referAt(y.pathRules)
  BY InputsAlike DEF ReferAt
<1>7. unsafe(x.pathRules) = unsafe(y.pathRules)
  <2> HIDE DEF referAt
  <2>1. \A i \in DOMAIN a : MarkUnsafeRefer(x.pathRules, referAt(x.pathRules), a[i])
                              = MarkUnsafeRefer(y.pathRules, referAt(y.pathRules), a[i])
    BY <1>3, <1>5, UnsafeAlike
  <2>2. QED
    BY <2>1
<1>8. UNION {MarkUnsafeRefer(y.pathRules, referAt(y.pathRules), b[i]) : i \in DOMAIN b} = unsafe(y.pathRules)
  <2> HIDE DEF referAt
  <2>1. \A marked : UNION {marked[p] : p \in Range(b)} = UNION {marked[p] : p \in Range(a)}
    OBVIOUS
  <2>2. /\ \A i \in DOMAIN a : \E j \in DOMAIN b : a[i] = b[j]
        /\ \A i \in DOMAIN b : \E j \in DOMAIN a : b[i] = a[j]
    BY DEF Range
  <2>3. QED
    BY <2>2
<1> DEFINE S == unsafe(x.pathRules)
           strip == (Path \ ReferRulePaths(a)) \cup UNION {Above[path] : path \in S}
           stripped(r) == Stripped(r, strip)
<1>9. /\ DropUnsafeRefer(x.pathRules, a) = IF S = {} THEN x.pathRules ELSE stripped(x.pathRules)
      /\ DropUnsafeRefer(y.pathRules, b) = IF S = {} THEN y.pathRules ELSE stripped(y.pathRules)
  <2>1. ReferRulePaths(b) = ReferRulePaths(a)
    BY InputsAlike
  <2>2. DropUnsafeRefer(x.pathRules, a) = IF S = {} THEN x.pathRules ELSE stripped(x.pathRules)
    BY DEF DropUnsafeRefer, StripRefer, Stripped
  <2>3. DropUnsafeRefer(y.pathRules, b) = IF S = {} THEN y.pathRules ELSE stripped(y.pathRules)
    <3>1. UNION {MarkUnsafeRefer(y.pathRules, ReferAt(y.pathRules, b), b[i]) : i \in DOMAIN b} = S
      BY <1>6, <1>7, <1>8
    <3> HIDE DEF S
    <3>2. QED
      BY <2>1, <3>1 DEF DropUnsafeRefer, StripRefer, Stripped
  <2>4. QED
    BY <2>2, <2>3
<1> HIDE DEF S, unsafe, referAt
<1>10. \A path \in Path \ strip : Refer \in x.pathRules[path] <=> Refer \in y.pathRules[path]
  <2>1. \A path \in Path \ strip : \E i \in DOMAIN a : Refer \in a[i].pathRules[path]
    BY DEF ReferRulePaths
  <2>2. \A path \in Path \ strip : \E p \in Range(a) : Refer \in p.pathRules[path]
    BY <2>1 DEF Range
  <2> HIDE DEF strip
  <2>3. QED
    BY <1>2, <2>2
<1> HIDE DEF strip
<1>11. \A path \in Path :
         EffectiveFSAccess(stripped(x.pathRules))[path] = EffectiveFSAccess(stripped(y.pathRules))[path]
  BY <1>1, <1>3, <1>10, StripAlike
<1>12. stripped(x.pathRules) \in [Path -> SUBSET FSRight] /\ stripped(y.pathRules) \in [Path -> SUBSET FSRight]
  BY <1>1 DEF Stripped
<1> HIDE DEF stripped
<1>13. MinimizePathRules(DropUnsafeRefer(x.pathRules, a)) = MinimizePathRules(DropUnsafeRefer(y.pathRules, b))
  <2>1. CASE S = {}
    BY <1>1, <1>3, <1>9, <2>1, MinimizeAlike
  <2>2. CASE S # {}
    BY <1>9, <1>11, <1>12, <2>2, MinimizeAlike
  <2>3. QED
    BY <2>1, <2>2
<1>14. QED
  BY <1>2, <1>13 DEF FinishIntersect

\* The profiles of some set, united in any order and any grouping.
UnionOf(x, inputs) ==
  /\ WellFormed(x)
  /\ \A right \in FSRight \ {Refer} :
       right \in x.handledFS <=> \A p \in inputs : right \in p.handledFS
  /\ Refer \in x.handledFS <=>
       /\ \A p \in inputs : p.handledFS # {}
       /\ \/ \A p \in inputs : Refer \in p.handledFS
          \/ \E p \in inputs, path \in Path : Refer \in p.pathRules[path]
          \/ \A right \in FSRight \ {Refer} : \E p \in inputs : right \notin p.handledFS
  /\ \A right \in NetRight : right \in x.handledNet <=> \A p \in inputs : right \in p.handledNet
  /\ \A right \in ScopeRight : right \in x.scoped <=> \A p \in inputs : right \in p.scoped
  /\ \A path \in Path, right \in FSRight :
       right \in x.pathRules[path] <=>
         right \in x.handledFS /\ \E p \in inputs : right \in p.pathRules[path]
  /\ \A port \in Port, right \in NetRight :
       right \in x.netRules[port] <=>
         right \in x.handledNet /\ \E p \in inputs : right \in p.netRules[port]

LEMMA UnionOfOne ==
  ASSUME NEW x, WellFormed(x)
  PROVE  UnionOf(x, {x})
<1>1. /\ x.handledFS \subseteq FSRight
      /\ \A path \in Path : x.pathRules[path] \subseteq x.handledFS
      /\ \A port \in Port : x.netRules[port] \subseteq x.handledNet
  BY DEF WellFormed, NormalProfile
<1>2. Refer \in x.handledFS <=>
        /\ x.handledFS # {}
        /\ \/ Refer \in x.handledFS
           \/ \E path \in Path : Refer \in x.pathRules[path]
           \/ \A right \in FSRight \ {Refer} : right \notin x.handledFS
  BY <1>1
<1>3. QED
  BY <1>1, <1>2 DEF UnionOf

\* A union handles nothing just where one of its inputs does not.
LEMMA UnionHandlesNothing ==
  ASSUME NEW x, NEW P, UnionOf(x, P)
  PROVE  x.handledFS = {} <=> \E p \in P : p.handledFS = {}
<1>1. x.handledFS \subseteq FSRight
  BY DEF UnionOf, WellFormed, NormalProfile
<1>2. ASSUME NEW p \in P, p.handledFS = {} PROVE x.handledFS = {}
  BY <1>1, <1>2 DEF UnionOf
<1>3. ASSUME x.handledFS = {} PROVE \E p \in P : p.handledFS = {}
  BY <1>3 DEF UnionOf
<1>4. QED
  BY <1>2, <1>3

LEMMA UnionOfBoth ==
  ASSUME NEW l, NEW r, NEW P, NEW Q, UnionOf(l, P), UnionOf(r, Q),
         \A p \in P \cup Q : WellFormed(p)
  PROVE  UnionOf(UnionTwo(l, r), P \cup Q)
<1> DEFINE x == UnionTwo(l, r)
           rules == UnionRules(l.pathRules, r.pathRules)
           both == l.handledFS \cap r.handledFS
<1>1. /\ WellFormed(l) /\ WellFormed(r)
      /\ l.handledFS \subseteq FSRight /\ r.handledFS \subseteq FSRight
      /\ l.pathRules \in [Path -> SUBSET FSRight] /\ r.pathRules \in [Path -> SUBSET FSRight]
  BY DEF UnionOf, WellFormed, NormalProfile
<1>2. /\ WellFormed(x)
      /\ x.handledFS = UnionHandledFS(l.handledFS, r.handledFS, rules)
      /\ x.handledNet = l.handledNet \cap r.handledNet
      /\ x.scoped = l.scoped \cap r.scoped
      /\ \A path \in Path : x.pathRules[path]
           = (l.pathRules[path] \cup r.pathRules[path]) \cap x.handledFS
      /\ \A port \in Port : x.netRules[port]
           = (l.netRules[port] \cup r.netRules[port]) \cap x.handledNet
  BY <1>1, UnionTwoRules
<1>3. RulesGrant(rules, Refer) <=>
        \E path \in Path : Refer \in l.pathRules[path] \/ Refer \in r.pathRules[path]
  BY <1>1 DEF RulesGrant, UnionRules
<1>4. x.handledFS = IF /\ l.handledFS # {} /\ r.handledFS # {}
                       /\ both = {} \/ RulesGrant(rules, Refer)
                    THEN both \cup {Refer} ELSE both
  BY <1>2 DEF UnionHandledFS
<1> HIDE DEF x, rules
<1>5. /\ l.handledFS = {} <=> \E p \in P : p.handledFS = {}
      /\ r.handledFS = {} <=> \E p \in Q : p.handledFS = {}
  BY UnionHandlesNothing
<1>6. \A right \in FSRight \ {Refer} :
        right \in x.handledFS <=> \A p \in P \cup Q : right \in p.handledFS
  <2>1. \A right \in FSRight \ {Refer} : right \in x.handledFS <=> right \in both
    BY <1>4
  <2>2. QED
    BY <2>1 DEF UnionOf
<1>7. Refer \in x.handledFS <=>
        /\ \A p \in P \cup Q : p.handledFS # {}
        /\ \/ \A p \in P \cup Q : Refer \in p.handledFS
           \/ \E p \in P \cup Q, path \in Path : Refer \in p.pathRules[path]
           \/ \A right \in FSRight \ {Refer} : \E p \in P \cup Q : right \notin p.handledFS
  <2>1. CASE l.handledFS = {} \/ r.handledFS = {}
    BY <1>4, <1>5, <2>1
  <2>2. CASE l.handledFS # {} /\ r.handledFS # {}
    <3>1. Refer \in x.handledFS <=> Refer \in both \/ both = {} \/ RulesGrant(rules, Refer)
      BY <1>4, <2>2
    <3>2. /\ \A p \in P \cup Q : p.handledFS # {}
          /\ \A p \in P : p.handledFS # {}
          /\ \A p \in Q : p.handledFS # {}
      BY <1>5, <2>2
    <3> DEFINE Lists(S) == \A p \in S : Refer \in p.handledFS
               Grants(S) == \E p \in S, path \in Path : Refer \in p.pathRules[path]
               Apart(S) == \A right \in FSRight \ {Refer} : \E p \in S : right \notin p.handledFS
    <3>3. /\ Refer \in l.handledFS <=> Lists(P) \/ Grants(P) \/ Apart(P)
          /\ Refer \in r.handledFS <=> Lists(Q) \/ Grants(Q) \/ Apart(Q)
      BY <3>2 DEF UnionOf
    <3>4. RulesGrant(rules, Refer) <=> Grants(P) \/ Grants(Q)
      <4>1. (\E path \in Path : Refer \in l.pathRules[path]) <=> Refer \in l.handledFS /\ Grants(P)
        BY RightsAssumption DEF UnionOf
      <4>2. (\E path \in Path : Refer \in r.pathRules[path]) <=> Refer \in r.handledFS /\ Grants(Q)
        BY RightsAssumption DEF UnionOf
      <4> HIDE DEF Grants, Lists, Apart
      <4>3. QED
        BY <1>3, <3>3, <4>1, <4>2
    <3>5. both \ {Refer} = {} <=> Apart(P \cup Q)
      <4>1. \A right \in FSRight \ {Refer} : right \in both <=> \A p \in P \cup Q : right \in p.handledFS
        BY DEF UnionOf
      <4>2. both \subseteq FSRight
        BY <1>1
      <4> HIDE DEF both
      <4>3. QED
        BY <4>1, <4>2
    <3>6. /\ Lists(P \cup Q) <=> Lists(P) /\ Lists(Q)
          /\ Grants(P \cup Q) <=> Grants(P) \/ Grants(Q)
          /\ Apart(P) => Apart(P \cup Q)
          /\ Apart(Q) => Apart(P \cup Q)
      OBVIOUS
    <3> HIDE DEF Lists, Grants, Apart
    <3>7. Refer \in x.handledFS <=> Lists(P \cup Q) \/ Grants(P \cup Q) \/ Apart(P \cup Q)
      <4>1. ASSUME Apart(P \cup Q) PROVE Refer \in x.handledFS
        BY <3>1, <3>5, <4>1
      <4>2. ASSUME Lists(P \cup Q) \/ Grants(P \cup Q) PROVE Refer \in x.handledFS
        BY <3>1, <3>3, <3>4, <3>6, <4>2
      <4>3. ASSUME Refer \in both, ~Grants(P), ~Grants(Q), ~Apart(P \cup Q) PROVE Lists(P \cup Q)
        BY <3>3, <3>6, <4>3
      <4>4. QED
        BY <3>1, <3>4, <3>5, <3>6, <4>1, <4>2, <4>3
    <3>8. QED
      BY <3>2, <3>7 DEF Lists, Grants, Apart
  <2>3. QED
    BY <2>1, <2>2
<1>8. /\ \A right \in NetRight : right \in x.handledNet <=> \A p \in P \cup Q : right \in p.handledNet
      /\ \A right \in ScopeRight : right \in x.scoped <=> \A p \in P \cup Q : right \in p.scoped
  BY <1>2 DEF UnionOf
<1>9. ASSUME NEW path \in Path, NEW right \in FSRight
      PROVE  right \in x.pathRules[path] <=>
               right \in x.handledFS /\ \E p \in P \cup Q : right \in p.pathRules[path]
  <2>1. right \in x.pathRules[path] <=>
          right \in x.handledFS /\ (right \in l.pathRules[path] \/ right \in r.pathRules[path])
    BY <1>2
  <2>2. /\ right \in l.pathRules[path] <=>
             right \in l.handledFS /\ \E p \in P : right \in p.pathRules[path]
        /\ right \in r.pathRules[path] <=>
             right \in r.handledFS /\ \E p \in Q : right \in p.pathRules[path]
    BY DEF UnionOf
  <2>3. ASSUME right \in x.handledFS, NEW p \in P, right \in p.pathRules[path]
        PROVE  right \in l.handledFS
    <3>1. CASE right # Refer
      BY <1>6, <2>3, <3>1 DEF UnionOf
    <3>2. CASE right = Refer
      BY <1>7, <2>3, <3>2 DEF UnionOf
    <3>3. QED
      BY <3>1, <3>2
  <2>4. ASSUME right \in x.handledFS, NEW p \in Q, right \in p.pathRules[path]
        PROVE  right \in r.handledFS
    <3>1. CASE right # Refer
      BY <1>6, <2>4, <3>1 DEF UnionOf
    <3>2. CASE right = Refer
      BY <1>7, <2>4, <3>2 DEF UnionOf
    <3>3. QED
      BY <3>1, <3>2
  <2>5. QED
    BY <2>1, <2>2, <2>3, <2>4
<1>10. ASSUME NEW port \in Port, NEW right \in NetRight
       PROVE  right \in x.netRules[port] <=>
                right \in x.handledNet /\ \E p \in P \cup Q : right \in p.netRules[port]
  <2>1. right \in x.netRules[port] <=>
          right \in x.handledNet /\ (right \in l.netRules[port] \/ right \in r.netRules[port])
    BY <1>2
  <2>2. right \in x.handledNet => right \in l.handledNet /\ right \in r.handledNet
    BY <1>2
  <2>3. QED
    BY <2>1, <2>2 DEF UnionOf
<1>11. QED
  BY <1>2, <1>6, <1>7, <1>8, <1>9, <1>10 DEF UnionOf, x

LEMMA UnionsAgree ==
  ASSUME NEW x, NEW y, NEW P, UnionOf(x, P), UnionOf(y, P)
  PROVE  x = y
<1>1. x \in NormalProfile /\ y \in NormalProfile
  BY DEF UnionOf, WellFormed
<1>2. /\ x.handledFS \subseteq FSRight /\ y.handledFS \subseteq FSRight
      /\ x.handledNet \subseteq NetRight /\ y.handledNet \subseteq NetRight
      /\ x.scoped \subseteq ScopeRight /\ y.scoped \subseteq ScopeRight
      /\ x.pathRules \in [Path -> SUBSET FSRight] /\ y.pathRules \in [Path -> SUBSET FSRight]
      /\ x.netRules \in [Port -> SUBSET NetRight] /\ y.netRules \in [Port -> SUBSET NetRight]
  BY <1>1 DEF NormalProfile
<1>3. x.handledFS = y.handledFS
  <2>1. \A right \in FSRight : right \in x.handledFS <=> right \in y.handledFS
    BY DEF UnionOf
  <2>2. QED
    BY <1>2, <2>1
<1>4. x.handledNet = y.handledNet /\ x.scoped = y.scoped
  <2>1. \A right \in NetRight : right \in x.handledNet <=> right \in y.handledNet
    BY DEF UnionOf
  <2>2. \A right \in ScopeRight : right \in x.scoped <=> right \in y.scoped
    BY DEF UnionOf
  <2>3. QED
    BY <1>2, <2>1, <2>2
<1>5. x.pathRules = y.pathRules
  <2>1. ASSUME NEW path \in Path PROVE x.pathRules[path] = y.pathRules[path]
    <3>1. \A right \in FSRight : right \in x.pathRules[path] <=> right \in y.pathRules[path]
      BY <1>3 DEF UnionOf
    <3>2. QED
      BY <1>2, <3>1
  <2>2. QED
    BY <1>2, <2>1
<1>6. x.netRules = y.netRules
  <2>1. ASSUME NEW port \in Port PROVE x.netRules[port] = y.netRules[port]
    <3>1. \A right \in NetRight : right \in x.netRules[port] <=> right \in y.netRules[port]
      BY <1>4 DEF UnionOf
    <3>2. QED
      BY <1>2, <3>1
  <2>2. QED
    BY <1>2, <2>1
<1>7. QED
  BY <1>1, <1>3, <1>4, <1>5, <1>6 DEF NormalProfile

LEMMA UnionsSettleAlike ==
  ASSUME NEW x, NEW a, NEW b, Range(a) = Range(b)
  PROVE  FinishUnion(x, a) = FinishUnion(x, b)
<1>1. /\ \A i \in DOMAIN a : \E j \in DOMAIN b : a[i] = b[j]
      /\ \A i \in DOMAIN b : \E j \in DOMAIN a : b[i] = a[j]
  BY DEF Range
<1>2. InputRulePaths(a) = InputRulePaths(b)
  BY InputsAlike
<1>3. \A ways : Conflicting(x, a, ways) = Conflicting(x, b, ways)
  <2>1. SUFFICES ASSUME NEW ways PROVE Conflicting(x, a, ways) = Conflicting(x, b, ways)
    OBVIOUS
  <2> DEFINE paths == InputRulePaths(a)
             at(p, withRoot) == MoveConflicts(p, x.pathRules, paths, withRoot)
  <2>2. /\ Conflicting(x, a, ways) = UNION {at(a[i], withRoot) : i \in DOMAIN a, withRoot \in ways}
        /\ Conflicting(x, b, ways) = UNION {at(b[i], withRoot) : i \in DOMAIN b, withRoot \in ways}
    BY <1>2 DEF Conflicting
  <2> HIDE DEF at
  <2>3. \A right : right \in Conflicting(x, a, ways) <=> right \in Conflicting(x, b, ways)
    BY <1>1, <2>2
  <2>4. QED
    BY <2>3
<1>4. QED
  BY <1>3 DEF FinishUnion, UnhandleMoveConflicts

-----------------------------------------------------------------------------
(* Folds of a merge *)

MergeOf(x, inputs) ==
  IF Strategy = "intersect" THEN IntersectionOf(x, inputs) ELSE UnionOf(x, inputs)

LEMMA MergeOfOne ==
  ASSUME NEW x, WellFormed(x)
  PROVE  MergeOf(x, {x})
  BY IntersectionOfOne, UnionOfOne DEF MergeOf

LEMMA MergeOfBoth ==
  ASSUME NEW l, NEW r, NEW P, NEW Q, MergeOf(l, P), MergeOf(r, Q),
         \A p \in P \cup Q : WellFormed(p)
  PROVE  MergeOf(MergeTwo(l, r), P \cup Q)
<1>1. CASE Strategy = "intersect"
  <2>1. IntersectionOf(l, P) /\ IntersectionOf(r, Q)
    BY <1>1 DEF MergeOf
  <2>2. IntersectionOf(IntersectTwo(l, r), P \cup Q)
    BY <2>1, IntersectionOfBoth
  <2>3. QED
    BY <1>1, <2>2 DEF MergeOf, MergeTwo
<1>2. CASE Strategy # "intersect"
  <2>1. UnionOf(l, P) /\ UnionOf(r, Q)
    BY <1>2 DEF MergeOf
  <2>2. UnionOf(UnionTwo(l, r), P \cup Q)
    BY <2>1, UnionOfBoth
  <2>3. QED
    BY <1>2, <2>2 DEF MergeOf, MergeTwo
<1>3. QED
  BY <1>1, <1>2

LEMMA MergesSettleAlike ==
  ASSUME NEW x, NEW y, NEW a, NEW b, Range(a) = Range(b),
         MergeOf(x, Range(a)), MergeOf(y, Range(a)), \A p \in Range(a) : WellFormed(p)
  PROVE  Settled(x, a) = Settled(y, b)
<1>1. CASE Strategy = "intersect"
  <2>1. IntersectionOf(x, Range(a)) /\ IntersectionOf(y, Range(a))
    BY <1>1 DEF MergeOf
  <2>2. FinishIntersect(x, a) = FinishIntersect(y, b)
    BY <2>1, IntersectionsSettleAlike
  <2>3. QED
    BY <1>1, <2>2 DEF Settled
<1>2. CASE Strategy # "intersect"
  <2>1. UnionOf(x, Range(a)) /\ UnionOf(y, Range(a))
    BY <1>2 DEF MergeOf
  <2>2. x = y
    BY <2>1, UnionsAgree
  <2>3. FinishUnion(x, a) = FinishUnion(y, b)
    BY <2>2, UnionsSettleAlike
  <2>4. QED
    BY <1>2, <2>3 DEF Settled
<1>3. QED
  BY <1>1, <1>2

WellFormedProfile == {p \in NormalProfile : WellFormed(p)}

LEMMA MergeTwoWellFormed ==
  ASSUME NEW l \in WellFormedProfile, NEW r \in WellFormedProfile
  PROVE  MergeTwo(l, r) \in WellFormedProfile
<1>1. WellFormed(l) /\ WellFormed(r)
  BY DEF WellFormedProfile
<1>2. WellFormed(MergeTwo(l, r))
  BY <1>1, IntersectTwoRules, UnionTwoRules DEF MergeTwo
<1>3. QED
  BY <1>2 DEF WellFormedProfile, WellFormed

\* A fold that merges one input after the other, on either side.
Merges(iter, base, seq, choose, S) ==
  /\ iter[{}] = base
  /\ \A s \in (SUBSET S) \ {{}} :
       \/ iter[s] = MergeTwo(iter[s \ {choose[s]}], seq[choose[s]])
       \/ iter[s] = MergeTwo(seq[choose[s]], iter[s \ {choose[s]}])

Folded(base, seq, S) == {base} \cup {seq[i] : i \in S}

LEMMA FoldIsMerge ==
  ASSUME NEW S, IsFiniteSet(S), NEW seq, \A i \in S : WellFormed(seq[i]),
         NEW base, WellFormed(base), NEW choose, Picks(choose, S),
         NEW iter, Merges(iter, base, seq, choose, S)
  PROVE  MergeOf(iter[S], Folded(base, seq, S))
<1> USE DEF Folded
<1> DEFINE Of(s) == Folded(base, seq, s)
           Bad == {s \in SUBSET S : ~MergeOf(iter[s], Of(s))}
<1>1. SUFFICES ASSUME Bad # {} PROVE FALSE
  OBVIOUS
<1>2. Bad \in SUBSET (SUBSET S)
  OBVIOUS
<1>3. PICK t \in Bad : \A s \in Bad : Cardinality(t) <= Cardinality(s)
  <2> HIDE DEF Bad
  <2>1. QED
    BY <1>1, <1>2, SmallestSubset
<1>4. t \in SUBSET S /\ ~MergeOf(iter[t], Of(t))
  OBVIOUS
<1>5. t # {}
  <2>1. t = {} => iter[t] = base /\ Of(t) = {base}
    BY DEF Merges
  <2>2. QED
    BY <1>4, <2>1, MergeOfOne
<1> DEFINE x == choose[t]
           rest == t \ {x}
<1>6. x \in t
  BY <1>4, <1>5 DEF Picks
<1>7. iter[t] = MergeTwo(iter[rest], seq[x]) \/ iter[t] = MergeTwo(seq[x], iter[rest])
  BY <1>4, <1>5 DEF Merges
<1> HIDE DEF x, Bad
<1>8. rest \in SUBSET S /\ Cardinality(t) \in Nat /\ Cardinality(rest) = Cardinality(t) - 1
  BY <1>4, <1>6, RemoveOne
<1>9. rest \notin Bad
  <2>1. ~(Cardinality(t) <= Cardinality(rest))
    BY <1>8
  <2>2. QED
    BY <1>3, <2>1
<1>10. MergeOf(iter[rest], Of(rest)) /\ MergeOf(seq[x], {seq[x]})
  BY <1>4, <1>6, <1>8, <1>9, MergeOfOne DEF Bad
<1>11. Of(t) = Of(rest) \cup {seq[x]} /\ Of(t) = {seq[x]} \cup Of(rest)
  BY <1>6
<1>12. \A p \in Of(rest) \cup {seq[x]} : WellFormed(p)
  BY <1>4, <1>6
<1> HIDE DEF Of, rest
<1>13. /\ MergeOf(MergeTwo(iter[rest], seq[x]), Of(rest) \cup {seq[x]})
       /\ MergeOf(MergeTwo(seq[x], iter[rest]), {seq[x]} \cup Of(rest))
  BY <1>10, <1>12, MergeOfBoth
<1>14. QED
  BY <1>4, <1>7, <1>11, <1>13
LEMMA LeftFoldIsMerge ==
  ASSUME NEW n \in Nat, NEW base \in WellFormedProfile,
         NEW seq \in Seq(WellFormedProfile), Len(seq) = n
  PROVE  MergeOf(FoldLeft(MergeTwo, base, seq), {base} \cup Range(seq))
<1> DEFINE S == 1..n
           Solves(g) == g = [s \in SUBSET S |->
                               IF s = {} THEN base ELSE MergeTwo(g[s \ {Max(s)}], seq[Max(s)])]
           iter == CHOOSE g : Solves(g)
           op == [i \in S |-> [v \in WellFormedProfile |-> MergeTwo(v, seq[i])]]
           choose == [s \in SUBSET S |-> Max(s)]
<1>1. DOMAIN seq = S /\ \A i \in S : seq[i] \in WellFormedProfile
  OBVIOUS
<1>2. FoldLeft(MergeTwo, base, seq) = iter[S]
  BY <1>1 DEF FoldLeft, MapThenFoldSet
<1>3. IsFiniteSet(S)
  BY FS_Interval
<1>4. \A s \in (SUBSET S) \ {{}} : Max(s) \in s
  BY GreatestPicks
<1>5. Picks(choose, S)
  BY <1>4 DEF Picks
<1>6. op \in [S -> [WellFormedProfile -> WellFormedProfile]]
  <2> HIDE DEF S
  <2>1. QED
    BY <1>1, MergeTwoWellFormed
<1> HIDE DEF S
<1>7. \E g \in [SUBSET S -> WellFormedProfile] : Unfolds(g, op, base, choose, S)
  <2> HIDE DEF op, choose
  <2>1. QED
    BY <1>3, <1>5, <1>6, RecursionExists
<1>8. PICK h \in [SUBSET S -> WellFormedProfile] : Unfolds(h, op, base, choose, S)
  BY <1>7
<1>9. Solves(h)
  <2>1. \A s \in (SUBSET S) \ {{}} :
          op[choose[s]][h[s \ {choose[s]}]] = MergeTwo(h[s \ {Max(s)}], seq[Max(s)])
    BY <1>4, <1>8
  <2>2. h = [s \in SUBSET S |-> IF s = {} THEN base ELSE op[choose[s]][h[s \ {choose[s]}]]]
    BY <1>8 DEF Unfolds
  <2> HIDE DEF op, choose
  <2>3. QED
    BY <2>1, <2>2
<1>10. Solves(iter)
  BY <1>9, Zenon
<1> HIDE DEF iter, op
<1>11. Merges(iter, base, seq, choose, S)
  <2>1. \A s \in (SUBSET S) \ {{}} : iter[s] = MergeTwo(iter[s \ {Max(s)}], seq[Max(s)])
    BY <1>10
  <2>2. iter[{}] = base
    BY <1>10
  <2>3. \A s \in SUBSET S : choose[s] = Max(s)
    OBVIOUS
  <2> HIDE DEF choose
  <2>4. QED
    BY <2>1, <2>2, <2>3 DEF Merges
<1> HIDE DEF choose
<1>12. WellFormed(base) /\ \A i \in S : WellFormed(seq[i])
  BY <1>1 DEF WellFormedProfile
<1>13. MergeOf(iter[S], Folded(base, seq, S))
  BY <1>3, <1>5, <1>11, <1>12, FoldIsMerge
<1>14. QED
  BY <1>1, <1>2, <1>13 DEF Range, Folded

LEMMA RightFoldIsMerge ==
  ASSUME NEW n \in Nat, NEW base \in WellFormedProfile,
         NEW seq \in Seq(WellFormedProfile), Len(seq) = n
  PROVE  MergeOf(FoldRight(MergeTwo, seq, base), {base} \cup Range(seq))
<1> DEFINE S == 1..n
           Solves(g) == g = [s \in SUBSET S |->
                               IF s = {} THEN base ELSE MergeTwo(seq[Min(s)], g[s \ {Min(s)}])]
           iter == CHOOSE g : Solves(g)
           op == [i \in S |-> [v \in WellFormedProfile |-> MergeTwo(seq[i], v)]]
           choose == [s \in SUBSET S |-> Min(s)]
<1>1. DOMAIN seq = S /\ \A i \in S : seq[i] \in WellFormedProfile
  OBVIOUS
<1>2. FoldRight(MergeTwo, seq, base) = iter[S]
  BY <1>1 DEF FoldRight, MapThenFoldSet
<1>3. IsFiniteSet(S)
  BY FS_Interval
<1>4. \A s \in (SUBSET S) \ {{}} : Min(s) \in s
  BY LeastPicks
<1>5. Picks(choose, S)
  BY <1>4 DEF Picks
<1>6. op \in [S -> [WellFormedProfile -> WellFormedProfile]]
  <2> HIDE DEF S
  <2>1. QED
    BY <1>1, MergeTwoWellFormed
<1> HIDE DEF S
<1>7. \E g \in [SUBSET S -> WellFormedProfile] : Unfolds(g, op, base, choose, S)
  <2> HIDE DEF op, choose
  <2>1. QED
    BY <1>3, <1>5, <1>6, RecursionExists
<1>8. PICK h \in [SUBSET S -> WellFormedProfile] : Unfolds(h, op, base, choose, S)
  BY <1>7
<1>9. Solves(h)
  <2>1. \A s \in (SUBSET S) \ {{}} :
          op[choose[s]][h[s \ {choose[s]}]] = MergeTwo(seq[Min(s)], h[s \ {Min(s)}])
    BY <1>4, <1>8
  <2>2. h = [s \in SUBSET S |-> IF s = {} THEN base ELSE op[choose[s]][h[s \ {choose[s]}]]]
    BY <1>8 DEF Unfolds
  <2> HIDE DEF op, choose
  <2>3. QED
    BY <2>1, <2>2
<1>10. Solves(iter)
  BY <1>9, Zenon
<1> HIDE DEF iter, op
<1>11. Merges(iter, base, seq, choose, S)
  <2>1. \A s \in (SUBSET S) \ {{}} : iter[s] = MergeTwo(seq[Min(s)], iter[s \ {Min(s)}])
    BY <1>10
  <2>2. iter[{}] = base
    BY <1>10
  <2>3. \A s \in SUBSET S : choose[s] = Min(s)
    OBVIOUS
  <2> HIDE DEF choose
  <2>4. QED
    BY <2>1, <2>2, <2>3 DEF Merges
<1> HIDE DEF choose
<1>12. WellFormed(base) /\ \A i \in S : WellFormed(seq[i])
  BY <1>1 DEF WellFormedProfile
<1>13. MergeOf(iter[S], Folded(base, seq, S))
  BY <1>3, <1>5, <1>11, <1>12, FoldIsMerge
<1>14. QED
  BY <1>1, <1>2, <1>13 DEF Range, Folded

\* The result is the merge of the inputs folded so far, and at the end its
\* settlement, whatever merge of them was settled.
GroupingInv ==
  /\ pc = "fold" => MergeOf(result, {normalized[i] : i \in FoldedInputs})
  /\ pc = "done" => \E x : /\ MergeOf(x, Range(normalized)) /\ KeysOfInputs(x, normalized)
                          /\ result = Settled(x, normalized)

LEMMA FoldFirstGrouping == ASSUME Inv, FoldFirst PROVE GroupingInv'
<1>1. /\ pc' = "fold" /\ result' = normalized[1] /\ folded' = 1 /\ normalized' = normalized
      /\ Len(normalized) = arity /\ arity > 0 /\ arity \in Nat
  BY CallsAssumption DEF Inv, TypeOK, PhasesOK, FoldFirst
<1>2. 1 \in Inputs
  BY <1>1 DEF Inputs, Inv, TypeOK
<1>3. MergeOf(normalized[1], {normalized[1]})
  BY <1>2, MergeOfOne DEF Inv, ProfilesWellFormed
<1>4. {normalized[i] : i \in 1..1} = {normalized[1]}
  OBVIOUS
<1>5. MergeOf(result', {normalized'[i] : i \in 1..folded'})
  BY <1>1, <1>3, <1>4
<1>6. QED
  BY <1>1, <1>5 DEF GroupingInv, FoldedInputs

LEMMA FoldNextGrouping == ASSUME Inv, GroupingInv, FoldNext PROVE GroupingInv'
<1> DEFINE k == folded + 1
<1>1. /\ pc = "fold" /\ pc' = "fold" /\ folded' = k /\ normalized' = normalized
      /\ result' = MergeTwo(result, normalized[k])
      /\ folded \in Nat /\ folded < Len(normalized) /\ Len(normalized) \in Nat
      /\ DOMAIN normalized = 1..Len(normalized)
  BY DEF Inv, TypeOK, FoldNext
<1>2. k \in Inputs /\ \A i \in 1..k : i \in Inputs
  BY <1>1 DEF Inputs
<1>3. MergeOf(result, {normalized[i] : i \in 1..folded}) /\ MergeOf(normalized[k], {normalized[k]})
  BY <1>1, <1>2, MergeOfOne DEF GroupingInv, FoldedInputs, Inv, ProfilesWellFormed
<1>4. {normalized[i] : i \in 1..k} = {normalized[i] : i \in 1..folded} \cup {normalized[k]}
  <2>1. 1..k = (1..folded) \cup {k}
    BY <1>1
  <2>2. QED
    BY <2>1
<1>5. \A p \in {normalized[i] : i \in 1..folded} \cup {normalized[k]} : WellFormed(p)
  BY <1>2, <1>4 DEF Inv, ProfilesWellFormed
<1> HIDE DEF k
<1>6. MergeOf(result', {normalized[i] : i \in 1..k})
  <2> DEFINE before == {normalized[i] : i \in 1..folded}
             one == {normalized[k]}
  <2>1. MergeOf(result, before) /\ MergeOf(normalized[k], one)
    BY <1>3
  <2>2. \A p \in before \cup one : WellFormed(p)
    BY <1>5
  <2>3. result' = MergeTwo(result, normalized[k]) /\ {normalized[i] : i \in 1..k} = before \cup one
    BY <1>1, <1>4
  <2> HIDE DEF before, one
  <2>4. MergeOf(MergeTwo(result, normalized[k]), before \cup one)
    BY <2>1, <2>2, MergeOfBoth
  <2>5. QED
    BY <2>3, <2>4
<1>7. MergeOf(result', {normalized'[i] : i \in 1..folded'})
  BY <1>1, <1>6
<1>8. QED
  BY <1>1, <1>7 DEF GroupingInv, FoldedInputs

LEMMA FinishGrouping == ASSUME Inv, ResultKeys, GroupingInv, Finish PROVE GroupingInv'
<1>1. /\ pc = "fold" /\ pc' = "done" /\ normalized' = normalized
      /\ result' = Settled(result, normalized)
      /\ folded = Len(normalized) /\ DOMAIN normalized = 1..Len(normalized)
  BY DEF Inv, TypeOK, Finish
<1>2. MergeOf(result, Range(normalized)) /\ KeysOfInputs(result, normalized)
  BY <1>1 DEF GroupingInv, FoldedInputs, Range, ResultKeys
<1>3. \E x : /\ MergeOf(x, Range(normalized')) /\ KeysOfInputs(x, normalized')
             /\ result' = Settled(x, normalized')
  BY <1>1, <1>2
<1>4. QED
  BY <1>1, <1>3 DEF GroupingInv

LEMMA GroupingStep == Inv /\ ResultKeys /\ GroupingInv /\ [Next]_vars => GroupingInv'
<1> SUFFICES ASSUME Inv, ResultKeys, GroupingInv, [Next]_vars PROVE GroupingInv'
  OBVIOUS
<1>1. ASSUME NEW profile, AcceptInput(profile) \/ RejectInput(profile) PROVE GroupingInv'
  BY <1>1 DEF AcceptInput, RejectInput, GroupingInv
<1>2. CASE RejectEmptyCall
  BY <1>2 DEF RejectEmptyCall, GroupingInv
<1>3. CASE FoldFirst
  BY <1>3, FoldFirstGrouping
<1>4. CASE FoldNext
  BY <1>4, FoldNextGrouping
<1>5. CASE Finish
  BY <1>5, FinishGrouping
<1>6. CASE UNCHANGED vars
  BY <1>6 DEF vars, GroupingInv, FoldedInputs
<1>7. QED
  BY <1>1, <1>2, <1>3, <1>4, <1>5, <1>6 DEF Next, Returned

LEMMA GroupingInvariance == Spec => []GroupingInv
<1>1. Init => GroupingInv
  BY DEF Init, GroupingInv
<1>2. Inv /\ ResultInv /\ GroupingInv /\ [Next]_vars => GroupingInv'
  BY GroupingStep DEF ResultInv
<1>3. QED
  BY <1>1, <1>2, ResultInvariance, PTL DEF Spec

\* An order of the inputs, as a sequence of them.
LEMMA Reordered ==
  ASSUME NEW n \in Nat, n > 0, NEW profiles \in Seq(WellFormedProfile), Len(profiles) = n,
         NEW order \in Bijection(1..n, 1..n)
  PROVE  LET inputs == [i \in 1..n |-> profiles[order[i]]]
         IN /\ inputs \in Seq(WellFormedProfile) /\ Len(inputs) = n
            /\ Range(inputs) = Range(profiles)
<1> DEFINE inputs == [i \in 1..n |-> profiles[order[i]]]
<1>1. order \in [1..n -> 1..n] /\ \A i \in 1..n : \E j \in 1..n : order[j] = i
  BY DEF Bijection, Surjection
<1>2. DOMAIN profiles = 1..n /\ \A i \in 1..n : profiles[i] \in WellFormedProfile
  OBVIOUS
<1>3. inputs \in Seq(WellFormedProfile) /\ Len(inputs) = n
  <2>1. \A i \in 1..n : profiles[order[i]] \in WellFormedProfile
    BY <1>1, <1>2
  <2>2. QED
    BY <2>1, IsASeq, LenProperties
<1>4. Range(inputs) = Range(profiles)
  BY <1>1, <1>2 DEF Range
<1>5. QED
  BY <1>3, <1>4

\* A sequence is its first element and the rest, and its last and what is before.
LEMMA EndsOfSequence ==
  ASSUME NEW V, NEW s \in Seq(V), Len(s) > 0
  PROVE  /\ s[1] \in V /\ Tail(s) \in Seq(V) /\ Len(Tail(s)) \in Nat
         /\ {s[1]} \cup Range(Tail(s)) = Range(s)
         /\ Last(s) \in V /\ Front(s) \in Seq(V) /\ Len(Front(s)) \in Nat
         /\ {Last(s)} \cup Range(Front(s)) = Range(s)
<1> DEFINE n == Len(s)
<1>1. n \in Nat /\ n > 0 /\ DOMAIN s = 1..n /\ \A i \in 1..n : s[i] \in V
  OBVIOUS
<1>2. /\ Tail(s) \in Seq(V) /\ Len(Tail(s)) = n - 1
      /\ \A i \in 1..(n - 1) : Tail(s)[i] = s[i + 1]
  OBVIOUS
<1>3. /\ Front(s) \in Seq(V) /\ Len(Front(s)) = n - 1
      /\ \A i \in 1..(n - 1) : Front(s)[i] = s[i]
  <2>1. Front(s) = SubSeq(s, 1, n - 1)
    BY DEF Front
  <2>2. 1 \in 1..(n + 1) /\ n - 1 \in (1 - 1)..n
    BY <1>1
  <2> HIDE DEF n
  <2>3. /\ SubSeq(s, 1, n - 1) \in Seq(V) /\ Len(SubSeq(s, 1, n - 1)) = n - 1
        /\ \A i \in 1..(n - 1) : SubSeq(s, 1, n - 1)[i] = s[i]
    BY <1>1, <2>2, SubSeqProperties DEF n
  <2>4. QED
    BY <2>1, <2>3
<1>4. DOMAIN Tail(s) = 1..(n - 1) /\ DOMAIN Front(s) = 1..(n - 1)
  BY <1>2, <1>3
<1>5. Last(s) = s[n]
  BY DEF Last
<1> HIDE DEF n
<1>6. Range(s) = {s[i] : i \in 1..n}
  BY <1>1 DEF Range
<1>7. {s[1]} \cup Range(Tail(s)) = Range(s)
  <2>1. Range(Tail(s)) = {s[i + 1] : i \in 1..(n - 1)}
    BY <1>2, <1>4 DEF Range
  <2>2. \A i \in 1..n : i = 1 \/ (i - 1 \in 1..(n - 1) /\ (i - 1) + 1 = i)
    BY <1>1
  <2>3. \A i \in 1..(n - 1) : i + 1 \in 1..n
    BY <1>1
  <2>4. 1 \in 1..n
    BY <1>1
  <2>5. QED
    BY <1>6, <2>1, <2>2, <2>3, <2>4
<1>8. {Last(s)} \cup Range(Front(s)) = Range(s)
  <2>1. Range(Front(s)) = {s[i] : i \in 1..(n - 1)}
    BY <1>3, <1>4 DEF Range
  <2>2. 1..n = (1..(n - 1)) \cup {n}
    BY <1>1
  <2>3. QED
    BY <1>5, <1>6, <2>1, <2>2
<1>9. QED
  BY <1>1, <1>2, <1>3, <1>5, <1>7, <1>8

LEMMA AnyGrouping ==
  ASSUME NEW n \in Nat, n > 0, NEW profiles \in Seq(WellFormedProfile), Len(profiles) = n,
         NEW x, MergeOf(x, Range(profiles)),
         NEW inputs \in Seq(WellFormedProfile), Len(inputs) = n, Range(inputs) = Range(profiles)
  PROVE  /\ Settled(x, profiles) = Settled(FoldLeft(MergeTwo, inputs[1], Tail(inputs)), inputs)
         /\ Settled(x, profiles) = Settled(FoldRight(MergeTwo, Front(inputs), Last(inputs)), inputs)
<1> DEFINE pairs == FoldLeft(MergeTwo, inputs[1], Tail(inputs))
           nested == FoldRight(MergeTwo, Front(inputs), Last(inputs))
<1>1. /\ inputs[1] \in WellFormedProfile /\ Tail(inputs) \in Seq(WellFormedProfile)
      /\ Len(Tail(inputs)) \in Nat /\ {inputs[1]} \cup Range(Tail(inputs)) = Range(inputs)
      /\ Last(inputs) \in WellFormedProfile /\ Front(inputs) \in Seq(WellFormedProfile)
      /\ Len(Front(inputs)) \in Nat /\ {Last(inputs)} \cup Range(Front(inputs)) = Range(inputs)
  BY EndsOfSequence
<1>2. MergeOf(pairs, Range(profiles))
  <2>1. MergeOf(pairs, {inputs[1]} \cup Range(Tail(inputs)))
    BY <1>1, LeftFoldIsMerge
  <2> HIDE DEF pairs
  <2>2. QED
    BY <1>1, <2>1
<1>3. MergeOf(nested, Range(profiles))
  <2>1. MergeOf(nested, {Last(inputs)} \cup Range(Front(inputs)))
    BY <1>1, RightFoldIsMerge
  <2> HIDE DEF nested
  <2>2. QED
    BY <1>1, <2>1
<1>4. \A p \in Range(profiles) : WellFormed(p)
  BY DEF Range, WellFormedProfile
<1> HIDE DEF pairs, nested
<1>5. Settled(x, profiles) = Settled(pairs, inputs) /\ Settled(x, profiles) = Settled(nested, inputs)
  BY <1>2, <1>3, <1>4, MergesSettleAlike
<1>6. QED
  BY <1>5 DEF pairs, nested

LEMMA GroupingInvImplies == Inv /\ GroupingInv => GroupingDoesNotMatter
<1> SUFFICES ASSUME Inv, GroupingInv, pc = "done", NEW order \in Bijection(Inputs, Inputs)
             PROVE  LET inputs == [i \in Inputs |-> normalized[order[i]]]
                        pairs  == FoldLeft(MergeTwo, inputs[1], Tail(inputs))
                        nested == FoldRight(MergeTwo, Front(inputs), Last(inputs))
                    IN result = Settled(pairs, inputs) /\ result = Settled(nested, inputs)
  BY DEF GroupingDoesNotMatter
<1> DEFINE n == Len(normalized)
           inputs == [i \in 1..n |-> normalized[order[i]]]
<1>1. /\ n \in Nat /\ n > 0 /\ Inputs = 1..n
  BY DEF Inv, TypeOK, PhasesOK, Inputs
<1>2. normalized \in Seq(WellFormedProfile)
  <2>1. \A i \in 1..n : normalized[i] \in WellFormedProfile
    BY <1>1 DEF Inv, ProfilesWellFormed, WellFormedProfile, WellFormed
  <2>2. normalized = [i \in 1..n |-> normalized[i]]
    BY <1>1 DEF Inv, TypeOK
  <2> HIDE DEF n
  <2>3. QED
    BY <1>1, <2>1, <2>2, IsASeq
<1>3. PICK x : MergeOf(x, Range(normalized)) /\ result = Settled(x, normalized)
  BY DEF GroupingInv
<1>4. /\ inputs \in Seq(WellFormedProfile) /\ Len(inputs) = n
      /\ Range(inputs) = Range(normalized)
  BY <1>1, <1>2, Reordered
<1>5. inputs = [i \in Inputs |-> normalized[order[i]]]
  BY <1>1
<1> HIDE DEF inputs
<1>6. /\ result = Settled(FoldLeft(MergeTwo, inputs[1], Tail(inputs)), inputs)
      /\ result = Settled(FoldRight(MergeTwo, Front(inputs), Last(inputs)), inputs)
  BY <1>1, <1>2, <1>3, <1>4, AnyGrouping
<1>7. QED
  BY <1>5, <1>6

\* The result of a merge is the same for every order of the arguments and for
\* every grouping of the pairwise merges, from the left or from the right,
\* whatever paths, rights and profiles there are.
THEOREM AnyOrderAndGrouping == Spec => []GroupingDoesNotMatter
<1>1. Inv /\ GroupingInv => GroupingDoesNotMatter
  BY GroupingInvImplies
<1>2. QED
  BY <1>1, Invariance, GroupingInvariance, PTL

-----------------------------------------------------------------------------
(* Moves that an intersection allows *)

\* Of the rule paths K, the same ones lie above two paths.
SameAbove(K, path, q) == \A key \in K : Covers(key, path) <=> Covers(key, q)

KeysIn(p, K) == \A key \in Path : p.pathRules[key] # {} => key \in K

\* Of the rule paths above a path, all lie above the deepest.
LEMMA DeepestAbove ==
  ASSUME NEW path \in Path, NEW K \in SUBSET Path, NEW some \in K, Covers(some, path)
  PROVE  \E q \in K : Covers(q, path) /\ SameAbove(K, path, q)
<1> DEFINE upper == {p \in K : Covers(p, path)}
           depths == {Len(p.names) : p \in upper}
<1>1. \A p \in Path : Len(p.names) \in Nat
  BY PathAssumption
<1>2. \A p \in upper : Len(p.names) <= Len(path.names)
  BY DEF Covers
<1>3. depths \in SUBSET (0..Len(path.names)) /\ depths # {} /\ Len(path.names) \in Nat
  <2>1. some \in upper
    OBVIOUS
  <2>2. \A p \in upper : Len(p.names) \in 0..Len(path.names)
    BY <1>1, <1>2
  <2>3. depths # {}
    BY <2>1
  <2> HIDE DEF upper
  <2> QED
    BY <1>1, <2>2, <2>3
<1>4. PICK m \in depths : \A k \in depths : k <= m
  <2> HIDE DEF depths, upper
  <2> QED
    BY <1>3, GreatestNatural
<1>5. PICK q \in upper : Len(q.names) = m
  BY <1>4
<1>6. ASSUME NEW p \in K, Covers(p, path) PROVE Covers(p, q)
  <2>1. Len(p.names) <= Len(q.names)
    BY <1>4, <1>5, <1>6
  <2>2. Covers(p, q) \/ Covers(q, p)
    BY <1>5, <1>6, CoversChain
  <2>3. CASE Covers(q, p) /\ p # q
    <3>1. Len(q.names) < Len(p.names)
      BY <1>5, <2>3, CoversShorter
    <3> QED
      BY <1>1, <1>5, <2>1, <3>1
  <2>4. CASE p = q
    BY <2>4, CoversReflexive
  <2> QED
    BY <2>2, <2>3, <2>4
<1>7. ASSUME NEW p \in K, Covers(p, q) PROVE Covers(p, path)
  BY <1>5, <1>7, CoversTransitive
<1> QED
  BY <1>5, <1>6, <1>7 DEF SameAbove

\* The rights compared at a path are those of the rules above it that count.
Skipped(withRoot) == IF withRoot THEN {} ELSE {Root}

LEMMA ComparedFacts ==
  ASSUME NEW rules, NEW path \in Path, NEW withRoot
  PROVE  \A right : right \in ComparedAccess(rules, path, withRoot) <=>
           \E upper \in Path : /\ Covers(upper, path) /\ right \in rules[upper]
                               /\ upper \notin Skipped(withRoot)
  BY AboveFacts DEF ComparedAccess, Skipped

\* Where the same of the rule paths lie above, the same is granted.
LEMMA SameGrants ==
  ASSUME NEW p, WellFormed(p), NEW K, KeysIn(p, K),
         NEW path \in Path, NEW q \in Path, SameAbove(K, path, q)
  PROVE  /\ Granted(p, path) = Granted(p, q)
         /\ \A withRoot : ComparedAccess(p.pathRules, path, withRoot)
                                       = ComparedAccess(p.pathRules, q, withRoot)
<1>1. /\ \A right : \A key \in Path : right \in p.pathRules[key] => key \in K
      /\ \A key \in K : Covers(key, path) <=> Covers(key, q)
  BY DEF KeysIn, SameAbove
<1>2. \A right : \A upper \in Path : right \in p.pathRules[upper] =>
        (Covers(upper, path) <=> Covers(upper, q))
  BY <1>1
<1>3. Granted(p, path) = Granted(p, q)
  <2>1. \A r : r \in Granted(p, path) <=>
          \E upper \in Path : Covers(upper, path) /\ r \in p.pathRules[upper]
    BY GrantedFacts
  <2>2. \A r : r \in Granted(p, q) <=>
          \E upper \in Path : Covers(upper, q) /\ r \in p.pathRules[upper]
    BY GrantedFacts
  <2>3. \A r : r \in Granted(p, path) <=> r \in Granted(p, q)
    BY <1>2, <2>1, <2>2
  <2>4. QED
    BY <2>3
<1>4. ASSUME NEW withRoot
      PROVE  ComparedAccess(p.pathRules, path, withRoot) = ComparedAccess(p.pathRules, q, withRoot)
  <2>1. \A r : r \in ComparedAccess(p.pathRules, path, withRoot) <=>
          \E upper \in Path : /\ Covers(upper, path) /\ r \in p.pathRules[upper]
                              /\ upper \notin Skipped(withRoot)
    BY ComparedFacts
  <2>2. \A r : r \in ComparedAccess(p.pathRules, q, withRoot) <=>
          \E upper \in Path : /\ Covers(upper, q) /\ r \in p.pathRules[upper]
                              /\ upper \notin Skipped(withRoot)
    BY ComparedFacts
  <2>3. \A r : r \in ComparedAccess(p.pathRules, path, withRoot)
                 <=> r \in ComparedAccess(p.pathRules, q, withRoot)
    BY <1>2, <2>1, <2>2
  <2>4. QED
    BY <2>3
<1>5. QED
  BY <1>3, <1>4

LEMMA MoveFacts ==
  ASSUME NEW m \in Moves
  PROVE  /\ m.src \in Path /\ m.dst \in Path /\ m.dst # m.src
         /\ m.directory \in BOOLEAN /\ m.rootMount \in BOOLEAN
         /\ m.named = {} \/ \E child \in ChildrenOf[m.src] : m.named = {child}
         /\ m.rootMount \/ (m.src # Root /\ m.dst # Root)
  BY DEF Moves, MovesFrom

\* Above a child of a path there are the child itself and what is above the path.
LEMMA AboveChild ==
  ASSUME NEW path \in Path, NEW child \in ChildrenOf[path]
  PROVE  /\ child \in Path /\ Covers(path, child)
         /\ \A upper \in Path : Covers(upper, child) => upper = child \/ Covers(upper, path)
<1>1. child \in Path /\ path \in Above[child] /\ Len(child.names) = Len(path.names) + 1
  BY DEF ChildrenOf
<1>2. Covers(path, child)
  BY <1>1, AboveFacts
<1>3. ASSUME NEW upper \in Path, Covers(upper, child), upper # child PROVE Covers(upper, path)
  <2>1. Len(upper.names) < Len(child.names) /\ Len(upper.names) \in Nat /\ Len(path.names) \in Nat
    BY <1>1, <1>3, CoversShorter, PathAssumption
  <2>2. Covers(upper, path) \/ Covers(path, upper)
    BY <1>1, <1>2, <1>3, CoversChain
  <2>3. CASE Covers(path, upper) /\ path # upper
    <3>1. Len(path.names) < Len(upper.names)
      BY <2>3, CoversShorter
    <3>2. QED
      BY <1>1, <2>1, <3>1
  <2>4. CASE path = upper
    BY <2>4, CoversReflexive
  <2>5. QED
    BY <2>2, <2>3, <2>4
<1>4. QED
  BY <1>1, <1>2, <1>3

\* Where refer stays granted on both directories, settling has found it safe
\* there: a right that an input grants on the one and not on the other is
\* granted by the result as well.
LEMMA ReferIsSafe ==
  ASSUME NEW x, NEW inputs, IntersectionOf(x, Range(inputs)), KeysOfInputs(x, inputs),
         \A j \in DOMAIN inputs : WellFormed(inputs[j]),
         NEW i \in DOMAIN inputs, NEW src \in Path, NEW dst \in Path,
         Refer \in Granted(FinishIntersect(x, inputs), src),
         Refer \in Granted(FinishIntersect(x, inputs), dst),
         NEW right, right # Refer,
         right \in Granted(inputs[i], dst), right \notin Granted(inputs[i], src)
  PROVE  right \in Granted(FinishIntersect(x, inputs), dst)
<1> DEFINE f == FinishIntersect(x, inputs)
           K == InputRulePaths(inputs)
           referAt == ReferAt(x.pathRules, inputs)
           unsafe == UNION {MarkUnsafeRefer(x.pathRules, referAt, inputs[j]) : j \in DOMAIN inputs}
<1>1. /\ WellFormed(x) /\ x.pathRules \in [Path -> SUBSET FSRight]
      /\ \A j \in DOMAIN inputs : DOMAIN inputs[j].pathRules = Path
  BY DEF IntersectionOf, WellFormed, NormalProfile
<1>2. K \in SUBSET Path /\ \A j \in DOMAIN inputs : KeysIn(inputs[j], K)
  BY <1>1 DEF InputRulePaths, RuleKeys, KeysIn
<1>3. KeysIn(x, K)
  BY <1>2 DEF KeysOfInputs, KeysIn
<1>4. \A path \in Path : /\ Granted(f, path) \subseteq Granted(x, path)
                         /\ Granted(x, path) \ {Refer} \subseteq Granted(f, path)
  BY <1>1, FinishIntersectFacts
<1>5. f.pathRules = MinimizePathRules(DropUnsafeRefer(x.pathRules, inputs))
  BY DEF FinishIntersect
<1>6. WellFormed(f) /\ \A path \in Path : f.pathRules[path] \subseteq x.pathRules[path]
  BY <1>1, FinishIntersectFacts
<1> HIDE DEF f, K
<1>7. ASSUME NEW path \in Path, Refer \in Granted(f, path)
      PROVE  \E q \in K : q \in referAt /\ Covers(q, path) /\ SameAbove(K, path, q)
  <2>1. PICK some \in Path : Covers(some, path) /\ Refer \in x.pathRules[some]
    BY <1>1, <1>4, <1>7, GrantedFacts
  <2>2. some \in K
    BY <1>3, <2>1 DEF KeysIn
  <2>3. PICK q \in K : Covers(q, path) /\ SameAbove(K, path, q)
    BY <1>2, <2>1, <2>2, DeepestAbove
  <2>4. q \in Path /\ Covers(some, q)
    BY <1>2, <2>1, <2>2, <2>3 DEF SameAbove
  <2>5. Refer \in Granted(x, q)
    BY <1>1, <2>1, <2>4, GrantedFacts
  <2>6. q \in referAt
    BY <1>1, <2>4, <2>5, GrantedFacts DEF ReferAt, K
  <2>7. QED
    BY <2>3, <2>6
<1>8. PICK S \in K : S \in referAt /\ SameAbove(K, src, S)
  BY <1>7 DEF f
<1>9. PICK D \in K : D \in referAt /\ Covers(D, dst) /\ SameAbove(K, dst, D)
  BY <1>7 DEF f
<1>10. S \in Path /\ D \in Path
  BY <1>2
<1>11. Granted(inputs[i], src) = Granted(inputs[i], S) /\ Granted(inputs[i], dst) = Granted(inputs[i], D)
  BY <1>2, <1>8, <1>9, <1>10, SameGrants
<1>12. Granted(x, dst) = Granted(x, D)
  BY <1>1, <1>3, <1>9, <1>10, SameGrants
<1>13. SUFFICES ASSUME right \notin Granted(f, dst) PROVE FALSE
  BY DEF f
<1>14. right \notin Granted(x, D)
  BY <1>4, <1>12, <1>13
<1>15. D \in MarkUnsafeRefer(x.pathRules, referAt, inputs[i])
  <2>1. /\ right \in EffectiveFSAccess(inputs[i].pathRules)[D]
        /\ right \notin EffectiveFSAccess(inputs[i].pathRules)[S]
        /\ right \notin EffectiveFSAccess(x.pathRules)[D]
    BY <1>1, <1>10, <1>11, <1>14, GrantedFacts
  <2> HIDE DEF referAt
  <2>2. QED
    BY <1>8, <1>9, <2>1 DEF MarkUnsafeRefer
<1>16. D \in unsafe
  BY <1>15
<1>17. DropUnsafeRefer(x.pathRules, inputs) = StripRefer(x.pathRules, unsafe, inputs)
  BY <1>16 DEF DropUnsafeRefer
<1> HIDE DEF unsafe, referAt
<1>18. \A p \in Path : Covers(p, D) => Refer \notin StripRefer(x.pathRules, unsafe, inputs)[p]
  BY <1>10, <1>16, AboveFacts DEF StripRefer
<1>19. PICK upper \in Path : Covers(upper, dst) /\ Refer \in f.pathRules[upper]
  BY <1>6, GrantedFacts DEF f
<1>20. Covers(upper, D)
  BY <1>3, <1>6, <1>9, <1>19 DEF KeysIn, SameAbove
<1>21. Refer \in DropUnsafeRefer(x.pathRules, inputs)[upper]
  <2>1. DropUnsafeRefer(x.pathRules, inputs) \in [Path -> SUBSET FSRight]
    BY <1>1, DropUnsafeReferRules
  <2>2. QED
    BY <1>5, <1>19, <2>1, MinimizeKeepsAccess
<1>22. QED
  BY <1>17, <1>18, <1>20, <1>21

-----------------------------------------------------------------------------
(* Moves that a union allows *)

\* The input may allow the move of a file from src to dst.
MayMove(input, src, dst, withRoot) ==
  \A right \in FileRight :
    right \in ComparedAccess(input.pathRules, dst, withRoot) =>
      \/ right \in ComparedAccess(input.pathRules, src, withRoot)
      \/ right \in ChildAccess(input, src)

\* A move between two paths through which the union could deny it.
ConflictOn(right, input, rules, src, dst, withRoot) ==
  /\ Refer \in EffectiveFSAccess(input.pathRules)[src]
  /\ Refer \in EffectiveFSAccess(input.pathRules)[dst]
  /\ MayMove(input, src, dst, withRoot)
  /\ right \in ComparedAccess(rules, dst, withRoot)
  /\ right \notin ComparedAccess(input.pathRules, dst, withRoot)
  /\ right \notin ComparedAccess(rules, src, withRoot)

LEMMA ConflictFacts ==
  ASSUME NEW input, NEW rules, NEW paths \in SUBSET Path, NEW withRoot \in BOOLEAN
  PROVE  \A right : right \in MoveConflicts(input, rules, paths, withRoot) <=>
           \E src \in Path, dst \in paths :
             /\ src \in paths \/ ChildrenOf[src] \cap paths # {}
             /\ ConflictOn(right, input, rules, src, dst, withRoot)
<1> DEFINE grantsRefer(path) == Refer \in EffectiveFSAccess(input.pathRules)[path]
           parents == {path \in Path : ChildrenOf[path] \cap paths # {}}
           sources == {path \in paths \cup parents : grantsRefer(path)}
           destinations == {path \in paths : grantsRefer(path)}
           inputAt(path) == ComparedAccess(input.pathRules, path, withRoot)
           resultAt(path) == ComparedAccess(rules, path, withRoot)
           mayMove(src, dst) ==
             (inputAt(dst) \ (inputAt(src) \cup ChildAccess(input, src))) \cap FileRight = {}
           conflicts(src) ==
             UNION {resultAt(dst) \ (inputAt(dst) \cup resultAt(src)) :
                      dst \in {d \in destinations : mayMove(src, d)}}
<1>1. MoveConflicts(input, rules, paths, withRoot) = UNION {conflicts(src) : src \in sources}
  BY DEF MoveConflicts
<1>2. \A src, dst : mayMove(src, dst) <=> MayMove(input, src, dst, withRoot)
  BY DEF MayMove
<1> HIDE DEF mayMove, inputAt, resultAt
<1>3. \A right : right \in MoveConflicts(input, rules, paths, withRoot) <=>
        \E src \in sources, dst \in destinations :
          /\ mayMove(src, dst)
          /\ right \in resultAt(dst) \ (inputAt(dst) \cup resultAt(src))
  BY <1>1
<1>4. \A path : /\ path \in sources <=> /\ path \in Path /\ grantsRefer(path)
                                        /\ path \in paths \/ ChildrenOf[path] \cap paths # {}
                /\ path \in destinations <=> path \in paths /\ grantsRefer(path)
  OBVIOUS
<1> HIDE DEF sources, destinations, grantsRefer
<1>5. \A right, src, dst : ConflictOn(right, input, rules, src, dst, withRoot) <=>
        /\ grantsRefer(src) /\ grantsRefer(dst) /\ mayMove(src, dst)
        /\ right \in resultAt(dst) \ (inputAt(dst) \cup resultAt(src))
  BY <1>2 DEF ConflictOn, grantsRefer, inputAt, resultAt
<1>6. QED
  BY <1>3, <1>4, <1>5

\* What settling a union gives up, move by move.
WaysOf(x) == IF x.pathRules[Root] = {} THEN {TRUE} ELSE {TRUE, FALSE}

LEMMA ConflictingFacts ==
  ASSUME NEW x, NEW inputs, NEW ways
  PROVE  \A right : right \in Conflicting(x, inputs, ways) <=>
           \E i \in DOMAIN inputs, withRoot \in ways :
             right \in MoveConflicts(inputs[i], x.pathRules, InputRulePaths(inputs), withRoot)
<1> DEFINE of(i, withRoot) == MoveConflicts(inputs[i], x.pathRules, InputRulePaths(inputs), withRoot)
<1>1. Conflicting(x, inputs, ways) = UNION {of(i, withRoot) : i \in DOMAIN inputs, withRoot \in ways}
  BY DEF Conflicting
<1> HIDE DEF of
<1>2. \A right : right \in Conflicting(x, inputs, ways) <=>
        \E i \in DOMAIN inputs, withRoot \in ways : right \in of(i, withRoot)
  BY <1>1
<1>3. QED
  BY <1>2 DEF of

LEMMA GivenUpFacts ==
  ASSUME NEW x, NEW inputs, InputRulePaths(inputs) \in SUBSET Path, NEW right
  PROVE  right \in GivenUp(x, inputs) <=>
           /\ right # Refer
           /\ \E i \in DOMAIN inputs, withRoot \in WaysOf(x), src \in Path, dst \in InputRulePaths(inputs) :
                /\ src \in InputRulePaths(inputs) \/ ChildrenOf[src] \cap InputRulePaths(inputs) # {}
                /\ ConflictOn(right, inputs[i], x.pathRules, src, dst, withRoot)
<1> DEFINE K == InputRulePaths(inputs)
           of(i, withRoot) == MoveConflicts(inputs[i], x.pathRules, K, withRoot)
           on(i, withRoot) == \E src \in Path, dst \in K :
                                /\ src \in K \/ ChildrenOf[src] \cap K # {}
                                /\ ConflictOn(right, inputs[i], x.pathRules, src, dst, withRoot)
<1>1. GivenUp(x, inputs) = Conflicting(x, inputs, WaysOf(x)) \ {Refer}
  BY DEF GivenUp, WaysOf
<1>2. \A withRoot \in WaysOf(x) : withRoot \in BOOLEAN
  BY DEF WaysOf
<1>3. right \in Conflicting(x, inputs, WaysOf(x)) <=>
        \E i \in DOMAIN inputs, withRoot \in WaysOf(x) : right \in of(i, withRoot)
  BY ConflictingFacts
<1>4. ASSUME NEW i \in DOMAIN inputs, NEW withRoot \in WaysOf(x)
      PROVE  right \in of(i, withRoot) <=> on(i, withRoot)
  <2>1. withRoot \in BOOLEAN /\ K \in SUBSET Path
    BY <1>2
  <2> HIDE DEF K
  <2>2. QED
    BY <2>1, ConflictFacts
<1> HIDE DEF of, on
<1>5. right \in Conflicting(x, inputs, WaysOf(x)) <=>
        \E i \in DOMAIN inputs, withRoot \in WaysOf(x) : on(i, withRoot)
  BY <1>3, <1>4
<1>6. right \in GivenUp(x, inputs) <=>
        right # Refer /\ \E i \in DOMAIN inputs, withRoot \in WaysOf(x) : on(i, withRoot)
  BY <1>1, <1>5
<1>7. QED
  BY <1>6 DEF on

\* x is the union of the inputs, yet to be settled.
Unsettled(x, inputs) ==
  /\ UnionOf(x, Range(inputs)) /\ KeysOfInputs(x, inputs)
  /\ \A j \in DOMAIN inputs : WellFormed(inputs[j])

LEMMA UnsettledFacts ==
  ASSUME NEW x, NEW inputs, Unsettled(x, inputs)
  PROVE  LET f == FinishUnion(x, inputs)
             K == InputRulePaths(inputs)
         IN /\ WellFormed(x) /\ WellFormed(f)
            /\ K \in SUBSET Path /\ KeysIn(x, K) /\ \A j \in DOMAIN inputs : KeysIn(inputs[j], K)
            /\ f.handledFS = x.handledFS \ GivenUp(x, inputs)
            /\ \A path \in Path : f.pathRules[path] = x.pathRules[path] \ GivenUp(x, inputs)
            /\ \A j \in DOMAIN inputs : \A right \in x.handledFS \ {Refer} : right \in inputs[j].handledFS
            /\ \A path \in Path : \A right : right \in x.pathRules[path] <=>
                 right \in x.handledFS /\ \E j \in DOMAIN inputs : right \in inputs[j].pathRules[path]
<1>1. \A j \in DOMAIN inputs : DOMAIN inputs[j].pathRules = Path
  BY DEF Unsettled, WellFormed, NormalProfile
<1>2. InputRulePaths(inputs) \in SUBSET Path
  BY <1>1 DEF InputRulePaths, RuleKeys
<1>3. \A j \in DOMAIN inputs : KeysIn(inputs[j], InputRulePaths(inputs))
  BY <1>1 DEF InputRulePaths, RuleKeys, KeysIn
<1>4. KeysIn(x, InputRulePaths(inputs))
  BY <1>3 DEF KeysIn, Unsettled, KeysOfInputs
<1>5. WellFormed(x) /\ \A j \in DOMAIN inputs : WellFormed(inputs[j])
  BY DEF Unsettled, UnionOf
<1>6. /\ WellFormed(FinishUnion(x, inputs))
      /\ FinishUnion(x, inputs).handledFS = x.handledFS \ GivenUp(x, inputs)
      /\ \A path \in Path : FinishUnion(x, inputs).pathRules[path] = x.pathRules[path] \ GivenUp(x, inputs)
  BY <1>5, FinishUnionFacts
<1>7. /\ x.handledFS \in SUBSET FSRight /\ \A path \in Path : x.pathRules[path] \in SUBSET FSRight
      /\ \A p : p \in Range(inputs) <=> \E j \in DOMAIN inputs : p = inputs[j]
  BY <1>5 DEF WellFormed, NormalProfile, Range
<1>8. \A j \in DOMAIN inputs : \A right \in x.handledFS \ {Refer} : right \in inputs[j].handledFS
  BY <1>7 DEF Unsettled, UnionOf
<1>9. ASSUME NEW path \in Path, NEW right
      PROVE  right \in x.pathRules[path] <=>
               right \in x.handledFS /\ \E j \in DOMAIN inputs : right \in inputs[j].pathRules[path]
  BY <1>7 DEF Unsettled, UnionOf
<1>10. QED
  BY <1>2, <1>3, <1>4, <1>5, <1>6, <1>8, <1>9

\* The right of a rule above a path, with or without the rule on "/".
LEMMA CountedFacts ==
  ASSUME NEW p, NEW m \in Moves, NEW path \in Path
  PROVE  /\ CountedAt(p, path, m) = ComparedAccess(p.pathRules, path, m.rootMount)
         /\ \A right : right \in CountedAt(p, path, m) <=>
              \E upper \in Path : /\ Covers(upper, path) /\ right \in p.pathRules[upper]
                                  /\ upper \notin Skipped(m.rootMount)
<1>1. CountedAt(p, path, m) = ComparedAccess(p.pathRules, path, m.rootMount)
  BY DEF CountedAt, ComparedAccess
<1>2. QED
  BY <1>1, ComparedFacts

LEMMA OwnFacts ==
  ASSUME NEW p, NEW m \in Moves
  PROVE  \A right : right \in OwnRules(p, m) <=> \E child \in m.named : right \in p.pathRules[child]
  BY DEF OwnRules

\* A rule of an input on a right the settled union handles is one of the union.
LEMMA RulesKept ==
  ASSUME NEW x, NEW inputs, Unsettled(x, inputs), NEW i \in DOMAIN inputs,
         NEW right \in FinishUnion(x, inputs).handledFS
  PROVE  \A path \in Path : right \in inputs[i].pathRules[path] =>
           /\ right \in x.pathRules[path]
           /\ right \in FinishUnion(x, inputs).pathRules[path]
  BY UnsettledFacts

\* The rule on "/" lies above the paths that start at the root.
LEMMA RootAbove == \A path \in Path : Covers(Root, path) <=> path.rooted
<1> SUFFICES ASSUME NEW path \in Path PROVE Covers(Root, path) <=> path.rooted
  OBVIOUS
<1>1. path.rooted \in BOOLEAN /\ Len(path.names) \in Nat
  BY PathAssumption
<1>2. Root.rooted = TRUE /\ Len(Root.names) = 0
  BY DEF Root
<1>3. Covers(Root, path) <=> Root.rooted = path.rooted
  BY <1>1, <1>2 DEF Covers
<1>4. QED
  BY <1>1, <1>2, <1>3

\* A move the input allows gains nothing but refer in the settled union: the
\* code judges a move between the rule paths, or parents of one, that stand for
\* the two directories, which the input grants the same on.
LEMMA MoveKept ==
  ASSUME NEW x, NEW inputs, Unsettled(x, inputs), NEW i \in DOMAIN inputs,
         NEW m \in Moves, m.rootMount \/ m.src.rooted = m.dst.rooted,
         AllowsMove(inputs[i], m),
         NEW right \in Gained(FinishUnion(x, inputs), m)
  PROVE  right = Refer
<1> DEFINE own == inputs[i]
           f == FinishUnion(x, inputs)
           K == InputRulePaths(inputs)
           lost == GivenUp(x, inputs)
           src == m.src
           dst == m.dst
<1>1. SUFFICES ASSUME right # Refer PROVE FALSE
  OBVIOUS
<1>2. /\ WellFormed(x) /\ WellFormed(f) /\ WellFormed(own)
      /\ K \in SUBSET Path /\ KeysIn(x, K) /\ KeysIn(own, K)
      /\ f.handledFS = x.handledFS \ lost
      /\ \A path \in Path : f.pathRules[path] = x.pathRules[path] \ lost
  BY UnsettledFacts DEF Unsettled
<1>3. /\ src \in Path /\ dst \in Path /\ m.rootMount \in BOOLEAN
      /\ m.named = {} \/ \E child \in ChildrenOf[src] : m.named = {child}
  BY MoveFacts
<1>4. /\ right \in f.handledFS /\ right \in MoveRights(f, m)
      /\ right \in CountedAt(f, dst, m) /\ right \notin CountedAt(f, src, m)
      /\ right \notin OwnRules(f, m)
  BY <1>1 DEF Gained, MoveRights, DeniedByDefault
<1>5. right \in own.handledFS /\ right \notin lost /\ right \in x.handledFS
  BY <1>1, <1>2, <1>4, UnsettledFacts
<1>6. right \in MoveRights(own, m) /\ Refer \in DeniedByDefault(own)
  BY <1>4, <1>5 DEF MoveRights, DeniedByDefault
<1>7. /\ ReferGranted(own, m)
      /\ \A r : r \in MoveRights(own, m) /\ r \in CountedAt(own, dst, m) =>
           r \in CountedAt(own, src, m) \/ r \in OwnRules(own, m)
  BY DEF AllowsMove, Gained
<1>8. Refer \in Granted(own, src) /\ Refer \in Granted(own, dst)
  BY <1>6, <1>7 DEF ReferGranted, PermitsFS
\* The input does not count the right on the destination.
<1>9. right \notin CountedAt(own, dst, m)
  <2>1. \A path \in Path : right \in own.pathRules[path] => right \in f.pathRules[path]
    BY <1>4, RulesKept
  <2>2. right \in CountedAt(own, src, m) => right \in CountedAt(f, src, m)
    BY <1>3, <2>1, CountedFacts
  <2>3. \A child \in m.named : child \in Path
    BY <1>3, AboveChild
  <2>4. right \in OwnRules(own, m) => right \in OwnRules(f, m)
    BY <2>1, <2>3, OwnFacts
  <2>5. QED
    BY <1>4, <1>6, <1>7, <2>2, <2>4
<1> DEFINE w == IF x.pathRules[Root] = {} THEN TRUE ELSE m.rootMount
<1>10. /\ w \in WaysOf(x) /\ Skipped(w) \subseteq Skipped(m.rootMount)
       /\ \A p : p \in Skipped(m.rootMount) /\ p \notin Skipped(w) =>
            p = Root /\ x.pathRules[Root] = {} /\ src.rooted = dst.rooted
  BY <1>3 DEF WaysOf, Skipped
<1>11. Root \in Path
  BY PathAssumption
<1> HIDE DEF own, f, K, lost, w
<1>12. right \in ComparedAccess(x.pathRules, dst, w) /\ right \notin ComparedAccess(x.pathRules, src, w)
  <2>1. PICK upper \in Path : /\ Covers(upper, dst) /\ right \in f.pathRules[upper]
                              /\ upper \notin Skipped(m.rootMount)
    BY <1>3, <1>4, CountedFacts
  <2>2. right \in ComparedAccess(x.pathRules, dst, w)
    BY <1>2, <1>3, <1>10, <2>1, ComparedFacts
  <2>3. ASSUME right \in ComparedAccess(x.pathRules, src, w) PROVE FALSE
    <3>1. PICK up \in Path : /\ Covers(up, src) /\ right \in x.pathRules[up]
                             /\ up \notin Skipped(w)
      BY <1>3, <1>10, <2>3, ComparedFacts
    <3>2. up \notin Skipped(m.rootMount)
      BY <1>10, <3>1
    <3>3. right \in f.pathRules[up]
      BY <1>2, <1>5, <3>1
    <3>4. QED
      BY <1>3, <1>4, <3>1, <3>2, <3>3, CountedFacts
  <2>4. QED
    BY <2>2, <2>3
<1>13. right \notin ComparedAccess(own.pathRules, dst, w)
  <2>1. SUFFICES ASSUME NEW up \in Path, Covers(up, dst), right \in own.pathRules[up], up \notin Skipped(w)
                 PROVE  FALSE
    BY <1>3, <1>10, ComparedFacts
  <2>2. right \in x.pathRules[up]
    BY <1>4, <2>1, RulesKept DEF own, f
  <2>3. up \notin Skipped(m.rootMount)
    BY <1>10, <2>1, <2>2
  <2>4. QED
    BY <1>3, <1>9, <2>1, <2>3, CountedFacts
<1>14. PICK D \in K : Covers(D, dst) /\ SameAbove(K, dst, D)
  <2>1. PICK up \in Path : Covers(up, dst) /\ right \in x.pathRules[up]
    BY <1>3, <1>10, <1>12, ComparedFacts
  <2>2. up \in K
    BY <1>2, <2>1 DEF KeysIn
  <2>3. QED
    BY <1>2, <1>3, <2>1, <2>2, DeepestAbove
<1>15. PICK S \in Path : /\ S \in K \/ ChildrenOf[S] \cap K # {}
                         /\ SameAbove(K, src, S)
                         /\ S = src \/ ChildrenOf[src] \cap K = {}
  <2>1. CASE src \in K \/ ChildrenOf[src] \cap K # {}
    BY <1>3, <2>1 DEF SameAbove
  <2>2. CASE ChildrenOf[src] \cap K = {}
    <3>1. PICK up \in Path : Covers(up, src) /\ Refer \in own.pathRules[up]
      BY <1>2, <1>3, <1>8, GrantedFacts
    <3>2. up \in K
      BY <1>2, <3>1 DEF KeysIn
    <3>3. \E q \in K : Covers(q, src) /\ SameAbove(K, src, q)
      BY <1>2, <1>3, <3>1, <3>2, DeepestAbove
    <3>4. QED
      BY <1>2, <2>2, <3>3
  <2>3. QED
    BY <2>1, <2>2
<1>16. D \in Path
  BY <1>2
<1>17. /\ Granted(own, src) = Granted(own, S) /\ Granted(own, dst) = Granted(own, D)
       /\ ComparedAccess(own.pathRules, src, w) = ComparedAccess(own.pathRules, S, w)
       /\ ComparedAccess(own.pathRules, dst, w) = ComparedAccess(own.pathRules, D, w)
       /\ ComparedAccess(x.pathRules, src, w) = ComparedAccess(x.pathRules, S, w)
       /\ ComparedAccess(x.pathRules, dst, w) = ComparedAccess(x.pathRules, D, w)
  <2>1. /\ Granted(own, src) = Granted(own, S)
        /\ ComparedAccess(own.pathRules, src, w) = ComparedAccess(own.pathRules, S, w)
    BY <1>2, <1>3, <1>15, SameGrants
  <2>2. /\ Granted(own, dst) = Granted(own, D)
        /\ ComparedAccess(own.pathRules, dst, w) = ComparedAccess(own.pathRules, D, w)
    BY <1>2, <1>3, <1>14, <1>16, SameGrants
  <2>3. ComparedAccess(x.pathRules, src, w) = ComparedAccess(x.pathRules, S, w)
    BY <1>2, <1>3, <1>15, SameGrants
  <2>4. ComparedAccess(x.pathRules, dst, w) = ComparedAccess(x.pathRules, D, w)
    BY <1>2, <1>3, <1>14, <1>16, SameGrants
  <2>5. QED
    BY <2>1, <2>2, <2>3, <2>4
<1>18. MayMove(own, S, D, w)
  <2>1. SUFFICES ASSUME NEW g \in FileRight, g \in ComparedAccess(own.pathRules, dst, w),
                        g \notin ComparedAccess(own.pathRules, src, w)
                 PROVE  g \in ChildAccess(own, S)
    BY <1>17 DEF MayMove
  <2>2. PICK up \in Path : Covers(up, dst) /\ g \in own.pathRules[up] /\ (up \notin Skipped(w))
    BY <1>3, <1>10, <2>1, ComparedFacts
  <2>3. up \notin Skipped(m.rootMount)
    <3>1. SUFFICES ASSUME up \in Skipped(m.rootMount) PROVE FALSE
      OBVIOUS
    <3>2. up = Root /\ src.rooted = dst.rooted
      BY <1>10, <2>2, <3>1
    <3>3. Covers(up, src)
      BY <1>3, <2>2, <3>2, RootAbove
    <3>4. QED
      BY <1>3, <2>1, <2>2, <3>3, ComparedFacts
  <2>4. g \in CountedAt(own, dst, m)
    BY <1>3, <2>2, <2>3, CountedFacts
  <2>5. g \notin CountedAt(own, src, m)
    <3>1. SUFFICES ASSUME NEW u \in Path, Covers(u, src), g \in own.pathRules[u], u \notin Skipped(m.rootMount)
                   PROVE  FALSE
      BY <1>3, CountedFacts
    <3>2. u \notin Skipped(w)
      BY <1>10, <3>1
    <3>3. QED
      BY <1>3, <1>10, <2>1, <3>1, <3>2, ComparedFacts
  <2>6. g \in MoveRights(own, m)
    <3>1. g \in own.handledFS
      BY <1>2, <2>2 DEF WellFormed
    <3>2. g \in FSRight
      BY <2>1, RightsAssumption
    <3>3. QED
      BY <2>1, <3>1, <3>2 DEF MoveRights, DeniedByDefault
  <2>7. g \in OwnRules(own, m)
    BY <1>7, <2>4, <2>5, <2>6 DEF own
  <2>8. PICK child \in m.named : g \in own.pathRules[child]
    BY <2>7, OwnFacts
  <2>9. child \in ChildrenOf[src]
    BY <1>3, <2>8
  <2>10. child \in K
    BY <1>2, <1>3, <2>8, <2>9, AboveChild DEF KeysIn
  <2>11. S = src
    BY <1>15, <2>9, <2>10
  <2>12. QED
    BY <2>8, <2>9, <2>11 DEF ChildAccess
<1>19. Refer \in EffectiveFSAccess(own.pathRules)[S] /\ Refer \in EffectiveFSAccess(own.pathRules)[D]
  BY <1>2, <1>8, <1>15, <1>16, <1>17, GrantedFacts
<1>20. ConflictOn(right, own, x.pathRules, S, D, w)
  BY <1>12, <1>13, <1>17, <1>18, <1>19 DEF ConflictOn
<1>21. right \in lost
  BY <1>1, <1>2, <1>10, <1>14, <1>15, <1>20, GivenUpFacts DEF lost, K, own
<1>22. QED
  BY <1>5, <1>21

\* A directory that only rules on "/" apply to.
Fresh(path, K) == path \in Path \ {Root} /\ path.rooted /\ \A key \in K : Covers(key, path) => key = Root

LEMMA AboveRoot == \A path \in Path : Covers(path, Root) => path = Root
<1>1. Root \in Path /\ Root.rooted = TRUE
  BY PathAssumption DEF Root
<1>2. ASSUME NEW path \in Path, Covers(path, Root) PROVE path = Root
  <2>1. path.rooted
    BY <1>1, <1>2 DEF Covers
  <2>2. Covers(Root, path)
    BY <2>1, RootAbove
  <2>3. QED
    BY <1>1, <1>2, <2>2, CoversBothWays
<1>3. QED
  BY <1>2

\* A right that settling a union gives up stood in the way of a move.
LEMMA GivenUpForSome ==
  ASSUME NEW x, NEW inputs, Unsettled(x, inputs), NEW right \in GivenUp(x, inputs),
         NEW fresh, Fresh(fresh, InputRulePaths(inputs))
  PROVE  \E i \in DOMAIN inputs, m \in Moves :
           /\ ReferGranted(inputs[i], m)
           /\ right \notin CountedAt(inputs[i], m.dst, m)
           /\ \E j \in DOMAIN inputs : right \in CountedAt(inputs[j], m.dst, m)
           /\ \A j \in DOMAIN inputs : right \notin CountedAt(inputs[j], m.src, m)
<1> DEFINE K == InputRulePaths(inputs)
<1>1. /\ WellFormed(x) /\ K \in SUBSET Path /\ KeysIn(x, K)
      /\ \A j \in DOMAIN inputs : WellFormed(inputs[j]) /\ KeysIn(inputs[j], K)
      /\ \A path \in Path : \A r : r \in x.pathRules[path] <=>
           r \in x.handledFS /\ \E j \in DOMAIN inputs : r \in inputs[j].pathRules[path]
  BY UnsettledFacts DEF Unsettled
<1>2. PICK i \in DOMAIN inputs, w \in WaysOf(x), S \in Path, D \in K :
        ConflictOn(right, inputs[i], x.pathRules, S, D, w)
  BY <1>1, GivenUpFacts
<1> DEFINE own == inputs[i]
<1>3. w \in BOOLEAN /\ D \in Path /\ WellFormed(own)
  BY <1>1 DEF WaysOf
<1> HIDE DEF K, own
<1>4. /\ Refer \in Granted(own, S) /\ Refer \in Granted(own, D)
      /\ right \in ComparedAccess(x.pathRules, D, w)
      /\ right \notin ComparedAccess(own.pathRules, D, w)
      /\ right \notin ComparedAccess(x.pathRules, S, w)
  BY <1>2, <1>3, GrantedFacts DEF ConflictOn, own
<1>5. PICK up \in Path : Covers(up, D) /\ right \in x.pathRules[up] /\ up \notin Skipped(w)
  BY <1>3, <1>4, ComparedFacts
<1>6. right \in x.handledFS
  BY <1>1, <1>5
<1>7. PICK j \in DOMAIN inputs : right \in inputs[j].pathRules[up]
  BY <1>1, <1>5
<1>8. fresh \in Path /\ fresh # Root /\ fresh.rooted /\ \A key \in K : Covers(key, fresh) => key = Root
  BY DEF Fresh, K
<1> DEFINE src == IF w = FALSE /\ S = Root THEN fresh ELSE S
           m == [src |-> src, dst |-> D, directory |-> FALSE, rootMount |-> w, named |-> {}]
<1>9. w = FALSE => src # Root /\ D # Root
  <2>1. w = FALSE => src # Root
    BY <1>8
  <2>2. w = FALSE => D # Root
    BY <1>5, AboveRoot DEF Skipped
  <2>3. QED
    BY <1>3, <1>8, <2>1, <2>2
<1>10. Refer \in Granted(own, src)
  <2>1. CASE src = S
    BY <1>4, <2>1
  <2>2. CASE src = fresh /\ S = Root
    <3>1. PICK p \in Path : Covers(p, S) /\ Refer \in own.pathRules[p]
      BY <1>3, <1>4, GrantedFacts
    <3>2. Covers(p, fresh)
      BY <1>8, <2>2, <3>1, AboveRoot, RootAbove
    <3>3. QED
      BY <1>3, <1>8, <2>2, <3>1, <3>2, GrantedFacts
  <2>3. QED
    BY <2>1, <2>2
<1>11. right \notin ComparedAccess(x.pathRules, src, w)
  <2>1. CASE src = S
    BY <1>4, <2>1
  <2>2. CASE src = fresh /\ w = FALSE
    <3>1. SUFFICES ASSUME NEW p \in Path, Covers(p, fresh), right \in x.pathRules[p], p \notin Skipped(w)
                   PROVE  FALSE
      BY <1>8, <2>2, ComparedFacts
    <3>2. p \in K
      BY <1>1, <3>1 DEF KeysIn
    <3>3. QED
      BY <1>8, <2>2, <3>1, <3>2 DEF Skipped
  <2>3. QED
    BY <2>1, <2>2
<1>12. src # D
  BY <1>4, <1>11
<1> HIDE DEF src
<1>13. m \in Moves
  <2>1. m \in [src : {src}, dst : Path \ {src}, directory : BOOLEAN, rootMount : BOOLEAN,
               named : {{}} \cup {{child} : child \in ChildrenOf[src]}]
    BY <1>3, <1>12
  <2>2. m.rootMount \/ Root \notin {m.src, m.dst}
    BY <1>3, <1>9
  <2>3. m \in MovesFrom(src)
    BY <2>1, <2>2 DEF MovesFrom
  <2>4. src \in Path
    BY <1>3, <1>8 DEF src
  <2> HIDE DEF m
  <2>5. QED
    BY <2>3, <2>4 DEF Moves
<1>14. src \in Path /\ m.src = src /\ m.dst = D /\ m.rootMount = w
  BY <1>8 DEF src
<1> HIDE DEF m
<1>15. ReferGranted(own, m)
  BY <1>4, <1>10, <1>14 DEF ReferGranted, PermitsFS
<1>16. right \notin CountedAt(own, m.dst, m)
  BY <1>3, <1>4, <1>13, <1>14, CountedFacts
<1>17. right \in CountedAt(inputs[j], m.dst, m)
  BY <1>3, <1>5, <1>7, <1>13, <1>14, CountedFacts
<1>18. ASSUME NEW k \in DOMAIN inputs, right \in CountedAt(inputs[k], m.src, m) PROVE FALSE
  <2>1. PICK p \in Path : Covers(p, src) /\ right \in inputs[k].pathRules[p] /\ p \notin Skipped(w)
    BY <1>13, <1>14, <1>18, CountedFacts
  <2>2. right \in x.pathRules[p]
    BY <1>1, <1>6, <2>1
  <2>3. QED
    BY <1>11, <1>14, <2>1, <2>2, ComparedFacts
<1>19. QED
  BY <1>13, <1>15, <1>16, <1>17, <1>18 DEF own

LEMMA FreshPath ==
  ASSUME Inv, FromArgs
  PROVE  \E fresh : Fresh(fresh, InputRulePaths(normalized))
<1>1. PICK fresh \in Path \ {Root} :
        /\ fresh.rooted
        /\ \A n \in Arities : \A profile \in Profiles[n] \ {NilProfile} :
             \A k \in DOMAIN profile.pathRules :
               Covers(CleanPath(profile.pathRules[k].path), fresh) =>
                 CleanPath(profile.pathRules[k].path) = Root
  BY FreshPathAssumption
<1>2. ASSUME NEW key \in InputRulePaths(normalized), Covers(key, fresh) PROVE key = Root
  <2>1. PICK i \in Inputs : key \in RuleKeys(normalized[i].pathRules)
    BY DEF InputRulePaths, Inputs
  <2>2. /\ normalized[i] = PruneUnhandledRights(NormalizeProfile(args[i]))
        /\ args[i] # NilProfile /\ args[i] \in Passed
    BY <2>1 DEF FromArgs, ValidProfile
  <2>3. normalized[i].pathRules = PruneRules(NormalizeProfile(args[i]).pathRules, NormalizeProfile(args[i]).handledFS)
    BY <2>2 DEF PruneUnhandledRights
  <2>4. key \in Path /\ NormalizeProfile(args[i]).pathRules[key] # {}
    <3>1. DOMAIN NormalizeProfile(args[i]).pathRules = Path
      BY DEF NormalizeProfile
    <3>2. QED
      BY <2>1, <2>3, <3>1 DEF PruneRules, RuleKeys
  <2>5. PICK k \in DOMAIN args[i].pathRules : CleanPath(args[i].pathRules[k].path) = key
    BY <2>4 DEF NormalizeProfile
  <2>6. PICK n \in Arities : args[i] \in Profiles[n]
    BY <2>2 DEF Passed
  <2>7. QED
    BY <1>1, <1>2, <2>2, <2>5, <2>6
<1>3. QED
  BY <1>1, <1>2 DEF Fresh

\* At the end, a union is settled from the union of all the inputs.
LEMMA SettledFrom ==
  ASSUME Inv, GroupingInv, pc = "done", Strategy = "union"
  PROVE  \E x : Unsettled(x, normalized) /\ result = FinishUnion(x, normalized)
<1>1. PICK x : /\ MergeOf(x, Range(normalized)) /\ KeysOfInputs(x, normalized)
               /\ result = Settled(x, normalized)
  BY DEF GroupingInv
<1>2. UnionOf(x, Range(normalized)) /\ result = FinishUnion(x, normalized)
  BY <1>1 DEF MergeOf, Settled
<1>3. \A i \in DOMAIN normalized : WellFormed(normalized[i])
  BY DEF Inv, ProfilesWellFormed, Inputs
<1>4. QED
  BY <1>1, <1>2, <1>3 DEF Unsettled

LEMMA ItsMovesAllowed ==
  ASSUME Inv, GroupingInv, pc = "done", Strategy = "union", NEW i \in Inputs
  PROVE  AllowsItsMoves(normalized[i])
<1>1. PICK x : Unsettled(x, normalized) /\ result = FinishUnion(x, normalized)
  BY SettledFrom
<1>2. SUFFICES ASSUME NEW m \in Moves, m.rootMount \/ m.src.rooted = m.dst.rooted,
                      AllowsMove(normalized[i], m)
               PROVE  /\ ReferGranted(result, m)
                      /\ \/ Gained(result, m) = {}
                         \/ /\ Gained(result, m) = {Refer}
                            /\ m.directory /\ ~m.rootMount
                            /\ Refer \in result.pathRules[Root]
  BY DEF AllowsItsMoves
<1>3. m.src \in Path /\ m.dst \in Path /\ m.directory \in BOOLEAN /\ m.rootMount \in BOOLEAN
  BY MoveFacts
<1>4. ReferGranted(result, m)
  <2>1. Refer \in FSRight /\ ReferGranted(normalized[i], m)
    BY <1>2, RightsAssumption DEF AllowsMove
  <2>2. \A path \in Path : PermitsFS(normalized[i], path, Refer) => PermitsFS(result, path, Refer)
    BY <2>1 DEF Inv, UnionNeverPermitsLess
  <2>3. QED
    BY <1>3, <2>1, <2>2 DEF ReferGranted
<1>5. \A right \in Gained(result, m) : right = Refer
  BY <1>1, <1>2, MoveKept DEF Inputs
<1>6. ASSUME Refer \in Gained(result, m)
      PROVE  m.directory /\ ~m.rootMount /\ Refer \in result.pathRules[Root]
  <2>1. /\ Refer \in MoveRights(result, m) /\ Refer \notin CountedAt(result, m.src, m)
    BY <1>6 DEF Gained
  <2>2. m.directory /\ Refer \in DeniedByDefault(result)
    BY <2>1, RightsAssumption DEF MoveRights
  <2>3. Refer \in Granted(result, m.src)
    BY <1>4, <2>2 DEF ReferGranted, PermitsFS
  <2>4. PICK up \in Path : Covers(up, m.src) /\ Refer \in result.pathRules[up]
    BY <1>3, <2>3, GrantedFacts DEF Inv, ProfilesWellFormed
  <2>5. up \in Skipped(m.rootMount)
    BY <1>3, <2>1, <2>4, CountedFacts
  <2>6. QED
    BY <2>2, <2>4, <2>5, <1>3 DEF Skipped
<1>7. QED
  BY <1>4, <1>5, <1>6

LEMMA NothingElseGivenUp ==
  ASSUME Inv, FromArgs, GroupingInv, pc = "done", Strategy = "union",
         NEW right \in StoppedHandling
  PROVE  GivenUpForAMove(right)
<1>1. PICK x : Unsettled(x, normalized) /\ result = FinishUnion(x, normalized)
  BY SettledFrom
<1>2. /\ right \in FSRight \ {Refer} /\ right \notin result.handledFS
      /\ \A i \in Inputs : right \in normalized[i].handledFS
  BY DEF StoppedHandling, DeniedByDefault, Inv, UnionNeverPermitsLess
<1>3. right \in x.handledFS
  BY <1>1, <1>2 DEF Unsettled, UnionOf, Range, Inputs
<1>4. right \in GivenUp(x, normalized)
  BY <1>1, <1>2, <1>3, UnsettledFacts
<1>5. PICK fresh : Fresh(fresh, InputRulePaths(normalized))
  BY FreshPath
<1>6. QED
  BY <1>1, <1>4, <1>5, GivenUpForSome DEF GivenUpForAMove, Inputs

\* A settled union allows every move or link an input allows, and each right
\* it gives up beyond that, some input's move was in the way of.
THEOREM UnionAllowsMoves == Spec => []UnionAllowsEveryMove
<1>1. Inv /\ ResultInv /\ GroupingInv => UnionAllowsEveryMove
  BY ItsMovesAllowed, NothingElseGivenUp DEF ResultInv, UnionAllowsEveryMove
<1>2. QED
  BY <1>1, ResultInvariance, GroupingInvariance, PTL

-----------------------------------------------------------------------------
(* Sequences without some of their elements *)

LEMMA GreatestOfInterval ==
  ASSUME NEW k \in Nat, k > 0
  PROVE  Max(1..k) = k /\ (1..k) \ {k} = 1..(k - 1)
<1>1. k \in 1..k /\ \A j \in 1..k : k >= j
  OBVIOUS
<1>2. \A m \in 1..k : (\A j \in 1..k : m >= j) => m = k
  BY <1>1
<1>3. Max(1..k) = k
  BY <1>1, <1>2 DEF Max
<1>4. QED
  BY <1>3

\* One element after the other.
Keeps(kept, seq, A, V) ==
  /\ kept \in [0..Len(seq) -> Seq(V)]
  /\ kept[0] = <<>>
  /\ \A k \in 1..Len(seq) :
       kept[k] = IF seq[k] \in A THEN kept[k - 1] ELSE Append(kept[k - 1], seq[k])

LEMMA WithoutUnfolds ==
  ASSUME NEW V, NEW seq \in Seq(V), NEW A
  PROVE  \E kept : Keeps(kept, seq, A, V) /\ Without(seq, A) = kept[Len(seq)]
<1> DEFINE n == Len(seq)
           S == 1..n
           Solves(g) == g = [s \in SUBSET S |->
                               IF s = {} THEN <<>>
                               ELSE IF seq[Max(s)] \in A THEN g[s \ {Max(s)}]
                                    ELSE Append(g[s \ {Max(s)}], seq[Max(s)])]
           iter == CHOOSE g : Solves(g)
           op == [i \in S |-> [v \in Seq(V) |-> IF seq[i] \in A THEN v ELSE Append(v, seq[i])]]
           choose == [s \in SUBSET S |-> Max(s)]
<1>1. n \in Nat /\ DOMAIN seq = S /\ \A i \in S : seq[i] \in V
  OBVIOUS
<1>2. Without(seq, A) = iter[S]
  BY <1>1 DEF Without, FoldLeft, MapThenFoldSet
<1>3. IsFiniteSet(S)
  BY <1>1, FS_Interval
<1>4. \A s \in (SUBSET S) \ {{}} : Max(s) \in s
  BY <1>1, GreatestPicks
<1>5. Picks(choose, S)
  BY <1>4 DEF Picks
<1> HIDE DEF n
<1>6. op \in [S -> [Seq(V) -> Seq(V)]]
  BY <1>1
<1> HIDE DEF S
<1>7. \E g \in [SUBSET S -> Seq(V)] : Unfolds(g, op, <<>>, choose, S)
  <2> HIDE DEF op, choose
  <2>1. <<>> \in Seq(V)
    OBVIOUS
  <2>2. QED
    BY <1>3, <1>5, <1>6, <2>1, RecursionExists
<1>8. PICK h \in [SUBSET S -> Seq(V)] : Unfolds(h, op, <<>>, choose, S)
  BY <1>7
<1>9. Solves(h)
  <2>1. \A s \in (SUBSET S) \ {{}} :
          op[choose[s]][h[s \ {choose[s]}]] =
            IF seq[Max(s)] \in A THEN h[s \ {Max(s)}] ELSE Append(h[s \ {Max(s)}], seq[Max(s)])
    BY <1>4, <1>8
  <2>2. h = [s \in SUBSET S |-> IF s = {} THEN <<>> ELSE op[choose[s]][h[s \ {choose[s]}]]]
    BY <1>8 DEF Unfolds
  <2> HIDE DEF op, choose
  <2>3. QED
    BY <2>1, <2>2
<1>10. Solves(iter)
  BY <1>9, Zenon
<1> HIDE DEF iter, op, choose
<1>11. /\ iter[{}] = <<>>
       /\ \A s \in (SUBSET S) \ {{}} :
            iter[s] = IF seq[Max(s)] \in A THEN iter[s \ {Max(s)}]
                      ELSE Append(iter[s \ {Max(s)}], seq[Max(s)])
  BY <1>10
<1> DEFINE kept == [k \in 0..n |-> iter[1..k]]
<1>12. kept[0] = <<>>
  <2>1. 1..0 = {} /\ 0 \in 0..n
    BY <1>1
  <2>2. QED
    BY <1>11, <2>1
<1>13. \A k \in 1..n : kept[k] = IF seq[k] \in A THEN kept[k - 1] ELSE Append(kept[k - 1], seq[k])
  <2> SUFFICES ASSUME NEW k \in 1..n
               PROVE  kept[k] = IF seq[k] \in A THEN kept[k - 1] ELSE Append(kept[k - 1], seq[k])
    OBVIOUS
  <2>1. k \in Nat /\ k > 0 /\ k \in 0..n /\ k - 1 \in 0..n
    BY <1>1
  <2>2. 1..k \in (SUBSET S) \ {{}}
    BY <1>1 DEF S
  <2>3. Max(1..k) = k /\ (1..k) \ {k} = 1..(k - 1)
    BY <2>1, GreatestOfInterval
  <2>4. iter[1..k] = IF seq[k] \in A THEN iter[1..(k - 1)] ELSE Append(iter[1..(k - 1)], seq[k])
    BY <1>11, <2>2, <2>3
  <2>5. QED
    BY <2>1, <2>4
<1>14. kept[n] = iter[S] /\ DOMAIN kept = 0..n
  BY <1>1 DEF S
<1>15. \A k \in 0..n : kept[k] \in Seq(V)
  <2> DEFINE Bad == {k \in 0..n : kept[k] \notin Seq(V)}
  <2>1. SUFFICES ASSUME Bad # {} PROVE FALSE
    OBVIOUS
  <2>2. Bad \in SUBSET Nat
    BY <1>1
  <2>3. PICK m \in Bad : \A k \in Bad : m <= k
    <3> HIDE DEF Bad
    <3>1. QED
      BY <2>1, <2>2, LeastNatural
  <2>4. m \in 0..n /\ kept[m] \notin Seq(V)
    <3> HIDE DEF kept
    <3>1. QED
      BY <2>3
  <2> HIDE DEF kept, Bad
  <2>5. m # 0
    <3>1. <<>> \in Seq(V)
      OBVIOUS
    <3>2. QED
      BY <1>12, <2>4, <3>1
  <2>6. m \in 1..n /\ m - 1 \in 0..n /\ ~(m <= m - 1)
    BY <1>1, <2>4, <2>5
  <2>7. kept[m - 1] \in Seq(V)
    BY <2>3, <2>6 DEF Bad
  <2>8. seq[m] \in V
    BY <1>1, <2>6 DEF S
  <2>9. Append(kept[m - 1], seq[m]) \in Seq(V)
    BY <2>7, <2>8
  <2>10. kept[m] = IF seq[m] \in A THEN kept[m - 1] ELSE Append(kept[m - 1], seq[m])
    BY <1>13, <2>6
  <2>11. QED
    BY <2>4, <2>7, <2>9, <2>10
<1> HIDE DEF kept
<1>16. Keeps(kept, seq, A, V)
  <2>1. kept \in [0..n -> Seq(V)]
    <3>1. kept = [k \in 0..n |-> kept[k]]
      BY DEF kept
    <3>2. QED
      BY <1>15, <3>1
  <2>2. QED
    BY <1>12, <1>13, <2>1 DEF Keeps, n
<1>17. QED
  BY <1>2, <1>14, <1>16 DEF n

\* What holds at the start and is kept by each step holds at the end.
Reaches(Good, n) ==
  0 \in Good /\ \A k \in 1..n : k - 1 \in Good => k \in Good

LEMMA StepByStep ==
  ASSUME NEW n \in Nat, NEW Good, Reaches(Good, n)
  PROVE  n \in Good
<1> DEFINE Bad == {k \in 0..n : k \notin Good}
<1>1. SUFFICES ASSUME Bad # {} PROVE FALSE
  <2>1. n \in 0..n
    OBVIOUS
  <2>2. QED
    BY <2>1
<1>2. Bad \in SUBSET Nat
  OBVIOUS
<1>3. PICK m \in Bad : \A k \in Bad : m <= k
  <2> HIDE DEF Bad
  <2>1. QED
    BY <1>1, <1>2, LeastNatural
<1>4. m \in 1..n /\ m - 1 \in 0..n /\ ~(m <= m - 1)
  BY DEF Reaches
<1>5. m - 1 \in Good
  BY <1>3, <1>4
<1>6. QED
  BY <1>4, <1>5 DEF Reaches

Holds(s, e) == \E i \in DOMAIN s : s[i] = e

LEMMA AppendHolds ==
  ASSUME NEW V, NEW s \in Seq(V), NEW x \in V, NEW e
  PROVE  Holds(Append(s, x), e) <=> Holds(s, e) \/ e = x
<1> DEFINE n == Len(s)
           longer == Append(s, x)
<1>1. /\ n \in Nat /\ DOMAIN s = 1..n /\ DOMAIN longer = 1..(n + 1)
      /\ longer[n + 1] = x /\ \A i \in 1..n : longer[i] = s[i]
  OBVIOUS
<1> HIDE DEF longer, n
<1>2. 1..(n + 1) = (1..n) \cup {n + 1}
  BY <1>1
<1>3. QED
  BY <1>1, <1>2 DEF Holds, longer

LEMMA WithoutHolds ==
  ASSUME NEW V, NEW seq \in Seq(V), NEW A
  PROVE  /\ Without(seq, A) \in Seq(V)
         /\ \A e : Holds(Without(seq, A), e) <=> e \notin A /\ Holds(seq, e)
<1> DEFINE n == Len(seq)
<1>1. PICK kept : Keeps(kept, seq, A, V) /\ Without(seq, A) = kept[n]
  BY WithoutUnfolds
<1>2. n \in Nat /\ DOMAIN seq = 1..n /\ \A i \in 1..n : seq[i] \in V
  OBVIOUS
<1>3. /\ kept[0] = <<>> /\ \A k \in 0..n : kept[k] \in Seq(V)
      /\ \A k \in 1..n : kept[k] = IF seq[k] \in A THEN kept[k - 1] ELSE Append(kept[k - 1], seq[k])
  BY <1>1 DEF Keeps
<1> HIDE DEF n
<1> SUFFICES ASSUME NEW e
             PROVE  kept[n] \in Seq(V) /\ (Holds(kept[n], e) <=> e \notin A /\ Holds(seq, e))
  BY <1>1, <1>2, <1>3
<1> DEFINE Seen(k) == \E i \in 1..k : seq[i] = e
           Good == {k \in 0..n : Holds(kept[k], e) <=> e \notin A /\ Seen(k)}
<1>4. 0 \in Good
  BY <1>2, <1>3 DEF Holds
<1>5. ASSUME NEW k \in 1..n, k - 1 \in Good PROVE k \in Good
  <2>1. k \in 0..n /\ k - 1 \in 0..n /\ 1..k = (1..(k - 1)) \cup {k}
    BY <1>2
  <2>2. Seen(k) <=> Seen(k - 1) \/ seq[k] = e
    BY <2>1
  <2>3. Holds(kept[k - 1], e) <=> e \notin A /\ Seen(k - 1)
    BY <1>5
  <2> HIDE DEF Seen
  <2>4. kept[k - 1] \in Seq(V) /\ seq[k] \in V
    BY <1>2, <1>3, <2>1
  <2>5. Holds(Append(kept[k - 1], seq[k]), e) <=> Holds(kept[k - 1], e) \/ e = seq[k]
    BY <2>4, AppendHolds
  <2>6. Holds(kept[k], e) <=> e \notin A /\ Seen(k)
    BY <1>3, <2>2, <2>3, <2>5
  <2>7. QED
    BY <2>1, <2>6
<1>6. n \in Good
  <2> HIDE DEF Good
  <2>1. QED
    BY <1>2, <1>4, <1>5, StepByStep DEF Reaches
<1>7. QED
  BY <1>2, <1>3, <1>6 DEF Holds

\* Where the elements to leave out come first, what is left is the rest.
LEMMA WithoutFirst ==
  ASSUME NEW V, NEW seq \in Seq(V), NEW A, NEW d \in 0..Len(seq),
         \A i \in 1..Len(seq) : seq[i] \in A <=> i <= d
  PROVE  /\ Without(seq, A) \in Seq(V) /\ Len(Without(seq, A)) = Len(seq) - d
         /\ \A i \in 1..(Len(seq) - d) : Without(seq, A)[i] = seq[d + i]
<1> DEFINE n == Len(seq)
<1>1. PICK kept : Keeps(kept, seq, A, V) /\ Without(seq, A) = kept[n]
  BY WithoutUnfolds
<1>2. n \in Nat /\ d \in Nat /\ d <= n /\ \A i \in 1..n : seq[i] \in V /\ (seq[i] \in A <=> i <= d)
  OBVIOUS
<1>3. /\ kept[0] = <<>> /\ \A k \in 0..n : kept[k] \in Seq(V)
      /\ \A k \in 1..n : kept[k] = IF seq[k] \in A THEN kept[k - 1] ELSE Append(kept[k - 1], seq[k])
  BY <1>1 DEF Keeps
<1> HIDE DEF n
<1> DEFINE len(k) == IF k <= d THEN 0 ELSE k - d
           Good == {k \in 0..n : /\ Len(kept[k]) = len(k)
                                 /\ \A i \in 1..len(k) : kept[k][i] = seq[d + i]}
<1>4. 0 \in Good
  BY <1>2, <1>3
<1>5. ASSUME NEW k \in 1..n, k - 1 \in Good PROVE k \in Good
  <2>1. k \in 0..n /\ k - 1 \in 0..n /\ k \in Nat /\ k > 0 /\ seq[k] \in V /\ (seq[k] \in A <=> k <= d)
    BY <1>2
  <2>2. /\ Len(kept[k - 1]) = len(k - 1) /\ kept[k - 1] \in Seq(V)
        /\ \A i \in 1..len(k - 1) : kept[k - 1][i] = seq[d + i]
    BY <1>3, <1>5, <2>1
  <2>3. CASE k <= d
    <3>1. kept[k] = kept[k - 1] /\ len(k) = 0 /\ len(k - 1) = 0
      BY <1>2, <1>3, <2>1, <2>3
    <3>2. QED
      BY <2>1, <2>2, <3>1
  <2>4. CASE ~(k <= d)
    <3> DEFINE p == k - d
               before == kept[k - 1]
               x == seq[k]
    <3>1. kept[k] = Append(before, x)
      BY <1>3, <2>1, <2>4
    <3>2. p \in Nat /\ p > 0 /\ d + p = k /\ p - 1 \in Nat
      BY <1>2, <2>1, <2>4
    <3>3. len(k) = p /\ len(k - 1) = p - 1
      <4>1. CASE k - 1 <= d
        BY <1>2, <2>1, <2>4, <4>1
      <4>2. CASE ~(k - 1 <= d)
        BY <1>2, <2>1, <2>4, <4>2
      <4>3. QED
        BY <4>1, <4>2
    <3>4. /\ before \in Seq(V) /\ x \in V /\ Len(before) = p - 1
          /\ \A i \in 1..(p - 1) : before[i] = seq[d + i]
      BY <2>1, <2>2, <3>3
    <3> HIDE DEF p, len, before, x
    <3>5. /\ Len(Append(before, x)) = p /\ Append(before, x)[p] = x
          /\ \A i \in 1..(p - 1) : Append(before, x)[i] = before[i]
      <4>1. Len(Append(before, x)) = Len(before) + 1 /\ Append(before, x)[Len(before) + 1] = x
        BY <3>4
      <4>2. \A i \in 1..Len(before) : Append(before, x)[i] = before[i]
        BY <3>4
      <4>3. QED
        BY <3>2, <3>4, <4>1, <4>2
    <3>6. 1..p = (1..(p - 1)) \cup {p}
      BY <3>2
    <3>7. \A i \in 1..p : kept[k][i] = seq[d + i]
      BY <3>1, <3>2, <3>4, <3>5, <3>6 DEF x
    <3>8. Len(kept[k]) = p
      BY <3>1, <3>5
    <3>9. QED
      BY <2>1, <3>3, <3>7, <3>8
  <2>5. QED
    BY <2>3, <2>4
<1>6. n \in Good
  <2> HIDE DEF Good
  <2>1. QED
    BY <1>2, <1>4, <1>5, StepByStep DEF Reaches
<1>7. Len(kept[n]) = len(n) /\ \A i \in 1..len(n) : kept[n][i] = seq[d + i]
  BY <1>6
<1>8. len(n) = n - d
  BY <1>2
<1>9. n \in 0..n
  BY <1>2
<1>10. QED
  BY <1>1, <1>3, <1>7, <1>8, <1>9 DEF n

-----------------------------------------------------------------------------
(* The moves that are left for a kernel that knows fewer rights *)

\* What a kernel that knows only some rights sees of a profile.
Known(p, K) ==
  [handledFS  |-> p.handledFS \cap K,
   handledNet |-> p.handledNet \cap K,
   scoped     |-> p.scoped \cap K,
   pathRules  |-> [path \in Path |-> p.pathRules[path] \cap K],
   netRules   |-> [port \in Port |-> p.netRules[port] \cap K]]

LEMMA KnownFacts ==
  ASSUME NEW p, WellFormed(p), NEW K, NEW path \in Path
  PROVE  /\ WellFormed(Known(p, K))
         /\ Known(p, K).handledFS = p.handledFS \cap K
         /\ Known(p, K).pathRules[path] = p.pathRules[path] \cap K
         /\ Granted(Known(p, K), path) = Granted(p, path) \cap K
<1>1. /\ Known(p, K).handledFS = p.handledFS \cap K
      /\ \A q \in Path : Known(p, K).pathRules[q] = p.pathRules[q] \cap K
  BY DEF Known
<1> WellFormed(Known(p, K))
  BY DEF WellFormed, NormalProfile, Known
<1>2. \A r : r \in Granted(p, path) <=>
        \E upper \in Path : Covers(upper, path) /\ r \in p.pathRules[upper]
  BY GrantedFacts
<1>3. \A r : r \in Granted(Known(p, K), path) <=>
        \E upper \in Path : Covers(upper, path) /\ r \in Known(p, K).pathRules[upper]
  BY GrantedFacts
<1>4. \A r : r \in Granted(Known(p, K), path) <=> r \in Granted(p, path) \cap K
  BY <1>1, <1>2, <1>3
<1>5. Granted(Known(p, K), path) = Granted(p, path) \cap K
  BY <1>4
<1>6. QED
  BY <1>1, <1>5

\* In the root mount, what counts at a directory is what is granted there.
LEMMA RootMountFacts ==
  ASSUME NEW p, NEW m \in Moves, m.rootMount
  PROVE  /\ CountedAt(p, m.src, m) = Granted(p, m.src)
         /\ CountedAt(p, m.dst, m) = Granted(p, m.dst)
  BY DEF CountedAt, Granted

\* Nothing the merged profile permits is denied by an input, and so a move the
\* merged profile allows is one the input allows, as the merged profile grants
\* whatever the input grants at the destination only.
LEMMA KnownMovesAllowed ==
  ASSUME NEW x, NEW inputs, IntersectionOf(x, Range(inputs)), KeysOfInputs(x, inputs),
         \A j \in DOMAIN inputs : WellFormed(inputs[j]),
         NEW i \in DOMAIN inputs, NEW K, Refer \in K, NEW m \in Moves, m.rootMount,
         AllowsMove(Known(FinishIntersect(x, inputs), K), m)
  PROVE  AllowsMove(Known(inputs[i], K), m)
<1> DEFINE f == FinishIntersect(x, inputs)
           fk == Known(f, K)
           p == inputs[i]
           pk == Known(p, K)
<1>1. WellFormed(x) /\ WellFormed(p) /\ WellFormed(f) /\ p \in Range(inputs)
  BY FinishIntersectFacts DEF IntersectionOf, Range
<1>2. p.handledFS \subseteq f.handledFS
  BY <1>1 DEF IntersectionOf, FinishIntersect
<1>3. f.handledFS \subseteq FSRight /\ p.handledFS \subseteq FSRight
  BY <1>1, FinishIntersectFacts DEF WellFormed, NormalProfile
<1>4. ASSUME NEW path \in Path, NEW right, right \in Granted(f, path), right \in DeniedByDefault(p)
      PROVE  right \in Granted(p, path)
  <2>1. right \in Granted(x, path)
    BY <1>1, <1>4, FinishIntersectFacts
  <2>2. right \in FSRight
    BY <1>3, <1>4, RightsAssumption DEF DeniedByDefault
  <2>3. PermitsFS(x, path, right)
    BY <2>1 DEF PermitsFS
  <2>4. PermitsFS(p, path, right)
    BY <1>1, <2>2, <2>3 DEF IntersectionOf
  <2>5. QED
    BY <1>4, <2>4 DEF PermitsFS
<1>5. /\ m.src \in Path /\ m.dst \in Path /\ m.directory \in BOOLEAN
      /\ m.named = {} \/ \E child \in ChildrenOf[m.src] : m.named = {child}
  BY MoveFacts
<1>6. /\ PermitsFS(fk, m.src, Refer) /\ PermitsFS(fk, m.dst, Refer) /\ Gained(fk, m) = {}
  BY DEF AllowsMove, ReferGranted
<1> HIDE DEF p, f
<1>7. /\ fk.handledFS = f.handledFS \cap K /\ pk.handledFS = p.handledFS \cap K
      /\ \A path \in Path : /\ Granted(fk, path) = Granted(f, path) \cap K
                            /\ Granted(pk, path) = Granted(p, path) \cap K
                            /\ fk.pathRules[path] = f.pathRules[path] \cap K
                            /\ pk.pathRules[path] = p.pathRules[path] \cap K
  <2>1. ASSUME NEW path \in Path
        PROVE  /\ Granted(fk, path) = Granted(f, path) \cap K
               /\ fk.pathRules[path] = f.pathRules[path] \cap K
    BY <1>1, KnownFacts
  <2>2. ASSUME NEW path \in Path
        PROVE  /\ Granted(pk, path) = Granted(p, path) \cap K
               /\ pk.pathRules[path] = p.pathRules[path] \cap K
    BY <1>1, KnownFacts
  <2>3. fk.handledFS = f.handledFS \cap K /\ pk.handledFS = p.handledFS \cap K
    BY DEF Known
  <2>4. QED
    BY <2>1, <2>2, <2>3
<1> HIDE DEF fk, pk
<1>8. /\ CountedAt(fk, m.src, m) = Granted(fk, m.src) /\ CountedAt(fk, m.dst, m) = Granted(fk, m.dst)
      /\ CountedAt(pk, m.src, m) = Granted(pk, m.src) /\ CountedAt(pk, m.dst, m) = Granted(pk, m.dst)
  BY RootMountFacts
<1>9. CASE pk.handledFS = {}
  <2>1. DeniedByDefault(pk) = {}
    BY <1>9 DEF DeniedByDefault
  <2>2. Gained(pk, m) = {}
    BY <2>1 DEF Gained, MoveRights
  <2>3. QED
    BY <2>1, <2>2 DEF AllowsMove, ReferGranted, PermitsFS, pk, p
<1>10. CASE pk.handledFS # {}
  <2>1. p.handledFS # {} /\ fk.handledFS # {}
    BY <1>2, <1>7, <1>10
  <2>2. /\ DeniedByDefault(p) = p.handledFS \cup {Refer}
        /\ DeniedByDefault(pk) = pk.handledFS \cup {Refer}
        /\ DeniedByDefault(fk) = fk.handledFS \cup {Refer}
    BY <1>10, <2>1 DEF DeniedByDefault
  <2>3. Refer \in Granted(f, m.src) /\ Refer \in Granted(f, m.dst)
    BY <1>5, <1>6, <1>7, <2>2 DEF PermitsFS
  <2>4. Refer \in Granted(pk, m.src) /\ Refer \in Granted(pk, m.dst)
    BY <1>4, <1>5, <1>7, <2>2, <2>3
  <2>5. ReferGranted(pk, m)
    BY <2>4 DEF ReferGranted, PermitsFS
  <2>6. ASSUME NEW right \in Gained(pk, m) PROVE FALSE
    <3>1. /\ right \in MoveRights(pk, m) /\ right \in Granted(pk, m.dst)
          /\ right \notin Granted(pk, m.src) /\ right \notin OwnRules(pk, m)
      BY <1>8, <2>6 DEF Gained
    <3>2. right # Refer
      BY <2>4, <3>1
    <3>3. right \in p.handledFS /\ right \in K /\ right \in f.handledFS
      BY <1>2, <1>7, <2>2, <3>1, <3>2 DEF MoveRights
    <3>4. right \in MoveRights(fk, m)
      BY <1>7, <2>2, <3>1, <3>3 DEF MoveRights
    <3>5. right \in Granted(p, m.dst) /\ right \notin Granted(p, m.src)
      BY <1>5, <1>7, <3>1, <3>3
    <3>6. right \in Granted(f, m.dst)
      BY <1>5, <2>3, <3>2, <3>5, ReferIsSafe DEF f, p
    <3>7. right \notin Granted(f, m.src)
      BY <1>4, <1>5, <2>2, <3>3, <3>5
    <3>8. right \notin OwnRules(fk, m)
      <4>1. SUFFICES ASSUME NEW child \in m.named, right \in fk.pathRules[child] PROVE FALSE
        BY DEF OwnRules
      <4>2. child \in ChildrenOf[m.src] /\ m.named = {child}
        BY <1>5, <4>1
      <4>3. child \in Path /\ \A upper \in Path :
              Covers(upper, child) => upper = child \/ Covers(upper, m.src)
        BY <1>5, <4>2, AboveChild
      <4>4. right \in f.pathRules[child] /\ right \notin p.pathRules[child]
        BY <1>7, <3>1, <3>3, <4>1, <4>3 DEF OwnRules
      <4>5. right \in Granted(f, child)
        BY <1>1, <4>3, <4>4, GrantedFacts, CoversReflexive
      <4>6. right \in Granted(p, child)
        BY <1>4, <2>2, <3>3, <4>3, <4>5
      <4>7. PICK upper \in Path : Covers(upper, child) /\ right \in p.pathRules[upper]
        BY <1>1, <4>3, <4>6, GrantedFacts
      <4>8. Covers(upper, m.src)
        BY <4>3, <4>4, <4>7
      <4>9. QED
        BY <1>1, <1>5, <3>5, <4>7, <4>8, GrantedFacts
    <3>9. right \in Gained(fk, m)
      BY <1>5, <1>7, <1>8, <3>3, <3>4, <3>6, <3>7, <3>8 DEF Gained
    <3>10. QED
      BY <1>6, <3>9
  <2>7. QED
    BY <2>5, <2>6 DEF AllowsMove, pk, p
<1>11. QED
  BY <1>9, <1>10

-----------------------------------------------------------------------------
(* Profiles as they are written *)

LEMMA ListOfSet ==
  ASSUME NEW S, IsFiniteSet(S)
  PROVE  SetToSeq(S) \in Seq(S) /\ \A e : Holds(SetToSeq(S), e) <=> e \in S
<1>1. PICK n \in Nat : ExistsBijection(1..n, S)
  BY FS_NatBijection
<1>2. Cardinality(S) = n
  BY <1>1, FS_CountingElements
<1>3. PICK f \in [1..n -> S] : IsInjective(f)
  BY <1>1 DEF ExistsBijection, Bijection, Injection
<1>4. SetToSeq(S) \in [1..n -> S] /\ IsInjective(SetToSeq(S))
  BY <1>2, <1>3 DEF SetToSeq
<1>5. SetToSeq(S) \in Injection(1..n, S)
  BY <1>4 DEF Injection
<1>6. IsFiniteSet(1..n) /\ Cardinality(1..n) = n
  BY FS_Interval
<1>7. SetToSeq(S) \in Surjection(1..n, S)
  BY <1>2, <1>5, <1>6, FS_Injection
<1>8. \A e \in S : \E i \in 1..n : SetToSeq(S)[i] = e
  BY <1>7 DEF Surjection
<1>9. SetToSeq(S) \in Seq(S) /\ DOMAIN SetToSeq(S) = 1..n
  BY <1>4
<1>10. QED
  BY <1>4, <1>8, <1>9 DEF Holds

\* A list whose elements are all in a set.
LEMMA ListOver ==
  ASSUME NEW V, NEW s \in Seq(V), NEW T, \A i \in DOMAIN s : s[i] \in T
  PROVE  s \in Seq(T)
<1>1. s \in [1..Len(s) -> T] /\ Len(s) \in Nat
  OBVIOUS
<1>2. QED
  BY <1>1

LEMMA InList == ASSUME NEW V, NEW s \in Seq(V) PROVE \A i \in DOMAIN s : s[i] \in V
  OBVIOUS

\* What lies between two slashes (the provers do not know that "" is a string).
Part == STRING \cup {""}

\* A profile of known rights.
WellWritten(w) ==
  /\ w.handledFS \in SUBSET FSRight
  /\ w.handledNet \in SUBSET NetRight
  /\ w.scoped \in SUBSET ScopeRight
  /\ w.pathRules \in Seq([path : Seq(Part), access : SUBSET FSRight])
  /\ w.netRules \in Seq([port : Port, access : SUBSET NetRight])

LEMMA AcceptedWellWritten ==
  ASSUME NEW w \in Passed, ValidProfile(w)
  PROVE  /\ WellWritten(w)
         /\ \A i \in DOMAIN w.pathRules : CleanPath(w.pathRules[i].path) \in Path
<1>1. w # NilProfile /\ \E n \in Arities : w \in Profiles[n]
  BY DEF ValidProfile, Passed
<1>2. /\ w.pathRules \in Seq([path : RawPath, access : SUBSET STRING])
      /\ w.netRules \in Seq([port : Port, access : SUBSET STRING])
  BY <1>1, CallsAssumption
<1>3. \A raw \in RawPath : raw \in Seq(STRING) /\ (ValidPath(raw) => CleanPath(raw) \in Path)
  BY PathAssumption
<1>4. \A i \in DOMAIN w.pathRules :
        /\ w.pathRules[i] \in [path : RawPath, access : SUBSET STRING]
        /\ ValidPath(w.pathRules[i].path) /\ w.pathRules[i].access \subseteq FSRight
  <2>1. \A i \in DOMAIN w.pathRules : w.pathRules[i] \in [path : RawPath, access : SUBSET STRING]
    BY <1>2, InList
  <2>2. \A i \in DOMAIN w.pathRules :
          ValidPath(w.pathRules[i].path) /\ w.pathRules[i].access \subseteq FSRight
    BY DEF ValidProfile
  <2>3. QED
    BY <2>1, <2>2
<1>5. \A i \in DOMAIN w.netRules :
        /\ w.netRules[i] \in [port : Port, access : SUBSET STRING]
        /\ w.netRules[i].access \subseteq NetRight
  <2>1. \A i \in DOMAIN w.netRules : w.netRules[i] \in [port : Port, access : SUBSET STRING]
    BY <1>2, InList
  <2>2. \A i \in DOMAIN w.netRules : w.netRules[i].access \subseteq NetRight
    BY DEF ValidProfile
  <2>3. QED
    BY <2>1, <2>2
<1>a. \A raw : raw \in Seq(STRING) => raw \in Seq(Part)
  <2> DEFINE V == STRING
             T == Part
  <2>1. V \subseteq T
    BY DEF Part
  <2> HIDE DEF V, T
  <2>2. \A raw : raw \in Seq(V) => raw \in Seq(T)
    BY <2>1
  <2>3. QED
    BY <2>2 DEF V, T
<1>6. \A i \in DOMAIN w.pathRules :
        w.pathRules[i] \in [path : Seq(Part), access : SUBSET FSRight]
  BY <1>3, <1>4, <1>a
<1>7. \A i \in DOMAIN w.netRules : w.netRules[i] \in [port : Port, access : SUBSET NetRight]
  BY <1>5
<1>8. w.pathRules \in Seq([path : Seq(Part), access : SUBSET FSRight])
  BY <1>2, <1>6, ListOver
<1>9. w.netRules \in Seq([port : Port, access : SUBSET NetRight])
  BY <1>2, <1>7, ListOver
<1>10. QED
  BY <1>3, <1>4, <1>8, <1>9 DEF WellWritten, ValidProfile

\* What the rules of a profile grant on a path and on a port.
OnPath(w, path) ==
  UNION {w.pathRules[i].access :
           i \in {i \in DOMAIN w.pathRules : CleanPath(w.pathRules[i].path) = path}}

OnPort(w, port) ==
  UNION {w.netRules[i].access : i \in {i \in DOMAIN w.netRules : w.netRules[i].port = port}}

PathKeys(w) == {CleanPath(w.pathRules[i].path) : i \in DOMAIN w.pathRules}
PortKeys(w) == {w.netRules[i].port : i \in DOMAIN w.netRules}

LEMMA NormalizedFacts ==
  ASSUME NEW w, WellWritten(w)
  PROVE  /\ WellFormed(Normalized(w))
         /\ Normalized(w).handledFS = w.handledFS
         /\ Normalized(w).handledNet = w.handledNet
         /\ Normalized(w).scoped = w.scoped
         /\ \A path \in Path : Normalized(w).pathRules[path] = OnPath(w, path) \cap w.handledFS
         /\ \A port \in Port : Normalized(w).netRules[port] = OnPort(w, port) \cap w.handledNet
<1> DEFINE p == NormalizeProfile(w)
<1>1. /\ \A path : OnPath(w, path) \in SUBSET FSRight
      /\ \A port : OnPort(w, port) \in SUBSET NetRight
  <2>1. \A i \in DOMAIN w.pathRules :
          w.pathRules[i] \in [path : Seq(Part), access : SUBSET FSRight]
    BY InList DEF WellWritten
  <2>2. \A i \in DOMAIN w.netRules : w.netRules[i] \in [port : Port, access : SUBSET NetRight]
    BY InList DEF WellWritten
  <2>3. /\ \A i \in DOMAIN w.pathRules : w.pathRules[i].access \subseteq FSRight
        /\ \A i \in DOMAIN w.netRules : w.netRules[i].access \subseteq NetRight
    BY <2>1, <2>2
  <2>4. QED
    BY <2>3 DEF OnPath, OnPort
<1>2. /\ p.handledFS = w.handledFS /\ p.handledNet = w.handledNet /\ p.scoped = w.scoped
      /\ p.pathRules = [path \in Path |-> OnPath(w, path)]
      /\ p.netRules = [port \in Port |-> OnPort(w, port)]
      /\ p = [handledFS |-> p.handledFS, handledNet |-> p.handledNet, scoped |-> p.scoped,
              pathRules |-> p.pathRules, netRules |-> p.netRules]
  BY DEF NormalizeProfile, OnPath, OnPort
<1> HIDE DEF p
<1>3. p \in NormalProfile
  <2>1. /\ [path \in Path |-> OnPath(w, path)] \in [Path -> SUBSET FSRight]
        /\ [port \in Port |-> OnPort(w, port)] \in [Port -> SUBSET NetRight]
    BY <1>1
  <2>2. QED
    BY <1>2, <2>1 DEF NormalProfile, WellWritten
<1>4. Normalized(w) = PruneUnhandledRights(p)
  BY DEF Normalized, p
<1>5. QED
  BY <1>2, <1>3, <1>4, PruneWellFormed

-----------------------------------------------------------------------------
(* What is left of a profile for a kernel that knows fewer rights *)

Lowered(rule, abi) == [rule EXCEPT !.access = SupportedRights(@, abi)]

\* A rule that loses its last right is left out, the others are lowered.
LEMMA SupportedRulesHold ==
  ASSUME NEW V, NEW rules \in Seq(V), NEW abi
  PROVE  /\ \A rule : Holds(SupportedRules(rules, abi), rule) <=>
              \E j \in DOMAIN rules :
                /\ rule = Lowered(rules[j], abi)
                /\ rules[j].access = {} \/ SupportedRights(rules[j].access, abi) # {}
         /\ \A T : (\A v \in V : Lowered(v, abi) \in T) => SupportedRules(rules, abi) \in Seq(T)
<1> DEFINE emptied == {rule \in Range(rules) :
                         rule.access # {} /\ SupportedRights(rule.access, abi) = {}}
           kept == Without(rules, emptied)
           lowered == [i \in DOMAIN kept |-> Lowered(kept[i], abi)]
<1>1. SupportedRules(rules, abi) = lowered
  BY DEF SupportedRules, Lowered
<1>2. /\ kept \in Seq(V)
      /\ \A e : Holds(kept, e) <=> e \notin emptied /\ Holds(rules, e)
  <2> HIDE DEF emptied
  <2>1. QED
    BY WithoutHolds
<1>3. \A j \in DOMAIN rules : rules[j] \notin emptied <=>
        rules[j].access = {} \/ SupportedRights(rules[j].access, abi) # {}
  BY DEF Range
<1> HIDE DEF kept, emptied
<1>4. ASSUME NEW rule
      PROVE  Holds(lowered, rule) <=> \E i \in DOMAIN kept : rule = Lowered(kept[i], abi)
  BY DEF Holds
<1>5. ASSUME NEW rule, NEW i \in DOMAIN kept, rule = Lowered(kept[i], abi)
      PROVE  \E j \in DOMAIN rules :
                /\ rule = Lowered(rules[j], abi)
                /\ rules[j].access = {} \/ SupportedRights(rules[j].access, abi) # {}
  <2>1. Holds(kept, kept[i])
    BY DEF Holds
  <2>2. PICK j \in DOMAIN rules : rules[j] = kept[i] /\ rules[j] \notin emptied
    BY <1>2, <2>1 DEF Holds
  <2>3. QED
    BY <1>3, <1>5, <2>2
<1>6. ASSUME NEW rule, NEW j \in DOMAIN rules, rule = Lowered(rules[j], abi),
             rules[j].access = {} \/ SupportedRights(rules[j].access, abi) # {}
      PROVE  \E i \in DOMAIN kept : rule = Lowered(kept[i], abi)
  <2>1. rules[j] \notin emptied /\ Holds(rules, rules[j])
    BY <1>3, <1>6 DEF Holds
  <2>2. PICK i \in DOMAIN kept : kept[i] = rules[j]
    BY <1>2, <2>1 DEF Holds
  <2>3. QED
    BY <1>6, <2>2
<1>7. ASSUME NEW T, \A v \in V : Lowered(v, abi) \in T PROVE lowered \in Seq(T)
  <2>1. Len(kept) \in Nat /\ DOMAIN kept = 1..Len(kept) /\ \A i \in DOMAIN kept : kept[i] \in V
    BY <1>2
  <2>2. lowered \in [1..Len(kept) -> T]
    BY <1>7, <2>1
  <2>3. QED
    BY <2>1, <2>2
<1> HIDE DEF lowered
<1>8. QED
  BY <1>1, <1>4, <1>5, <1>6, <1>7

\* The rights a version knows.
KnownRights(abi) == SupportedRights(FSRight \cup NetRight \cup ScopeRight, abi)

LEMMA SupportedIsKnown ==
  ASSUME NEW rights, rights \in SUBSET (FSRight \cup NetRight \cup ScopeRight), NEW abi
  PROVE  SupportedRights(rights, abi) = rights \cap KnownRights(abi)
  BY DEF SupportedRights, KnownRights

LEMMA LoweredFacts ==
  ASSUME NEW abi
  PROVE  /\ \A v \in [path : Seq(Part), access : SUBSET FSRight] :
              /\ Lowered(v, abi) \in [path : Seq(Part), access : SUBSET FSRight]
              /\ Lowered(v, abi).path = v.path
              /\ Lowered(v, abi).access = v.access \cap KnownRights(abi)
         /\ \A v \in [port : Port, access : SUBSET NetRight] :
              /\ Lowered(v, abi) \in [port : Port, access : SUBSET NetRight]
              /\ Lowered(v, abi).port = v.port
              /\ Lowered(v, abi).access = v.access \cap KnownRights(abi)
<1>1. ASSUME NEW v \in [path : Seq(Part), access : SUBSET FSRight]
      PROVE  /\ Lowered(v, abi) \in [path : Seq(Part), access : SUBSET FSRight]
             /\ Lowered(v, abi).path = v.path
             /\ Lowered(v, abi).access = v.access \cap KnownRights(abi)
  <2>1. SupportedRights(v.access, abi) = v.access \cap KnownRights(abi)
    BY SupportedIsKnown
  <2>2. SupportedRights(v.access, abi) \in SUBSET FSRight
    BY <2>1
  <2>3. QED
    BY <2>1, <2>2 DEF Lowered
<1>2. ASSUME NEW v \in [port : Port, access : SUBSET NetRight]
      PROVE  /\ Lowered(v, abi) \in [port : Port, access : SUBSET NetRight]
             /\ Lowered(v, abi).port = v.port
             /\ Lowered(v, abi).access = v.access \cap KnownRights(abi)
  <2>1. SupportedRights(v.access, abi) = v.access \cap KnownRights(abi)
    BY SupportedIsKnown
  <2>2. SupportedRights(v.access, abi) \in SUBSET NetRight
    BY <2>1
  <2>3. QED
    BY <2>1, <2>2 DEF Lowered
<1>3. QED
  BY <1>1, <1>2

\* The rules left for the kernel grant the rights it knows of those granted
\* before, on the same paths and ports.
LEMMA DowngradeFacts ==
  ASSUME NEW w, WellWritten(w), NEW abi
  PROVE  LET d == DowngradeToABI(w, abi)
             K == KnownRights(abi)
         IN /\ WellWritten(d)
            /\ d.handledFS = w.handledFS \cap K /\ d.handledNet = w.handledNet \cap K
            /\ d.scoped = w.scoped \cap K
            /\ \A path : OnPath(d, path) = OnPath(w, path) \cap K
            /\ \A port : OnPort(d, port) = OnPort(w, port) \cap K
<1> DEFINE d == DowngradeToABI(w, abi)
           K == KnownRights(abi)
           PR == [path : Seq(Part), access : SUBSET FSRight]
           NR == [port : Port, access : SUBSET NetRight]
<1>1. /\ d.handledFS = w.handledFS \cap K /\ d.handledNet = w.handledNet \cap K
      /\ d.scoped = w.scoped \cap K
  BY SupportedIsKnown DEF DowngradeToABI, WellWritten
<1>2. d.pathRules = SupportedRules(w.pathRules, abi) /\ d.netRules = SupportedRules(w.netRules, abi)
  BY DEF DowngradeToABI
<1>3. /\ \A v \in PR : /\ Lowered(v, abi) \in PR /\ Lowered(v, abi).path = v.path
                       /\ Lowered(v, abi).access = v.access \cap K
                       /\ v.access = {} \/ SupportedRights(v.access, abi) # {} \/ v.access \cap K = {}
      /\ \A v \in NR : /\ Lowered(v, abi) \in NR /\ Lowered(v, abi).port = v.port
                       /\ Lowered(v, abi).access = v.access \cap K
                       /\ v.access = {} \/ SupportedRights(v.access, abi) # {} \/ v.access \cap K = {}
  <2>1. \A v \in PR : /\ Lowered(v, abi) \in PR /\ Lowered(v, abi).path = v.path
                      /\ Lowered(v, abi).access = v.access \cap K
    BY LoweredFacts
  <2>2. \A v \in NR : /\ Lowered(v, abi) \in NR /\ Lowered(v, abi).port = v.port
                      /\ Lowered(v, abi).access = v.access \cap K
    BY LoweredFacts
  <2>3. ASSUME NEW v \in PR
        PROVE  SupportedRights(v.access, abi) # {} \/ v.access \cap K = {}
    BY SupportedIsKnown
  <2>4. ASSUME NEW v \in NR
        PROVE  SupportedRights(v.access, abi) # {} \/ v.access \cap K = {}
    BY SupportedIsKnown
  <2> HIDE DEF PR, NR, K
  <2>5. QED
    BY <2>1, <2>2, <2>3, <2>4
<1>4. w.pathRules \in Seq(PR) /\ w.netRules \in Seq(NR)
  BY DEF WellWritten
<1> HIDE DEF d, K, PR, NR
<1>5. /\ \A i \in DOMAIN w.pathRules : w.pathRules[i] \in PR
      /\ \A i \in DOMAIN w.netRules : w.netRules[i] \in NR
  BY <1>4, InList
<1>6. d.pathRules \in Seq(PR) /\ d.netRules \in Seq(NR)
  BY <1>2, <1>3, <1>4, SupportedRulesHold
<1>7. WellWritten(d)
  BY <1>1, <1>6 DEF WellWritten, PR, NR
<1>8. /\ \A rule : Holds(d.pathRules, rule) <=>
           \E j \in DOMAIN w.pathRules :
             /\ rule = Lowered(w.pathRules[j], abi)
             /\ w.pathRules[j].access = {} \/ SupportedRights(w.pathRules[j].access, abi) # {}
      /\ \A rule : Holds(d.netRules, rule) <=>
           \E j \in DOMAIN w.netRules :
             /\ rule = Lowered(w.netRules[j], abi)
             /\ w.netRules[j].access = {} \/ SupportedRights(w.netRules[j].access, abi) # {}
  <2>1. \A rule : Holds(SupportedRules(w.pathRules, abi), rule) <=>
          \E j \in DOMAIN w.pathRules :
            /\ rule = Lowered(w.pathRules[j], abi)
            /\ w.pathRules[j].access = {} \/ SupportedRights(w.pathRules[j].access, abi) # {}
    BY <1>4, SupportedRulesHold
  <2>2. \A rule : Holds(SupportedRules(w.netRules, abi), rule) <=>
          \E j \in DOMAIN w.netRules :
            /\ rule = Lowered(w.netRules[j], abi)
            /\ w.netRules[j].access = {} \/ SupportedRights(w.netRules[j].access, abi) # {}
    BY <1>4, SupportedRulesHold
  <2>3. QED
    BY <1>2, <2>1, <2>2
<1>9. ASSUME NEW path PROVE OnPath(d, path) = OnPath(w, path) \cap K
  <2>1. ASSUME NEW r, NEW i \in DOMAIN d.pathRules,
               CleanPath(d.pathRules[i].path) = path, r \in d.pathRules[i].access
        PROVE  r \in OnPath(w, path) \cap K
    <3>1. PICK j \in DOMAIN w.pathRules : d.pathRules[i] = Lowered(w.pathRules[j], abi)
      BY <1>8 DEF Holds
    <3>2. r \in w.pathRules[j].access \cap K /\ CleanPath(w.pathRules[j].path) = path
      BY <1>3, <1>5, <2>1, <3>1
    <3>3. QED
      BY <3>2 DEF OnPath
  <2>2. ASSUME NEW r \in K, NEW j \in DOMAIN w.pathRules,
               CleanPath(w.pathRules[j].path) = path, r \in w.pathRules[j].access
        PROVE  r \in OnPath(d, path)
    <3>1. w.pathRules[j].access = {} \/ SupportedRights(w.pathRules[j].access, abi) # {}
      BY <1>3, <1>5, <2>2
    <3>2. PICK i \in DOMAIN d.pathRules : d.pathRules[i] = Lowered(w.pathRules[j], abi)
      BY <1>8, <3>1 DEF Holds
    <3>3. r \in d.pathRules[i].access /\ CleanPath(d.pathRules[i].path) = path
      BY <1>3, <1>5, <2>2, <3>2
    <3>4. QED
      BY <3>3 DEF OnPath
  <2>3. QED
    BY <2>1, <2>2 DEF OnPath
<1>10. ASSUME NEW port PROVE OnPort(d, port) = OnPort(w, port) \cap K
  <2>1. ASSUME NEW r, NEW i \in DOMAIN d.netRules,
               d.netRules[i].port = port, r \in d.netRules[i].access
        PROVE  r \in OnPort(w, port) \cap K
    <3>1. PICK j \in DOMAIN w.netRules : d.netRules[i] = Lowered(w.netRules[j], abi)
      BY <1>8 DEF Holds
    <3>2. r \in w.netRules[j].access \cap K /\ w.netRules[j].port = port
      BY <1>3, <1>5, <2>1, <3>1
    <3>3. QED
      BY <3>2 DEF OnPort
  <2>2. ASSUME NEW r \in K, NEW j \in DOMAIN w.netRules,
               w.netRules[j].port = port, r \in w.netRules[j].access
        PROVE  r \in OnPort(d, port)
    <3>1. w.netRules[j].access = {} \/ SupportedRights(w.netRules[j].access, abi) # {}
      BY <1>3, <1>5, <2>2
    <3>2. PICK i \in DOMAIN d.netRules : d.netRules[i] = Lowered(w.netRules[j], abi)
      BY <1>8, <3>1 DEF Holds
    <3>3. r \in d.netRules[i].access /\ d.netRules[i].port = port
      BY <1>3, <1>5, <2>2, <3>2
    <3>4. QED
      BY <3>3 DEF OnPort
  <2>3. QED
    BY <2>1, <2>2 DEF OnPort
<1>11. QED
  BY <1>1, <1>7, <1>9, <1>10 DEF d, K

LEMMA SameProfile ==
  ASSUME NEW p \in NormalProfile, NEW q \in NormalProfile,
         p.handledFS = q.handledFS, p.handledNet = q.handledNet, p.scoped = q.scoped,
         \A path \in Path : p.pathRules[path] = q.pathRules[path],
         \A port \in Port : p.netRules[port] = q.netRules[port]
  PROVE  p = q
<1>1. p.pathRules = q.pathRules /\ p.netRules = q.netRules
  BY DEF NormalProfile
<1>2. QED
  BY <1>1 DEF NormalProfile

LEMMA NormalizedDowngrade ==
  ASSUME NEW w, WellWritten(w), NEW abi
  PROVE  Normalized(DowngradeToABI(w, abi)) = Known(Normalized(w), KnownRights(abi))
<1> DEFINE d == DowngradeToABI(w, abi)
           K == KnownRights(abi)
           p == Normalized(d)
           q == Known(Normalized(w), K)
<1>1. /\ WellWritten(d)
      /\ d.handledFS = w.handledFS \cap K /\ d.handledNet = w.handledNet \cap K
      /\ d.scoped = w.scoped \cap K
      /\ \A path : OnPath(d, path) = OnPath(w, path) \cap K
      /\ \A port : OnPort(d, port) = OnPort(w, port) \cap K
  BY DowngradeFacts
<1> HIDE DEF d, K
<1>2. /\ WellFormed(p) /\ p.handledFS = d.handledFS /\ p.handledNet = d.handledNet
      /\ p.scoped = d.scoped
      /\ \A path \in Path : p.pathRules[path] = OnPath(d, path) \cap d.handledFS
      /\ \A port \in Port : p.netRules[port] = OnPort(d, port) \cap d.handledNet
  BY <1>1, NormalizedFacts
<1>3. /\ WellFormed(Normalized(w)) /\ Normalized(w).handledFS = w.handledFS
      /\ Normalized(w).handledNet = w.handledNet /\ Normalized(w).scoped = w.scoped
      /\ \A path \in Path : Normalized(w).pathRules[path] = OnPath(w, path) \cap w.handledFS
      /\ \A port \in Port : Normalized(w).netRules[port] = OnPort(w, port) \cap w.handledNet
  BY NormalizedFacts
<1>4. /\ q.handledFS = w.handledFS \cap K /\ q.handledNet = w.handledNet \cap K
      /\ q.scoped = w.scoped \cap K
      /\ \A path \in Path : q.pathRules[path] = OnPath(w, path) \cap w.handledFS \cap K
      /\ \A port \in Port : q.netRules[port] = OnPort(w, port) \cap w.handledNet \cap K
  BY <1>3 DEF Known
<1>5. q \in NormalProfile
  BY <1>3 DEF Known, WellFormed, NormalProfile
<1>6. /\ p.handledFS = q.handledFS /\ p.handledNet = q.handledNet /\ p.scoped = q.scoped
      /\ \A path \in Path : p.pathRules[path] = q.pathRules[path]
      /\ \A port \in Port : p.netRules[port] = q.netRules[port]
  <2> HIDE DEF p, q
  <2>1. p.handledFS = q.handledFS /\ p.handledNet = q.handledNet /\ p.scoped = q.scoped
    BY <1>1, <1>2, <1>4
  <2>2. ASSUME NEW path \in Path PROVE p.pathRules[path] = q.pathRules[path]
    <3>1. OnPath(d, path) = OnPath(w, path) \cap K /\ d.handledFS = w.handledFS \cap K
      BY <1>1
    <3>2. p.pathRules[path] = OnPath(d, path) \cap d.handledFS
      BY <1>2
    <3>3. q.pathRules[path] = OnPath(w, path) \cap w.handledFS \cap K
      BY <1>4
    <3>4. QED
      BY <3>1, <3>2, <3>3
  <2>3. ASSUME NEW port \in Port PROVE p.netRules[port] = q.netRules[port]
    <3>1. OnPort(d, port) = OnPort(w, port) \cap K /\ d.handledNet = w.handledNet \cap K
      BY <1>1
    <3>2. p.netRules[port] = OnPort(d, port) \cap d.handledNet
      BY <1>2
    <3>3. q.netRules[port] = OnPort(w, port) \cap w.handledNet \cap K
      BY <1>4
    <3>4. QED
      BY <3>1, <3>2, <3>3
  <2>4. QED
    BY <2>1, <2>2, <2>3
<1> HIDE DEF p, q
<1>7. p = q
  BY <1>2, <1>5, <1>6, SameProfile DEF WellFormed
<1>8. QED
  BY <1>7 DEF p, q, d, K

-----------------------------------------------------------------------------
(* A merged profile as the caller gets it *)

CleanNames(path) == \A i \in DOMAIN path.names : path.names[i] \notin {"", "."}

LEMMA CleanedNames ==
  ASSUME NEW raw \in Seq(Part)
  PROVE  CleanNames(CleanPath(raw))
<1>1. \A e : Holds(Without(raw, {"", "."}), e) => e \notin {"", "."}
  BY WithoutHolds
<1>2. CleanPath(raw).names = Without(raw, {"", "."})
  BY DEF CleanPath
<1>3. QED
  BY <1>1, <1>2 DEF CleanNames, Holds

\* Parts to leave out at the front of a sequence.
LEMMA NothingFirst ==
  ASSUME NEW V, NEW s \in Seq(V), NEW A, \A i \in 1..Len(s) : s[i] \notin A
  PROVE  Without(s, A) = s
<1>1. 0 \in 0..Len(s) /\ Len(s) - 0 = Len(s) /\ \A i \in 1..Len(s) : 0 + i = i
  OBVIOUS
<1>2. \A i \in 1..Len(s) : s[i] \in A <=> i <= 0
  OBVIOUS
<1>3. /\ Without(s, A) \in Seq(V) /\ Len(Without(s, A)) = Len(s) - 0
      /\ \A i \in 1..(Len(s) - 0) : Without(s, A)[i] = s[0 + i]
  BY <1>1, <1>2, WithoutFirst
<1>4. QED
  BY <1>1, <1>3, SeqEqual

LEMMA OneFirst ==
  ASSUME NEW V, NEW s \in Seq(V), NEW A, NEW e \in V, e \in A,
         \A i \in 1..Len(s) : s[i] \notin A
  PROVE  /\ <<e>> \o s \in Seq(V) /\ Len(<<e>> \o s) = Len(s) + 1 /\ (<<e>> \o s)[1] = e
         /\ Without(<<e>> \o s, A) = s
<1> DEFINE raw == <<e>> \o s
           n == Len(s)
<1>1. n \in Nat /\ <<e>> \in Seq(V) /\ Len(<<e>>) = 1 /\ <<e>>[1] = e
  OBVIOUS
<1>2. raw \in Seq(V) /\ Len(raw) = n + 1
  BY <1>1
<1>3. raw[1] = e
  BY <1>1
<1>4. ASSUME NEW i \in 1..n PROVE raw[1 + i] = s[i]
  BY <1>1
<1> HIDE DEF raw
<1>5. \A i \in 1..Len(raw) : raw[i] \in A <=> i <= 1
  <2>1. ASSUME NEW i \in 1..(n + 1), i # 1 PROVE raw[i] \notin A /\ ~(i <= 1)
    <3>1. i - 1 \in 1..n /\ i = 1 + (i - 1)
      BY <1>1, <2>1
    <3>2. raw[1 + (i - 1)] = s[i - 1]
      BY <1>4, <3>1
    <3>3. QED
      BY <2>1, <3>1, <3>2
  <2>2. QED
    BY <1>2, <1>3, <2>1
<1>6. 1 \in 0..Len(raw) /\ Len(raw) - 1 = n
  BY <1>1, <1>2
<1> HIDE DEF n
<1>7. /\ Without(raw, A) \in Seq(V) /\ Len(Without(raw, A)) = Len(raw) - 1
      /\ \A i \in 1..(Len(raw) - 1) : Without(raw, A)[i] = raw[1 + i]
  <2> DEFINE d == 1
  <2>1. d \in 0..Len(raw) /\ \A i \in 1..Len(raw) : raw[i] \in A <=> i <= d
    BY <1>5, <1>6
  <2> HIDE DEF d
  <2>2. /\ Without(raw, A) \in Seq(V) /\ Len(Without(raw, A)) = Len(raw) - d
        /\ \A i \in 1..(Len(raw) - d) : Without(raw, A)[i] = raw[d + i]
    <3>1. raw \in Seq(V)
      BY <1>2
    <3>2. QED
      BY <2>1, <3>1, WithoutFirst
  <2>3. QED
    BY <2>2 DEF d
<1>8. Without(raw, A) = s
  BY <1>4, <1>6, <1>7, SeqEqual DEF n
<1>9. QED
  BY <1>2, <1>3, <1>8 DEF raw, n

LEMMA TwoFirst ==
  ASSUME NEW V, NEW e \in V, NEW A, e \in A
  PROVE  /\ <<e, e>> \in Seq(V) /\ Len(<<e, e>>) = 2 /\ <<e, e>>[1] = e
         /\ Without(<<e, e>>, A) = <<>>
<1> DEFINE raw == <<e, e>>
<1>1. raw \in Seq(V) /\ Len(raw) = 2 /\ raw[1] = e /\ raw[2] = e
  OBVIOUS
<1> HIDE DEF raw
<1>2. 2 \in 0..Len(raw) /\ \A i \in 1..Len(raw) : raw[i] \in A <=> i <= 2
  BY <1>1
<1>3. /\ Without(raw, A) \in Seq(V) /\ Len(Without(raw, A)) = Len(raw) - 2
  BY <1>1, <1>2, WithoutFirst
<1>4. Without(raw, A) = <<>>
  BY <1>1, <1>3
<1>5. QED
  BY <1>1, <1>4 DEF raw

\* The path of a merged rule is spelled so that it is read as the same path.
LEMMA SpelledPath ==
  ASSUME NEW path \in Path, CleanNames(path)
  PROVE  Spelling(path) \in Seq(Part) /\ CleanPath(Spelling(path)) = path
<1> DEFINE names == path.names
           empty == {"", "."}
<1>1. path \in [rooted : BOOLEAN, names : Seq(STRING)]
  BY PathAssumption
<1>2. /\ path.rooted \in BOOLEAN /\ names \in Seq(STRING)
      /\ path = [rooted |-> path.rooted, names |-> names]
  BY <1>1
<1>a. names \in Seq(Part)
  <2> DEFINE V == STRING
             T == Part
  <2>1. V \subseteq T
    BY DEF Part
  <2> HIDE DEF V, T
  <2>2. names \in Seq(V) => names \in Seq(T)
    BY <2>1
  <2>3. QED
    BY <1>2, <2>2 DEF V, T
<1>3. \A i \in 1..Len(names) : names[i] \notin empty
  <2>1. DOMAIN names = 1..Len(names)
    BY <1>a
  <2>2. QED
    BY <2>1 DEF CleanNames
<1>4. "" \in Part /\ "" \in empty
  BY DEF Part
<1>5. \A raw : CleanPath(raw) = [rooted |-> StartsAtRoot(raw), names |-> Without(raw, empty)]
  BY DEF CleanPath
<1> HIDE DEF names
<1>6. CASE path = Root
  <2> DEFINE raw == <<"", "">>
  <2>1. Spelling(path) = raw
    BY <1>6 DEF Spelling
  <2>2. raw \in Seq(Part) /\ Len(raw) = 2 /\ raw[1] = "" /\ Without(raw, empty) = <<>>
    <3> HIDE DEF empty
    <3>1. QED
      BY <1>4, TwoFirst
  <2> HIDE DEF raw
  <2>4. Len(raw) = 2
    BY <2>2
  <2>5. Len(raw) > 1
    BY <2>4
  <2>3. StartsAtRoot(raw) = TRUE
    BY <2>2, <2>5 DEF StartsAtRoot
  <2>6. QED
    BY <1>5, <1>6, <2>1, <2>2, <2>3 DEF Root
<1>7. CASE path # Root /\ path.rooted = TRUE
  <2> DEFINE raw == <<"">> \o names
  <2>1. Spelling(path) = raw
    BY <1>7 DEF Spelling, names
  <2>2. names # <<>>
    BY <1>2, <1>7 DEF Root
  <2>3. /\ raw \in Seq(Part) /\ Len(raw) = Len(names) + 1 /\ raw[1] = ""
        /\ Without(raw, empty) = names
    <3> HIDE DEF empty
    <3>1. QED
      BY <1>a, <1>3, <1>4, OneFirst
  <2>4. Len(names) \in Nat /\ Len(names) # 0
    BY <1>2, <2>2
  <2> HIDE DEF raw
  <2>8. Len(raw) = Len(names) + 1
    BY <2>3
  <2>5. Len(raw) > 1
    BY <2>4, <2>8
  <2>6. StartsAtRoot(raw) = TRUE
    BY <2>3, <2>5 DEF StartsAtRoot
  <2>7. QED
    BY <1>2, <1>5, <1>7, <2>1, <2>3, <2>6
<1>8. CASE path # Root /\ path.rooted = FALSE
  <2>1. Spelling(path) = <<>> \o names
    BY <1>8 DEF Spelling, names
  <2>2. Spelling(path) = names
    BY <1>2, <2>1
  <2>3. ~(Len(names) > 1 /\ names[1] = "")
    <3>1. ASSUME Len(names) > 1 PROVE names[1] # ""
      <4>1. 1 \in 1..Len(names)
        BY <1>a, <3>1
      <4>2. QED
        BY <1>3, <1>4, <4>1
    <3>2. QED
      BY <3>1
  <2>4. StartsAtRoot(names) = FALSE
    BY <2>3 DEF StartsAtRoot
  <2>5. Without(names, empty) = names
    <3> HIDE DEF empty
    <3>1. QED
      BY <1>a, <1>3, NothingFirst
  <2>6. CleanPath(names) = [rooted |-> FALSE, names |-> names]
    BY <1>5, <2>4, <2>5
  <2>7. QED
    BY <1>2, <1>a, <1>8, <2>2, <2>6
<1>9. QED
  BY <1>2, <1>6, <1>7, <1>8

\* What is written is read as the merged profile again.
LEMMA WrittenFacts ==
  ASSUME NEW p, WellFormed(p),
         IsFiniteSet(RuleKeys(p.pathRules)), IsFiniteSet(RuleKeys(p.netRules)),
         \A path \in RuleKeys(p.pathRules) : CleanNames(path)
  PROVE  /\ WellWritten(AsWritten(p))
         /\ Normalized(AsWritten(p)) = p
         /\ UsedRights(AsWritten(p)) = p.handledFS \cup p.handledNet \cup p.scoped
         /\ PathKeys(AsWritten(p)) = RuleKeys(p.pathRules)
         /\ PortKeys(AsWritten(p)) = RuleKeys(p.netRules)
         /\ \A path \in Path : OnPath(AsWritten(p), path) = p.pathRules[path]
         /\ \A port \in Port : OnPort(AsWritten(p), port) = p.netRules[port]
<1> DEFINE w == AsWritten(p)
           PK == RuleKeys(p.pathRules)
           NK == RuleKeys(p.netRules)
           pathRule == [path \in PK |-> [path |-> Spelling(path), access |-> p.pathRules[path]]]
           netRule == [port \in NK |-> [port |-> port, access |-> p.netRules[port]]]
           PS == {pathRule[path] : path \in PK}
           NS == {netRule[port] : port \in NK}
           PR == [path : Seq(Part), access : SUBSET FSRight]
           NR == [port : Port, access : SUBSET NetRight]
<1>1. /\ PK \subseteq Path /\ NK \subseteq Port
      /\ \A path \in Path : p.pathRules[path] \in SUBSET FSRight
      /\ \A port \in Port : p.netRules[port] \in SUBSET NetRight
  BY DEF WellFormed, NormalProfile, RuleKeys
<1>2. w.pathRules = SetToSeq(PS) /\ w.netRules = SetToSeq(NS)
  <2>1. /\ PS = {[path |-> Spelling(path), access |-> p.pathRules[path]] : path \in PK}
        /\ NS = {[port |-> port, access |-> p.netRules[port]] : port \in NK}
    OBVIOUS
  <2>2. QED
    BY <2>1 DEF AsWritten
<1>3. /\ w.handledFS = p.handledFS /\ w.handledNet = p.handledNet /\ w.scoped = p.scoped
  BY DEF AsWritten
<1>4. IsFiniteSet(PS) /\ IsFiniteSet(NS)
  <2> HIDE DEF PK, NK
  <2>1. pathRule \in Surjection(PK, PS) /\ netRule \in Surjection(NK, NS)
    BY DEF Surjection
  <2>2. IsFiniteSet(PK) /\ IsFiniteSet(NK)
    BY DEF PK, NK
  <2> HIDE DEF PS, NS, pathRule, netRule
  <2>3. QED
    BY <2>1, <2>2, FS_Surjection
<1> HIDE DEF w
<1>5. /\ w.pathRules \in Seq(PS) /\ \A e : Holds(w.pathRules, e) <=> e \in PS
      /\ w.netRules \in Seq(NS) /\ \A e : Holds(w.netRules, e) <=> e \in NS
  <2> HIDE DEF PS, NS
  <2>1. QED
    BY <1>2, <1>4, ListOfSet
<1>6. ASSUME NEW path \in PK
      PROVE  /\ pathRule[path] \in PR /\ pathRule[path].access = p.pathRules[path]
             /\ CleanPath(pathRule[path].path) = path
  BY <1>1, SpelledPath
<1>7. ASSUME NEW port \in NK
      PROVE  /\ netRule[port] \in NR /\ netRule[port].access = p.netRules[port]
             /\ netRule[port].port = port
  BY <1>1
<1> HIDE DEF pathRule, netRule, PR, NR
<1>8. PS \subseteq PR /\ NS \subseteq NR
  BY <1>6, <1>7
<1>9. WellWritten(w)
  <2>1. w.pathRules \in Seq(PR) /\ w.netRules \in Seq(NR)
    BY <1>5, <1>8
  <2>2. QED
    BY <1>3, <2>1 DEF WellWritten, WellFormed, NormalProfile, PR, NR
<1>10. ASSUME NEW path \in Path PROVE OnPath(w, path) = p.pathRules[path]
  <2>1. ASSUME NEW r, NEW i \in DOMAIN w.pathRules,
               CleanPath(w.pathRules[i].path) = path, r \in w.pathRules[i].access
        PROVE  r \in p.pathRules[path]
    <3>1. PICK key \in PK : w.pathRules[i] = pathRule[key]
      BY <1>5 DEF Holds
    <3>2. QED
      BY <1>6, <2>1, <3>1
  <2>2. ASSUME NEW r \in p.pathRules[path] PROVE r \in OnPath(w, path)
    <3>1. path \in PK
      BY <1>1, <2>2 DEF RuleKeys, WellFormed, NormalProfile
    <3>2. PICK i \in DOMAIN w.pathRules : w.pathRules[i] = pathRule[path]
      BY <1>5, <3>1 DEF Holds
    <3>3. r \in w.pathRules[i].access /\ CleanPath(w.pathRules[i].path) = path
      BY <1>6, <3>1, <3>2
    <3>4. QED
      BY <3>3 DEF OnPath
  <2>3. QED
    BY <2>1, <2>2 DEF OnPath
<1>11. ASSUME NEW port \in Port PROVE OnPort(w, port) = p.netRules[port]
  <2>1. ASSUME NEW r, NEW i \in DOMAIN w.netRules,
               w.netRules[i].port = port, r \in w.netRules[i].access
        PROVE  r \in p.netRules[port]
    <3>1. PICK key \in NK : w.netRules[i] = netRule[key]
      BY <1>5 DEF Holds
    <3>2. QED
      BY <1>7, <2>1, <3>1
  <2>2. ASSUME NEW r \in p.netRules[port] PROVE r \in OnPort(w, port)
    <3>1. port \in NK
      BY <1>1, <2>2 DEF RuleKeys, WellFormed, NormalProfile
    <3>2. PICK i \in DOMAIN w.netRules : w.netRules[i] = netRule[port]
      BY <1>5, <3>1 DEF Holds
    <3>3. r \in w.netRules[i].access /\ w.netRules[i].port = port
      BY <1>7, <3>1, <3>2
    <3>4. QED
      BY <3>3 DEF OnPort
  <2>3. QED
    BY <2>1, <2>2 DEF OnPort
<1>12. Normalized(w) = p
  <2> DEFINE n == Normalized(w)
  <2>1. /\ WellFormed(n) /\ n.handledFS = w.handledFS /\ n.handledNet = w.handledNet
        /\ n.scoped = w.scoped
        /\ \A path \in Path : n.pathRules[path] = OnPath(w, path) \cap w.handledFS
        /\ \A port \in Port : n.netRules[port] = OnPort(w, port) \cap w.handledNet
    BY <1>9, NormalizedFacts
  <2> HIDE DEF n
  <2>2. /\ \A path \in Path : p.pathRules[path] \subseteq p.handledFS
        /\ \A port \in Port : p.netRules[port] \subseteq p.handledNet
    BY DEF WellFormed
  <2>3. \A path \in Path : n.pathRules[path] = p.pathRules[path]
    BY <1>3, <1>10, <2>1, <2>2
  <2>4. \A port \in Port : n.netRules[port] = p.netRules[port]
    BY <1>3, <1>11, <2>1, <2>2
  <2>5. n = p
    BY <1>3, <2>1, <2>3, <2>4, SameProfile DEF WellFormed
  <2>6. QED
    BY <2>5 DEF n
<1>13. UsedRights(w) = p.handledFS \cup p.handledNet \cup p.scoped
  <2>1. ASSUME NEW i \in DOMAIN w.pathRules PROVE w.pathRules[i].access \subseteq p.handledFS
    <3>1. PICK key \in PK : w.pathRules[i] = pathRule[key]
      BY <1>5 DEF Holds
    <3>2. p.pathRules[key] \subseteq p.handledFS
      BY <1>1, <3>1 DEF WellFormed
    <3>3. QED
      BY <1>6, <3>1, <3>2
  <2>2. ASSUME NEW i \in DOMAIN w.netRules PROVE w.netRules[i].access \subseteq p.handledNet
    <3>1. PICK key \in NK : w.netRules[i] = netRule[key]
      BY <1>5 DEF Holds
    <3>2. p.netRules[key] \subseteq p.handledNet
      BY <1>1, <3>1 DEF WellFormed
    <3>3. QED
      BY <1>7, <3>1, <3>2
  <2>3. RulesAccess(w.pathRules) \subseteq p.handledFS /\ RulesAccess(w.netRules) \subseteq p.handledNet
    BY <2>1, <2>2 DEF RulesAccess
  <2>4. QED
    BY <1>3, <2>3 DEF UsedRights
<1>14. PathKeys(w) = PK
  <2>1. ASSUME NEW i \in DOMAIN w.pathRules PROVE CleanPath(w.pathRules[i].path) \in PK
    BY <1>5, <1>6 DEF Holds
  <2>2. ASSUME NEW path \in PK
        PROVE  \E i \in DOMAIN w.pathRules : path = CleanPath(w.pathRules[i].path)
    <3>1. PICK i \in DOMAIN w.pathRules : w.pathRules[i] = pathRule[path]
      BY <1>5 DEF Holds
    <3>2. QED
      BY <1>6, <3>1
  <2> HIDE DEF PK
  <2>3. QED
    BY <2>1, <2>2 DEF PathKeys
<1>15. PortKeys(w) = NK
  <2>1. ASSUME NEW i \in DOMAIN w.netRules PROVE w.netRules[i].port \in NK
    BY <1>5, <1>7 DEF Holds
  <2>2. ASSUME NEW port \in NK
        PROVE  \E i \in DOMAIN w.netRules : port = w.netRules[i].port
    <3>1. PICK i \in DOMAIN w.netRules : w.netRules[i] = netRule[port]
      BY <1>5 DEF Holds
    <3>2. QED
      BY <1>7, <3>1
  <2> HIDE DEF NK
  <2>3. QED
    BY <2>1, <2>2 DEF PortKeys
<1>16. QED
  BY <1>9, <1>10, <1>11, <1>12, <1>13, <1>14, <1>15 DEF w

LEMMA NormalizedKeys ==
  ASSUME NEW w, WellWritten(w)
  PROVE  LET p == Normalized(w)
         IN /\ IsFiniteSet(RuleKeys(p.pathRules)) /\ IsFiniteSet(RuleKeys(p.netRules))
            /\ \A path \in RuleKeys(p.pathRules) : CleanNames(path)
<1> DEFINE p == Normalized(w)
           PD == DOMAIN w.pathRules
           ND == DOMAIN w.netRules
           paths == [i \in PD |-> CleanPath(w.pathRules[i].path)]
           ports == [i \in ND |-> w.netRules[i].port]
           PS == {paths[i] : i \in PD}
           NS == {ports[i] : i \in ND}
<1>1. w.pathRules \in Seq([path : Seq(Part), access : SUBSET FSRight])
  BY DEF WellWritten
<1>2. \A i \in PD : w.pathRules[i] \in [path : Seq(Part), access : SUBSET FSRight]
  BY <1>1, InList
<1>3. \A i \in PD : w.pathRules[i].path \in Seq(Part)
  BY <1>2
<1>4. IsFiniteSet(PD) /\ IsFiniteSet(ND)
  <2>1. /\ PD = 1..Len(w.pathRules) /\ Len(w.pathRules) \in Nat
        /\ ND = 1..Len(w.netRules) /\ Len(w.netRules) \in Nat
    BY DEF WellWritten
  <2>2. QED
    BY <2>1, FS_Interval
<1>5. IsFiniteSet(PS) /\ IsFiniteSet(NS)
  <2> HIDE DEF PD, ND
  <2>1. paths \in Surjection(PD, PS) /\ ports \in Surjection(ND, NS)
    BY DEF Surjection
  <2> HIDE DEF PS, NS, paths, ports
  <2>2. QED
    BY <1>4, <2>1, FS_Surjection
<1>6. /\ DOMAIN p.pathRules = Path /\ DOMAIN p.netRules = Port
      /\ \A path \in Path : p.pathRules[path] \subseteq OnPath(w, path)
      /\ \A port \in Port : p.netRules[port] \subseteq OnPort(w, port)
  <2>1. /\ WellFormed(p)
        /\ \A path \in Path : p.pathRules[path] = OnPath(w, path) \cap w.handledFS
        /\ \A port \in Port : p.netRules[port] = OnPort(w, port) \cap w.handledNet
    BY NormalizedFacts
  <2>2. QED
    BY <2>1 DEF WellFormed, NormalProfile
<1> HIDE DEF p
<1>7. ASSUME NEW path \in RuleKeys(p.pathRules) PROVE \E i \in PD : path = paths[i]
  <2>1. path \in Path /\ p.pathRules[path] # {}
    BY <1>6 DEF RuleKeys
  <2>2. OnPath(w, path) # {}
    BY <1>6, <2>1
  <2>3. QED
    BY <2>2 DEF OnPath
<1>8. ASSUME NEW port \in RuleKeys(p.netRules) PROVE \E i \in ND : port = ports[i]
  <2>1. port \in Port /\ p.netRules[port] # {}
    BY <1>6 DEF RuleKeys
  <2>2. OnPort(w, port) # {}
    BY <1>6, <2>1
  <2>3. QED
    BY <2>2 DEF OnPort
<1>9. RuleKeys(p.pathRules) \subseteq PS /\ RuleKeys(p.netRules) \subseteq NS
  BY <1>7, <1>8
<1>10. \A path \in RuleKeys(p.pathRules) : CleanNames(path)
  BY <1>3, <1>7, CleanedNames
<1> HIDE DEF PS, NS
<1>11. IsFiniteSet(RuleKeys(p.pathRules)) /\ IsFiniteSet(RuleKeys(p.netRules))
  BY <1>5, <1>9, FS_Subset
<1>12. QED
  BY <1>10, <1>11 DEF p

\* The ports of a merged profile are ports of its inputs.
LEMMA MergedPorts ==
  ASSUME NEW x, NEW inputs, MergeOf(x, inputs), \A p \in inputs : WellFormed(p),
         NEW port \in Port, x.netRules[port] # {}
  PROVE  \E p \in inputs : p.netRules[port] # {}
<1>1. WellFormed(x)
  BY DEF MergeOf, IntersectionOf, UnionOf
<1>2. PICK right \in NetRight : right \in x.netRules[port] /\ right \in x.handledNet
  BY <1>1 DEF WellFormed, NormalProfile
<1>3. CASE Strategy = "intersect"
  <2>1. IntersectionOf(x, inputs)
    BY <1>3 DEF MergeOf
  <2>2. PICK p \in inputs : right \in p.handledNet
    BY <1>2, <2>1 DEF IntersectionOf
  <2>3. PermitsNet(x, port, right)
    BY <1>2 DEF PermitsNet
  <2>4. PermitsNet(p, port, right)
    BY <2>1, <2>3 DEF IntersectionOf
  <2>5. QED
    BY <2>2, <2>4 DEF PermitsNet
<1>4. CASE Strategy # "intersect"
  <2>1. UnionOf(x, inputs)
    BY <1>4 DEF MergeOf
  <2>2. QED
    BY <1>2, <2>1 DEF UnionOf
<1>5. QED
  BY <1>3, <1>4

LEMMA InputsWritten ==
  ASSUME Inv, ResultInv, NEW i \in Inputs
  PROVE  WellWritten(args[i]) /\ normalized[i] = Normalized(args[i]) /\ WellFormed(normalized[i])
<1>1. /\ normalized[i] = PruneUnhandledRights(NormalizeProfile(args[i]))
      /\ ValidProfile(args[i]) /\ args[i] \in Passed
  BY DEF ResultInv, FromArgs
<1>2. QED
  BY <1>1, AcceptedWellWritten DEF Normalized, Inv, ProfilesWellFormed

\* The result is written as a profile that reads as the result.
LEMMA ResultWritten ==
  ASSUME Inv, ResultInv, GroupingInv, pc = "done"
  PROVE  /\ WellFormed(result)
         /\ WellWritten(AsWritten(result)) /\ Normalized(AsWritten(result)) = result
         /\ UsedRights(AsWritten(result)) = result.handledFS \cup result.handledNet \cup result.scoped
<1> DEFINE PS == UNION {RuleKeys(normalized[i].pathRules) : i \in Inputs}
           NS == UNION {RuleKeys(normalized[i].netRules) : i \in Inputs}
<1>1. WellFormed(result)
  BY DEF Inv, ProfilesWellFormed
<1>2. \A i \in Inputs : /\ IsFiniteSet(RuleKeys(normalized[i].pathRules))
                        /\ IsFiniteSet(RuleKeys(normalized[i].netRules))
                        /\ \A path \in RuleKeys(normalized[i].pathRules) : CleanNames(path)
  BY InputsWritten, NormalizedKeys
<1>3. \A i \in Inputs : /\ WellFormed(normalized[i]) /\ DOMAIN normalized[i].pathRules = Path
                        /\ DOMAIN normalized[i].netRules = Port
  BY InputsWritten DEF WellFormed, NormalProfile
<1>4. Inputs = 1..Len(normalized) /\ Len(normalized) \in Nat
  BY DEF Inv, TypeOK, Inputs
<1>5. IsFiniteSet(Inputs)
  BY <1>4, FS_Interval
<1>6. IsFiniteSet(PS) /\ IsFiniteSet(NS)
  <2> DEFINE pathKeys == [i \in Inputs |-> RuleKeys(normalized[i].pathRules)]
             portKeys == [i \in Inputs |-> RuleKeys(normalized[i].netRules)]
             PT == {pathKeys[i] : i \in Inputs}
             NT == {portKeys[i] : i \in Inputs}
  <2>1. pathKeys \in Surjection(Inputs, PT) /\ portKeys \in Surjection(Inputs, NT)
    BY DEF Surjection
  <2>2. /\ PS = UNION PT /\ NS = UNION NT
        /\ \A T \in PT : IsFiniteSet(T)
        /\ \A T \in NT : IsFiniteSet(T)
    BY <1>2
  <2> HIDE DEF PT, NT, pathKeys, portKeys, PS, NS
  <2>3. IsFiniteSet(PT) /\ IsFiniteSet(NT)
    BY <1>5, <2>1, FS_Surjection
  <2>4. QED
    BY <2>2, <2>3, FS_UNION
<1>7. RuleKeys(result.pathRules) \subseteq PS
  <2>1. \A path \in Path : result.pathRules[path] # {} =>
          \E i \in Inputs : normalized[i].pathRules[path] # {}
    BY DEF ResultInv, ResultKeys, KeysOfInputs, Inputs
  <2>2. DOMAIN result.pathRules = Path
    BY <1>1 DEF WellFormed, NormalProfile
  <2>3. QED
    BY <1>3, <2>1, <2>2 DEF RuleKeys
<1>8. PICK x : MergeOf(x, Range(normalized)) /\ result = Settled(x, normalized)
  BY DEF GroupingInv
<1>9. result.netRules = x.netRules
  <2>1. WellFormed(x)
    BY <1>8 DEF MergeOf, IntersectionOf, UnionOf
  <2>2. \A i \in DOMAIN normalized : WellFormed(normalized[i])
    BY <1>3 DEF Inputs
  <2>3. FinishIntersect(x, normalized).netRules = x.netRules
    BY DEF FinishIntersect
  <2>4. FinishUnion(x, normalized).netRules = x.netRules
    BY <2>1, <2>2, FinishUnionFacts
  <2>5. QED
    BY <1>8, <2>3, <2>4 DEF Settled
<1>10. RuleKeys(result.netRules) \subseteq NS
  <2>1. ASSUME NEW port \in Port, result.netRules[port] # {}
        PROVE  \E i \in Inputs : normalized[i].netRules[port] # {}
    <3>1. \A p \in Range(normalized) : WellFormed(p)
      BY <1>3 DEF Range, Inputs
    <3>2. \E p \in Range(normalized) : p.netRules[port] # {}
      BY <1>8, <1>9, <2>1, <3>1, MergedPorts
    <3>3. QED
      BY <3>2 DEF Range, Inputs
  <2>2. DOMAIN result.netRules = Port
    BY <1>1 DEF WellFormed, NormalProfile
  <2>3. QED
    BY <1>3, <2>1, <2>2 DEF RuleKeys
<1>11. \A path \in RuleKeys(result.pathRules) : CleanNames(path)
  BY <1>2, <1>7
<1>12. IsFiniteSet(RuleKeys(result.pathRules)) /\ IsFiniteSet(RuleKeys(result.netRules))
  <2> HIDE DEF PS, NS
  <2>1. QED
    BY <1>6, <1>7, <1>10, FS_Subset
<1>13. QED
  BY <1>1, <1>11, <1>12, WrittenFacts

-----------------------------------------------------------------------------

LEMMA KnownAll ==
  ASSUME NEW p, WellFormed(p)
  PROVE  Known(p, FSRight \cup NetRight \cup ScopeRight) = p
<1> DEFINE K == FSRight \cup NetRight \cup ScopeRight
           q == Known(p, K)
<1>1. /\ p.handledFS \cap K = p.handledFS /\ p.handledNet \cap K = p.handledNet
      /\ p.scoped \cap K = p.scoped
      /\ \A path \in Path : p.pathRules[path] \cap K = p.pathRules[path]
      /\ \A port \in Port : p.netRules[port] \cap K = p.netRules[port]
  BY DEF WellFormed, NormalProfile
<1>2. q \in NormalProfile
  BY DEF Known, WellFormed, NormalProfile
<1>3. /\ q.handledFS = p.handledFS /\ q.handledNet = p.handledNet /\ q.scoped = p.scoped
      /\ \A path \in Path : q.pathRules[path] = p.pathRules[path]
      /\ \A port \in Port : q.netRules[port] = p.netRules[port]
  BY <1>1 DEF Known
<1> HIDE DEF q
<1>4. q = p
  BY <1>2, <1>3, SameProfile DEF WellFormed
<1>5. QED
  BY <1>4 DEF q, K

LEMMA DoneAllowsNoDeniedMove ==
  ASSUME Inv, ResultInv, GroupingInv PROVE IntersectAllowsNoDeniedMove
<1> SUFFICES ASSUME pc = "done", Strategy = "intersect" PROVE IntersectAllowsNoDeniedMove
  BY DEF IntersectAllowsNoDeniedMove
<1>1. PICK x : /\ MergeOf(x, Range(normalized)) /\ KeysOfInputs(x, normalized)
               /\ result = Settled(x, normalized)
  BY DEF GroupingInv
<1>2. IntersectionOf(x, Range(normalized)) /\ result = FinishIntersect(x, normalized)
  BY <1>1 DEF MergeOf, Settled
<1>3. \A i \in DOMAIN normalized : WellFormed(normalized[i])
  BY InputsWritten DEF Inputs
<1>4. ASSUME NEW K, Refer \in K, NEW m \in Moves, m.rootMount, AllowsMove(Known(result, K), m),
             NEW i \in Inputs
      PROVE  AllowsMove(Known(normalized[i], K), m)
  BY <1>1, <1>2, <1>3, <1>4, KnownMovesAllowed DEF Inputs
<1>5. WellFormed(result) /\ WellWritten(AsWritten(result)) /\ Normalized(AsWritten(result)) = result
  BY ResultWritten
<1>6. ASSUME NEW m \in Moves, m.rootMount, AllowsMove(result, m), NEW i \in Inputs
      PROVE  AllowsMove(normalized[i], m)
  <2> DEFINE K == FSRight \cup NetRight \cup ScopeRight
  <2>1. Refer \in K
    BY RightsAssumption
  <2>2. Known(result, K) = result /\ Known(normalized[i], K) = normalized[i]
    BY <1>3, <1>5, KnownAll DEF Inputs
  <2> HIDE DEF K
  <2>3. QED
    BY <1>4, <1>6, <2>1, <2>2
<1>7. ASSUME NEW abi \in RightABI[Refer] .. LatestABIVersion,
             NEW m \in Moves, m.rootMount,
             AllowsMove(Normalized(DowngradeToABI(AsWritten(result), abi)), m),
             NEW i \in Inputs
      PROVE  AllowsMove(Normalized(DowngradeToABI(args[i], abi)), m)
  <2> DEFINE K == KnownRights(abi)
  <2>1. Refer \in K
    <3>1. Refer \in FSRight /\ RightABI[Refer] \in Nat /\ LatestABIVersion \in Nat
      BY RightsAssumption, ABIAssumption DEF ABIVersion
    <3>2. RightABI[Refer] <= abi
      BY <3>1
    <3>3. QED
      BY <3>1, <3>2 DEF KnownRights, SupportedRights
  <2>2. Normalized(DowngradeToABI(AsWritten(result), abi)) = Known(result, K)
    BY <1>5, NormalizedDowngrade
  <2>3. Normalized(DowngradeToABI(args[i], abi)) = Known(normalized[i], K)
    BY InputsWritten, NormalizedDowngrade
  <2> HIDE DEF K
  <2>4. QED
    BY <1>4, <1>7, <2>1, <2>2, <2>3
<1>8. QED
  BY <1>6, <1>7 DEF IntersectAllowsNoDeniedMove

\* No move in the root mount is allowed by an intersection and denied by an
\* input, nor by what is left of the two on an older kernel, whatever the
\* profiles, the paths and the versions.
THEOREM IntersectionAllowsNoDeniedMove == Spec => []IntersectAllowsNoDeniedMove
  BY Invariance, ResultInvariance, GroupingInvariance, DoneAllowsNoDeniedMove, PTL

-----------------------------------------------------------------------------
(* The version a result needs *)

NeededVersions(w) == {1} \cup {RightABI[right] : right \in UsedRights(w) \cap DOMAIN RightABI}

LEMMA RequiredFacts ==
  ASSUME NEW w
  PROVE  /\ RequiredABIVersion(w) \in NeededVersions(w)
         /\ \A v \in NeededVersions(w) : v <= RequiredABIVersion(w)
<1> DEFINE T == NeededVersions(w)
<1>1. LatestABIVersion \in Nat /\ 1 \in 0..LatestABIVersion
      /\ \A right \in DOMAIN RightABI : RightABI[right] \in 0..LatestABIVersion
  BY ABIAssumption DEF ABIVersion
<1>2. T \in SUBSET (0..LatestABIVersion) /\ T # {}
  BY <1>1 DEF NeededVersions
<1>3. RequiredABIVersion(w) = Max(T)
  BY DEF RequiredABIVersion, NeededVersions
<1> HIDE DEF T
<1>4. PICK m \in T : \A k \in T : k <= m
  BY <1>1, <1>2, GreatestNatural
<1>5. T \in SUBSET Nat
  BY <1>1, <1>2
<1>6. \A k \in T : m >= k
  BY <1>4, <1>5
<1>7. Max(T) \in T /\ \A k \in T : Max(T) >= k
  BY <1>4, <1>6 DEF Max
<1>8. \A k \in T : k <= Max(T)
  BY <1>5, <1>7
<1>9. QED
  BY <1>3, <1>7, <1>8 DEF T

\* Handling a right an input uses needs no newer version than the input.
LEMMA DoneNeedsNoNewerKernel ==
  ASSUME Inv, ResultInv, GroupingInv PROVE ResultNeedsNoNewerKernel
<1> SUFFICES ASSUME pc = "done" PROVE ResultNeedsNoNewerKernel
  BY DEF ResultNeedsNoNewerKernel
<1> DEFINE w == AsWritten(result)
           needed == RequiredABIVersion(w)
<1>1. UsedRights(w) = result.handledFS \cup result.handledNet \cup result.scoped
  BY ResultWritten
<1>2. needed \in NeededVersions(w)
  BY RequiredFacts
<1>3. ASSUME NEW i \in Inputs, needed \in NeededVersions(args[i])
      PROVE  needed <= RequiredABIVersion(args[i])
  BY <1>3, RequiredFacts
<1>4. PICK x : MergeOf(x, Range(normalized)) /\ result = Settled(x, normalized)
  BY DEF GroupingInv
<1>5. \A i \in Inputs : /\ WellFormed(normalized[i]) /\ normalized[i] \in Range(normalized)
                        /\ normalized[i].handledFS = args[i].handledFS
                        /\ normalized[i].handledNet = args[i].handledNet
                        /\ normalized[i].scoped = args[i].scoped
                        /\ normalized[i].handledFS \cup normalized[i].handledNet
                             \cup normalized[i].scoped \subseteq UsedRights(args[i])
  <2>1. \A i \in Inputs : /\ WellFormed(normalized[i])
                          /\ normalized[i].handledFS = args[i].handledFS
                          /\ normalized[i].handledNet = args[i].handledNet
                          /\ normalized[i].scoped = args[i].scoped
    BY InputsWritten, NormalizedFacts
  <2>2. \A i \in Inputs : normalized[i] \in Range(normalized)
    BY DEF Range, Inputs
  <2>3. QED
    BY <2>1, <2>2 DEF UsedRights
<1>6. \A p \in Range(normalized) : \E i \in Inputs : p = normalized[i]
  BY DEF Range, Inputs
<1>7. 1 \in Inputs
  BY DEF Inv, TypeOK, PhasesOK, Inputs
<1>8. CASE needed = 1
  <2>1. needed \in NeededVersions(args[1])
    BY <1>8 DEF NeededVersions
  <2>2. QED
    BY <1>3, <1>7, <2>1 DEF ResultNeedsNoNewerKernel
<1>9. CASE needed # 1
  <2>1. PICK right \in DOMAIN RightABI : right \in UsedRights(w) /\ needed = RightABI[right]
    BY <1>2, <1>9 DEF NeededVersions
  <2>2. ASSUME NEW i \in Inputs, right \in UsedRights(args[i])
        PROVE  ResultNeedsNoNewerKernel
    <3>1. needed \in NeededVersions(args[i])
      BY <2>1, <2>2 DEF NeededVersions
    <3>2. QED
      BY <1>3, <3>1 DEF ResultNeedsNoNewerKernel
  <2>3. CASE Strategy = "intersect"
    <3>1. IntersectionOf(x, Range(normalized)) /\ result = FinishIntersect(x, normalized)
      BY <1>4, <2>3 DEF MergeOf, Settled
    <3>2. right \in x.handledFS \cup x.handledNet \cup x.scoped
      BY <1>1, <2>1, <3>1 DEF FinishIntersect
    <3>3. PICK p \in Range(normalized) : right \in p.handledFS \cup p.handledNet \cup p.scoped
      BY <3>1, <3>2 DEF IntersectionOf
    <3>4. QED
      BY <1>5, <1>6, <2>2, <3>3
  <2>4. CASE Strategy # "intersect"
    <3>1. UnionOf(x, Range(normalized)) /\ result = FinishUnion(x, normalized)
      BY <1>4, <2>4 DEF MergeOf, Settled
    <3>2. /\ WellFormed(x) /\ result.handledFS \subseteq x.handledFS
          /\ result.handledNet = x.handledNet /\ result.scoped = x.scoped
      <4>1. WellFormed(x)
        BY <3>1 DEF UnionOf
      <4>2. \A i \in DOMAIN normalized : WellFormed(normalized[i])
        BY <1>5 DEF Inputs
      <4>3. QED
        BY <3>1, <4>1, <4>2, FinishUnionFacts
    <3>3. CASE right \in x.handledNet \/ right \in x.scoped \/ (right \in x.handledFS /\ right # Refer)
      <4>1. right \in UsedRights(args[1])
        <5>1. normalized[1] \in Range(normalized)
          BY <1>5, <1>7
        <5>2. \/ right \in normalized[1].handledNet \/ right \in normalized[1].scoped
              \/ right \in normalized[1].handledFS
          BY <3>1, <3>2, <3>3, <5>1 DEF UnionOf, WellFormed, NormalProfile
        <5>3. QED
          BY <1>5, <1>7, <5>2
      <4>2. QED
        BY <1>7, <2>2, <4>1
    <3>4. CASE right = Refer /\ Refer \in x.handledFS
      <4>1. /\ \A p \in Range(normalized) : p.handledFS # {}
            /\ \/ \A p \in Range(normalized) : Refer \in p.handledFS
               \/ \E p \in Range(normalized), path \in Path : Refer \in p.pathRules[path]
               \/ \A r \in FSRight \ {Refer} : \E p \in Range(normalized) : r \notin p.handledFS
        BY <3>1, <3>4 DEF UnionOf
      <4>2. CASE \A p \in Range(normalized) : Refer \in p.handledFS
        BY <1>5, <1>7, <2>2, <3>4, <4>2
      <4>3. CASE \E p \in Range(normalized), path \in Path : Refer \in p.pathRules[path]
        <5>1. PICK i \in Inputs, path \in Path : Refer \in normalized[i].pathRules[path]
          BY <1>6, <4>3
        <5>2. Refer \in normalized[i].handledFS
          BY <1>5, <5>1 DEF WellFormed
        <5>3. QED
          BY <1>5, <2>2, <3>4, <5>2
      <4>4. CASE \A r \in FSRight \ {Refer} : \E p \in Range(normalized) : r \notin p.handledFS
        <5>1. Strategy = "union"
          BY <2>4, CallsAssumption
        <5>2. \A i \in Inputs : args[i].handledFS # {}
          BY <1>5, <4>1
        <5>3. \A r \in FSRight \ {Refer} : \E i \in Inputs : r \notin args[i].handledFS
          BY <1>5, <1>6, <4>4
        <5>4. QED
          BY <2>1, <3>4, <5>1, <5>2, <5>3 DEF ResultNeedsNoNewerKernel
      <4>5. QED
        BY <4>1, <4>2, <4>3, <4>4
    <3>5. QED
      BY <1>1, <2>1, <3>2, <3>3, <3>4
  <2>5. QED
    BY <2>3, <2>4
<1>10. QED
  BY <1>8, <1>9

\* The version a result needs is one that an input needs, refer listed by a
\* union that would otherwise handle nothing apart.
THEOREM NoNewerKernelNeeded == Spec => []ResultNeedsNoNewerKernel
  BY Invariance, ResultInvariance, GroupingInvariance, DoneNeedsNoNewerKernel, PTL

-----------------------------------------------------------------------------
(* How two profiles compare *)

LEMMA MapFacts ==
  ASSUME NEW w
  PROVE  /\ PathMap(w) = [path \in PathKeys(w) |-> OnPath(w, path)]
         /\ NetMap(w) = [port \in PortKeys(w) |-> OnPort(w, port)]
  BY DEF PathMap, NetMap, PathKeys, PortKeys, OnPath, OnPort

LEMMA DiffFacts ==
  ASSUME NEW l, NEW r
  PROVE  /\ AddsNothing(Diff(l, r)) <=>
              /\ r.handledFS \subseteq l.handledFS /\ r.handledNet \subseteq l.handledNet
              /\ r.scoped \subseteq l.scoped
              /\ PathKeys(r) \subseteq PathKeys(l) /\ PortKeys(r) \subseteq PortKeys(l)
         /\ Equal(Diff(l, r)) <=>
              /\ (l.handledFS \subseteq r.handledFS /\ r.handledFS \subseteq l.handledFS)
              /\ (l.handledNet \subseteq r.handledNet /\ r.handledNet \subseteq l.handledNet)
              /\ (l.scoped \subseteq r.scoped /\ r.scoped \subseteq l.scoped)
              /\ (PathKeys(l) \subseteq PathKeys(r) /\ PathKeys(r) \subseteq PathKeys(l))
              /\ (PortKeys(l) \subseteq PortKeys(r) /\ PortKeys(r) \subseteq PortKeys(l))
              /\ (\A path \in PathKeys(l) : OnPath(l, path) = OnPath(r, path))
              /\ (\A port \in PortKeys(l) : OnPort(l, port) = OnPort(r, port))
<1> DEFINE d == Diff(l, r)
           PL == PathMap(l)
           PR == PathMap(r)
           NL == NetMap(l)
           NR == NetMap(r)
<1>1. /\ DOMAIN d = {"handledFS", "handledNet", "scoped", "pathRules", "netRules"}
      /\ d.handledFS = RightsDiff(l.handledFS, r.handledFS)
      /\ d.handledNet = RightsDiff(l.handledNet, r.handledNet)
      /\ d.scoped = RightsDiff(l.scoped, r.scoped)
      /\ d.pathRules = RulesDiff(PL, PR)
      /\ d.netRules = RulesDiff(NL, NR)
  BY DEF Diff
<1> HIDE DEF d, PL, PR, NL, NR
<1>2. /\ DOMAIN PL = PathKeys(l) /\ DOMAIN PR = PathKeys(r)
      /\ DOMAIN NL = PortKeys(l) /\ DOMAIN NR = PortKeys(r)
      /\ \A path \in PathKeys(l) : PL[path] = OnPath(l, path)
      /\ \A path \in PathKeys(r) : PR[path] = OnPath(r, path)
      /\ \A port \in PortKeys(l) : NL[port] = OnPort(l, port)
      /\ \A port \in PortKeys(r) : NR[port] = OnPort(r, port)
  BY MapFacts DEF PL, PR, NL, NR
<1>3. ASSUME NEW a, NEW b
      PROVE  /\ DOMAIN RightsDiff(a, b) = {"added", "removed"}
             /\ RightsDiff(a, b).added = b \ a /\ RightsDiff(a, b).removed = a \ b
  BY DEF RightsDiff
<1>4. ASSUME NEW a, NEW b
      PROVE  /\ DOMAIN RulesDiff(a, b) = {"added", "removed", "changed"}
             /\ RulesDiff(a, b).added = DOMAIN b \ DOMAIN a
             /\ RulesDiff(a, b).removed = DOMAIN a \ DOMAIN b
             /\ RulesDiff(a, b).changed = {key \in DOMAIN a \cap DOMAIN b : a[key] # b[key]}
  BY DEF RulesDiff
<1>5. AddsNothing(d) <=>
        /\ d.handledFS.added = {} /\ d.handledNet.added = {} /\ d.scoped.added = {}
        /\ d.pathRules.added = {} /\ d.netRules.added = {}
  BY <1>1 DEF AddsNothing
<1>6. Equal(d) <=>
        /\ \A side \in DOMAIN d.handledFS : d.handledFS[side] = {}
        /\ \A side \in DOMAIN d.handledNet : d.handledNet[side] = {}
        /\ \A side \in DOMAIN d.scoped : d.scoped[side] = {}
        /\ \A side \in DOMAIN d.pathRules : d.pathRules[side] = {}
        /\ \A side \in DOMAIN d.netRules : d.netRules[side] = {}
  <2>1. d["handledFS"] = d.handledFS /\ d["handledNet"] = d.handledNet /\ d["scoped"] = d.scoped
        /\ d["pathRules"] = d.pathRules /\ d["netRules"] = d.netRules
    OBVIOUS
  <2>2. QED
    BY <1>1, <2>1 DEF Equal
<1>7. AddsNothing(d) <=>
        /\ r.handledFS \subseteq l.handledFS /\ r.handledNet \subseteq l.handledNet
        /\ r.scoped \subseteq l.scoped
        /\ PathKeys(r) \subseteq PathKeys(l) /\ PortKeys(r) \subseteq PortKeys(l)
  BY <1>1, <1>2, <1>3, <1>4, <1>5
<1>8. ASSUME NEW a, NEW b
      PROVE  (\A side \in DOMAIN RightsDiff(a, b) : RightsDiff(a, b)[side] = {})
               <=> a \subseteq b /\ b \subseteq a
  BY <1>3
<1>9. ASSUME NEW a, NEW b
      PROVE  (\A side \in DOMAIN RulesDiff(a, b) : RulesDiff(a, b)[side] = {})
               <=> /\ DOMAIN a \subseteq DOMAIN b /\ DOMAIN b \subseteq DOMAIN a
                   /\ \A key \in DOMAIN a \cap DOMAIN b : a[key] = b[key]
  BY <1>4
<1>10. Equal(d) <=>
        /\ (l.handledFS \subseteq r.handledFS /\ r.handledFS \subseteq l.handledFS)
        /\ (l.handledNet \subseteq r.handledNet /\ r.handledNet \subseteq l.handledNet)
        /\ (l.scoped \subseteq r.scoped /\ r.scoped \subseteq l.scoped)
        /\ (PathKeys(l) \subseteq PathKeys(r) /\ PathKeys(r) \subseteq PathKeys(l)
             /\ \A path \in PathKeys(l) \cap PathKeys(r) : PL[path] = PR[path])
        /\ (PortKeys(l) \subseteq PortKeys(r) /\ PortKeys(r) \subseteq PortKeys(l)
             /\ \A port \in PortKeys(l) \cap PortKeys(r) : NL[port] = NR[port])
  BY <1>1, <1>2, <1>6, <1>8, <1>9
<1>11. QED
  BY <1>2, <1>7, <1>10 DEF d

-----------------------------------------------------------------------------
(* A profile merged with itself *)

LEMMA IntersectionOfItself ==
  ASSUME NEW p, WellFormed(p)
  PROVE  LET x == IntersectTwo(p, p)
         IN /\ WellFormed(x)
            /\ x.handledFS = p.handledFS /\ x.handledNet = p.handledNet /\ x.scoped = p.scoped
            /\ \A port \in Port : x.netRules[port] = p.netRules[port]
            /\ \A path \in Path : Granted(x, path) = Granted(p, path)
<1> DEFINE x == IntersectTwo(p, p)
<1>1. IntersectionOf(p, {p})
  BY IntersectionOfOne
<1>2. IntersectionOf(x, {p})
  <2>1. \A q \in {p} \cup {p} : WellFormed(q)
    OBVIOUS
  <2>2. IntersectionOf(x, {p} \cup {p})
    BY <1>1, <2>1, IntersectionOfBoth
  <2>3. {p} \cup {p} = {p}
    OBVIOUS
  <2>4. QED
    BY <2>2, <2>3
<1> HIDE DEF x
<1>3. /\ x.handledFS = p.handledFS /\ x.handledNet = p.handledNet /\ x.scoped = p.scoped
      /\ WellFormed(x)
  BY <1>2 DEF IntersectionOf
<1>4. ASSUME NEW port \in Port PROVE x.netRules[port] = p.netRules[port]
  <2>1. \A right \in NetRight : PermitsNet(x, port, right) <=> PermitsNet(p, port, right)
    BY <1>2 DEF IntersectionOf
  <2>2. /\ x.netRules[port] \subseteq x.handledNet /\ p.netRules[port] \subseteq p.handledNet
        /\ p.handledNet \subseteq NetRight
    BY <1>3 DEF WellFormed, NormalProfile
  <2>3. QED
    BY <1>3, <2>1, <2>2 DEF PermitsNet
<1>5. DeniedByDefault(x) = DeniedByDefault(p)
  BY <1>3 DEF DeniedByDefault
<1>6. ASSUME NEW path \in Path PROVE Granted(x, path) = Granted(p, path)
  <2>1. \A right \in FSRight : PermitsFS(x, path, right) <=> PermitsFS(p, path, right)
    BY <1>2 DEF IntersectionOf
  <2>2. \A right : right \in Granted(x, path) <=>
          right \in FSRight /\ right \in DeniedByDefault(x) /\ PermitsFS(x, path, right)
    BY <1>3, GrantedIs
  <2>3. \A right : right \in Granted(p, path) <=>
          right \in FSRight /\ right \in DeniedByDefault(p) /\ PermitsFS(p, path, right)
    BY GrantedIs
  <2>4. \A right : right \in Granted(x, path) <=> right \in Granted(p, path)
    BY <1>5, <2>1, <2>2, <2>3
  <2>5. QED
    BY <2>4
<1>7. QED
  BY <1>3, <1>4, <1>6 DEF x

\* Merging a profile with itself only drops what a rule above grants too.
LEMMA MergedWithItselfFacts ==
  ASSUME NEW p, WellFormed(p)
  PROVE  LET f == FinishIntersect(IntersectTwo(p, p), <<p, p>>)
         IN /\ WellFormed(f)
            /\ f.handledFS = p.handledFS /\ f.handledNet = p.handledNet /\ f.scoped = p.scoped
            /\ \A port \in Port : f.netRules[port] = p.netRules[port]
            /\ f.pathRules = MinimizePathRules(p.pathRules)
<1> DEFINE x == IntersectTwo(p, p)
           inputs == <<p, p>>
           f == FinishIntersect(x, inputs)
<1>1. /\ WellFormed(x)
      /\ x.handledFS = p.handledFS /\ x.handledNet = p.handledNet /\ x.scoped = p.scoped
      /\ \A port \in Port : x.netRules[port] = p.netRules[port]
      /\ \A path \in Path : Granted(x, path) = Granted(p, path)
  BY IntersectionOfItself
<1> HIDE DEF x
<1>2. DOMAIN inputs = {1, 2} /\ \A i \in DOMAIN inputs : inputs[i] = p
  OBVIOUS
<1> HIDE DEF inputs
<1>3. /\ WellFormed(f) /\ f.handledFS = x.handledFS /\ f.handledNet = x.handledNet
      /\ f.scoped = x.scoped /\ f.netRules = x.netRules
  BY <1>1, FinishIntersectFacts
<1>4. /\ x.pathRules \in [Path -> SUBSET FSRight]
      /\ p.pathRules \in [Path -> SUBSET FSRight]
  BY <1>1 DEF WellFormed, NormalProfile
<1>5. \A path \in Path : EffectiveFSAccess(x.pathRules)[path] = EffectiveFSAccess(p.pathRules)[path]
  BY <1>1, GrantedFacts
<1>6. DropUnsafeRefer(x.pathRules, inputs) = x.pathRules
  <2>1. InputRulePaths(inputs) \subseteq Path
    BY <1>2, <1>4 DEF InputRulePaths, RuleKeys
  <2>2. ReferAt(x.pathRules, inputs) \subseteq Path
    BY <2>1 DEF ReferAt
  <2>3. \A i \in DOMAIN inputs :
          MarkUnsafeRefer(x.pathRules, ReferAt(x.pathRules, inputs), inputs[i]) = {}
    BY <1>2, <1>5, <2>2 DEF MarkUnsafeRefer
  <2>4. UNION {MarkUnsafeRefer(x.pathRules, ReferAt(x.pathRules, inputs), inputs[i]) :
                 i \in DOMAIN inputs} = {}
    BY <2>3
  <2>5. QED
    BY <2>4 DEF DropUnsafeRefer
<1>7. f.pathRules = MinimizePathRules(x.pathRules)
  BY <1>6 DEF FinishIntersect
<1>8. MinimizePathRules(x.pathRules) = MinimizePathRules(p.pathRules)
  BY <1>4, <1>5, MinimizeAlike
<1>9. QED
  BY <1>1, <1>3, <1>7, <1>8 DEF f, x, inputs

\* A profile and its merge with itself differ where a rule grants nothing,
\* grants a right that is not handled, or one that a rule above grants.
LEMMA ItselfShows ==
  ASSUME NEW w, WellWritten(w), \A i \in DOMAIN w.pathRules : CleanPath(w.pathRules[i].path) \in Path
  PROVE  MergedWithItselfShows(w)
<1> DEFINE p == Normalized(w)
           f == FinishIntersect(IntersectTwo(p, p), <<p, p>>)
           m == AsWritten(f)
           above(path) == UNION {OnPath(w, upper) : upper \in StrictlyAbove[path] \cap PathKeys(w)}
<1>1. /\ WellFormed(p)
      /\ p.handledFS = w.handledFS /\ p.handledNet = w.handledNet /\ p.scoped = w.scoped
      /\ \A path \in Path : p.pathRules[path] = OnPath(w, path) \cap w.handledFS
      /\ \A port \in Port : p.netRules[port] = OnPort(w, port) \cap w.handledNet
  BY NormalizedFacts
<1>2. /\ IsFiniteSet(RuleKeys(p.pathRules)) /\ IsFiniteSet(RuleKeys(p.netRules))
      /\ \A path \in RuleKeys(p.pathRules) : CleanNames(path)
  BY NormalizedKeys
<1> HIDE DEF p
<1>3. /\ WellFormed(f)
      /\ f.handledFS = p.handledFS /\ f.handledNet = p.handledNet /\ f.scoped = p.scoped
      /\ \A port \in Port : f.netRules[port] = p.netRules[port]
      /\ f.pathRules = MinimizePathRules(p.pathRules)
  BY <1>1, MergedWithItselfFacts
<1> HIDE DEF f
<1>4. /\ p.pathRules \in [Path -> SUBSET FSRight] /\ p.netRules \in [Port -> SUBSET NetRight]
      /\ f.pathRules \in [Path -> SUBSET FSRight] /\ f.netRules \in [Port -> SUBSET NetRight]
  BY <1>1, <1>3 DEF WellFormed, NormalProfile
<1>5. \A path \in Path : f.pathRules[path] =
        p.pathRules[path] \ UNION {p.pathRules[upper] : upper \in StrictlyAbove[path]}
  BY <1>3 DEF MinimizePathRules
<1>6. RuleKeys(f.pathRules) \subseteq RuleKeys(p.pathRules) /\ RuleKeys(f.netRules) = RuleKeys(p.netRules)
  BY <1>3, <1>4, <1>5 DEF RuleKeys
<1>7. /\ IsFiniteSet(RuleKeys(f.pathRules)) /\ IsFiniteSet(RuleKeys(f.netRules))
      /\ \A path \in RuleKeys(f.pathRules) : CleanNames(path)
  BY <1>2, <1>6, FS_Subset
<1>8. /\ WellWritten(m) /\ Normalized(m) = f
      /\ PathKeys(m) = RuleKeys(f.pathRules) /\ PortKeys(m) = RuleKeys(f.netRules)
      /\ \A path \in Path : OnPath(m, path) = f.pathRules[path]
      /\ \A port \in Port : OnPort(m, port) = f.netRules[port]
  BY <1>3, <1>7, WrittenFacts
<1>9. m.handledFS = w.handledFS /\ m.handledNet = w.handledNet /\ m.scoped = w.scoped
  BY <1>1, <1>3 DEF AsWritten
<1> HIDE DEF m
<1>10. /\ PathKeys(w) \subseteq Path /\ PortKeys(w) \subseteq Port
       /\ \A path : OnPath(w, path) # {} => path \in PathKeys(w)
       /\ \A port : OnPort(w, port) # {} => port \in PortKeys(w)
  <2>1. \A i \in DOMAIN w.netRules : w.netRules[i] \in [port : Port, access : SUBSET NetRight]
    BY InList DEF WellWritten
  <2>2. \A i \in DOMAIN w.netRules : w.netRules[i].port \in Port
    BY <2>1
  <2>3. \A path : OnPath(w, path) # {} => path \in PathKeys(w)
    BY DEF OnPath, PathKeys
  <2>4. \A port : OnPort(w, port) # {} => port \in PortKeys(w)
    BY DEF OnPort, PortKeys
  <2>5. QED
    BY <2>2, <2>3, <2>4 DEF PathKeys, PortKeys
<1>11. PathKeys(m) \subseteq PathKeys(w)
  BY <1>1, <1>4, <1>6, <1>8, <1>10 DEF RuleKeys
<1>12. PortKeys(m) \subseteq PortKeys(w)
  BY <1>1, <1>3, <1>4, <1>6, <1>8, <1>10 DEF RuleKeys
<1>13. AddsNothing(Diff(w, m))
  BY <1>9, <1>11, <1>12, DiffFacts
<1>14. ASSUME NEW path \in Path
       PROVE  /\ StrictlyAbove[path] \subseteq Path
              /\ \A r : r \in f.pathRules[path] <=>
                   /\ r \in OnPath(w, path) /\ r \in w.handledFS
                   /\ r \notin above(path)
  <2>1. StrictlyAbove[path] \subseteq Path
    BY AboveFacts DEF StrictlyAbove
  <2>2. ASSUME NEW r \in w.handledFS
        PROVE  r \in above(path) <=>
                 r \in UNION {p.pathRules[upper] : upper \in StrictlyAbove[path]}
    <3>1. \A upper \in StrictlyAbove[path] : r \in p.pathRules[upper] <=> r \in OnPath(w, upper)
      BY <1>1, <2>1
    <3>2. QED
      BY <1>10, <3>1
  <2> HIDE DEF above
  <2>3. QED
    BY <1>1, <1>5, <2>1, <2>2
<1>15. ASSUME NEW path \in PathKeys(w)
       PROVE  (path \in PathKeys(m) /\ OnPath(w, path) = OnPath(m, path))
                <=> OnPath(w, path) \in (SUBSET (w.handledFS \ above(path))) \ {{}}
  <2> HIDE DEF above
  <2>1. path \in Path /\ OnPath(m, path) = f.pathRules[path]
    BY <1>8, <1>10
  <2>2. path \in PathKeys(m) <=> f.pathRules[path] # {}
    BY <1>4, <1>8, <2>1 DEF RuleKeys
  <2>3. \A r : r \in f.pathRules[path] <=>
          r \in OnPath(w, path) /\ r \in w.handledFS /\ r \notin above(path)
    BY <1>14, <2>1
  <2>4. QED
    BY <2>1, <2>2, <2>3
<1>16. ASSUME NEW port \in PortKeys(w)
       PROVE  (port \in PortKeys(m) /\ OnPort(w, port) = OnPort(m, port))
                <=> OnPort(w, port) \in (SUBSET w.handledNet) \ {{}}
  <2>1. port \in Port /\ OnPort(m, port) = OnPort(w, port) \cap w.handledNet
    BY <1>1, <1>3, <1>8, <1>10
  <2>2. port \in PortKeys(m) <=> OnPort(m, port) # {}
    BY <1>4, <1>8, <2>1 DEF RuleKeys
  <2>3. QED
    BY <2>1, <2>2
<1>17. Equal(Diff(w, m)) <=>
         /\ \A path \in PathKeys(w) : path \in PathKeys(m) /\ OnPath(w, path) = OnPath(m, path)
         /\ \A port \in PortKeys(w) : port \in PortKeys(m) /\ OnPort(w, port) = OnPort(m, port)
  BY <1>9, <1>11, <1>12, DiffFacts
<1>18. Equal(Diff(w, m)) <=>
         /\ \A path \in PathKeys(w) :
              OnPath(w, path) \in (SUBSET (w.handledFS \ above(path))) \ {{}}
         /\ \A port \in PortKeys(w) : OnPort(w, port) \in (SUBSET w.handledNet) \ {{}}
  <2> HIDE DEF above
  <2>1. QED
    BY <1>15, <1>16, <1>17
<1>19. /\ DOMAIN PathMap(w) = PathKeys(w) /\ DOMAIN NetMap(w) = PortKeys(w)
       /\ \A path \in PathKeys(w) : PathMap(w)[path] = OnPath(w, path)
       /\ \A port \in PortKeys(w) : NetMap(w)[port] = OnPort(w, port)
  BY MapFacts
<1>20. \A path : UNION {PathMap(w)[upper] : upper \in StrictlyAbove[path] \cap DOMAIN PathMap(w)}
                   = above(path)
  BY <1>19
<1>21. MergedWithItself(w) = m
  BY DEF MergedWithItself, m, f, p
<1> HIDE DEF above
<1>22. QED
  BY <1>13, <1>18, <1>19, <1>20, <1>21 DEF MergedWithItselfShows

-----------------------------------------------------------------------------
(* A profile rewritten for a kernel that knows fewer rights *)

\* Leaving elements out makes no sequence longer.
LEMMA WithoutShorter ==
  ASSUME NEW V, NEW seq \in Seq(V), NEW A
  PROVE  Len(Without(seq, A)) <= Len(seq)
<1> DEFINE n == Len(seq)
<1>1. PICK kept : Keeps(kept, seq, A, V) /\ Without(seq, A) = kept[n]
  BY WithoutUnfolds
<1>2. n \in Nat
  OBVIOUS
<1>3. /\ kept[0] = <<>> /\ \A k \in 0..n : kept[k] \in Seq(V)
      /\ \A k \in 1..n : kept[k] = IF seq[k] \in A THEN kept[k - 1] ELSE Append(kept[k - 1], seq[k])
  BY <1>1 DEF Keeps
<1>4. \A k \in 1..n : seq[k] \in V
  OBVIOUS
<1> HIDE DEF n
<1> DEFINE Good == {k \in 0..n : Len(kept[k]) <= k}
<1>5. 0 \in Good
  BY <1>2, <1>3
<1>6. ASSUME NEW k \in 1..n, k - 1 \in Good PROVE k \in Good
  <2> DEFINE before == kept[k - 1]
  <2>1. k \in 0..n /\ k - 1 \in 0..n /\ before \in Seq(V) /\ seq[k] \in V /\ Len(before) <= k - 1
    BY <1>2, <1>3, <1>4, <1>6
  <2>2. kept[k] = before \/ kept[k] = Append(before, seq[k])
    BY <1>3
  <2> HIDE DEF before
  <2>3. Len(Append(before, seq[k])) = Len(before) + 1 /\ Len(before) \in Nat
    BY <2>1
  <2>4. Len(kept[k]) <= Len(before) + 1
    BY <2>2, <2>3
  <2>5. Len(kept[k]) <= k
    <3>1. Len(kept[k]) \in Nat
      BY <1>3, <2>1
    <3>2. QED
      BY <1>2, <2>1, <2>3, <2>4, <3>1
  <2>6. QED
    BY <2>1, <2>5
<1>7. n \in Good
  <2> HIDE DEF Good
  <2>1. QED
    BY <1>2, <1>5, <1>6, StepByStep DEF Reaches
<1>8. QED
  BY <1>1, <1>7 DEF n

\* The rules written without a right.
Bare(rules) == {i \in DOMAIN rules : rules[i].access = {}}

\* The rules left are those of the profile that keep a right, lowered.
LEMMA DowngradedRules ==
  ASSUME NEW w, WellWritten(w), NEW abi
  PROVE  LET d == DowngradeToABI(w, abi)
             K == KnownRights(abi)
         IN /\ \A i \in DOMAIN d.pathRules : \E j \in DOMAIN w.pathRules :
                 /\ d.pathRules[i].path = w.pathRules[j].path
                 /\ d.pathRules[i].access = w.pathRules[j].access \cap K
            /\ Bare(d.pathRules) # {} => Bare(w.pathRules) # {}
            /\ \A j \in DOMAIN w.pathRules :
                 w.pathRules[j].access = {} \/ w.pathRules[j].access \cap K # {} =>
                   \E i \in DOMAIN d.pathRules : d.pathRules[i].path = w.pathRules[j].path
            /\ \A i \in DOMAIN d.netRules : \E j \in DOMAIN w.netRules :
                 /\ d.netRules[i].port = w.netRules[j].port
                 /\ d.netRules[i].access = w.netRules[j].access \cap K
            /\ Bare(d.netRules) # {} => Bare(w.netRules) # {}
            /\ \A j \in DOMAIN w.netRules :
                 w.netRules[j].access = {} \/ w.netRules[j].access \cap K # {} =>
                   \E i \in DOMAIN d.netRules : d.netRules[i].port = w.netRules[j].port
            /\ Len(d.pathRules) <= Len(w.pathRules)
            /\ Len(d.netRules) <= Len(w.netRules)
<1> DEFINE d == DowngradeToABI(w, abi)
           K == KnownRights(abi)
           PR == [path : Seq(Part), access : SUBSET FSRight]
           NR == [port : Port, access : SUBSET NetRight]
<1>1. d.pathRules = SupportedRules(w.pathRules, abi) /\ d.netRules = SupportedRules(w.netRules, abi)
  BY DEF DowngradeToABI
<1>2. /\ \A v \in PR : /\ Lowered(v, abi).path = v.path /\ Lowered(v, abi).access = v.access \cap K
      /\ \A v \in NR : /\ Lowered(v, abi).port = v.port /\ Lowered(v, abi).access = v.access \cap K
  BY LoweredFacts
<1>3. ASSUME NEW v \in PR PROVE SupportedRights(v.access, abi) = v.access \cap K
  BY SupportedIsKnown
<1>4. ASSUME NEW v \in NR PROVE SupportedRights(v.access, abi) = v.access \cap K
  BY SupportedIsKnown
<1>5. w.pathRules \in Seq(PR) /\ w.netRules \in Seq(NR)
  BY DEF WellWritten
<1> HIDE DEF d, K, PR, NR
<1>6. /\ \A i \in DOMAIN w.pathRules : w.pathRules[i] \in PR
      /\ \A i \in DOMAIN w.netRules : w.netRules[i] \in NR
  BY <1>5, InList
<1>7. \A rule : Holds(d.pathRules, rule) <=>
        \E j \in DOMAIN w.pathRules :
          /\ rule = Lowered(w.pathRules[j], abi)
          /\ w.pathRules[j].access = {} \/ w.pathRules[j].access \cap K # {}
  <2>1. \A rule : Holds(SupportedRules(w.pathRules, abi), rule) <=>
          \E j \in DOMAIN w.pathRules :
            /\ rule = Lowered(w.pathRules[j], abi)
            /\ w.pathRules[j].access = {} \/ SupportedRights(w.pathRules[j].access, abi) # {}
    BY <1>5, SupportedRulesHold
  <2>2. QED
    BY <1>1, <1>3, <1>6, <2>1
<1>8. \A rule : Holds(d.netRules, rule) <=>
        \E j \in DOMAIN w.netRules :
          /\ rule = Lowered(w.netRules[j], abi)
          /\ w.netRules[j].access = {} \/ w.netRules[j].access \cap K # {}
  <2>1. \A rule : Holds(SupportedRules(w.netRules, abi), rule) <=>
          \E j \in DOMAIN w.netRules :
            /\ rule = Lowered(w.netRules[j], abi)
            /\ w.netRules[j].access = {} \/ SupportedRights(w.netRules[j].access, abi) # {}
    BY <1>5, SupportedRulesHold
  <2>2. QED
    BY <1>1, <1>4, <1>6, <2>1
<1>9. ASSUME NEW V, NEW rules \in Seq(V)
      PROVE  Len(SupportedRules(rules, abi)) <= Len(rules)
  <2> DEFINE emptied == {rule \in Range(rules) :
                           rule.access # {} /\ SupportedRights(rule.access, abi) = {}}
             kept == Without(rules, emptied)
  <2>1. SupportedRules(rules, abi) = [i \in DOMAIN kept |-> Lowered(kept[i], abi)]
    BY DEF SupportedRules, Lowered
  <2> HIDE DEF emptied
  <2>2. kept \in Seq(V) /\ Len(kept) <= Len(rules)
    BY WithoutHolds, WithoutShorter
  <2> HIDE DEF kept
  <2>3. DOMAIN kept = 1..Len(kept) /\ Len(kept) \in Nat
    BY <2>2
  <2>4. Len([i \in DOMAIN kept |-> Lowered(kept[i], abi)]) = Len(kept)
    BY <2>3
  <2>5. QED
    BY <2>1, <2>2, <2>4
<1>10. Len(d.pathRules) <= Len(w.pathRules) /\ Len(d.netRules) <= Len(w.netRules)
  BY <1>1, <1>5, <1>9
<1>11. ASSUME NEW i \in DOMAIN d.pathRules
       PROVE  \E j \in DOMAIN w.pathRules :
                /\ d.pathRules[i].path = w.pathRules[j].path
                /\ d.pathRules[i].access = w.pathRules[j].access \cap K
                /\ w.pathRules[j].access = {} \/ w.pathRules[j].access \cap K # {}
  <2>1. Holds(d.pathRules, d.pathRules[i])
    BY DEF Holds
  <2>2. QED
    BY <1>2, <1>6, <1>7, <2>1
<1>12. ASSUME NEW i \in DOMAIN d.netRules
       PROVE  \E j \in DOMAIN w.netRules :
                /\ d.netRules[i].port = w.netRules[j].port
                /\ d.netRules[i].access = w.netRules[j].access \cap K
                /\ w.netRules[j].access = {} \/ w.netRules[j].access \cap K # {}
  <2>1. Holds(d.netRules, d.netRules[i])
    BY DEF Holds
  <2>2. QED
    BY <1>2, <1>6, <1>8, <2>1
<1>13. ASSUME NEW j \in DOMAIN w.pathRules,
              w.pathRules[j].access = {} \/ w.pathRules[j].access \cap K # {}
       PROVE  \E i \in DOMAIN d.pathRules : d.pathRules[i].path = w.pathRules[j].path
  <2>1. Holds(d.pathRules, Lowered(w.pathRules[j], abi))
    BY <1>7, <1>13
  <2>2. QED
    BY <1>2, <1>6, <2>1 DEF Holds
<1>14. ASSUME NEW j \in DOMAIN w.netRules,
              w.netRules[j].access = {} \/ w.netRules[j].access \cap K # {}
       PROVE  \E i \in DOMAIN d.netRules : d.netRules[i].port = w.netRules[j].port
  <2>1. Holds(d.netRules, Lowered(w.netRules[j], abi))
    BY <1>8, <1>14
  <2>2. QED
    BY <1>2, <1>6, <2>1 DEF Holds
<1>15. /\ \A i \in DOMAIN d.pathRules : \E j \in DOMAIN w.pathRules :
             /\ d.pathRules[i].path = w.pathRules[j].path
             /\ d.pathRules[i].access = w.pathRules[j].access \cap K
       /\ \A i \in DOMAIN d.netRules : \E j \in DOMAIN w.netRules :
             /\ d.netRules[i].port = w.netRules[j].port
             /\ d.netRules[i].access = w.netRules[j].access \cap K
  BY <1>11, <1>12
<1>16. /\ Bare(d.pathRules) # {} => Bare(w.pathRules) # {}
       /\ Bare(d.netRules) # {} => Bare(w.netRules) # {}
  BY <1>11, <1>12 DEF Bare
<1>17. QED
  BY <1>10, <1>13, <1>14, <1>15, <1>16 DEF d, K

\* A kernel that takes the profile knows every right in it.
LEMMA RequiredIsKnown ==
  ASSUME NEW w, WellWritten(w), NEW abi \in ABIVersion
  PROVE  /\ UsedRights(w) \subseteq FSRight \cup NetRight \cup ScopeRight
         /\ RequiredABIVersion(w) <= abi <=> UsedRights(w) \subseteq KnownRights(abi)
<1>1. UsedRights(w) \subseteq FSRight \cup NetRight \cup ScopeRight
  <2>1. /\ \A i \in DOMAIN w.pathRules :
             w.pathRules[i] \in [path : Seq(Part), access : SUBSET FSRight]
        /\ \A i \in DOMAIN w.netRules : w.netRules[i] \in [port : Port, access : SUBSET NetRight]
    BY InList DEF WellWritten
  <2>2. /\ \A i \in DOMAIN w.pathRules : w.pathRules[i].access \subseteq FSRight
        /\ \A i \in DOMAIN w.netRules : w.netRules[i].access \subseteq NetRight
    BY <2>1
  <2>3. QED
    BY <2>2 DEF UsedRights, RulesAccess, WellWritten
<1>2. /\ abi \in Nat /\ 1 <= abi
      /\ DOMAIN RightABI = FSRight \cup NetRight \cup ScopeRight
      /\ \A right \in DOMAIN RightABI : RightABI[right] \in Nat
  BY ABIAssumption DEF ABIVersion
<1>3. /\ RequiredABIVersion(w) \in NeededVersions(w)
      /\ \A v \in NeededVersions(w) : v <= RequiredABIVersion(w)
  BY RequiredFacts
<1>4. NeededVersions(w) \subseteq Nat
  BY <1>2 DEF NeededVersions
<1>5. ASSUME RequiredABIVersion(w) <= abi PROVE UsedRights(w) \subseteq KnownRights(abi)
  <2>1. SUFFICES ASSUME NEW right \in UsedRights(w) PROVE right \in KnownRights(abi)
    OBVIOUS
  <2>2. RightABI[right] \in NeededVersions(w)
    BY <1>1, <1>2 DEF NeededVersions
  <2>3. RightABI[right] <= abi
    BY <1>2, <1>3, <1>4, <1>5, <2>2
  <2>4. QED
    BY <1>1, <2>3 DEF KnownRights, SupportedRights
<1>6. ASSUME UsedRights(w) \subseteq KnownRights(abi) PROVE RequiredABIVersion(w) <= abi
  <2>1. \A v \in NeededVersions(w) : v <= abi
    BY <1>2, <1>6 DEF NeededVersions, KnownRights, SupportedRights
  <2>2. QED
    BY <1>3, <2>1
<1>7. QED
  BY <1>1, <1>5, <1>6

\* The rewritten profile is one that this kernel takes.
LEMMA RewrittenIsValid ==
  ASSUME NEW w \in Passed, ValidProfile(w), NEW abi \in ABIVersion
  PROVE  ValidForABI(DowngradeToABI(w, abi), abi)
<1> DEFINE d == DowngradeToABI(w, abi)
           K == KnownRights(abi)
<1>1. WellWritten(w)
  BY AcceptedWellWritten
<1>2. /\ WellWritten(d)
      /\ d.handledFS = w.handledFS \cap K /\ d.handledNet = w.handledNet \cap K
      /\ d.scoped = w.scoped \cap K
  BY <1>1, DowngradeFacts
<1>3. /\ \A i \in DOMAIN d.pathRules : \E j \in DOMAIN w.pathRules :
           /\ d.pathRules[i].path = w.pathRules[j].path
           /\ d.pathRules[i].access = w.pathRules[j].access \cap K
      /\ \A i \in DOMAIN d.netRules : \E j \in DOMAIN w.netRules :
           /\ d.netRules[i].port = w.netRules[j].port
           /\ d.netRules[i].access = w.netRules[j].access \cap K
  <2>1. \A i \in DOMAIN d.pathRules : \E j \in DOMAIN w.pathRules :
          /\ d.pathRules[i].path = w.pathRules[j].path
          /\ d.pathRules[i].access = w.pathRules[j].access \cap K
    BY <1>1, DowngradedRules
  <2>2. \A i \in DOMAIN d.netRules : \E j \in DOMAIN w.netRules :
          /\ d.netRules[i].port = w.netRules[j].port
          /\ d.netRules[i].access = w.netRules[j].access \cap K
    BY <1>1, DowngradedRules
  <2>3. QED
    BY <2>1, <2>2
<1>4. d = [handledFS |-> d.handledFS, handledNet |-> d.handledNet, scoped |-> d.scoped,
           pathRules |-> d.pathRules, netRules |-> d.netRules]
  BY DEF DowngradeToABI
<1> HIDE DEF d
<1>5. /\ \A i \in DOMAIN w.pathRules :
           ValidPath(w.pathRules[i].path) /\ w.pathRules[i].access \subseteq FSRight
      /\ \A i \in DOMAIN w.netRules : w.netRules[i].access \subseteq NetRight
  BY DEF ValidProfile
<1>6. \A i \in DOMAIN w.pathRules : w.pathRules[i].path \in RawPath
  <2>1. w # NilProfile /\ \E n \in Arities : w \in Profiles[n]
    BY DEF ValidProfile, Passed
  <2>2. w.pathRules \in Seq([path : RawPath, access : SUBSET STRING])
    BY <2>1, CallsAssumption
  <2>3. \A i \in DOMAIN w.pathRules : w.pathRules[i] \in [path : RawPath, access : SUBSET STRING]
    BY <2>2, InList
  <2>4. QED
    BY <2>3
<1>7. \A i \in DOMAIN d.pathRules :
        /\ ValidPath(d.pathRules[i].path) /\ d.pathRules[i].path \in RawPath
        /\ d.pathRules[i].access \subseteq FSRight
  BY <1>3, <1>5, <1>6
<1>8. d # NilProfile
  <2>1. \A i \in DOMAIN d.pathRules : d.pathRules[i] \in [path : RawPath, access : SUBSET FSRight]
    <3>1. \A i \in DOMAIN d.pathRules : d.pathRules[i] \in [path : Seq(Part), access : SUBSET FSRight]
      BY <1>2, InList DEF WellWritten
    <3>2. QED
      BY <1>7, <3>1
  <2>2. d.pathRules \in Seq([path : RawPath, access : SUBSET FSRight])
    BY <1>2, <2>1, ListOver DEF WellWritten
  <2>3. d \in [handledFS : SUBSET FSRight, handledNet : SUBSET NetRight, scoped : SUBSET ScopeRight,
               pathRules : Seq([path : RawPath, access : SUBSET FSRight]),
               netRules : Seq([port : Port, access : SUBSET NetRight])]
    BY <1>2, <1>4, <2>2 DEF WellWritten
  <2>4. QED
    BY <2>3, NilAssumption
<1>9. \A i \in DOMAIN d.netRules : d.netRules[i].access \subseteq NetRight
  BY <1>3, <1>5
<1>10. ValidProfile(d)
  BY <1>2, <1>7, <1>8, <1>9 DEF ValidProfile, WellWritten
<1>11. UsedRights(d) \subseteq K
  <2>1. RulesAccess(d.pathRules) \subseteq K /\ RulesAccess(d.netRules) \subseteq K
    BY <1>3 DEF RulesAccess
  <2>2. QED
    BY <1>2, <2>1 DEF UsedRights
<1>12. SupportedRights(UsedRights(d), abi) = UsedRights(d)
  BY <1>11 DEF SupportedRights, KnownRights
<1>13. QED
  BY <1>10, <1>12 DEF ValidForABI, d

\* A comparison with the rewritten profile adds nothing, and finds the two
\* equal just for a kernel as new as the profile needs.
LEMMA RewrittenCompares ==
  ASSUME NEW w, WellWritten(w), NEW abi \in ABIVersion
  PROVE  /\ AddsNothing(Diff(w, DowngradeToABI(w, abi)))
         /\ Equal(Diff(DowngradeToABI(w, abi), w)) <=> RequiredABIVersion(w) <= abi
<1> DEFINE d == DowngradeToABI(w, abi)
           K == KnownRights(abi)
<1>1. /\ d.handledFS = w.handledFS \cap K /\ d.handledNet = w.handledNet \cap K
      /\ d.scoped = w.scoped \cap K
      /\ \A path : OnPath(d, path) = OnPath(w, path) \cap K
      /\ \A port : OnPort(d, port) = OnPort(w, port) \cap K
  BY DowngradeFacts
<1>2. /\ \A i \in DOMAIN d.pathRules : \E j \in DOMAIN w.pathRules :
           d.pathRules[i].path = w.pathRules[j].path
      /\ \A j \in DOMAIN w.pathRules :
           w.pathRules[j].access = {} \/ w.pathRules[j].access \cap K # {} =>
             \E i \in DOMAIN d.pathRules : d.pathRules[i].path = w.pathRules[j].path
      /\ \A i \in DOMAIN d.netRules : \E j \in DOMAIN w.netRules :
           d.netRules[i].port = w.netRules[j].port
      /\ \A j \in DOMAIN w.netRules :
           w.netRules[j].access = {} \/ w.netRules[j].access \cap K # {} =>
             \E i \in DOMAIN d.netRules : d.netRules[i].port = w.netRules[j].port
  BY DowngradedRules
<1>3. RequiredABIVersion(w) <= abi <=> UsedRights(w) \subseteq K
  BY RequiredIsKnown
<1> HIDE DEF d, K
<1>4. PathKeys(d) \subseteq PathKeys(w) /\ PortKeys(d) \subseteq PortKeys(w)
  BY <1>2 DEF PathKeys, PortKeys
<1>5. AddsNothing(Diff(w, d))
  BY <1>1, <1>4, DiffFacts
<1>6. ASSUME UsedRights(w) \subseteq K PROVE Equal(Diff(d, w))
  <2>1. /\ \A i \in DOMAIN w.pathRules : w.pathRules[i].access \subseteq K
        /\ \A i \in DOMAIN w.netRules : w.netRules[i].access \subseteq K
        /\ w.handledFS \subseteq K /\ w.handledNet \subseteq K /\ w.scoped \subseteq K
    BY <1>6 DEF UsedRights, RulesAccess
  <2>2. PathKeys(w) \subseteq PathKeys(d)
    <3>1. \A j \in DOMAIN w.pathRules :
            \E i \in DOMAIN d.pathRules : d.pathRules[i].path = w.pathRules[j].path
      BY <1>2, <2>1
    <3>2. QED
      BY <3>1 DEF PathKeys
  <2>3. PortKeys(w) \subseteq PortKeys(d)
    <3>1. \A j \in DOMAIN w.netRules :
            \E i \in DOMAIN d.netRules : d.netRules[i].port = w.netRules[j].port
      BY <1>2, <2>1
    <3>2. QED
      BY <3>1 DEF PortKeys
  <2>4. \A path : OnPath(d, path) = OnPath(w, path)
    <3>1. \A path : OnPath(w, path) \subseteq K
      BY <2>1 DEF OnPath
    <3>2. QED
      BY <1>1, <3>1
  <2>5. \A port : OnPort(d, port) = OnPort(w, port)
    <3>1. \A port : OnPort(w, port) \subseteq K
      BY <2>1 DEF OnPort
    <3>2. QED
      BY <1>1, <3>1
  <2>6. QED
    BY <1>1, <1>4, <2>1, <2>2, <2>3, <2>4, <2>5, DiffFacts
<1>7. ASSUME Equal(Diff(d, w)) PROVE UsedRights(w) \subseteq K
  <2>1. /\ w.handledFS \subseteq d.handledFS /\ w.handledNet \subseteq d.handledNet
        /\ w.scoped \subseteq d.scoped
        /\ PathKeys(w) \subseteq PathKeys(d) /\ PortKeys(w) \subseteq PortKeys(d)
        /\ \A path \in PathKeys(d) : OnPath(d, path) = OnPath(w, path)
        /\ \A port \in PortKeys(d) : OnPort(d, port) = OnPort(w, port)
    BY <1>7, DiffFacts
  <2>2. ASSUME NEW i \in DOMAIN w.pathRules PROVE w.pathRules[i].access \subseteq K
    <3> DEFINE path == CleanPath(w.pathRules[i].path)
    <3>1. path \in PathKeys(w) /\ w.pathRules[i].access \subseteq OnPath(w, path)
      BY DEF PathKeys, OnPath
    <3> HIDE DEF path
    <3>2. OnPath(w, path) \subseteq K
      BY <1>1, <2>1, <3>1
    <3>3. QED
      BY <3>1, <3>2
  <2>3. ASSUME NEW i \in DOMAIN w.netRules PROVE w.netRules[i].access \subseteq K
    <3> DEFINE port == w.netRules[i].port
    <3>1. port \in PortKeys(w) /\ w.netRules[i].access \subseteq OnPort(w, port)
      BY DEF PortKeys, OnPort
    <3> HIDE DEF port
    <3>2. OnPort(w, port) \subseteq K
      BY <1>1, <2>1, <3>1
    <3>3. QED
      BY <3>1, <3>2
  <2>4. RulesAccess(w.pathRules) \subseteq K /\ RulesAccess(w.netRules) \subseteq K
    BY <2>2, <2>3 DEF RulesAccess
  <2>5. QED
    BY <1>1, <2>1, <2>4 DEF UsedRights
<1>8. QED
  BY <1>3, <1>5, <1>6, <1>7 DEF d

\* Rewriting leaves a loadable profile loadable, unless nothing is left to restrict.
LEMMA RewrittenLoads ==
  ASSUME NEW w, WellWritten(w), NEW abi \in ABIVersion,
         LoadableAsWritten(w), RestrictsSomething(DowngradeToABI(w, abi))
  PROVE  LoadableAsWritten(DowngradeToABI(w, abi))
<1> DEFINE d == DowngradeToABI(w, abi)
           K == KnownRights(abi)
<1>1. /\ WellWritten(d) /\ d.handledFS = w.handledFS \cap K /\ d.handledNet = w.handledNet \cap K
  BY DowngradeFacts
<1>2. /\ \A i \in DOMAIN d.pathRules : \E j \in DOMAIN w.pathRules :
           /\ d.pathRules[i].path = w.pathRules[j].path
           /\ d.pathRules[i].access = w.pathRules[j].access \cap K
      /\ Bare(d.pathRules) # {} => Bare(w.pathRules) # {}
      /\ \A i \in DOMAIN d.netRules : \E j \in DOMAIN w.netRules :
           /\ d.netRules[i].port = w.netRules[j].port
           /\ d.netRules[i].access = w.netRules[j].access \cap K
      /\ Bare(d.netRules) # {} => Bare(w.netRules) # {}
      /\ Len(d.pathRules) <= Len(w.pathRules)
      /\ Len(d.netRules) <= Len(w.netRules)
  <2>1. \A i \in DOMAIN d.pathRules : \E j \in DOMAIN w.pathRules :
          /\ d.pathRules[i].path = w.pathRules[j].path
          /\ d.pathRules[i].access = w.pathRules[j].access \cap K
    BY DowngradedRules
  <2>2. Bare(d.pathRules) # {} => Bare(w.pathRules) # {}
    BY DowngradedRules
  <2>3. \A i \in DOMAIN d.netRules : \E j \in DOMAIN w.netRules :
          /\ d.netRules[i].port = w.netRules[j].port
          /\ d.netRules[i].access = w.netRules[j].access \cap K
    BY DowngradedRules
  <2>4. Bare(d.netRules) # {} => Bare(w.netRules) # {}
    BY DowngradedRules
  <2>5. Len(d.pathRules) <= Len(w.pathRules) /\ Len(d.netRules) <= Len(w.netRules)
    BY DowngradedRules
  <2>6. QED
    BY <2>1, <2>2, <2>3, <2>4, <2>5
<1> HIDE DEF d, K
<1>3. /\ Len(w.pathRules) + Len(w.netRules) <= MaxArtifactRules
      /\ \A i \in DOMAIN w.pathRules :
           /\ StartsAtRoot(w.pathRules[i].path)
           /\ w.pathRules[i].access \in (SUBSET w.handledFS) \ {{}}
      /\ \A i \in DOMAIN w.netRules : w.netRules[i].access \in (SUBSET w.handledNet) \ {{}}
  BY DEF LoadableAsWritten
<1>4. Len(d.pathRules) + Len(d.netRules) <= MaxArtifactRules
  <2> DEFINE PR == [path : Seq(Part), access : SUBSET FSRight]
             NR == [port : Port, access : SUBSET NetRight]
  <2>1. /\ d.pathRules \in Seq(PR) /\ w.pathRules \in Seq(PR)
        /\ d.netRules \in Seq(NR) /\ w.netRules \in Seq(NR)
    BY <1>1 DEF WellWritten
  <2>2. MaxArtifactRules \in Nat
    BY RightsAssumption
  <2> HIDE DEF PR, NR
  <2>3. Len(d.pathRules) \in Nat /\ Len(w.pathRules) \in Nat
    BY <2>1
  <2>4. Len(d.netRules) \in Nat /\ Len(w.netRules) \in Nat
    BY <2>1
  <2>5. /\ Len(d.pathRules) <= Len(w.pathRules) /\ Len(d.netRules) <= Len(w.netRules)
        /\ Len(w.pathRules) + Len(w.netRules) <= MaxArtifactRules
    BY <1>2, <1>3
  <2> DEFINE a == Len(d.pathRules)
             b == Len(w.pathRules)
             c == Len(d.netRules)
             e == Len(w.netRules)
  <2>6. a \in Nat /\ b \in Nat /\ c \in Nat /\ e \in Nat /\ a <= b /\ c <= e /\ b + e <= MaxArtifactRules
    BY <2>3, <2>4, <2>5
  <2> HIDE DEF a, b, c, e
  <2>7. a + c <= MaxArtifactRules
    BY <2>2, <2>6
  <2>8. QED
    BY <2>7 DEF a, c
<1>5. \A i \in DOMAIN d.pathRules :
        /\ StartsAtRoot(d.pathRules[i].path)
        /\ d.pathRules[i].access \in (SUBSET d.handledFS) \ {{}}
  BY <1>1, <1>2, <1>3 DEF Bare
<1>6. \A i \in DOMAIN d.netRules : d.netRules[i].access \in (SUBSET d.handledNet) \ {{}}
  BY <1>1, <1>2, <1>3 DEF Bare
<1>7. RestrictsSomething(d)
  BY DEF d
<1>8. QED
  BY <1>4, <1>5, <1>6, <1>7 DEF LoadableAsWritten, d

\* A kernel that knows refer but not some other right allows the moves that
\* one knowing them all does.
LEMMA KnownMovesStay ==
  ASSUME NEW p, WellFormed(p), NEW K, NEW m \in Moves, AllowsMove(p, m)
  PROVE  AllowsMove(Known(p, K), m) \/ Refer \notin K
<1> SUFFICES ASSUME Refer \in K PROVE AllowsMove(Known(p, K), m)
  OBVIOUS
<1> DEFINE q == Known(p, K)
<1>1. /\ m.src \in Path /\ m.dst \in Path
      /\ m.named = {} \/ \E child \in ChildrenOf[m.src] : m.named = {child}
  BY MoveFacts
<1>2. \A path \in Path : /\ q.pathRules[path] = p.pathRules[path] \cap K
                         /\ Granted(q, path) = Granted(p, path) \cap K
  BY KnownFacts
<1>3. q.handledFS = p.handledFS \cap K
  BY DEF Known
<1> HIDE DEF q
<1>4. DeniedByDefault(q) \subseteq DeniedByDefault(p) /\ DeniedByDefault(q) \subseteq K
  BY <1>3 DEF DeniedByDefault
<1>5. /\ PermitsFS(p, m.src, Refer) /\ PermitsFS(p, m.dst, Refer) /\ Gained(p, m) = {}
  BY DEF AllowsMove, ReferGranted
<1>6. ReferGranted(q, m)
  BY <1>1, <1>2, <1>4, <1>5 DEF ReferGranted, PermitsFS
<1>7. ASSUME NEW path \in Path
      PROVE  CountedAt(q, path, m) = CountedAt(p, path, m) \cap K
  <2>1. Above[path] \subseteq Path
    BY AboveFacts
  <2> DEFINE counted == IF m.rootMount THEN Above[path] ELSE Above[path] \ {Root}
  <2>2. counted \subseteq Path
    BY <2>1
  <2>3. CountedAt(q, path, m) = UNION {q.pathRules[upper] : upper \in counted}
        /\ CountedAt(p, path, m) = UNION {p.pathRules[upper] : upper \in counted}
    BY DEF CountedAt
  <2> HIDE DEF counted
  <2>4. \A upper \in counted : q.pathRules[upper] = p.pathRules[upper] \cap K
    BY <1>2, <2>2
  <2>5. QED
    BY <2>3, <2>4
<1>8. OwnRules(q, m) = OwnRules(p, m) \cap K
  <2>1. \A child \in m.named : child \in Path
    BY <1>1, AboveChild
  <2>2. \A child \in m.named : q.pathRules[child] = p.pathRules[child] \cap K
    BY <1>2, <2>1
  <2>3. QED
    BY <2>2 DEF OwnRules
<1>9. ASSUME NEW right \in Gained(q, m) PROVE FALSE
  <2>1. /\ right \in MoveRights(q, m) /\ right \in CountedAt(q, m.dst, m)
        /\ right \notin CountedAt(q, m.src, m) /\ right \notin OwnRules(q, m)
    BY <1>9 DEF Gained
  <2>2. right \in K /\ right \in MoveRights(p, m)
    BY <1>4, <2>1 DEF MoveRights
  <2>3. right \in Gained(p, m)
    BY <1>1, <1>7, <1>8, <2>1, <2>2 DEF Gained
  <2>4. QED
    BY <1>5, <2>3
<1>10. QED
  BY <1>6, <1>9 DEF AllowsMove, q

\* What the rewritten profile permits, in terms of the rules as written.
LEMMA RewrittenPermits ==
  ASSUME NEW w, WellWritten(w), \A i \in DOMAIN w.pathRules : CleanPath(w.pathRules[i].path) \in Path,
         NEW abi \in ABIVersion
  PROVE  LET loaded == Normalized(DowngradeToABI(w, abi))
             known(right) == RightABI[right] <= abi
             grants(path, right) ==
               \E j \in DOMAIN w.pathRules :
                 /\ right \in w.pathRules[j].access
                 /\ Covers(CleanPath(w.pathRules[j].path), path)
         IN /\ \A path \in Path, right \in FSRight :
                 PermitsFS(loaded, path, right) <=>
                   \/ \A handled \in w.handledFS : ~known(handled)
                   \/ right # Refer /\ ~(known(right) /\ right \in w.handledFS)
                   \/ known(right) /\ right \in w.handledFS /\ grants(path, right)
            /\ \A port \in Port, right \in NetRight :
                 PermitsNet(loaded, port, right) <=>
                   \/ ~known(right) \/ right \notin w.handledNet
                   \/ \E j \in DOMAIN w.netRules :
                        w.netRules[j].port = port /\ right \in w.netRules[j].access
<1> DEFINE loaded == Normalized(DowngradeToABI(w, abi))
           p == Normalized(w)
           K == KnownRights(abi)
           h == w.handledFS
<1>1. loaded = Known(p, K)
  BY NormalizedDowngrade
<1>2. /\ WellFormed(p) /\ p.handledFS = h /\ p.handledNet = w.handledNet
      /\ \A path \in Path : p.pathRules[path] = OnPath(w, path) \cap h
      /\ \A port \in Port : p.netRules[port] = OnPort(w, port) \cap w.handledNet
  BY NormalizedFacts
<1>3. \A right \in FSRight \cup NetRight : right \in K <=> RightABI[right] <= abi
  BY ABIAssumption DEF KnownRights, SupportedRights
<1>4. h \subseteq FSRight /\ w.handledNet \subseteq NetRight
  BY DEF WellWritten
<1> HIDE DEF p, K
<1>5. /\ loaded.handledFS = h \cap K /\ loaded.handledNet = w.handledNet \cap K
      /\ \A path \in Path : Granted(loaded, path) = Granted(p, path) \cap K
      /\ \A port \in Port : loaded.netRules[port] = p.netRules[port] \cap K
  <2>1. \A path \in Path : Granted(Known(p, K), path) = Granted(p, path) \cap K
    BY <1>2, KnownFacts
  <2>2. QED
    BY <1>1, <1>2, <2>1 DEF Known
<1> HIDE DEF loaded, h
<1>6. ASSUME NEW path \in Path, NEW right \in FSRight
      PROVE  right \in Granted(p, path) <=>
               /\ right \in h
               /\ \E j \in DOMAIN w.pathRules : /\ right \in w.pathRules[j].access
                                                /\ Covers(CleanPath(w.pathRules[j].path), path)
  <2>1. right \in Granted(p, path) <=>
          \E upper \in Path : Covers(upper, path) /\ right \in p.pathRules[upper]
    BY <1>2, GrantedFacts
  <2>2. \A upper \in Path : right \in p.pathRules[upper] <=>
          /\ right \in h
          /\ \E j \in DOMAIN w.pathRules : /\ right \in w.pathRules[j].access
                                           /\ CleanPath(w.pathRules[j].path) = upper
    BY <1>2 DEF OnPath
  <2>3. QED
    BY <2>1, <2>2
<1>7. ASSUME NEW path \in Path, NEW right \in FSRight
      PROVE  PermitsFS(loaded, path, right) <=>
               \/ \A handled \in h : ~(RightABI[handled] <= abi)
               \/ right # Refer /\ ~(RightABI[right] <= abi /\ right \in h)
               \/ /\ RightABI[right] <= abi /\ right \in h
                  /\ \E j \in DOMAIN w.pathRules : /\ right \in w.pathRules[j].access
                                                   /\ Covers(CleanPath(w.pathRules[j].path), path)
  <2>1. right \in Granted(loaded, path) <=>
          /\ right \in K /\ right \in h
          /\ \E j \in DOMAIN w.pathRules : /\ right \in w.pathRules[j].access
                                           /\ Covers(CleanPath(w.pathRules[j].path), path)
    BY <1>5, <1>6
  <2>2. right \in K <=> RightABI[right] <= abi
    BY <1>3
  <2>3. CASE \A handled \in h : ~(RightABI[handled] <= abi)
    <3>1. loaded.handledFS = {}
      BY <1>3, <1>4, <1>5, <2>3
    <3>2. PermitsFS(loaded, path, right)
      BY <3>1 DEF PermitsFS, DeniedByDefault
    <3>3. QED
      BY <2>3, <3>2
  <2>4. CASE ~ \A handled \in h : ~(RightABI[handled] <= abi)
    <3>1. loaded.handledFS # {}
      BY <1>3, <1>4, <1>5, <2>4
    <3>2. right \in DeniedByDefault(loaded) <=> (right \in h /\ right \in K) \/ right = Refer
      BY <1>5, <3>1 DEF DeniedByDefault
    <3>3. PermitsFS(loaded, path, right) <=>
            ~(right \in DeniedByDefault(loaded)) \/ right \in Granted(loaded, path)
      BY DEF PermitsFS
    <3>4. QED
      BY <2>1, <2>2, <2>4, <3>2, <3>3
  <2>5. QED
    BY <2>3, <2>4
<1>8. ASSUME NEW port \in Port, NEW right \in NetRight
      PROVE  PermitsNet(loaded, port, right) <=>
               \/ ~(RightABI[right] <= abi) \/ right \notin w.handledNet
               \/ \E j \in DOMAIN w.netRules :
                    w.netRules[j].port = port /\ right \in w.netRules[j].access
  <2>1. right \in K <=> RightABI[right] <= abi
    BY <1>3
  <2>2. right \in loaded.netRules[port] <=>
          /\ right \in K /\ right \in w.handledNet
          /\ \E j \in DOMAIN w.netRules :
               w.netRules[j].port = port /\ right \in w.netRules[j].access
    BY <1>2, <1>5 DEF OnPort
  <2>3. right \in loaded.handledNet <=> right \in K /\ right \in w.handledNet
    BY <1>5
  <2>4. QED
    BY <2>1, <2>2, <2>3 DEF PermitsNet
<1>9. QED
  BY <1>7, <1>8 DEF loaded, h

LEMMA FirstIsRewritten ==
  ASSUME Inv, ResultInv PROVE RewritingKeepsPolicy
<1> SUFFICES ASSUME pc = "validate", Len(normalized) = 1 PROVE RewritingKeepsPolicy
  BY DEF RewritingKeepsPolicy
<1> DEFINE w == args[1]
<1>1. 1 \in Inputs
  BY DEF Inv, TypeOK, Inputs
<1>2. /\ WellWritten(w) /\ normalized[1] = Normalized(w) /\ WellFormed(normalized[1])
      /\ ValidProfile(w) /\ w \in Passed
  BY <1>1, InputsWritten DEF ResultInv, FromArgs
<1>3. \A i \in DOMAIN w.pathRules : CleanPath(w.pathRules[i].path) \in Path
  BY <1>2, AcceptedWellWritten
<1> HIDE DEF w
<1>4. MergedWithItselfShows(w)
  BY <1>2, <1>3, ItselfShows
<1>5. ASSUME NEW abi \in ABIVersion, abi >= RightABI[Refer], NEW m \in Moves,
             AllowsMove(normalized[1], m)
      PROVE  AllowsMove(Normalized(DowngradeToABI(w, abi)), m)
  <2>1. /\ RightABI[Refer] \in Nat /\ abi \in Nat /\ Refer \in FSRight
    BY RightsAssumption, ABIAssumption DEF ABIVersion
  <2>2. RightABI[Refer] <= abi
    BY <1>5, <2>1
  <2>3. Refer \in KnownRights(abi)
    BY <2>1, <2>2 DEF KnownRights, SupportedRights
  <2>4. Normalized(DowngradeToABI(w, abi)) = Known(normalized[1], KnownRights(abi))
    BY <1>2, NormalizedDowngrade
  <2>5. QED
    BY <1>2, <1>5, <2>3, <2>4, KnownMovesStay
<1>6. ASSUME NEW abi \in ABIVersion
      PROVE  LET rewritten == DowngradeToABI(w, abi)
                 loaded == Normalized(rewritten)
                 known(right) == RightABI[right] <= abi
                 grants(path, right) ==
                   \E j \in DOMAIN w.pathRules :
                     /\ right \in w.pathRules[j].access
                     /\ Covers(CleanPath(w.pathRules[j].path), path)
             IN /\ ValidForABI(rewritten, abi)
                /\ AddsNothing(Diff(w, rewritten))
                /\ Equal(Diff(rewritten, w)) <=> RequiredABIVersion(w) <= abi
                /\ LoadableAsWritten(w) /\ RestrictsSomething(rewritten)
                     => LoadableAsWritten(rewritten)
                /\ abi >= RightABI[Refer] =>
                     \A m \in Moves : AllowsMove(normalized[1], m) => AllowsMove(loaded, m)
                /\ \A path \in Path, right \in FSRight :
                     PermitsFS(loaded, path, right) <=>
                       \/ \A handled \in w.handledFS : ~known(handled)
                       \/ right # Refer /\ ~(known(right) /\ right \in w.handledFS)
                       \/ known(right) /\ right \in w.handledFS /\ grants(path, right)
                /\ \A port \in Port, right \in NetRight :
                     PermitsNet(loaded, port, right) <=>
                       \/ ~known(right) \/ right \notin w.handledNet
                       \/ \E j \in DOMAIN w.netRules :
                            w.netRules[j].port = port /\ right \in w.netRules[j].access
  <2>1. ValidForABI(DowngradeToABI(w, abi), abi)
    BY <1>2, RewrittenIsValid
  <2>2. /\ AddsNothing(Diff(w, DowngradeToABI(w, abi)))
        /\ Equal(Diff(DowngradeToABI(w, abi), w)) <=> RequiredABIVersion(w) <= abi
    BY <1>2, RewrittenCompares
  <2>3. LoadableAsWritten(w) /\ RestrictsSomething(DowngradeToABI(w, abi))
          => LoadableAsWritten(DowngradeToABI(w, abi))
    BY <1>2, RewrittenLoads
  <2>4. /\ \A path \in Path, right \in FSRight :
             PermitsFS(Normalized(DowngradeToABI(w, abi)), path, right) <=>
               \/ \A handled \in w.handledFS : ~(RightABI[handled] <= abi)
               \/ right # Refer /\ ~(RightABI[right] <= abi /\ right \in w.handledFS)
               \/ /\ RightABI[right] <= abi /\ right \in w.handledFS
                  /\ \E j \in DOMAIN w.pathRules :
                       /\ right \in w.pathRules[j].access
                       /\ Covers(CleanPath(w.pathRules[j].path), path)
        /\ \A port \in Port, right \in NetRight :
             PermitsNet(Normalized(DowngradeToABI(w, abi)), port, right) <=>
               \/ ~(RightABI[right] <= abi) \/ right \notin w.handledNet
               \/ \E j \in DOMAIN w.netRules :
                    w.netRules[j].port = port /\ right \in w.netRules[j].access
    BY <1>2, <1>3, RewrittenPermits
  <2>5. QED
    BY <1>5, <2>1, <2>2, <2>3, <2>4
<1>7. QED
  BY <1>4, <1>6 DEF RewritingKeepsPolicy, w

\* Rewriting a profile for a merge or for an older kernel keeps what it says
\* of the rights that are left, whatever the profile and the version.
THEOREM RewritingIsFaithful == Spec => []RewritingKeepsPolicy
  BY Invariance, ResultInvariance, FirstIsRewritten, PTL
=============================================================================
