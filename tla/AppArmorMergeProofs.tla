-------------------------- MODULE AppArmorMergeProofs --------------------------
(***************************************************************************)
(* However many profiles are merged, over whatever paths, and however the  *)
(* pairwise merges are grouped: an intersection permits only what all of   *)
(* them permit, and a union exactly what one of them does; a comparison    *)
(* tells exactly the merges that change a rule; and what both sides of an  *)
(* intersection have survives it, under a spelling that loads.             *)
(***************************************************************************)
EXTENDS AppArmorArtifact, SequenceTheorems, FiniteSetTheorems, FoldLemmas

LEMMA MatcherFacts ==
  ASSUME NEW p \in Path
  PROVE  /\ Matcher[p].kind \in Kinds
         /\ Matcher[p].covers \subseteq Name
         /\ \A name \in Matcher[p].covers : StartsWith(name, Matcher[p].prefix)
         /\ Matcher[p].kind = "literal" => Matcher[p].covers = {Matcher[p].literal} \cap Name
         /\ Matcher[p].kind = "unusable" => Matcher[p].covers = {}
         /\ Filtered[p] \in Path /\ Matcher[Filtered[p]].covers = Matcher[p].covers
         /\ Length[p] \in Nat /\ Rank[p] \in Nat
  BY PathAssumption

-----------------------------------------------------------------------------
(* Spellings *)

\* Of the paths that spell a rule one is simplest.
LEMMA SimplestSpelling ==
  ASSUME NEW paths \in SUBSET Path, NEW p \in paths
  PROVE  /\ Simplest(p, paths) \in paths /\ Key[Simplest(p, paths)] = Key[p]
         /\ \A r \in paths : Key[r] = Key[p] => Simpler(Simplest(p, paths), r)
<1> DEFINE rule == {r \in paths : Key[r] = Key[p]}
           first == IF rule \subseteq Unquotable THEN rule ELSE rule \ Unquotable
           lengths == {Length[r] : r \in first}
           shortest == {r \in first : \A s \in first : Length[r] <= Length[s]}
           ranks == {Rank[r] : r \in shortest}
<1>1. first # {} /\ first \subseteq rule /\ rule \subseteq Path
  OBVIOUS
<1>2. \A r \in Path : Length[r] \in Nat /\ Rank[r] \in Nat
  BY MatcherFacts
<1>3. shortest # {}
  <2>1. lengths \in SUBSET Nat /\ lengths # {}
    BY <1>1, <1>2
  <2>2. PICK m \in lengths : \A k \in lengths : m <= k
    <3> HIDE DEF lengths
    <3>1. QED
      BY <2>1, LeastNatural
  <2>3. QED
    BY <2>2
<1>4. \E q \in shortest : \A r \in shortest : Rank[q] <= Rank[r]
  <2>1. ranks \in SUBSET Nat /\ ranks # {}
    BY <1>1, <1>2, <1>3
  <2>2. PICK m \in ranks : \A k \in ranks : m <= k
    <3> HIDE DEF ranks
    <3>1. QED
      BY <2>1, LeastNatural
  <2>3. QED
    BY <2>2
<1>5. PICK q \in shortest : \A r \in shortest : Rank[q] <= Rank[r]
  BY <1>4
<1>6. ASSUME NEW r \in rule PROVE Simpler(q, r)
  <2>1. q \in first /\ q \in rule /\ Length[q] \in Nat /\ Length[r] \in Nat
    BY <1>1, <1>2, <1>5, <1>6
  <2>2. CASE r \notin first
    BY <2>1, <2>2, <1>6 DEF Simpler
  <2>3. CASE r \in first
    <3>1. Length[q] <= Length[r]
      BY <1>5, <2>3
    <3>2. Shorter(q, r)
      <4>1. CASE Length[q] < Length[r]
        BY <4>1 DEF Shorter
      <4>2. CASE Length[q] = Length[r]
        <5>1. r \in shortest
          BY <1>5, <2>3, <4>2
        <5>2. QED
          BY <1>5, <4>2, <5>1 DEF Shorter
      <4>3. QED
        BY <2>1, <3>1, <4>1, <4>2
    <3>3. q \in Unquotable => r \in Unquotable
      BY <2>1, <2>3
    <3> HIDE DEF rule, first, shortest
    <3>4. QED
      BY <3>2, <3>3 DEF Simpler
  <2>4. QED
    BY <2>2, <2>3
<1>7. q \in paths /\ Key[q] = Key[p] /\ \A r \in paths : Key[r] = Key[p] => Simpler(q, r)
  BY <1>1, <1>5, <1>6
<1>8. QED
  BY <1>7, Zenon DEF Simplest

\* Two lists that let the same names through.
SamePermits(paths, others) ==
  /\ paths \subseteq Path /\ others \subseteq Path
  /\ \A name \in Name : Permits(paths, name) <=> Permits(others, name)

LEMMA SimplestPermits ==
  ASSUME NEW all \in SUBSET Path, NEW paths \in SUBSET all
  PROVE  SamePermits({Simplest(p, all) : p \in paths}, paths)
<1>1. \A p \in paths : /\ Simplest(p, all) \in Path
                       /\ Matcher[Simplest(p, all)].covers = Matcher[p].covers
  BY SimplestSpelling, PathAssumption
<1>2. QED
  BY <1>1 DEF SamePermits, Permits, Matches

LEMMA FilteredPermits ==
  ASSUME NEW paths \in SUBSET Path
  PROVE  SamePermits({Filtered[p] : p \in paths}, paths)
  BY MatcherFacts DEF SamePermits, Permits, Matches

LEMMA UsablePermits ==
  ASSUME NEW paths \in SUBSET Path
  PROVE  SamePermits(DropUnusableGlobs(paths), paths)
  BY MatcherFacts DEF SamePermits, Permits, Matches, DropUnusableGlobs, IsGlobPattern, Usable, Kinds

-----------------------------------------------------------------------------
(* Permission maps *)

GrantsName(perms, perm, name) == \E p \in Path : perm \in perms[p] /\ Matches(p, name)

LEMMA PrefixFacts ==
  ASSUME NEW p \in Path
  PROVE  Matcher[p].prefix \in Seq(STRING)
  BY PathAssumption

LEMMA StartsWithTransitive ==
  ASSUME NEW a \in Seq(STRING), NEW b \in Seq(STRING), NEW c \in Seq(STRING),
         StartsWith(a, b), StartsWith(b, c)
  PROVE  StartsWith(a, c)
<1>1. Len(a) \in Nat /\ Len(b) \in Nat /\ Len(c) \in Nat
  BY LenProperties
<1>2. QED
  BY <1>1 DEF StartsWith

LEMMA StartsWithEachOther ==
  ASSUME NEW a \in Seq(STRING), NEW b \in Seq(STRING), StartsWith(a, b), StartsWith(b, a)
  PROVE  a = b
<1>1. Len(a) \in Nat /\ Len(b) \in Nat
  BY LenProperties
<1>2. Len(a) = Len(b) /\ \A i \in 1..Len(a) : a[i] = b[i]
  BY <1>1 DEF StartsWith
<1>3. QED
  BY <1>2, SeqEqual

\* A pattern is narrowed only to one that covers no more.
LEMMA ExpandedCovers ==
  ASSUME NEW p \in Path, NEW base \in Path, ExpandedBy(p, base), NEW name, Matches(p, name)
  PROVE  Matches(base, name)
<1>1. /\ name \in Name /\ name \in Seq(STRING)
      /\ StartsWith(name, Matcher[p].prefix)
  BY MatcherFacts, PathAssumption DEF Matches
<1>2. /\ Matcher[base].starStar
      /\ StartsWith(Matcher[p].prefix, Matcher[base].prefix)
      /\ Matcher[p].prefix # Matcher[base].prefix \/ ~Matches(p, Matcher[base].prefix)
  BY DEF ExpandedBy
<1>3. StartsWith(name, Matcher[base].prefix)
  BY <1>1, <1>2, PrefixFacts, StartsWithTransitive
<1>4. name # Matcher[base].prefix
  <2>1. SUFFICES ASSUME name = Matcher[base].prefix PROVE FALSE
    OBVIOUS
  <2>2. Matcher[p].prefix = Matcher[base].prefix
    BY <1>1, <1>2, <2>1, PrefixFacts, StartsWithEachOther
  <2>3. QED
    BY <1>2, <2>1, <2>2
<1>5. Matcher[base].covers =
        {n \in Name : StartsWith(n, Matcher[base].prefix) /\ n # Matcher[base].prefix}
  BY <1>2, PathAssumption
<1>6. QED
  BY <1>1, <1>3, <1>4, <1>5 DEF Matches

\* A literal covers one name at most.
LEMMA LiteralCovers ==
  ASSUME NEW p \in Path, ~IsGlobPattern(p), NEW name, Matches(p, name)
  PROVE  name = Matcher[p].literal
  BY MatcherFacts DEF IsGlobPattern, Matches

LEMMA SharedGrants ==
  ASSUME NEW left \in Perms, NEW right \in Perms, NEW p \in Path, NEW patterns \in SUBSET Path,
         NEW perm \in SharedWith(left, p, right, patterns), NEW name, Matches(p, name),
         \A g \in patterns : Matches(g, name)
  PROVE  GrantsName(left, perm, name) /\ GrantsName(right, perm, name)
<1>1. PICK g \in patterns : perm \in left[p] /\ perm \in right[g]
  BY DEF SharedWith
<1>2. QED
  BY <1>1 DEF GrantsName

\* An intersection grants a name only what both sides grant it.
LEMMA IntersectPermsGrants ==
  ASSUME NEW left \in Perms, NEW right \in Perms, NEW exceeds,
         NEW perm, NEW name, GrantsName(IntersectPerms(left, right, exceeds), perm, name)
  PROVE  GrantsName(left, perm, name) /\ GrantsName(right, perm, name)
<1>1. PICK p \in Path : perm \in IntersectPerms(left, right, exceeds)[p] /\ Matches(p, name)
  BY DEF GrantsName
<1>2. \/ perm \in left[p] \cap right[p]
      \/ IsGlobPattern(p) /\ perm \in SharedWith(left, p, right, Expanding(right, p))
      \/ IsGlobPattern(p) /\ perm \in SharedWith(right, p, left, Expanding(left, p))
      \/ ~IsGlobPattern(p) /\ perm \in SharedWith(left, p, right, Covering(right, p))
      \/ ~IsGlobPattern(p) /\ perm \in SharedWith(right, p, left, Covering(left, p))
  BY <1>1 DEF IntersectPerms
<1>3. \A perms : Expanding(perms, p) \subseteq Path /\ Covering(perms, p) \subseteq Path
  BY DEF Expanding, Covering, Candidates, Globs, Listed
<1>4. \A perms : \A g \in Expanding(perms, p) : Matches(g, name)
  BY <1>1, <1>3, ExpandedCovers DEF Expanding
<1>5. ~IsGlobPattern(p) => \A perms : \A g \in Covering(perms, p) : Matches(g, name)
  BY <1>1, LiteralCovers DEF Covering
<1>6. CASE perm \in left[p] \cap right[p]
  BY <1>1, <1>6 DEF GrantsName
<1>7. CASE perm \in SharedWith(left, p, right, Expanding(right, p))
  BY <1>1, <1>3, <1>4, <1>7, SharedGrants
<1>8. CASE perm \in SharedWith(right, p, left, Expanding(left, p))
  BY <1>1, <1>3, <1>4, <1>8, SharedGrants
<1>9. CASE ~IsGlobPattern(p) /\ perm \in SharedWith(left, p, right, Covering(right, p))
  BY <1>1, <1>3, <1>5, <1>9, SharedGrants
<1>10. CASE ~IsGlobPattern(p) /\ perm \in SharedWith(right, p, left, Covering(left, p))
  BY <1>1, <1>3, <1>5, <1>10, SharedGrants
<1>11. QED
  BY <1>2, <1>6, <1>7, <1>8, <1>9, <1>10

LEMMA IntersectPermsType ==
  ASSUME NEW left \in Perms, NEW right \in Perms, NEW exceeds
  PROVE  IntersectPerms(left, right, exceeds) \in Perms
<1>1. ASSUME NEW p \in Path PROVE IntersectPerms(left, right, exceeds)[p] \subseteq Perm
  BY DEF IntersectPerms, Perms, SharedWith, Expanding, Covering, Candidates, Globs, Listed
<1>2. QED
  BY <1>1 DEF Perms, IntersectPerms

\* What the patterns of a side grant a literal they grant its name.
LEMMA GrantsOfPatterns ==
  ASSUME NEW perms \in Perms, NEW p \in Path
  PROVE  /\ Grants(perms, p) \subseteq Perm
         /\ ~IsGlobPattern(p) =>
              \A perm \in Grants(perms, p), name \in Name :
                Matches(p, name) =>
                  \E g \in Path : IsGlobPattern(g) /\ perm \in perms[g] /\ Matches(g, name)
<1>1. \A g \in Covering(perms, p) :
        g \in Path /\ perms[g] \subseteq Perm /\ IsGlobPattern(g) /\ Matches(g, Matcher[p].literal)
  BY DEF Covering, Candidates, Globs, Listed, Usable, IsGlobPattern, Perms
<1>2. QED
  BY <1>1, LiteralCovers DEF Grants

LEMMA UnionPermsType ==
  ASSUME NEW left \in Perms, NEW right \in Perms, NEW exceeds
  PROVE  UnionPerms(left, right, exceeds) \in Perms
<1>1. ASSUME NEW p \in Path, NEW mine \in Perms, NEW other \in Perms
      PROVE  UnionLiteral(mine, other, p) \subseteq Perm
  BY GrantsOfPatterns DEF UnionLiteral, Perms
<1>2. \A p \in Path : left[p] \subseteq Perm /\ right[p] \subseteq Perm
  BY DEF Perms
<1>3. QED
  BY <1>1, <1>2 DEF Perms, UnionPerms

\* A union grants a name exactly what one of the sides grants it.
LEMMA UnionPermsGrants ==
  ASSUME NEW left \in Perms, NEW right \in Perms, NEW exceeds, NEW perm, NEW name \in Name
  PROVE  GrantsName(UnionPerms(left, right, exceeds), perm, name) <=>
           GrantsName(left, perm, name) \/ GrantsName(right, perm, name)
<1> DEFINE merged == UnionPerms(left, right, exceeds)
<1>1. ASSUME NEW p \in Path
      PROVE  /\ IsGlobPattern(p) \/ exceeds => merged[p] = left[p] \cup right[p]
             /\ ~IsGlobPattern(p) /\ ~exceeds =>
                  merged[p] = UnionLiteral(left, right, p) \cup UnionLiteral(right, left, p)
  BY DEF UnionPerms
<1> HIDE DEF merged
<1>2. ASSUME NEW p \in Path, perm \in merged[p], Matches(p, name)
      PROVE  GrantsName(left, perm, name) \/ GrantsName(right, perm, name)
  <2>1. CASE IsGlobPattern(p) \/ exceeds
    BY <1>1, <1>2, <2>1 DEF GrantsName
  <2>2. CASE ~IsGlobPattern(p) /\ ~exceeds
    <3>1. ASSUME NEW mine \in Perms, NEW other \in Perms, perm \in UnionLiteral(mine, other, p)
          PROVE  perm \in mine[p] \/ perm \in Grants(other, p)
      BY <3>1 DEF UnionLiteral
    <3>2. \/ perm \in left[p] \/ perm \in right[p]
          \/ perm \in Grants(left, p) \/ perm \in Grants(right, p)
      BY <1>1, <1>2, <2>2, <3>1
    <3>3. QED
      BY <1>2, <2>2, <3>2, GrantsOfPatterns DEF GrantsName
  <2>3. QED
    BY <2>1, <2>2
<1>3. ASSUME NEW mine \in Perms, NEW other \in Perms,
             {mine, other} = {left, right}, GrantsName(mine, perm, name)
      PROVE  GrantsName(merged, perm, name)
  <2>1. PICK p \in Path : perm \in mine[p] /\ Matches(p, name)
    BY <1>3 DEF GrantsName
  <2>2. CASE IsGlobPattern(p) \/ exceeds
    BY <1>1, <1>3, <2>1, <2>2 DEF GrantsName
  <2>3. CASE ~IsGlobPattern(p) /\ ~exceeds
    <3>1. UnionLiteral(mine, other, p) \subseteq merged[p]
      BY <1>1, <1>3, <2>3
    <3>2. perm \in UnionLiteral(mine, other, p) \/ perm \in Grants(other, p)
      BY <2>1 DEF UnionLiteral
    <3>3. CASE perm \in Grants(other, p)
      <4>1. PICK g \in Path : IsGlobPattern(g) /\ perm \in other[g] /\ Matches(g, name)
        BY <2>1, <2>3, <3>3, GrantsOfPatterns
      <4>2. perm \in merged[g]
        BY <1>1, <1>3, <4>1
      <4>3. QED
        BY <4>1, <4>2 DEF GrantsName
    <3>4. QED
      BY <2>1, <3>1, <3>2, <3>3 DEF GrantsName
  <2>4. QED
    BY <2>2, <2>3
<1>4. QED
  BY <1>2, <1>3 DEF GrantsName, merged

-----------------------------------------------------------------------------
(* The merge of two sections *)

LEMMA ExpandedPerms ==
  ASSUME NEW fs \in FsLists
  PROVE  /\ ExpandFsPerms(fs) \in Perms
         /\ \A name : /\ GrantsName(ExpandFsPerms(fs), "read", name)
                           <=> Permits(fs.ro \cup fs.rw, name)
                      /\ GrantsName(ExpandFsPerms(fs), "write", name)
                           <=> Permits(fs.wo \cup fs.rw, name)
<1>1. /\ fs.ro \subseteq Path /\ fs.wo \subseteq Path /\ fs.rw \subseteq Path
  BY DEF FsLists
<1>2. ExpandFsPerms(fs) \in Perms
  BY DEF ExpandFsPerms, Perms, Perm
<1>3. \A p \in Path : /\ "read" \in ExpandFsPerms(fs)[p] <=> p \in fs.ro \cup fs.rw
                      /\ "write" \in ExpandFsPerms(fs)[p] <=> p \in fs.wo \cup fs.rw
  BY DEF ExpandFsPerms
<1>4. QED
  BY <1>1, <1>2, <1>3 DEF GrantsName, Permits

LEMMA CollapsedPerms ==
  ASSUME NEW perms \in Perms
  PROVE  /\ CollapseFsPerms(perms) \in FsLists
         /\ \A name : /\ GrantsName(perms, "read", name) <=>
                           Permits(CollapseFsPerms(perms).ro \cup CollapseFsPerms(perms).rw, name)
                      /\ GrantsName(perms, "write", name) <=>
                           Permits(CollapseFsPerms(perms).wo \cup CollapseFsPerms(perms).rw, name)
<1> DEFINE fs == CollapseFsPerms(perms)
<1>1. /\ fs.ro = {p \in Path : perms[p] = {"read"}}
      /\ fs.wo = {p \in Path : perms[p] = {"write"}}
      /\ fs.rw = {p \in Path : perms[p] = {"read", "write"}}
  BY DEF CollapseFsPerms
<1>2. fs \in FsLists
  BY DEF CollapseFsPerms, FsLists
<1> HIDE DEF fs
<1>3. ASSUME NEW p \in Path
      PROVE  /\ "read" \in perms[p] <=> p \in fs.ro \cup fs.rw
             /\ "write" \in perms[p] <=> p \in fs.wo \cup fs.rw
  <2>1. perms[p] \in {{}, {"read"}, {"write"}, {"read", "write"}}
    <3>1. perms[p] \subseteq {"read", "write"}
      BY DEF Perms, Perm
    <3>2. QED
      BY <3>1
  <2>2. QED
    BY <1>1, <2>1
<1>4. fs.ro \subseteq Path /\ fs.wo \subseteq Path /\ fs.rw \subseteq Path
  BY <1>1
<1>5. QED
  BY <1>2, <1>3, <1>4 DEF GrantsName, Permits, fs

\* What a merge of permission maps has to grant.
LEMMA MergePermsGrants ==
  ASSUME NEW left \in Perms, NEW right \in Perms
  PROVE  /\ MergePerms(left, right, TRUE) \in Perms /\ MergePerms(left, right, FALSE) \in Perms
         /\ \A perm, name :
              GrantsName(MergePerms(left, right, TRUE), perm, name) =>
                GrantsName(left, perm, name) /\ GrantsName(right, perm, name)
         /\ \A perm : \A name \in Name :
              GrantsName(MergePerms(left, right, FALSE), perm, name) <=>
                GrantsName(left, perm, name) \/ GrantsName(right, perm, name)
<1>1. /\ MergePerms(left, right, TRUE)
           = IntersectPerms(left, right, ExceedsPairBudget(left, right))
      /\ MergePerms(left, right, FALSE)
           = UnionPerms(left, right, ExceedsPairBudget(left, right))
  BY DEF MergePerms
<1>2. ASSUME NEW exceeds, NEW perm, NEW name, GrantsName(IntersectPerms(left, right, exceeds), perm, name)
      PROVE  GrantsName(left, perm, name) /\ GrantsName(right, perm, name)
  BY <1>2, IntersectPermsGrants
<1>3. ASSUME NEW exceeds, NEW perm, NEW name \in Name
      PROVE  GrantsName(UnionPerms(left, right, exceeds), perm, name) <=>
               GrantsName(left, perm, name) \/ GrantsName(right, perm, name)
  BY UnionPermsGrants
<1>4. \A exceeds : /\ IntersectPerms(left, right, exceeds) \in Perms
                   /\ UnionPerms(left, right, exceeds) \in Perms
  BY IntersectPermsType, UnionPermsType
<1>5. QED
  BY <1>1, <1>2, <1>3, <1>4

LEMMA MergePathsPermits ==
  ASSUME NEW left \in SUBSET Path, NEW right \in SUBSET Path
  PROVE  /\ MergePaths(left, right, TRUE) \subseteq Path
         /\ MergePaths(left, right, FALSE) \subseteq Path
         /\ \A name : Permits(MergePaths(left, right, TRUE), name) =>
                        Permits(left, name) /\ Permits(right, name)
         /\ \A name \in Name : Permits(MergePaths(left, right, FALSE), name) <=>
                                 Permits(left, name) \/ Permits(right, name)
<1>1. ASSUME NEW paths \in SUBSET Path
      PROVE  /\ ReadPerms(paths) \in Perms
             /\ \A name : /\ GrantsName(ReadPerms(paths), "read", name) <=> Permits(paths, name)
                          /\ ~GrantsName(ReadPerms(paths), "write", name)
  BY DEF ReadPerms, Perms, Perm, GrantsName, Permits
<1>2. ASSUME NEW perms \in Perms
      PROVE  /\ Listed(perms) \subseteq Path
             /\ \A name : Permits(Listed(perms), name) <=>
                            GrantsName(perms, "read", name) \/ GrantsName(perms, "write", name)
  BY DEF Listed, Perms, Perm, GrantsName, Permits
<1> DEFINE l == ReadPerms(left)
           r == ReadPerms(right)
<1> HIDE DEF l, r
<1>3. /\ MergePaths(left, right, TRUE) = Listed(MergePerms(l, r, TRUE))
      /\ MergePaths(left, right, FALSE) = Listed(MergePerms(l, r, FALSE))
  BY DEF MergePaths, l, r
<1>4. /\ l \in Perms /\ r \in Perms
      /\ \A name : /\ GrantsName(l, "read", name) <=> Permits(left, name)
                   /\ GrantsName(r, "read", name) <=> Permits(right, name)
                   /\ ~GrantsName(l, "write", name) /\ ~GrantsName(r, "write", name)
  BY <1>1 DEF l, r
<1>5. /\ MergePerms(l, r, TRUE) \in Perms /\ MergePerms(l, r, FALSE) \in Perms
      /\ \A perm, name : GrantsName(MergePerms(l, r, TRUE), perm, name) =>
                           GrantsName(l, perm, name) /\ GrantsName(r, perm, name)
      /\ \A perm : \A name \in Name :
           GrantsName(MergePerms(l, r, FALSE), perm, name) <=>
             GrantsName(l, perm, name) \/ GrantsName(r, perm, name)
  BY <1>4, MergePermsGrants
<1>6. QED
  BY <1>2, <1>3, <1>4, <1>5

\* The filesystem sections.
MergedFs(left, right, intersect) ==
  CollapseFsPerms(MergePerms(ExpandFsPerms(left), ExpandFsPerms(right), intersect))

LEMMA MergedFsPermits ==
  ASSUME NEW left \in FsLists, NEW right \in FsLists
  PROVE  /\ MergedFs(left, right, TRUE) \in FsLists /\ MergedFs(left, right, FALSE) \in FsLists
         /\ \A name :
              LET fs == MergedFs(left, right, TRUE) IN
              /\ Permits(fs.ro \cup fs.rw, name) =>
                   Permits(left.ro \cup left.rw, name) /\ Permits(right.ro \cup right.rw, name)
              /\ Permits(fs.wo \cup fs.rw, name) =>
                   Permits(left.wo \cup left.rw, name) /\ Permits(right.wo \cup right.rw, name)
         /\ \A name \in Name :
              LET fs == MergedFs(left, right, FALSE) IN
              /\ Permits(fs.ro \cup fs.rw, name) <=>
                   Permits(left.ro \cup left.rw, name) \/ Permits(right.ro \cup right.rw, name)
              /\ Permits(fs.wo \cup fs.rw, name) <=>
                   Permits(left.wo \cup left.rw, name) \/ Permits(right.wo \cup right.rw, name)
<1> DEFINE l == ExpandFsPerms(left)
           r == ExpandFsPerms(right)
<1>1. l \in Perms /\ r \in Perms
  BY ExpandedPerms
<1>2. /\ MergePerms(l, r, TRUE) \in Perms /\ MergePerms(l, r, FALSE) \in Perms
      /\ \A perm, name : GrantsName(MergePerms(l, r, TRUE), perm, name) =>
                           GrantsName(l, perm, name) /\ GrantsName(r, perm, name)
      /\ \A perm : \A name \in Name :
           GrantsName(MergePerms(l, r, FALSE), perm, name) <=>
             GrantsName(l, perm, name) \/ GrantsName(r, perm, name)
  <2> HIDE DEF l, r
  <2>1. QED
    BY <1>1, MergePermsGrants
<1>3. \A name : /\ GrantsName(l, "read", name) <=> Permits(left.ro \cup left.rw, name)
                /\ GrantsName(l, "write", name) <=> Permits(left.wo \cup left.rw, name)
                /\ GrantsName(r, "read", name) <=> Permits(right.ro \cup right.rw, name)
                /\ GrantsName(r, "write", name) <=> Permits(right.wo \cup right.rw, name)
  BY ExpandedPerms
<1>4. /\ MergedFs(left, right, TRUE) = CollapseFsPerms(MergePerms(l, r, TRUE))
      /\ MergedFs(left, right, FALSE) = CollapseFsPerms(MergePerms(l, r, FALSE))
  BY DEF MergedFs
<1> HIDE DEF l, r
<1>5. QED
  BY <1>2, <1>3, <1>4, CollapsedPerms

-----------------------------------------------------------------------------
(* The merge of two profiles *)

\* What is left of a profile to intersect: nothing of it is omitted.
Populated ==
  [exec : PathLists, fs : FsLists,
   net : [raw : BOOLEAN, protocols : [tcp : BOOLEAN, udp : BOOLEAN]],
   caps : SUBSET Capability]

LEMMA NilFacts ==
  /\ Nil \notin BOOLEAN /\ Nil \notin PathLists /\ Nil \notin FsLists
  /\ Nil \notin Protocols /\ Nil \notin Network /\ Nil \notin SUBSET Capability
  /\ Nil \notin Profile
  BY NilAssumption

LEMMA PopulatedFacts ==
  ASSUME NEW profile \in Populated
  PROVE  /\ profile \in Profile
         /\ profile.exec # Nil /\ profile.fs # Nil /\ profile.net # Nil /\ profile.caps # Nil
         /\ profile.net.protocols # Nil /\ profile.net.raw # Nil
         /\ profile.net.protocols.tcp # Nil /\ profile.net.protocols.udp # Nil
<1>1. /\ profile.exec \in PathLists /\ profile.fs \in FsLists /\ profile.caps \in SUBSET Capability
      /\ profile.net \in [raw : BOOLEAN, protocols : [tcp : BOOLEAN, udp : BOOLEAN]]
      /\ profile = [exec |-> profile.exec, fs |-> profile.fs, net |-> profile.net,
                    caps |-> profile.caps]
  BY DEF Populated
<1>2. /\ profile.net.raw \in BOOLEAN
      /\ profile.net.protocols \in [tcp : BOOLEAN, udp : BOOLEAN]
      /\ profile.net.protocols.tcp \in BOOLEAN /\ profile.net.protocols.udp \in BOOLEAN
  BY <1>1
<1>3. profile.net.protocols \in Protocols
  BY <1>2 DEF Protocols, Bool
<1>4. profile.net \in Network
  BY <1>1, <1>2, <1>3 DEF Network, Bool
<1>5. profile \in Profile
  BY <1>1, <1>4 DEF Profile
<1>6. QED
  BY <1>1, <1>2, <1>3, <1>4, <1>5, NilFacts

LEMMA QuestionFacts ==
  ASSUME NEW q \in Question
  PROVE  /\ q.about \in {"exe", "lib", "read", "write", "capability", "network"}
         /\ q.about \in {"exe", "lib", "read", "write"} => q.name \in Name
         /\ q.about = "network" => q.name \in {"raw", "tcp", "udp"}
  BY DEF Question

\* The two merges, each an operator of its own.
UnionBool(left, right) == MergeBool(left, right, FALSE)
IntersectBool(left, right) == MergeBool(left, right, TRUE)
UnionProfiles(left, right) == MergeProfiles(left, right, FALSE)
IntersectProfiles(left, right) == MergeProfiles(left, right, TRUE)

UnionProtocols(left, right) ==
  [tcp |-> UnionBool(left.tcp, right.tcp), udp |-> UnionBool(left.udp, right.udp)]
IntersectProtocols(left, right) ==
  [tcp |-> IntersectBool(left.tcp, right.tcp), udp |-> IntersectBool(left.udp, right.udp)]

\* A section only one side has is taken, and two are merged.
Chosen(left, right, merged, section) ==
  /\ left = Nil => section = right
  /\ left # Nil /\ right = Nil => section = left
  /\ left # Nil /\ right # Nil => section = merged

LEMMA ChosenOptional ==
  ASSUME NEW left, NEW right, NEW merged
  PROVE  Chosen(left, right, merged, MergeOptional(left, right, merged))
  BY DEF Chosen, MergeOptional

LEMMA UnionSections ==
  ASSUME NEW left, NEW right
  PROVE  LET merged == UnionProfiles(left, right) IN
         /\ merged = [exec |-> merged.exec, fs |-> merged.fs, net |-> merged.net,
                      caps |-> merged.caps]
         /\ Chosen(left.exec, right.exec,
                   [exe |-> MergePaths(left.exec.exe, right.exec.exe, FALSE),
                    lib |-> MergePaths(left.exec.lib, right.exec.lib, FALSE)], merged.exec)
         /\ Chosen(left.fs, right.fs, MergedFs(left.fs, right.fs, FALSE), merged.fs)
         /\ Chosen(left.net, right.net,
                   [raw |-> UnionBool(left.net.raw, right.net.raw),
                    protocols |->
                      MergeOptional(left.net.protocols, right.net.protocols,
                        UnionProtocols(left.net.protocols, right.net.protocols))],
                   merged.net)
         /\ Chosen(left.caps, right.caps, left.caps \cup right.caps, merged.caps)
  BY ChosenOptional
  DEF UnionProfiles, MergeProfiles, MergedFs, UnionBool, UnionProtocols

LEMMA IntersectSections ==
  ASSUME NEW left, NEW right
  PROVE  LET merged == IntersectProfiles(left, right) IN
         /\ merged = [exec |-> merged.exec, fs |-> merged.fs, net |-> merged.net,
                      caps |-> merged.caps]
         /\ Chosen(left.exec, right.exec,
                   [exe |-> MergePaths(left.exec.exe, right.exec.exe, TRUE),
                    lib |-> MergePaths(left.exec.lib, right.exec.lib, TRUE)], merged.exec)
         /\ Chosen(left.fs, right.fs, MergedFs(left.fs, right.fs, TRUE), merged.fs)
         /\ Chosen(left.net, right.net,
                   [raw |-> IntersectBool(left.net.raw, right.net.raw),
                    protocols |->
                      MergeOptional(left.net.protocols, right.net.protocols,
                        IntersectProtocols(left.net.protocols, right.net.protocols))],
                   merged.net)
         /\ Chosen(left.caps, right.caps, left.caps \cap right.caps, merged.caps)
  BY ChosenOptional
  DEF IntersectProfiles, MergeProfiles, MergedFs, IntersectBool, IntersectProtocols

LEMMA MergedBool ==
  ASSUME NEW left \in Bool, NEW right \in Bool
  PROVE  /\ UnionBool(left, right) \in Bool
         /\ Allowed(UnionBool(left, right)) <=> Allowed(left) \/ Allowed(right)
         /\ left \in BOOLEAN /\ right \in BOOLEAN =>
              /\ IntersectBool(left, right) \in BOOLEAN
              /\ Allowed(IntersectBool(left, right)) => Allowed(left) /\ Allowed(right)
  BY NilFacts, ZenonT(30)
  DEF UnionBool, IntersectBool, MergeBool, MergeOptional, Allowed, Bool

\* What the sections of a profile answer.
NetAnswers(net, name) ==
  /\ net # Nil
  /\ IF name = "raw" THEN Allowed(net.raw)
     ELSE net.protocols # Nil /\ Allowed(net.protocols[name])

CapAnswers(caps, name) == caps # Nil /\ \E cap \in caps : Upper[cap] = name

LEMMA AnswersBySection ==
  ASSUME NEW profile, NEW q \in Question
  PROVE  /\ q.about = "exe" => (Answers(profile, q) <=>
              profile.exec # Nil /\ Permits(profile.exec.exe, q.name))
         /\ q.about = "lib" => (Answers(profile, q) <=>
              profile.exec # Nil /\ Permits(profile.exec.lib, q.name))
         /\ q.about = "read" => (Answers(profile, q) <=>
              profile.fs # Nil /\ Permits(profile.fs.ro \cup profile.fs.rw, q.name))
         /\ q.about = "write" => (Answers(profile, q) <=>
              profile.fs # Nil /\ Permits(profile.fs.wo \cup profile.fs.rw, q.name))
         /\ q.about = "capability" => (Answers(profile, q) <=> CapAnswers(profile.caps, q.name))
         /\ q.about = "network" => (Answers(profile, q) <=> NetAnswers(profile.net, q.name))
  BY DEF Answers, NetAnswers, CapAnswers

LEMMA ProfileFields ==
  ASSUME NEW profile \in Profile
  PROVE  /\ profile.exec \in PathLists \cup {Nil} /\ profile.fs \in FsLists \cup {Nil}
         /\ profile.net \in Network \cup {Nil} /\ profile.caps \in (SUBSET Capability) \cup {Nil}
         /\ profile.exec # Nil => profile.exec.exe \subseteq Path /\ profile.exec.lib \subseteq Path
         /\ profile.net # Nil => /\ profile.net.raw \in Bool
                                 /\ profile.net.protocols \in Protocols \cup {Nil}
         /\ profile.net # Nil /\ profile.net.protocols # Nil =>
              profile.net.protocols.tcp \in Bool /\ profile.net.protocols.udp \in Bool
  BY DEF Profile, PathLists, Network, Protocols

LEMMA MergedNetUnion ==
  ASSUME NEW left \in Network \cup {Nil}, NEW right \in Network \cup {Nil}, NEW net,
         Chosen(left, right,
                [raw |-> UnionBool(left.raw, right.raw),
                 protocols |-> MergeOptional(left.protocols, right.protocols,
                                 UnionProtocols(left.protocols, right.protocols))], net)
  PROVE  /\ net \in Network \cup {Nil}
         /\ \A name \in {"raw", "tcp", "udp"} :
              NetAnswers(net, name) <=> NetAnswers(left, name) \/ NetAnswers(right, name)
<1>1. CASE left = Nil \/ right = Nil
  <2>1. \A name : ~NetAnswers(Nil, name)
    BY DEF NetAnswers
  <2>2. QED
    BY <1>1, <2>1 DEF Chosen
<1>2. CASE left # Nil /\ right # Nil
  <2> DEFINE l == left.protocols
             r == right.protocols
  <2>1. /\ left \in Network /\ right \in Network
        /\ left.raw \in Bool /\ right.raw \in Bool
        /\ l \in Protocols \cup {Nil} /\ r \in Protocols \cup {Nil}
    BY <1>2 DEF Network
  <2>2. /\ net = [raw |-> UnionBool(left.raw, right.raw), protocols |-> net.protocols]
        /\ net.raw = UnionBool(left.raw, right.raw)
        /\ net.protocols = MergeOptional(l, r, UnionProtocols(l, r))
    BY <1>2 DEF Chosen
  <2> HIDE DEF l, r
  <2>3. net.raw \in Bool /\ (Allowed(net.raw) <=> Allowed(left.raw) \/ Allowed(right.raw))
    BY <2>1, <2>2, MergedBool
  <2>4. /\ net.protocols \in Protocols \cup {Nil}
        /\ \A name \in {"tcp", "udp"} :
             net.protocols # Nil /\ Allowed(net.protocols[name]) <=>
               \/ l # Nil /\ Allowed(l[name])
               \/ r # Nil /\ Allowed(r[name])
    <3>0. Chosen(l, r, UnionProtocols(l, r), net.protocols)
      BY <2>2, ChosenOptional
    <3>1. CASE l = Nil \/ r = Nil
      BY <2>1, <3>0, <3>1 DEF Chosen
    <3>2. CASE l # Nil /\ r # Nil
      <4>1. \A p \in {l, r} : p["tcp"] \in Bool /\ p["udp"] \in Bool
        BY <2>1, <3>2 DEF Protocols
      <4>2. net.protocols = [tcp |-> UnionBool(l["tcp"], r["tcp"]),
                             udp |-> UnionBool(l["udp"], r["udp"])]
        BY <3>0, <3>2 DEF UnionProtocols, Chosen
      <4>3. \A name \in {"tcp", "udp"} : net.protocols[name] = UnionBool(l[name], r[name])
        BY <4>2
      <4>4. \A name \in {"tcp", "udp"} :
              /\ net.protocols[name] \in Bool
              /\ Allowed(net.protocols[name]) <=> Allowed(l[name]) \/ Allowed(r[name])
        BY <4>1, <4>3, MergedBool
      <4>5. net.protocols \in Protocols
        BY <4>2, <4>4 DEF Protocols
      <4>6. QED
        BY <3>2, <4>4, <4>5, NilFacts
    <3>3. QED
      BY <3>1, <3>2
  <2>5. net \in Network
    BY <2>2, <2>3, <2>4 DEF Network
  <2>6. net # Nil
    BY <2>5, NilFacts
  <2>7. ASSUME NEW name \in {"raw", "tcp", "udp"}
        PROVE  NetAnswers(net, name) <=> NetAnswers(left, name) \/ NetAnswers(right, name)
    BY <1>2, <2>3, <2>4, <2>6 DEF NetAnswers, l, r
  <2>8. QED
    BY <2>5, <2>7
<1>3. QED
  BY <1>1, <1>2

LEMMA MergedNetIntersect ==
  ASSUME NEW left \in [raw : BOOLEAN, protocols : [tcp : BOOLEAN, udp : BOOLEAN]],
         NEW right \in [raw : BOOLEAN, protocols : [tcp : BOOLEAN, udp : BOOLEAN]],
         NEW net,
         net = [raw |-> IntersectBool(left.raw, right.raw),
                protocols |-> IntersectProtocols(left.protocols, right.protocols)],
         left # Nil, right # Nil, left.protocols # Nil, right.protocols # Nil
  PROVE  /\ net \in [raw : BOOLEAN, protocols : [tcp : BOOLEAN, udp : BOOLEAN]]
         /\ \A name \in {"raw", "tcp", "udp"} :
              NetAnswers(net, name) => NetAnswers(left, name) /\ NetAnswers(right, name)
<1> DEFINE l == left.protocols
           r == right.protocols
<1>1. \A p \in {left, right} : /\ p.raw \in BOOLEAN /\ p.raw \in Bool
                               /\ p.protocols["tcp"] \in BOOLEAN /\ p.protocols["tcp"] \in Bool
                               /\ p.protocols["udp"] \in BOOLEAN /\ p.protocols["udp"] \in Bool
  BY DEF Bool
<1>2. /\ net.raw = IntersectBool(left.raw, right.raw)
      /\ net.protocols = [tcp |-> IntersectBool(l["tcp"], r["tcp"]),
                          udp |-> IntersectBool(l["udp"], r["udp"])]
      /\ net = [raw |-> net.raw, protocols |-> net.protocols]
  BY DEF IntersectProtocols
<1>3. net.raw \in BOOLEAN /\ (Allowed(net.raw) => Allowed(left.raw) /\ Allowed(right.raw))
  BY <1>1, <1>2, MergedBool
<1>4. \A name \in {"tcp", "udp"} : net.protocols[name] = IntersectBool(l[name], r[name])
  BY <1>2
<1>5. \A name \in {"tcp", "udp"} :
        /\ net.protocols[name] \in BOOLEAN
        /\ Allowed(net.protocols[name]) => Allowed(l[name]) /\ Allowed(r[name])
  BY <1>1, <1>4, MergedBool
<1>6. net.protocols \in [tcp : BOOLEAN, udp : BOOLEAN]
  BY <1>2, <1>5
<1>7. net \in [raw : BOOLEAN, protocols : [tcp : BOOLEAN, udp : BOOLEAN]]
  BY <1>2, <1>3, <1>6
<1>8. ASSUME NEW name \in {"raw", "tcp", "udp"}, NetAnswers(net, name)
      PROVE  NetAnswers(left, name) /\ NetAnswers(right, name)
  BY <1>3, <1>5, <1>8 DEF NetAnswers
<1>9. QED
  BY <1>7, <1>8

LEMMA UnionOfTwo ==
  ASSUME NEW left \in Profile, NEW right \in Profile
  PROVE  /\ UnionProfiles(left, right) \in Profile
         /\ \A q \in Question : Answers(UnionProfiles(left, right), q) <=>
                                  Answers(left, q) \/ Answers(right, q)
<1> DEFINE merged == UnionProfiles(left, right)
           exec == [exe |-> MergePaths(left.exec.exe, right.exec.exe, FALSE),
                    lib |-> MergePaths(left.exec.lib, right.exec.lib, FALSE)]
           fs == MergedFs(left.fs, right.fs, FALSE)
<1>1. /\ merged = [exec |-> merged.exec, fs |-> merged.fs, net |-> merged.net,
                   caps |-> merged.caps]
      /\ Chosen(left.exec, right.exec, exec, merged.exec)
      /\ Chosen(left.fs, right.fs, fs, merged.fs)
      /\ Chosen(left.net, right.net,
                [raw |-> UnionBool(left.net.raw, right.net.raw),
                 protocols |-> MergeOptional(left.net.protocols, right.net.protocols,
                                 UnionProtocols(left.net.protocols, right.net.protocols))],
                merged.net)
      /\ Chosen(left.caps, right.caps, left.caps \cup right.caps, merged.caps)
  BY UnionSections
<1> HIDE DEF merged
<1>2. /\ left.exec \in PathLists \cup {Nil} /\ right.exec \in PathLists \cup {Nil}
      /\ left.fs \in FsLists \cup {Nil} /\ right.fs \in FsLists \cup {Nil}
      /\ left.net \in Network \cup {Nil} /\ right.net \in Network \cup {Nil}
      /\ left.caps \in (SUBSET Capability) \cup {Nil}
      /\ right.caps \in (SUBSET Capability) \cup {Nil}
  BY ProfileFields
<1>3. left.exec # Nil /\ right.exec # Nil =>
        /\ exec \in PathLists
        /\ \A name \in Name :
             /\ Permits(exec.exe, name) <=> Permits(left.exec.exe, name) \/ Permits(right.exec.exe, name)
             /\ Permits(exec.lib, name) <=> Permits(left.exec.lib, name) \/ Permits(right.exec.lib, name)
  BY ProfileFields, MergePathsPermits DEF PathLists
<1>4. left.fs # Nil /\ right.fs # Nil =>
        /\ fs \in FsLists
        /\ \A name \in Name :
             /\ Permits(fs.ro \cup fs.rw, name) <=>
                  Permits(left.fs.ro \cup left.fs.rw, name) \/ Permits(right.fs.ro \cup right.fs.rw, name)
             /\ Permits(fs.wo \cup fs.rw, name) <=>
                  Permits(left.fs.wo \cup left.fs.rw, name) \/ Permits(right.fs.wo \cup right.fs.rw, name)
  BY <1>2, MergedFsPermits
<1> HIDE DEF exec, fs
<1>5. /\ merged.net \in Network \cup {Nil}
      /\ \A name \in {"raw", "tcp", "udp"} :
           NetAnswers(merged.net, name) <=> NetAnswers(left.net, name) \/ NetAnswers(right.net, name)
  <2>1. /\ left.net \in Network \cup {Nil} /\ right.net \in Network \cup {Nil}
    BY <1>2
  <2>2. QED
    BY <1>1, <2>1, MergedNetUnion
<1>6. /\ merged.exec \in PathLists \cup {Nil} /\ merged.fs \in FsLists \cup {Nil}
      /\ merged.caps \in (SUBSET Capability) \cup {Nil}
  BY <1>1, <1>2, <1>3, <1>4 DEF Chosen
<1>7. merged \in Profile
  BY <1>1, <1>5, <1>6 DEF Profile
<1>8. ASSUME NEW q \in Question
      PROVE  Answers(merged, q) <=> Answers(left, q) \/ Answers(right, q)
  <2>1. CASE q.about \in {"exe", "lib"}
    <3>1. q.name \in Name
      BY <2>1, QuestionFacts
    <3>2. /\ left.exec # Nil /\ right.exec # Nil => merged.exec = exec /\ exec # Nil
          /\ left.exec = Nil => merged.exec = right.exec
          /\ left.exec # Nil /\ right.exec = Nil => merged.exec = left.exec
      BY <1>1, <1>3, NilFacts DEF Chosen
    <3>3. CASE left.exec = Nil \/ right.exec = Nil
      BY <2>1, <3>2, <3>3, AnswersBySection
    <3>4. CASE left.exec # Nil /\ right.exec # Nil
      BY <1>3, <2>1, <3>1, <3>2, <3>4, AnswersBySection
    <3>5. QED
      BY <3>3, <3>4
  <2>2. CASE q.about \in {"read", "write"}
    <3>1. q.name \in Name
      BY <2>2, QuestionFacts
    <3>2. /\ left.fs # Nil /\ right.fs # Nil => merged.fs = fs /\ fs # Nil
          /\ left.fs = Nil => merged.fs = right.fs
          /\ left.fs # Nil /\ right.fs = Nil => merged.fs = left.fs
      BY <1>1, <1>4, NilFacts DEF Chosen
    <3>3. CASE left.fs = Nil \/ right.fs = Nil
      BY <2>2, <3>2, <3>3, AnswersBySection
    <3>4. CASE left.fs # Nil /\ right.fs # Nil
      BY <1>4, <2>2, <3>1, <3>2, <3>4, AnswersBySection
    <3>5. QED
      BY <3>3, <3>4
  <2>3. CASE q.about = "capability"
    <3>1. /\ left.caps # Nil /\ right.caps # Nil =>
               merged.caps = left.caps \cup right.caps /\ merged.caps # Nil
          /\ left.caps = Nil => merged.caps = right.caps
          /\ left.caps # Nil /\ right.caps = Nil => merged.caps = left.caps
      BY <1>1, <1>2, NilFacts DEF Chosen
    <3>2. CapAnswers(merged.caps, q.name) <=>
            CapAnswers(left.caps, q.name) \/ CapAnswers(right.caps, q.name)
      BY <3>1 DEF CapAnswers
    <3>3. QED
      BY <2>3, <3>2, AnswersBySection
  <2>4. CASE q.about = "network"
    BY <1>5, <2>4, QuestionFacts, AnswersBySection
  <2>5. QED
    BY <2>1, <2>2, <2>3, <2>4, QuestionFacts
<1>9. QED
  BY <1>7, <1>8 DEF merged

LEMMA IntersectionOfTwo ==
  ASSUME NEW left \in Populated, NEW right \in Populated
  PROVE  /\ IntersectProfiles(left, right) \in Populated
         /\ \A q \in Question : Answers(IntersectProfiles(left, right), q) =>
                                  Answers(left, q) /\ Answers(right, q)
<1> DEFINE merged == IntersectProfiles(left, right)
           exec == [exe |-> MergePaths(left.exec.exe, right.exec.exe, TRUE),
                    lib |-> MergePaths(left.exec.lib, right.exec.lib, TRUE)]
           fs == MergedFs(left.fs, right.fs, TRUE)
           Net == [raw : BOOLEAN, protocols : [tcp : BOOLEAN, udp : BOOLEAN]]
<1>1. /\ left.exec # Nil /\ left.fs # Nil /\ left.net # Nil /\ left.caps # Nil
      /\ right.exec # Nil /\ right.fs # Nil /\ right.net # Nil /\ right.caps # Nil
      /\ left.net.protocols # Nil /\ right.net.protocols # Nil
  BY PopulatedFacts
<1>2. /\ merged = [exec |-> merged.exec, fs |-> merged.fs, net |-> merged.net,
                   caps |-> merged.caps]
      /\ merged.exec = exec /\ merged.fs = fs /\ merged.caps = left.caps \cap right.caps
      /\ merged.net = [raw |-> IntersectBool(left.net.raw, right.net.raw),
                       protocols |-> MergeOptional(left.net.protocols, right.net.protocols,
                          IntersectProtocols(left.net.protocols, right.net.protocols))]
  BY <1>1, IntersectSections DEF Chosen
<1>3. MergeOptional(left.net.protocols, right.net.protocols,
                    IntersectProtocols(left.net.protocols, right.net.protocols))
        = IntersectProtocols(left.net.protocols, right.net.protocols)
  BY <1>1 DEF MergeOptional
<1> HIDE DEF merged
<1>4. /\ left.exec \in PathLists /\ right.exec \in PathLists
      /\ left.fs \in FsLists /\ right.fs \in FsLists
      /\ left.net \in Net /\ right.net \in Net
      /\ left.caps \in SUBSET Capability /\ right.caps \in SUBSET Capability
  BY DEF Populated
<1>5. /\ exec \in PathLists
      /\ \A name : /\ Permits(exec.exe, name) =>
                        Permits(left.exec.exe, name) /\ Permits(right.exec.exe, name)
                   /\ Permits(exec.lib, name) =>
                        Permits(left.exec.lib, name) /\ Permits(right.exec.lib, name)
  BY <1>4, MergePathsPermits DEF PathLists
<1>6. /\ fs \in FsLists
      /\ \A name : /\ Permits(fs.ro \cup fs.rw, name) =>
                        /\ Permits(left.fs.ro \cup left.fs.rw, name)
                        /\ Permits(right.fs.ro \cup right.fs.rw, name)
                   /\ Permits(fs.wo \cup fs.rw, name) =>
                        /\ Permits(left.fs.wo \cup left.fs.rw, name)
                        /\ Permits(right.fs.wo \cup right.fs.rw, name)
  BY <1>4, MergedFsPermits
<1> HIDE DEF exec, fs
<1>7. /\ merged.net \in Net
      /\ \A name \in {"raw", "tcp", "udp"} :
           NetAnswers(merged.net, name) => NetAnswers(left.net, name) /\ NetAnswers(right.net, name)
  <2>1. merged.net = [raw |-> IntersectBool(left.net.raw, right.net.raw),
                      protocols |-> IntersectProtocols(left.net.protocols, right.net.protocols)]
    BY <1>2, <1>3
  <2>2. QED
    BY <1>1, <1>4, <2>1, MergedNetIntersect
<1>8. merged \in Populated
  BY <1>2, <1>4, <1>5, <1>6, <1>7 DEF Populated
<1>9. ASSUME NEW q \in Question, Answers(merged, q)
      PROVE  Answers(left, q) /\ Answers(right, q)
  <2>1. CASE q.about \in {"exe", "lib"}
    BY <1>1, <1>2, <1>5, <1>9, <2>1, AnswersBySection
  <2>2. CASE q.about \in {"read", "write"}
    BY <1>1, <1>2, <1>6, <1>9, <2>2, AnswersBySection
  <2>3. CASE q.about = "capability"
    BY <1>1, <1>2, <1>9, <2>3, AnswersBySection DEF CapAnswers
  <2>4. CASE q.about = "network"
    BY <1>7, <1>9, <2>4, QuestionFacts, AnswersBySection
  <2>5. QED
    BY <2>1, <2>2, <2>3, <2>4, QuestionFacts
<1>10. QED
  BY <1>8, <1>9 DEF merged

-----------------------------------------------------------------------------
(* What is done to an input before it is merged *)

\* Another spelling of a profile: every list lets the same names through.
Respelled(profile, other) ==
  /\ other \in Profile
  /\ other.exec = Nil <=> profile.exec = Nil
  /\ profile.exec # Nil => /\ SamePermits(other.exec.exe, profile.exec.exe)
                           /\ SamePermits(other.exec.lib, profile.exec.lib)
  /\ other.fs = Nil <=> profile.fs = Nil
  /\ profile.fs # Nil => /\ SamePermits(other.fs.ro, profile.fs.ro)
                         /\ SamePermits(other.fs.wo, profile.fs.wo)
                         /\ SamePermits(other.fs.rw, profile.fs.rw)
  /\ other.net = profile.net
  /\ other.caps = profile.caps

LEMMA RespelledAnswers ==
  ASSUME NEW profile \in Profile, NEW other, Respelled(profile, other)
  PROVE  \A q \in Question : Answers(other, q) <=> Answers(profile, q)
<1>1. SUFFICES ASSUME NEW q \in Question PROVE Answers(other, q) <=> Answers(profile, q)
  OBVIOUS
<1>2. \A a, b, name : Permits(a \cup b, name) <=> Permits(a, name) \/ Permits(b, name)
  BY DEF Permits
<1>3. CASE q.about \in {"exe", "lib", "read", "write"}
  <2>1. q.name \in Name
    BY <1>3, QuestionFacts
  <2>2. profile.exec # Nil =>
          /\ other.exec # Nil
          /\ Permits(other.exec.exe, q.name) <=> Permits(profile.exec.exe, q.name)
          /\ Permits(other.exec.lib, q.name) <=> Permits(profile.exec.lib, q.name)
    BY <2>1 DEF Respelled, SamePermits
  <2>3. profile.fs # Nil =>
          /\ other.fs # Nil
          /\ Permits(other.fs.ro, q.name) <=> Permits(profile.fs.ro, q.name)
          /\ Permits(other.fs.wo, q.name) <=> Permits(profile.fs.wo, q.name)
          /\ Permits(other.fs.rw, q.name) <=> Permits(profile.fs.rw, q.name)
    BY <2>1 DEF Respelled, SamePermits
  <2>4. (profile.exec = Nil => other.exec = Nil) /\ (profile.fs = Nil => other.fs = Nil)
    BY DEF Respelled
  <2>5. /\ other.exec = Nil <=> profile.exec = Nil
        /\ other.fs = Nil <=> profile.fs = Nil
    BY DEF Respelled
  <2>6. CASE q.about = "exe"
    BY <2>2, <2>5, <2>6, AnswersBySection
  <2>7. CASE q.about = "lib"
    BY <2>2, <2>5, <2>7, AnswersBySection
  <2>8. CASE q.about = "read"
    BY <1>2, <2>3, <2>5, <2>8, AnswersBySection
  <2>9. CASE q.about = "write"
    BY <1>2, <2>3, <2>5, <2>9, AnswersBySection
  <2>10. QED
    BY <1>3, <2>6, <2>7, <2>8, <2>9
<1>4. CASE q.about \in {"capability", "network"}
  BY <1>4, AnswersBySection DEF Respelled
<1>5. QED
  BY <1>3, <1>4, QuestionFacts

\* Five lists in place of those of a profile.
WithLists(profile, exe, lib, ro, wo, rw) ==
  [profile EXCEPT !.exec = IF profile.exec = Nil THEN Nil ELSE [exe |-> exe, lib |-> lib],
                  !.fs = IF profile.fs = Nil THEN Nil ELSE [ro |-> ro, wo |-> wo, rw |-> rw]]

LEMMA WithListsIsRespelled ==
  ASSUME NEW profile \in Profile, NEW exe, NEW lib, NEW ro, NEW wo, NEW rw,
         profile.exec # Nil => /\ SamePermits(exe, profile.exec.exe)
                               /\ SamePermits(lib, profile.exec.lib),
         profile.fs # Nil => /\ SamePermits(ro, profile.fs.ro)
                             /\ SamePermits(wo, profile.fs.wo)
                             /\ SamePermits(rw, profile.fs.rw)
  PROVE  Respelled(profile, WithLists(profile, exe, lib, ro, wo, rw))
<1> DEFINE other == WithLists(profile, exe, lib, ro, wo, rw)
           exec == IF profile.exec = Nil THEN Nil ELSE [exe |-> exe, lib |-> lib]
           fs == IF profile.fs = Nil THEN Nil ELSE [ro |-> ro, wo |-> wo, rw |-> rw]
<1>1. profile.exec # Nil => exec = [exe |-> exe, lib |-> lib] /\ exec \in PathLists
  BY DEF SamePermits, PathLists
<1>2. profile.fs # Nil => fs = [ro |-> ro, wo |-> wo, rw |-> rw] /\ fs \in FsLists
  BY DEF SamePermits, FsLists
<1>3. (profile.exec = Nil => exec = Nil) /\ (profile.fs = Nil => fs = Nil)
  OBVIOUS
<1>4. other = [profile EXCEPT !.exec = exec, !.fs = fs]
  BY DEF WithLists
<1> HIDE DEF other, exec, fs
<1>5. exec \in PathLists \cup {Nil} /\ fs \in FsLists \cup {Nil}
  BY <1>1, <1>2, <1>3
<1>6. /\ other \in Profile
      /\ other.exec = exec /\ other.fs = fs
      /\ other.net = profile.net /\ other.caps = profile.caps
  BY <1>4, <1>5 DEF Profile
<1>7. Respelled(profile, other)
  BY <1>1, <1>2, <1>3, <1>6, NilFacts DEF Respelled
<1>8. QED
  BY <1>7 DEF other

LEMMA ListsOfProfile ==
  ASSUME NEW profile \in Profile
  PROVE  /\ profile.exec # Nil => profile.exec.exe \subseteq Path /\ profile.exec.lib \subseteq Path
         /\ profile.fs # Nil => /\ profile.fs.ro \subseteq Path /\ profile.fs.wo \subseteq Path
                                /\ profile.fs.rw \subseteq Path
  BY DEF Profile, PathLists, FsLists

FilteredPaths(paths) == {Filtered[p] : p \in paths}

LEMMA FilteredProfile ==
  ASSUME NEW profile \in Profile
  PROVE  Respelled(profile, MapPathLists(profile, LAMBDA paths : {Filtered[p] : p \in paths}))
<1>1. MapPathLists(profile, LAMBDA paths : {Filtered[p] : p \in paths})
        = WithLists(profile, FilteredPaths(profile.exec.exe), FilteredPaths(profile.exec.lib),
                    FilteredPaths(profile.fs.ro), FilteredPaths(profile.fs.wo),
                    FilteredPaths(profile.fs.rw))
  BY DEF MapPathLists, WithLists, FilteredPaths
<1>2. \A paths \in SUBSET Path : SamePermits(FilteredPaths(paths), paths)
  BY FilteredPermits DEF FilteredPaths
<1>3. QED
  BY <1>1, <1>2, ListsOfProfile, WithListsIsRespelled

LEMMA FoldedProfile ==
  ASSUME NEW profile \in Profile
  PROVE  Respelled(profile, MapPathLists(profile, FoldAliasList))
<1>1. MapPathLists(profile, FoldAliasList)
        = WithLists(profile, FoldAliasList(profile.exec.exe), FoldAliasList(profile.exec.lib),
                    FoldAliasList(profile.fs.ro), FoldAliasList(profile.fs.wo),
                    FoldAliasList(profile.fs.rw))
  BY DEF MapPathLists, WithLists
<1>2. \A paths \in SUBSET Path : SamePermits(FoldAliasList(paths), paths)
  BY SimplestPermits DEF FoldAliasList
<1>3. QED
  BY <1>1, <1>2, ListsOfProfile, WithListsIsRespelled

SimplestPaths(paths, all) == {Simplest(p, all) : p \in paths}

LEMMA UnifiedProfile ==
  ASSUME NEW profile \in Profile, NEW all \in SUBSET Path, PathsOf(profile) \subseteq all
  PROVE  Respelled(profile, MapPathLists(profile, LAMBDA paths : {Simplest(p, all) : p \in paths}))
<1>1. MapPathLists(profile, LAMBDA paths : {Simplest(p, all) : p \in paths})
        = WithLists(profile, SimplestPaths(profile.exec.exe, all),
                    SimplestPaths(profile.exec.lib, all), SimplestPaths(profile.fs.ro, all),
                    SimplestPaths(profile.fs.wo, all), SimplestPaths(profile.fs.rw, all))
  BY DEF MapPathLists, WithLists, SimplestPaths
<1>2. \A paths \in SUBSET all : SamePermits(SimplestPaths(paths, all), paths)
  BY SimplestPermits DEF SimplestPaths
<1>3. /\ profile.exec # Nil => profile.exec.exe \subseteq all /\ profile.exec.lib \subseteq all
      /\ profile.fs # Nil => /\ profile.fs.ro \subseteq all /\ profile.fs.wo \subseteq all
                             /\ profile.fs.rw \subseteq all
  BY DEF PathsOf, PathListsOf
<1>4. /\ profile.exec # Nil =>
            /\ SamePermits(SimplestPaths(profile.exec.exe, all), profile.exec.exe)
            /\ SamePermits(SimplestPaths(profile.exec.lib, all), profile.exec.lib)
      /\ profile.fs # Nil =>
            /\ SamePermits(SimplestPaths(profile.fs.ro, all), profile.fs.ro)
            /\ SamePermits(SimplestPaths(profile.fs.wo, all), profile.fs.wo)
            /\ SamePermits(SimplestPaths(profile.fs.rw, all), profile.fs.rw)
  BY <1>2, <1>3
<1>5. QED
  BY <1>1, <1>4, WithListsIsRespelled

LEMMA UsableProfile ==
  ASSUME NEW profile \in Populated
  PROVE  /\ Respelled(profile, MapPathLists(profile, DropUnusableGlobs))
         /\ MapPathLists(profile, DropUnusableGlobs) \in Populated
<1> DEFINE other == MapPathLists(profile, DropUnusableGlobs)
<1>1. profile \in Profile
  BY PopulatedFacts
<1>2. other
        = WithLists(profile, DropUnusableGlobs(profile.exec.exe),
                    DropUnusableGlobs(profile.exec.lib), DropUnusableGlobs(profile.fs.ro),
                    DropUnusableGlobs(profile.fs.wo), DropUnusableGlobs(profile.fs.rw))
  BY DEF MapPathLists, WithLists
<1>3. \A paths \in SUBSET Path : SamePermits(DropUnusableGlobs(paths), paths)
  BY UsablePermits
<1>4. Respelled(profile, other)
  BY <1>1, <1>2, <1>3, ListsOfProfile, WithListsIsRespelled
<1> HIDE DEF other
<1>5. /\ other.exec \in PathLists /\ other.fs \in FsLists
      /\ other.net = profile.net /\ other.caps = profile.caps
  BY <1>4, PopulatedFacts, ProfileFields DEF Respelled
<1>6. other = [exec |-> other.exec, fs |-> other.fs, net |-> other.net, caps |-> other.caps]
  BY <1>4 DEF Respelled, Profile
<1>7. other \in Populated
  BY <1>5, <1>6 DEF Populated
<1>8. QED
  BY <1>4, <1>7 DEF other

AnswersAlike(profile, other) == \A q \in Question : Answers(profile, q) <=> Answers(other, q)

\* The lists of an input, without what normalization filters out of them.
FilteredLists(profile) == MapPathLists(profile, LAMBDA paths : {Filtered[p] : p \in paths})

LEMMA UpperFacts ==
  ASSUME NEW cap \in Capability
  PROVE  /\ Upper[cap] \in Capability /\ Upper[Upper[cap]] = Upper[cap]
         /\ Upper[cap] = EmptyCapability => cap = EmptyCapability
  BY RulesAssumption

LEMMA UpperAnswers ==
  ASSUME NEW caps \in SUBSET Capability, NEW name
  PROVE  LET upper == {Upper[cap] : cap \in caps} IN
         /\ upper \in SUBSET Capability
         /\ CapAnswers(upper, name) <=> CapAnswers(caps, name)
<1> DEFINE upper == {Upper[cap] : cap \in caps}
<1>1. \A cap \in caps : Upper[cap] \in Capability /\ Upper[Upper[cap]] = Upper[cap]
  BY UpperFacts
<1>2. upper \in SUBSET Capability
  BY <1>1
<1>3. upper # Nil /\ caps # Nil
  <2> HIDE DEF upper
  <2>1. QED
    BY <1>2, NilFacts
<1>4. (\E cap \in upper : Upper[cap] = name) <=> \E cap \in caps : Upper[cap] = name
  BY <1>1
<1>5. QED
  BY <1>2, <1>3, <1>4 DEF CapAnswers

LEMMA OtherCaps ==
  ASSUME NEW profile \in Profile, NEW caps \in (SUBSET Capability) \cup {Nil},
         \A name : CapAnswers(caps, name) <=> CapAnswers(profile.caps, name)
  PROVE  /\ [profile EXCEPT !.caps = caps] \in Profile
         /\ AnswersAlike([profile EXCEPT !.caps = caps], profile)
<1> DEFINE other == [profile EXCEPT !.caps = caps]
<1>1. /\ other \in Profile
      /\ other.exec = profile.exec /\ other.fs = profile.fs /\ other.net = profile.net
      /\ other.caps = caps
  BY DEF Profile
<1> HIDE DEF other
<1>2. ASSUME NEW q \in Question PROVE Answers(other, q) <=> Answers(profile, q)
  <2>1. CASE q.about = "capability"
    BY <1>1, <2>1, AnswersBySection
  <2>2. CASE q.about \in {"exe", "lib", "read", "write", "network"}
    BY <1>1, <2>2, AnswersBySection
  <2>3. QED
    BY <2>1, <2>2, QuestionFacts
<1>3. QED
  BY <1>1, <1>2 DEF other, AnswersAlike

\* A canonical copy answers as the profile its author wrote.
LEMMA CanonicalAnswers ==
  ASSUME NEW profile \in Profile
  PROVE  Canonical(profile) \in Profile /\ AnswersAlike(Canonical(profile), profile)
<1> DEFINE filtered == FilteredLists(profile)
           folds == MapPathLists(filtered, FoldAliasList)
           caps == IF folds.caps = Nil THEN Nil ELSE {Upper[cap] : cap \in folds.caps}
<1>1. Canonical(profile) = [folds EXCEPT !.caps = caps]
  BY DEF Canonical, FilteredLists
<1>2. filtered \in Profile /\ AnswersAlike(filtered, profile)
  <2>1. Respelled(profile, filtered)
    BY FilteredProfile DEF FilteredLists
  <2> HIDE DEF filtered
  <2>2. QED
    BY <2>1, RespelledAnswers DEF Respelled, AnswersAlike
<1>3. folds \in Profile /\ AnswersAlike(folds, filtered)
  <2> HIDE DEF filtered
  <2>1. Respelled(filtered, folds)
    BY <1>2, FoldedProfile
  <2> HIDE DEF folds
  <2>2. QED
    BY <1>2, <2>1, RespelledAnswers DEF Respelled, AnswersAlike
<1> HIDE DEF folds, filtered
<1>4. caps \in (SUBSET Capability) \cup {Nil}
      /\ \A name : CapAnswers(caps, name) <=> CapAnswers(folds.caps, name)
  BY <1>3, ProfileFields, UpperAnswers
<1> HIDE DEF caps
<1>5. /\ [folds EXCEPT !.caps = caps] \in Profile
      /\ AnswersAlike([folds EXCEPT !.caps = caps], folds)
  BY <1>3, <1>4, OtherCaps
<1>6. QED
  BY <1>1, <1>2, <1>3, <1>5 DEF AnswersAlike

\* A section an input to intersect omits denies what it covers, as an empty one.
LEMMA PopulateEmptyAnswers ==
  ASSUME NEW profile \in Profile
  PROVE  PopulateEmpty(profile) \in Populated /\ AnswersAlike(PopulateEmpty(profile), profile)
<1> DEFINE other == PopulateEmpty(profile)
           net == IF profile.net = Nil THEN [raw |-> Nil, protocols |-> Nil] ELSE profile.net
           protocols == IF net.protocols = Nil THEN [tcp |-> Nil, udp |-> Nil]
                        ELSE net.protocols
<1>1. /\ other.exec = IF profile.exec = Nil THEN [exe |-> {}, lib |-> {}] ELSE profile.exec
      /\ other.fs = IF profile.fs = Nil THEN [ro |-> {}, wo |-> {}, rw |-> {}] ELSE profile.fs
      /\ other.net = [raw |-> OrFalse(net.raw),
                      protocols |-> [tcp |-> OrFalse(protocols.tcp),
                                     udp |-> OrFalse(protocols.udp)]]
      /\ other.caps = IF profile.caps = Nil THEN {} ELSE profile.caps
      /\ other = [exec |-> other.exec, fs |-> other.fs, net |-> other.net, caps |-> other.caps]
  BY DEF PopulateEmpty
<1>2. \A b \in Bool : OrFalse(b) \in BOOLEAN /\ (Allowed(OrFalse(b)) <=> Allowed(b))
  BY NilFacts DEF OrFalse, Bool, Allowed
<1>3. /\ net.raw \in Bool
      /\ net.protocols \in Protocols \cup {Nil}
      /\ protocols.tcp \in Bool /\ protocols.udp \in Bool
      /\ profile.net = Nil => net.raw = Nil /\ net.protocols = Nil
      /\ profile.net # Nil => net = profile.net
      /\ net.protocols = Nil => protocols.tcp = Nil /\ protocols.udp = Nil
      /\ net.protocols # Nil => protocols = net.protocols
  <2>1. /\ profile.net = Nil => net.raw = Nil /\ net.protocols = Nil
        /\ profile.net # Nil => net = profile.net
    OBVIOUS
  <2>2. net.raw \in Bool /\ net.protocols \in Protocols \cup {Nil}
    BY <2>1, ProfileFields DEF Bool
  <2> HIDE DEF net
  <2>3. /\ net.protocols = Nil => protocols.tcp = Nil /\ protocols.udp = Nil
        /\ net.protocols # Nil => protocols = net.protocols
    OBVIOUS
  <2>4. protocols.tcp \in Bool /\ protocols.udp \in Bool
    BY <2>2, <2>3 DEF Bool, Protocols
  <2>5. QED
    BY <2>1, <2>2, <2>3, <2>4
<1> HIDE DEF net, protocols, other
<1>4. other.net \in [raw : BOOLEAN, protocols : [tcp : BOOLEAN, udp : BOOLEAN]]
  BY <1>1, <1>2, <1>3
<1>5. other.exec \in PathLists /\ other.fs \in FsLists /\ other.caps \in SUBSET Capability
  BY <1>1, ProfileFields DEF PathLists, FsLists
<1>6. other \in Populated
  BY <1>1, <1>4, <1>5 DEF Populated
<1>7. /\ other.exec # Nil /\ other.fs # Nil /\ other.net # Nil /\ other.caps # Nil
      /\ other.net.protocols # Nil
  BY <1>6, PopulatedFacts
<1>8. \A name \in {"raw", "tcp", "udp"} : NetAnswers(other.net, name) <=> NetAnswers(profile.net, name)
  <2>1. /\ Allowed(other.net.raw) <=> Allowed(net.raw)
        /\ Allowed(other.net.protocols.tcp) <=> Allowed(protocols.tcp)
        /\ Allowed(other.net.protocols.udp) <=> Allowed(protocols.udp)
    BY <1>1, <1>2, <1>3
  <2>2. /\ other.net.protocols["tcp"] = other.net.protocols.tcp
        /\ other.net.protocols["udp"] = other.net.protocols.udp
        /\ protocols["tcp"] = protocols.tcp /\ protocols["udp"] = protocols.udp
    OBVIOUS
  <2>3. ~Allowed(Nil)
    BY DEF Allowed
  <2>4. QED
    BY <1>3, <1>7, <2>1, <2>2, <2>3 DEF NetAnswers
<1>9. \A name : ~Permits({}, name)
  BY DEF Permits
<1>10. ASSUME NEW q \in Question PROVE Answers(other, q) <=> Answers(profile, q)
  <2>1. CASE q.about \in {"exe", "lib"}
    <3>1. /\ profile.exec # Nil => other.exec = profile.exec
          /\ profile.exec = Nil => other.exec.exe = {} /\ other.exec.lib = {}
      BY <1>1
    <3>2. CASE profile.exec = Nil
      BY <1>9, <2>1, <3>1, <3>2, AnswersBySection
    <3>3. CASE profile.exec # Nil
      BY <1>7, <2>1, <3>1, <3>3, AnswersBySection
    <3>4. QED
      BY <3>2, <3>3
  <2>2. CASE q.about \in {"read", "write"}
    <3>1. /\ profile.fs # Nil => other.fs = profile.fs
          /\ profile.fs = Nil => /\ other.fs.ro \cup other.fs.rw = {}
                                 /\ other.fs.wo \cup other.fs.rw = {}
      BY <1>1
    <3>2. CASE profile.fs = Nil
      BY <1>9, <2>2, <3>1, <3>2, AnswersBySection
    <3>3. CASE profile.fs # Nil
      BY <1>7, <2>2, <3>1, <3>3, AnswersBySection
    <3>4. QED
      BY <3>2, <3>3
  <2>3. CASE q.about = "capability"
    BY <1>1, <1>7, <2>3, AnswersBySection DEF CapAnswers
  <2>4. CASE q.about = "network"
    BY <1>8, <2>4, AnswersBySection, QuestionFacts
  <2>5. QED
    BY <2>1, <2>2, <2>3, <2>4, QuestionFacts
<1>11. QED
  BY <1>6, <1>10 DEF other, AnswersAlike

LEMMA PreparedAnswers ==
  ASSUME NEW profile \in Profile
  PROVE  PrepareIntersect(profile) \in Populated /\ AnswersAlike(PrepareIntersect(profile), profile)
<1> DEFINE full == PopulateEmpty(profile)
           usable == MapPathLists(full, DropUnusableGlobs)
<1>1. full \in Populated /\ full \in Profile /\ AnswersAlike(full, profile)
  BY PopulateEmptyAnswers, PopulatedFacts
<1>2. PrepareIntersect(profile) = usable
  BY DEF PrepareIntersect
<1> HIDE DEF full
<1>3. usable \in Populated /\ Respelled(full, usable)
  BY <1>1, UsableProfile
<1> HIDE DEF usable
<1>4. QED
  BY <1>1, <1>2, <1>3, RespelledAnswers DEF AnswersAlike

\* Spelled alike, the inputs of a call answer as they did.
LEMMA UnifiedAnswers ==
  ASSUME NEW profiles \in Seq(Profile), NEW i \in 1..Len(profiles)
  PROVE  /\ UnifyAliasSpellings(profiles)[i] \in Profile
         /\ AnswersAlike(UnifyAliasSpellings(profiles)[i], profiles[i])
<1> DEFINE all == UNION {PathsOf(profiles[j]) : j \in DOMAIN profiles}
           other == MapPathLists(profiles[i], LAMBDA paths : {Simplest(p, all) : p \in paths})
<1>1. DOMAIN profiles = 1..Len(profiles) /\ \A j \in 1..Len(profiles) : profiles[j] \in Profile
  OBVIOUS
<1>2. UnifyAliasSpellings(profiles)[i] = other
  BY <1>1 DEF UnifyAliasSpellings
<1>3. \A profile \in Profile : PathsOf(profile) \subseteq Path
  <2>1. SUFFICES ASSUME NEW profile \in Profile PROVE PathsOf(profile) \subseteq Path
    OBVIOUS
  <2>2. QED
    BY ListsOfProfile DEF PathsOf, PathListsOf
<1>4. all \in SUBSET Path /\ PathsOf(profiles[i]) \subseteq all
  BY <1>1, <1>3
<1> HIDE DEF all
<1>5. Respelled(profiles[i], other)
  BY <1>1, <1>4, UnifiedProfile
<1> HIDE DEF other
<1>6. QED
  BY <1>1, <1>2, <1>5, RespelledAnswers DEF Respelled, AnswersAlike

-----------------------------------------------------------------------------
(* The fold *)

\* What the profiles being merged look like.
Form(s) == IF s = "intersect" THEN Populated ELSE Profile

LEMMA MergeTwoIs ==
  ASSUME NEW left, NEW right
  PROVE  /\ strategy = "intersect" => MergeTwo(left, right) = IntersectProfiles(left, right)
         /\ strategy = "union" => MergeTwo(left, right) = UnionProfiles(left, right)
<1>1. strategy = "intersect" => (strategy = "intersect") = TRUE
  OBVIOUS
<1>2. strategy = "union" => (strategy = "intersect") = FALSE
  OBVIOUS
<1>3. QED
  BY <1>1, <1>2 DEF MergeTwo, IntersectProfiles, UnionProfiles

LEMMA SafeMerge ==
  ASSUME strategy \in {"intersect", "union"},
         NEW left \in Form(strategy), NEW right \in Form(strategy), NEW I, NEW J,
         OnSafeSide(left, I), OnSafeSide(right, J)
  PROVE  /\ MergeTwo(left, right) \in Form(strategy)
         /\ OnSafeSide(MergeTwo(left, right), I \cup J)
<1>1. CASE strategy = "intersect"
  <2>1. left \in Populated /\ right \in Populated
    BY <1>1 DEF Form
  <2>2. /\ MergeTwo(left, right) \in Populated
        /\ \A q \in Question : Answers(MergeTwo(left, right), q) =>
                                 Answers(left, q) /\ Answers(right, q)
    BY <1>1, <2>1, MergeTwoIs, IntersectionOfTwo
  <2>3. \A q \in Question : /\ Answers(left, q) => \A i \in I : Answers(args[i], q)
                            /\ Answers(right, q) => \A i \in J : Answers(args[i], q)
    BY <1>1 DEF OnSafeSide
  <2>4. QED
    BY <1>1, <2>2, <2>3 DEF OnSafeSide, Form
<1>2. CASE strategy = "union"
  <2>1. left \in Profile /\ right \in Profile
    BY <1>2 DEF Form
  <2>2. /\ MergeTwo(left, right) \in Profile
        /\ \A q \in Question : Answers(MergeTwo(left, right), q) <=>
                                 Answers(left, q) \/ Answers(right, q)
    BY <1>2, <2>1, MergeTwoIs, UnionOfTwo
  <2>3. \A q \in Question : /\ Answers(left, q) <=> \E i \in I : Answers(args[i], q)
                            /\ Answers(right, q) <=> \E i \in J : Answers(args[i], q)
    BY <1>2 DEF OnSafeSide
  <2>4. QED
    BY <1>2, <2>2, <2>3 DEF OnSafeSide, Form
<1>3. QED
  BY <1>1, <1>2

LEMMA SafeAlone ==
  ASSUME NEW profile, NEW i, AnswersAlike(profile, args[i])
  PROVE  OnSafeSide(profile, {i})
  BY DEF OnSafeSide, AnswersAlike

\* The inputs read, checked and prepared so far, and the result they fold to.
CallInv ==
  /\ strategy \in {"intersect", "union"} /\ arity \in Arities
  /\ pc \in {"read", "validate", "fold", "done", "failed"}
  /\ args \in Seq(Profile \cup {Nil}) /\ Len(args) <= arity
  /\ pc # "failed" => \A i \in 1..Len(args) : args[i] # Nil
  /\ pc \in {"validate", "fold", "done"} => Len(args) = arity

NormalizedInv ==
  /\ normalized \in Seq(Profile) /\ Len(normalized) <= arity
  /\ pc = "read" => normalized = <<>>
  /\ pc # "failed" => \A i \in 1..Len(normalized) : AnswersAlike(normalized[i], args[i])
  /\ pc \in {"fold", "done"} =>
       /\ Len(normalized) = arity
       /\ \A i \in 1..arity : normalized[i] \in Form(strategy)

FoldInv ==
  /\ folded \in 0..arity
  /\ pc \in {"read", "validate", "failed"} => folded = 0
  /\ folded > 0 => result \in Form(strategy) /\ OnSafeSide(result, 1..folded)
  /\ pc = "done" => folded = arity /\ arity > 0

MergeInv == CallInv /\ NormalizedInv /\ FoldInv

LEMMA MergeInit == Init => MergeInv
  BY CallsAssumption DEF Init, MergeInv, CallInv, NormalizedInv, FoldInv

LEMMA ReadStep ==
  ASSUME MergeInv, NEW profile \in Profiles[arity], ReadProfile(profile)
  PROVE  MergeInv'
<1> DEFINE Read == Append(args, profile)
<1>1. arity \in Nat /\ profile \in Profile \cup {Nil}
  BY CallsAssumption DEF MergeInv, CallInv
<1>2. /\ pc = "read" /\ Len(args) < arity /\ args' = Read
      /\ UNCHANGED <<strategy, arity, normalized, folded, result>>
      /\ RawPathsValid(profile) => pc' = pc
      /\ ~RawPathsValid(profile) => pc' = "failed"
  BY DEF ReadProfile
<1>3. /\ args \in Seq(Profile \cup {Nil}) /\ \A i \in 1..Len(args) : args[i] # Nil
      /\ strategy \in {"intersect", "union"} /\ arity \in Arities
      /\ normalized = <<>> /\ folded = 0
  BY <1>2 DEF MergeInv, CallInv, NormalizedInv, FoldInv
<1>4. /\ Read \in Seq(Profile \cup {Nil}) /\ Len(Read) = Len(args) + 1
      /\ \A i \in 1..Len(args) : Read[i] = args[i]
      /\ Read[Len(args) + 1] = profile
  <2> HIDE DEF Form
  <2>1. QED
    BY <1>1, <1>3
<1>5. RawPathsValid(profile) => profile # Nil
  BY DEF RawPathsValid
<1> HIDE DEF Read
<1>6. CallInv'
  <2>1. Len(Read) <= arity /\ Len(args) \in Nat
    BY <1>1, <1>2, <1>3, <1>4
  <2>2. RawPathsValid(profile) => \A i \in 1..Len(Read) : Read[i] # Nil
    BY <1>3, <1>4, <1>5, <2>1
  <2>3. QED
    BY <1>2, <1>3, <1>4, <2>1, <2>2 DEF CallInv
<1>7. NormalizedInv'
  BY <1>1, <1>2, <1>3 DEF NormalizedInv
<1>8. FoldInv'
  BY <1>1, <1>2, <1>3 DEF FoldInv
<1>9. QED
  BY <1>6, <1>7, <1>8 DEF MergeInv

LEMMA ValidateStep ==
  ASSUME MergeInv, ValidateNext
  PROVE  MergeInv'
<1> DEFINE k == Len(normalized) + 1
           profile == Canonical(args[k])
<1>1. /\ arity \in Nat /\ strategy \in {"intersect", "union"} /\ arity \in Arities
      /\ args \in Seq(Profile \cup {Nil}) /\ Len(args) = arity
      /\ \A i \in 1..arity : args[i] # Nil
      /\ normalized \in Seq(Profile) /\ Len(normalized) < arity
      /\ \A i \in 1..Len(normalized) : AnswersAlike(normalized[i], args[i])
      /\ folded = 0
  BY CallsAssumption DEF MergeInv, CallInv, NormalizedInv, FoldInv, ValidateNext
<1>2. /\ UNCHANGED <<strategy, arity, args, folded, result>>
      /\ \/ normalized' = Append(normalized, profile) /\ pc' = "validate"
         \/ normalized' = normalized /\ pc' = "failed"
  BY DEF ValidateNext
<1>3. Len(normalized) \in Nat /\ k \in 1..arity
  BY <1>1
<1>4. args[k] \in Profile
  <2> HIDE DEF k
  <2>1. args[k] \in Profile \cup {Nil} /\ args[k] # Nil
    BY <1>1, <1>3
  <2>2. QED
    BY <2>1
<1>5. profile \in Profile /\ AnswersAlike(profile, args[k])
  <2> HIDE DEF k
  <2>1. QED
    BY <1>4, CanonicalAnswers
<1> HIDE DEF profile
<1>6. CallInv'
  BY <1>1, <1>2 DEF CallInv
<1>7. CASE normalized' = Append(normalized, profile) /\ pc' = "validate"
  <2>1. /\ Append(normalized, profile) \in Seq(Profile)
        /\ Len(Append(normalized, profile)) = k
        /\ Append(normalized, profile)[k] = profile
        /\ \A i \in 1..Len(normalized) : Append(normalized, profile)[i] = normalized[i]
    BY <1>1, <1>5
  <2>2. \A i \in 1..k : i \in 1..Len(normalized) \/ i = k
    BY <1>3
  <2> HIDE DEF k
  <2>3. \A i \in 1..k : AnswersAlike(normalized'[i], args'[i])
    BY <1>1, <1>2, <1>5, <1>7, <2>1, <2>2
  <2>4. (\A i \in 1..Len(normalized) : AnswersAlike(normalized[i], args[i]))'
    BY <1>7, <2>1, <2>3 DEF AnswersAlike
  <2>5. NormalizedInv'
    BY <1>2, <1>3, <1>7, <2>1, <2>4 DEF NormalizedInv
  <2>6. FoldInv'
    BY <1>1, <1>2, <1>7 DEF FoldInv
  <2>7. QED
    BY <1>6, <2>5, <2>6 DEF MergeInv
<1>8. CASE normalized' = normalized /\ pc' = "failed"
  <2>1. NormalizedInv'
    BY <1>1, <1>2, <1>8 DEF NormalizedInv
  <2>2. FoldInv'
    BY <1>1, <1>2, <1>8 DEF FoldInv
  <2>3. QED
    BY <1>6, <2>1, <2>2 DEF MergeInv
<1>9. QED
  BY <1>2, <1>7, <1>8

LEMMA PrepareStep ==
  ASSUME MergeInv, Prepare
  PROVE  MergeInv'
<1> DEFINE unified == UnifyAliasSpellings(normalized)
           prepared == [i \in DOMAIN normalized |-> Prepared(unified[i])]
<1>1. /\ arity \in Nat /\ strategy \in {"intersect", "union"} /\ arity \in Arities
      /\ args \in Seq(Profile \cup {Nil}) /\ Len(args) = arity
      /\ \A i \in 1..arity : args[i] # Nil
      /\ normalized \in Seq(Profile) /\ Len(normalized) = arity
      /\ \A i \in 1..arity : AnswersAlike(normalized[i], args[i])
      /\ folded = 0
  BY CallsAssumption DEF MergeInv, CallInv, NormalizedInv, FoldInv, Prepare
<1>2. /\ UNCHANGED <<strategy, arity, args, folded, result>>
      /\ pc' = "fold" /\ normalized' = prepared
  BY DEF Prepare
<1>3. DOMAIN normalized = 1..arity
  BY <1>1
<1>4. ASSUME NEW i \in 1..arity
      PROVE  /\ prepared[i] \in Form(strategy) /\ prepared[i] \in Profile
             /\ AnswersAlike(prepared[i], args[i])
  <2>1. unified[i] \in Profile /\ AnswersAlike(unified[i], normalized[i])
    BY <1>1, UnifiedAnswers
  <2>2. prepared[i] = Prepared(unified[i])
    BY <1>3
  <2> HIDE DEF unified, prepared
  <2>3. CASE strategy = "intersect"
    <3>1. prepared[i] = PrepareIntersect(unified[i])
      BY <2>2, <2>3 DEF Prepared
    <3>2. prepared[i] \in Populated /\ AnswersAlike(prepared[i], unified[i])
      BY <2>1, <3>1, PreparedAnswers
    <3>3. prepared[i] \in Profile
      BY <3>2, PopulatedFacts
    <3>4. QED
      BY <1>1, <2>1, <2>3, <3>2, <3>3 DEF Form, AnswersAlike
  <2>4. CASE strategy = "union"
    <3>1. prepared[i] = unified[i]
      BY <2>2, <2>4 DEF Prepared
    <3>2. QED
      BY <1>1, <2>1, <2>4, <3>1 DEF Form, AnswersAlike
  <2>5. QED
    BY <1>1, <2>3, <2>4
<1>5. prepared \in Seq(Profile) /\ Len(prepared) = arity
  <2>1. prepared = [i \in 1..arity |-> prepared[i]]
    BY <1>3
  <2> HIDE DEF prepared
  <2>2. \A i \in 1..arity : prepared[i] \in Profile
    BY <1>4
  <2>3. QED
    BY <1>1, <2>1, <2>2, IsASeq, LenProperties
<1> HIDE DEF prepared
<1>6. CallInv'
  BY <1>1, <1>2 DEF CallInv
<1>7. NormalizedInv'
  <2>1. \A i \in 1..arity : AnswersAlike(normalized'[i], args'[i])
    BY <1>2, <1>4
  <2>2. (\A i \in 1..Len(normalized) : AnswersAlike(normalized[i], args[i]))'
    BY <1>2, <1>5, <2>1 DEF AnswersAlike
  <2>3. (\A i \in 1..arity : normalized[i] \in Form(strategy))'
    BY <1>2, <1>4 DEF Form
  <2>4. QED
    BY <1>1, <1>2, <1>5, <2>2, <2>3 DEF NormalizedInv
<1>8. FoldInv'
  BY <1>1, <1>2 DEF FoldInv
<1>9. QED
  BY <1>6, <1>7, <1>8 DEF MergeInv

LEMMA FoldStep ==
  ASSUME MergeInv, FoldNext
  PROVE  MergeInv'
<1> DEFINE k == folded + 1
<1>1. /\ arity \in Nat /\ strategy \in {"intersect", "union"}
      /\ folded \in 0..arity /\ folded < arity /\ pc = "fold"
      /\ folded > 0 => result \in Form(strategy) /\ OnSafeSide(result, 1..folded)
      /\ \A i \in 1..arity : normalized[i] \in Form(strategy) /\ AnswersAlike(normalized[i], args[i])
  BY CallsAssumption DEF MergeInv, CallInv, NormalizedInv, FoldInv, FoldNext
<1>2. k \in 1..arity /\ k > 0
  BY <1>1
<1>3. /\ UNCHANGED <<strategy, arity, args, pc, normalized>> /\ folded' = k
      /\ folded = 0 => result' = normalized[1]
      /\ folded # 0 => result' = MergeTwo(result, normalized[k])
  BY DEF FoldNext
<1>4. OnSafeSide(normalized[k], {k})
  BY <1>1, <1>2, SafeAlone
<1>5. result' \in Form(strategy) /\ OnSafeSide(result', 1..k)
  <2>1. CASE folded = 0
    <3>1. 1..k = {k} /\ k = 1
      BY <2>1
    <3> HIDE DEF k
    <3>2. QED
      BY <1>1, <1>2, <1>3, <1>4, <2>1, <3>1
  <2>2. CASE folded # 0
    <3>1. (1..folded) \cup {k} = 1..k
      BY <1>1
    <3>2. result \in Form(strategy) /\ OnSafeSide(result, 1..folded)
      BY <1>1, <2>2
    <3> HIDE DEF k
    <3>3. normalized[k] \in Form(strategy)
      BY <1>1, <1>2
    <3>4. /\ MergeTwo(result, normalized[k]) \in Form(strategy)
          /\ OnSafeSide(MergeTwo(result, normalized[k]), (1..folded) \cup {k})
      BY <1>1, <1>4, <3>2, <3>3, SafeMerge
    <3>5. QED
      BY <1>3, <2>2, <3>1, <3>4
  <2>3. QED
    BY <2>1, <2>2
<1> HIDE DEF k
<1>6. OnSafeSide(result, 1..folded)'
  BY <1>3, <1>5 DEF OnSafeSide
<1>7. FoldInv'
  BY <1>1, <1>2, <1>3, <1>5, <1>6 DEF FoldInv, Form
<1>8. CallInv'
  BY <1>3 DEF MergeInv, CallInv
<1>9. NormalizedInv'
  BY <1>3 DEF MergeInv, NormalizedInv, AnswersAlike, Form
<1>10. QED
  BY <1>7, <1>8, <1>9 DEF MergeInv

LEMMA OtherSteps ==
  ASSUME MergeInv, AllRead \/ RejectEmptyCall \/ Finish \/ UNCHANGED vars
  PROVE  MergeInv'
<1>1. arity \in Nat /\ UNCHANGED <<strategy, arity, args, normalized, folded, result>>
  BY CallsAssumption DEF MergeInv, CallInv, AllRead, RejectEmptyCall, Finish, vars
<1>2. /\ pc' \in {"read", "validate", "fold", "done", "failed"}
      /\ pc' # "failed" => pc # "failed"
      /\ pc' \in {"validate", "fold", "done"} => Len(args) = arity
      /\ pc' = "read" => pc = "read"
      /\ pc' \in {"fold", "done"} => pc \in {"fold", "done"}
      /\ pc' \in {"read", "validate", "failed"} => folded = 0
      /\ pc' = "done" => folded = arity /\ arity > 0
  BY <1>1 DEF MergeInv, CallInv, NormalizedInv, FoldInv, AllRead, RejectEmptyCall, Finish, vars
<1>3. CallInv'
  BY <1>1, <1>2 DEF MergeInv, CallInv
<1>4. NormalizedInv'
  BY <1>1, <1>2 DEF MergeInv, NormalizedInv, AnswersAlike, Form
<1>5. OnSafeSide(result, 1..folded)' <=> OnSafeSide(result, 1..folded)
  BY <1>1 DEF OnSafeSide
<1>6. FoldInv'
  BY <1>1, <1>2, <1>5 DEF MergeInv, FoldInv, Form
<1>7. QED
  BY <1>3, <1>4, <1>6 DEF MergeInv

LEMMA MergeStep == MergeInv /\ [Next]_vars => MergeInv'
  BY ReadStep, ValidateStep, PrepareStep, FoldStep, OtherSteps DEF Next, Returned

-----------------------------------------------------------------------------
(* Every grouping of the fold *)

\* Folding from the right merges each input with what the ones after it gave.
LEMMA RightFoldIsSafe ==
  ASSUME strategy \in {"intersect", "union"}, NEW n \in Nat, n > 1,
         NEW profiles \in Seq(Profile), Len(profiles) = n,
         \A i \in 1..n : profiles[i] \in Form(strategy) /\ OnSafeSide(profiles[i], {i})
  PROVE  OnSafeSide(FoldRight(MergeTwo, Front(profiles), Last(profiles)), 1..n)
<1> DEFINE front == Front(profiles)
           S == 1..(n - 1)
           V == Form(strategy)
           last == Last(profiles)
           Solves(g) == g = [s \in SUBSET S |->
                               IF s = {} THEN last
                               ELSE MergeTwo(front[Min(s)], g[s \ {Min(s)}])]
           iter == CHOOSE g : Solves(g)
           op == [i \in S |-> [v \in V |-> MergeTwo(front[i], v)]]
           choose == [s \in SUBSET S |-> Min(s)]
<1>1. /\ DOMAIN front = S
      /\ \A i \in S : front[i] = profiles[i] /\ i \in 1..n
      /\ last = profiles[n] /\ n \in 1..n
  BY DEF Front, Last
<1>2. FoldRight(MergeTwo, front, last) = iter[S]
  BY <1>1 DEF FoldRight, MapThenFoldSet
<1>3. IsFiniteSet(S) /\ n - 1 \in Nat
  BY FS_Interval
<1>4. \A s \in (SUBSET S) \ {{}} : Min(s) \in s
  BY <1>3, LeastPicks
<1>5. Picks(choose, S)
  BY <1>4 DEF Picks
<1> HIDE DEF front, last
<1>6. last \in V /\ OnSafeSide(last, {n})
  BY <1>1
<1>7. ASSUME NEW i \in S, NEW v \in V, NEW J, OnSafeSide(v, J)
      PROVE  /\ MergeTwo(front[i], v) \in V
             /\ OnSafeSide(MergeTwo(front[i], v), {i} \cup J)
  <2>1. front[i] \in V /\ OnSafeSide(front[i], {i})
    BY <1>1
  <2>2. QED
    BY <1>7, <2>1, SafeMerge
<1>8. \A i \in S, v \in V : MergeTwo(front[i], v) \in V
  <2>1. SUFFICES ASSUME NEW i \in S, NEW v \in V PROVE MergeTwo(front[i], v) \in V
    OBVIOUS
  <2>2. CASE strategy = "intersect"
    <3>1. front[i] \in Populated /\ v \in Populated
      BY <1>1, <2>2 DEF Form
    <3>2. IntersectProfiles(front[i], v) \in Populated
      BY <3>1, IntersectionOfTwo
    <3>3. QED
      BY <2>2, <3>2, MergeTwoIs DEF Form
  <2>3. CASE strategy = "union"
    <3>1. front[i] \in Profile /\ v \in Profile
      BY <1>1, <2>3 DEF Form
    <3>2. UnionProfiles(front[i], v) \in Profile
      BY <3>1, UnionOfTwo
    <3>3. QED
      BY <2>3, <3>2, MergeTwoIs DEF Form
  <2>4. QED
    BY <2>2, <2>3
<1>9. op \in [S -> [V -> V]]
  <2> HIDE DEF V, S
  <2>1. QED
    BY <1>8
<1> HIDE DEF S, V
<1>10. \E g \in [SUBSET S -> V] : Unfolds(g, op, last, choose, S)
  <2> HIDE DEF op, choose
  <2>1. QED
    BY <1>3, <1>5, <1>6, <1>9, RecursionExists
<1>11. PICK h \in [SUBSET S -> V] : Unfolds(h, op, last, choose, S)
  BY <1>10
<1>12. Solves(h)
  <2>1. \A s \in (SUBSET S) \ {{}} :
          op[choose[s]][h[s \ {choose[s]}]] = MergeTwo(front[Min(s)], h[s \ {Min(s)}])
    BY <1>4, <1>11
  <2>2. h = [s \in SUBSET S |-> IF s = {} THEN last ELSE op[choose[s]][h[s \ {choose[s]}]]]
    BY <1>11 DEF Unfolds
  <2> HIDE DEF op, choose
  <2>3. QED
    BY <2>1, <2>2
<1>13. Solves(iter)
  BY <1>12, Zenon
<1> HIDE DEF iter, op, choose
<1>14. \A s \in SUBSET S : iter[s] \in V /\ OnSafeSide(iter[s], s \cup {n})
  <2> DEFINE Bad == {s \in SUBSET S : ~(iter[s] \in V /\ OnSafeSide(iter[s], s \cup {n}))}
  <2>1. SUFFICES ASSUME Bad # {} PROVE FALSE
    OBVIOUS
  <2>2. Bad \in SUBSET (SUBSET S)
    OBVIOUS
  <2>3. PICK t \in Bad : \A s \in Bad : Cardinality(t) <= Cardinality(s)
    <3> HIDE DEF Bad
    <3>1. QED
      BY <1>3, <2>1, <2>2, SmallestSubset
  <2>4. t \in SUBSET S /\ ~(iter[t] \in V /\ OnSafeSide(iter[t], t \cup {n}))
    OBVIOUS
  <2>5. t # {}
    <3>1. t = {} => iter[t] = last /\ t \cup {n} = {n}
      BY <1>13
    <3>2. QED
      BY <1>6, <2>4, <3>1
  <2> DEFINE x == Min(t)
             rest == t \ {x}
  <2>6. x \in t /\ iter[t] = MergeTwo(front[x], iter[rest])
    BY <1>4, <1>13, <2>4, <2>5
  <2> HIDE DEF x, Bad
  <2>7. rest \in SUBSET S /\ Cardinality(t) \in Nat /\ Cardinality(rest) = Cardinality(t) - 1
    BY <1>3, <2>4, <2>6, RemoveOne
  <2>8. rest \notin Bad
    <3>1. ~(Cardinality(t) <= Cardinality(rest))
      BY <2>7
    <3>2. QED
      BY <2>3, <3>1
  <2>9. iter[rest] \in V /\ OnSafeSide(iter[rest], rest \cup {n})
    BY <2>7, <2>8 DEF Bad
  <2>10. /\ iter[t] \in V
         /\ OnSafeSide(iter[t], {x} \cup (rest \cup {n}))
    <3>1. x \in S
      BY <2>4, <2>6
    <3>2. /\ MergeTwo(front[x], iter[rest]) \in V
          /\ OnSafeSide(MergeTwo(front[x], iter[rest]), {x} \cup (rest \cup {n}))
      <4> HIDE DEF rest
      <4>1. QED
        BY <1>7, <2>9, <3>1
    <3>3. QED
      BY <2>6, <3>2
  <2>11. {x} \cup (rest \cup {n}) = t \cup {n}
    BY <2>6
  <2>12. QED
    BY <2>4, <2>10, <2>11
<1>15. S \in SUBSET S /\ S \cup {n} = 1..n
  BY DEF S
<1>16. QED
  BY <1>2, <1>14, <1>15 DEF front, last

LEMMA MergeSafe == MergeInv => EveryGroupingIsSafe
<1> SUFFICES ASSUME MergeInv PROVE EveryGroupingIsSafe
  OBVIOUS
<1>1. folded > 0 => OnSafeSide(result, 1..folded)
  BY DEF MergeInv, FoldInv
<1>2. ASSUME pc = "done", arity > 2
      PROVE  OnSafeSide(FoldRight(MergeTwo, Front(normalized), Last(normalized)), 1..arity)
  <2>1. /\ arity \in Nat /\ arity > 1 /\ strategy \in {"intersect", "union"}
        /\ normalized \in Seq(Profile) /\ Len(normalized) = arity
        /\ \A i \in 1..arity : normalized[i] \in Form(strategy)
                               /\ AnswersAlike(normalized[i], args[i])
    BY <1>2, CallsAssumption DEF MergeInv, CallInv, NormalizedInv
  <2>2. \A i \in 1..arity : OnSafeSide(normalized[i], {i})
    BY <2>1, SafeAlone
  <2>3. QED
    BY <2>1, <2>2, RightFoldIsSafe
<1>3. QED
  BY <1>1, <1>2 DEF EveryGroupingIsSafe

\* At every step of the fold, and grouped from the right as well, an
\* intersection permits only what all the inputs merged so far permit as their
\* authors wrote them, and a union exactly what one of them does: for any
\* paths and patterns, whatever they match, any number of profiles and any
\* pairwise budget.
THEOREM GroupingIsSafe == Spec => []EveryGroupingIsSafe
<1>1. Init => MergeInv
  BY MergeInit
<1>2. MergeInv /\ [Next]_vars => MergeInv'
  BY MergeStep
<1>3. MergeInv => EveryGroupingIsSafe
  BY MergeSafe
<1>4. QED
  BY <1>1, <1>2, <1>3, PTL DEF Spec

-----------------------------------------------------------------------------
(* The lists of a profile, one by one *)

ExecSlots == {"exe", "lib"}
FsSlots == {"ro", "wo", "rw"}
Slots == ExecSlots \cup FsSlots

\* A list of a profile; what is omitted lists nothing.
ListAt(profile, slot) ==
  IF slot \in ExecSlots
  THEN IF profile.exec = Nil THEN {} ELSE profile.exec[slot]
  ELSE IF profile.fs = Nil THEN {} ELSE profile.fs[slot]

CapsOf(profile) == IF profile.caps = Nil THEN {} ELSE profile.caps
UpperCaps(caps) == {Upper[cap] : cap \in caps}

\* What a network section says once nothing of it is omitted.
ExplicitNet(section) ==
  LET net == IF section = Nil THEN [raw |-> Nil, protocols |-> Nil] ELSE section
      protocols == IF net.protocols = Nil THEN [tcp |-> Nil, udp |-> Nil] ELSE net.protocols
  IN [raw |-> OrFalse(net.raw),
      protocols |-> [tcp |-> OrFalse(protocols.tcp), udp |-> OrFalse(protocols.udp)]]

LEMMA ListAtIs ==
  ASSUME NEW profile
  PROVE  /\ ListAt(profile, "exe") = IF profile.exec = Nil THEN {} ELSE profile.exec.exe
         /\ ListAt(profile, "lib") = IF profile.exec = Nil THEN {} ELSE profile.exec.lib
         /\ ListAt(profile, "ro") = IF profile.fs = Nil THEN {} ELSE profile.fs.ro
         /\ ListAt(profile, "wo") = IF profile.fs = Nil THEN {} ELSE profile.fs.wo
         /\ ListAt(profile, "rw") = IF profile.fs = Nil THEN {} ELSE profile.fs.rw
  BY DEF ListAt, ExecSlots

LEMMA SlotsAre ==
  ASSUME NEW slot \in Slots
  PROVE  slot \in {"exe", "lib", "ro", "wo", "rw"}
  BY DEF Slots, ExecSlots, FsSlots

LEMMA ListAtType ==
  ASSUME NEW profile \in Profile
  PROVE  /\ \A slot \in Slots : ListAt(profile, slot) \in SUBSET Path
         /\ PathsOf(profile) \in SUBSET Path
         /\ CapsOf(profile) \in SUBSET Capability
<1>1. \A slot \in Slots : ListAt(profile, slot) \in SUBSET Path
  <2>1. SUFFICES ASSUME NEW slot \in Slots PROVE ListAt(profile, slot) \subseteq Path
    OBVIOUS
  <2> QED
    BY SlotsAre, ListAtIs, ListsOfProfile
<1>2. PathsOf(profile) \in SUBSET Path
  BY ListsOfProfile DEF PathsOf, PathListsOf
<1>3. CapsOf(profile) \in SUBSET Capability
  BY ProfileFields DEF CapsOf
<1> QED
  BY <1>1, <1>2, <1>3

LEMMA PathsByList ==
  ASSUME NEW profile, NEW p
  PROVE  p \in PathsOf(profile) <=> \E slot \in Slots : p \in ListAt(profile, slot)
<1>1. p \in PathsOf(profile) <=>
        \/ p \in ListAt(profile, "exe") \/ p \in ListAt(profile, "lib")
        \/ p \in ListAt(profile, "ro") \/ p \in ListAt(profile, "wo") \/ p \in ListAt(profile, "rw")
  <2>1. CASE profile.exec = Nil /\ profile.fs = Nil
    BY <2>1, ListAtIs DEF PathsOf, PathListsOf
  <2>2. CASE profile.exec # Nil /\ profile.fs = Nil
    BY <2>2, ListAtIs DEF PathsOf, PathListsOf
  <2>3. CASE profile.exec = Nil /\ profile.fs # Nil
    BY <2>3, ListAtIs DEF PathsOf, PathListsOf
  <2>4. CASE profile.exec # Nil /\ profile.fs # Nil
    BY <2>4, ListAtIs DEF PathsOf, PathListsOf
  <2> QED
    BY <2>1, <2>2, <2>3, <2>4
<1> QED
  BY <1>1 DEF Slots, ExecSlots, FsSlots

\* A profile and another that has the lists given in place of its own.
Relisted(profile, other, lists) ==
  /\ \A slot \in Slots : ListAt(other, slot) = lists[slot]
  /\ other.exec = Nil <=> profile.exec = Nil
  /\ other.fs = Nil <=> profile.fs = Nil
  /\ other.net = profile.net
  /\ other.caps = profile.caps

LEMMA WithListsRelisted ==
  ASSUME NEW profile \in Profile, NEW exe, NEW lib, NEW ro, NEW wo, NEW rw, NEW lists,
         profile.exec # Nil => /\ exe \subseteq Path /\ lib \subseteq Path
                               /\ lists["exe"] = exe /\ lists["lib"] = lib,
         profile.exec = Nil => lists["exe"] = {} /\ lists["lib"] = {},
         profile.fs # Nil => /\ ro \subseteq Path /\ wo \subseteq Path /\ rw \subseteq Path
                             /\ lists["ro"] = ro /\ lists["wo"] = wo /\ lists["rw"] = rw,
         profile.fs = Nil => lists["ro"] = {} /\ lists["wo"] = {} /\ lists["rw"] = {}
  PROVE  Relisted(profile, WithLists(profile, exe, lib, ro, wo, rw), lists)
<1> DEFINE other == WithLists(profile, exe, lib, ro, wo, rw)
<1>1. /\ other.exec = IF profile.exec = Nil THEN Nil ELSE [exe |-> exe, lib |-> lib]
      /\ other.fs = IF profile.fs = Nil THEN Nil ELSE [ro |-> ro, wo |-> wo, rw |-> rw]
      /\ other.net = profile.net /\ other.caps = profile.caps
  BY DEF WithLists, Profile
<1>2. /\ profile.exec # Nil => [exe |-> exe, lib |-> lib] \in PathLists
      /\ profile.fs # Nil => [ro |-> ro, wo |-> wo, rw |-> rw] \in FsLists
  BY DEF PathLists, FsLists
<1> HIDE DEF other
<1>3. /\ other.exec = Nil <=> profile.exec = Nil
      /\ other.fs = Nil <=> profile.fs = Nil
  BY <1>1, <1>2, NilFacts
<1>4. /\ profile.exec # Nil => other.exec.exe = exe /\ other.exec.lib = lib
      /\ profile.fs # Nil => other.fs.ro = ro /\ other.fs.wo = wo /\ other.fs.rw = rw
  BY <1>1
<1>5. ASSUME NEW slot \in Slots PROVE ListAt(other, slot) = lists[slot]
  <2>1. CASE slot = "exe"
    BY <1>3, <1>4, <2>1, ListAtIs
  <2>2. CASE slot = "lib"
    BY <1>3, <1>4, <2>2, ListAtIs
  <2>3. CASE slot = "ro"
    BY <1>3, <1>4, <2>3, ListAtIs
  <2>4. CASE slot = "wo"
    BY <1>3, <1>4, <2>4, ListAtIs
  <2>5. CASE slot = "rw"
    BY <1>3, <1>4, <2>5, ListAtIs
  <2> QED
    BY <2>1, <2>2, <2>3, <2>4, <2>5, SlotsAre
<1>6. Relisted(profile, other, lists)
  BY <1>1, <1>3, <1>5 DEF Relisted
<1> QED
  BY <1>6 DEF other

LEMMA FilteredRelisted ==
  ASSUME NEW profile \in Profile
  PROVE  Relisted(profile, FilteredLists(profile),
                  [slot \in Slots |-> FilteredPaths(ListAt(profile, slot))])
<1> DEFINE lists == [slot \in Slots |-> FilteredPaths(ListAt(profile, slot))]
<1>1. FilteredLists(profile)
        = WithLists(profile, FilteredPaths(profile.exec.exe), FilteredPaths(profile.exec.lib),
                    FilteredPaths(profile.fs.ro), FilteredPaths(profile.fs.wo),
                    FilteredPaths(profile.fs.rw))
  BY DEF FilteredLists, MapPathLists, WithLists, FilteredPaths
<1>2. FilteredPaths({}) = {} /\ \A paths \in SUBSET Path : FilteredPaths(paths) \subseteq Path
  BY MatcherFacts DEF FilteredPaths
<1>3. /\ lists["exe"] = FilteredPaths(ListAt(profile, "exe"))
      /\ lists["lib"] = FilteredPaths(ListAt(profile, "lib"))
      /\ lists["ro"] = FilteredPaths(ListAt(profile, "ro"))
      /\ lists["wo"] = FilteredPaths(ListAt(profile, "wo"))
      /\ lists["rw"] = FilteredPaths(ListAt(profile, "rw"))
  BY DEF Slots, ExecSlots, FsSlots
<1> HIDE DEF lists
<1>4. /\ profile.exec = Nil => lists["exe"] = {} /\ lists["lib"] = {}
      /\ profile.exec # Nil => /\ lists["exe"] = FilteredPaths(profile.exec.exe)
                               /\ lists["lib"] = FilteredPaths(profile.exec.lib)
      /\ profile.fs = Nil => lists["ro"] = {} /\ lists["wo"] = {} /\ lists["rw"] = {}
      /\ profile.fs # Nil => /\ lists["ro"] = FilteredPaths(profile.fs.ro)
                             /\ lists["wo"] = FilteredPaths(profile.fs.wo)
                             /\ lists["rw"] = FilteredPaths(profile.fs.rw)
  BY <1>2, <1>3, ListAtIs
<1>5. Relisted(profile, FilteredLists(profile), lists)
  BY <1>1, <1>2, <1>4, ListsOfProfile, WithListsRelisted
<1> QED
  BY <1>5 DEF lists

LEMMA FoldedRelisted ==
  ASSUME NEW profile \in Profile
  PROVE  Relisted(profile, MapPathLists(profile, FoldAliasList),
                  [slot \in Slots |-> FoldAliasList(ListAt(profile, slot))])
<1> DEFINE lists == [slot \in Slots |-> FoldAliasList(ListAt(profile, slot))]
<1>1. MapPathLists(profile, FoldAliasList)
        = WithLists(profile, FoldAliasList(profile.exec.exe), FoldAliasList(profile.exec.lib),
                    FoldAliasList(profile.fs.ro), FoldAliasList(profile.fs.wo),
                    FoldAliasList(profile.fs.rw))
  BY DEF MapPathLists, WithLists
<1>2. FoldAliasList({}) = {} /\ \A paths \in SUBSET Path : FoldAliasList(paths) \subseteq Path
  <2>1. \A paths \in SUBSET Path : FoldAliasList(paths) \subseteq paths
    BY SimplestSpelling DEF FoldAliasList
  <2> QED
    BY <2>1 DEF FoldAliasList
<1>3. /\ lists["exe"] = FoldAliasList(ListAt(profile, "exe"))
      /\ lists["lib"] = FoldAliasList(ListAt(profile, "lib"))
      /\ lists["ro"] = FoldAliasList(ListAt(profile, "ro"))
      /\ lists["wo"] = FoldAliasList(ListAt(profile, "wo"))
      /\ lists["rw"] = FoldAliasList(ListAt(profile, "rw"))
  BY DEF Slots, ExecSlots, FsSlots
<1> HIDE DEF lists
<1>4. /\ profile.exec = Nil => lists["exe"] = {} /\ lists["lib"] = {}
      /\ profile.exec # Nil => /\ lists["exe"] = FoldAliasList(profile.exec.exe)
                               /\ lists["lib"] = FoldAliasList(profile.exec.lib)
      /\ profile.fs = Nil => lists["ro"] = {} /\ lists["wo"] = {} /\ lists["rw"] = {}
      /\ profile.fs # Nil => /\ lists["ro"] = FoldAliasList(profile.fs.ro)
                             /\ lists["wo"] = FoldAliasList(profile.fs.wo)
                             /\ lists["rw"] = FoldAliasList(profile.fs.rw)
  BY <1>2, <1>3, ListAtIs
<1>5. Relisted(profile, MapPathLists(profile, FoldAliasList), lists)
  BY <1>1, <1>2, <1>4, ListsOfProfile, WithListsRelisted
<1> QED
  BY <1>5 DEF lists

LEMMA UnifiedRelisted ==
  ASSUME NEW profile \in Profile, NEW all \in SUBSET Path, PathsOf(profile) \subseteq all
  PROVE  Relisted(profile,
                  MapPathLists(profile, LAMBDA paths : {Simplest(p, all) : p \in paths}),
                  [slot \in Slots |-> SimplestPaths(ListAt(profile, slot), all)])
<1> DEFINE lists == [slot \in Slots |-> SimplestPaths(ListAt(profile, slot), all)]
           other == MapPathLists(profile, LAMBDA paths : {Simplest(p, all) : p \in paths})
<1>1. other
        = WithLists(profile, SimplestPaths(profile.exec.exe, all),
                    SimplestPaths(profile.exec.lib, all), SimplestPaths(profile.fs.ro, all),
                    SimplestPaths(profile.fs.wo, all), SimplestPaths(profile.fs.rw, all))
  BY DEF MapPathLists, WithLists, SimplestPaths
<1>2. /\ SimplestPaths({}, all) = {}
      /\ \A paths \in SUBSET all : SimplestPaths(paths, all) \subseteq Path
  BY SimplestSpelling DEF SimplestPaths
<1>3. /\ lists["exe"] = SimplestPaths(ListAt(profile, "exe"), all)
      /\ lists["lib"] = SimplestPaths(ListAt(profile, "lib"), all)
      /\ lists["ro"] = SimplestPaths(ListAt(profile, "ro"), all)
      /\ lists["wo"] = SimplestPaths(ListAt(profile, "wo"), all)
      /\ lists["rw"] = SimplestPaths(ListAt(profile, "rw"), all)
  BY DEF Slots, ExecSlots, FsSlots
<1>4. /\ profile.exec # Nil => profile.exec.exe \subseteq all /\ profile.exec.lib \subseteq all
      /\ profile.fs # Nil => /\ profile.fs.ro \subseteq all /\ profile.fs.wo \subseteq all
                             /\ profile.fs.rw \subseteq all
  BY DEF PathsOf, PathListsOf
<1> HIDE DEF lists, other
<1>5. /\ profile.exec = Nil => lists["exe"] = {} /\ lists["lib"] = {}
      /\ profile.exec # Nil => /\ lists["exe"] = SimplestPaths(profile.exec.exe, all)
                               /\ lists["lib"] = SimplestPaths(profile.exec.lib, all)
      /\ profile.fs = Nil => lists["ro"] = {} /\ lists["wo"] = {} /\ lists["rw"] = {}
      /\ profile.fs # Nil => /\ lists["ro"] = SimplestPaths(profile.fs.ro, all)
                             /\ lists["wo"] = SimplestPaths(profile.fs.wo, all)
                             /\ lists["rw"] = SimplestPaths(profile.fs.rw, all)
  BY <1>2, <1>3, ListAtIs
<1>6. Relisted(profile, other, lists)
  BY <1>1, <1>2, <1>4, <1>5, WithListsRelisted
<1> QED
  BY <1>6 DEF lists, other

LEMMA UsableRelisted ==
  ASSUME NEW profile \in Profile
  PROVE  Relisted(profile, MapPathLists(profile, DropUnusableGlobs),
                  [slot \in Slots |-> DropUnusableGlobs(ListAt(profile, slot))])
<1> DEFINE lists == [slot \in Slots |-> DropUnusableGlobs(ListAt(profile, slot))]
<1>1. MapPathLists(profile, DropUnusableGlobs)
        = WithLists(profile, DropUnusableGlobs(profile.exec.exe),
                    DropUnusableGlobs(profile.exec.lib), DropUnusableGlobs(profile.fs.ro),
                    DropUnusableGlobs(profile.fs.wo), DropUnusableGlobs(profile.fs.rw))
  BY DEF MapPathLists, WithLists
<1>2. /\ DropUnusableGlobs({}) = {}
      /\ \A paths \in SUBSET Path : DropUnusableGlobs(paths) \subseteq Path
  BY DEF DropUnusableGlobs
<1>3. /\ lists["exe"] = DropUnusableGlobs(ListAt(profile, "exe"))
      /\ lists["lib"] = DropUnusableGlobs(ListAt(profile, "lib"))
      /\ lists["ro"] = DropUnusableGlobs(ListAt(profile, "ro"))
      /\ lists["wo"] = DropUnusableGlobs(ListAt(profile, "wo"))
      /\ lists["rw"] = DropUnusableGlobs(ListAt(profile, "rw"))
  BY DEF Slots, ExecSlots, FsSlots
<1> HIDE DEF lists
<1>4. /\ profile.exec = Nil => lists["exe"] = {} /\ lists["lib"] = {}
      /\ profile.exec # Nil => /\ lists["exe"] = DropUnusableGlobs(profile.exec.exe)
                               /\ lists["lib"] = DropUnusableGlobs(profile.exec.lib)
      /\ profile.fs = Nil => lists["ro"] = {} /\ lists["wo"] = {} /\ lists["rw"] = {}
      /\ profile.fs # Nil => /\ lists["ro"] = DropUnusableGlobs(profile.fs.ro)
                             /\ lists["wo"] = DropUnusableGlobs(profile.fs.wo)
                             /\ lists["rw"] = DropUnusableGlobs(profile.fs.rw)
  BY <1>2, <1>3, ListAtIs
<1>5. Relisted(profile, MapPathLists(profile, DropUnusableGlobs), lists)
  BY <1>1, <1>2, <1>4, ListsOfProfile, WithListsRelisted
<1> QED
  BY <1>5 DEF lists

\* The lists of a canonical copy.
LEMMA CanonicalAt ==
  ASSUME NEW profile \in Profile
  PROVE  LET canonical == Canonical(profile) IN
         /\ canonical \in Profile
         /\ \A slot \in Slots :
              ListAt(canonical, slot) = FoldAliasList(FilteredPaths(ListAt(profile, slot)))
         /\ canonical.fs = Nil <=> profile.fs = Nil
         /\ canonical.net = profile.net
         /\ CapsOf(canonical) = UpperCaps(CapsOf(profile))
<1> DEFINE filtered == FilteredLists(profile)
           folds == MapPathLists(filtered, FoldAliasList)
           caps == IF folds.caps = Nil THEN Nil ELSE UpperCaps(folds.caps)
           canonical == Canonical(profile)
<1>1. canonical = [folds EXCEPT !.caps = caps] /\ canonical \in Profile
  BY CanonicalAnswers DEF Canonical, FilteredLists, UpperCaps
<1>2. Relisted(profile, filtered, [slot \in Slots |-> FilteredPaths(ListAt(profile, slot))])
  BY FilteredRelisted
<1>3. filtered \in Profile
  BY FilteredProfile DEF FilteredLists, Respelled
<1> HIDE DEF filtered
<1>4. Relisted(filtered, folds, [slot \in Slots |-> FoldAliasList(ListAt(filtered, slot))])
  BY <1>3, FoldedRelisted
<1>5. folds \in Profile
  BY <1>3, FoldedProfile DEF Respelled
<1> HIDE DEF folds
<1>6. /\ canonical.exec = folds.exec /\ canonical.fs = folds.fs /\ canonical.net = folds.net
      /\ canonical.caps = caps
  BY <1>1, <1>5 DEF Profile
<1>7. /\ folds.caps = profile.caps /\ folds.net = profile.net
      /\ folds.fs = Nil <=> profile.fs = Nil
  BY <1>2, <1>4 DEF Relisted
<1>8. CapsOf(canonical) = UpperCaps(CapsOf(profile))
  <2>1. UpperCaps({}) = {}
    BY DEF UpperCaps
  <2>2. profile.caps # Nil => UpperCaps(profile.caps) # Nil
    <3>1. profile.caps # Nil => UpperCaps(profile.caps) \in SUBSET Capability
      BY ProfileFields, UpperAnswers DEF UpperCaps
    <3> QED
      BY <3>1, NilFacts
  <2> QED
    BY <1>6, <1>7, <2>1, <2>2 DEF CapsOf
<1> HIDE DEF canonical, caps
<1>9. ASSUME NEW slot \in Slots
      PROVE  ListAt(canonical, slot) = FoldAliasList(FilteredPaths(ListAt(profile, slot)))
  <2>1. ListAt(canonical, slot) = ListAt(folds, slot)
    BY <1>6 DEF ListAt
  <2> QED
    BY <1>2, <1>4, <2>1 DEF Relisted
<1>10. /\ canonical.fs = Nil <=> profile.fs = Nil
       /\ canonical.net = profile.net
  BY <1>6, <1>7
<1> QED
  BY <1>1, <1>8, <1>9, <1>10 DEF canonical

\* The lists of a profile whose empty sections are filled in.
LEMMA PopulatedAt ==
  ASSUME NEW profile \in Profile
  PROVE  LET full == PopulateEmpty(profile) IN
         /\ full \in Populated
         /\ \A slot \in Slots : ListAt(full, slot) = ListAt(profile, slot)
         /\ CapsOf(full) = CapsOf(profile)
         /\ full.caps = CapsOf(profile)
         /\ full.net = ExplicitNet(profile.net)
<1> DEFINE full == PopulateEmpty(profile)
<1>1. full \in Populated
  BY PopulateEmptyAnswers
<1>2. /\ full.exec = IF profile.exec = Nil THEN [exe |-> {}, lib |-> {}] ELSE profile.exec
      /\ full.fs = IF profile.fs = Nil THEN [ro |-> {}, wo |-> {}, rw |-> {}] ELSE profile.fs
      /\ full.net = ExplicitNet(profile.net)
      /\ full.caps = CapsOf(profile)
  BY DEF PopulateEmpty, ExplicitNet, CapsOf
<1> HIDE DEF full
<1>3. full.exec # Nil /\ full.fs # Nil /\ full.caps # Nil
  BY <1>1, PopulatedFacts
<1>4. /\ profile.exec = Nil => full.exec.exe = {} /\ full.exec.lib = {}
      /\ profile.fs = Nil => full.fs.ro = {} /\ full.fs.wo = {} /\ full.fs.rw = {}
  BY <1>2
<1>5. ASSUME NEW slot \in Slots PROVE ListAt(full, slot) = ListAt(profile, slot)
  <2>1. CASE slot \in {"exe", "lib"}
    BY <1>2, <1>3, <1>4, <2>1, ListAtIs
  <2>2. CASE slot \in {"ro", "wo", "rw"}
    BY <1>2, <1>3, <1>4, <2>2, ListAtIs
  <2> QED
    BY <2>1, <2>2, SlotsAre
<1>6. CapsOf(full) = CapsOf(profile)
  BY <1>2, <1>3 DEF CapsOf
<1> QED
  BY <1>1, <1>2, <1>5, <1>6 DEF full

LEMMA PreparedAt ==
  ASSUME NEW profile \in Profile
  PROVE  LET prepared == PrepareIntersect(profile) IN
         /\ prepared \in Populated
         /\ \A slot \in Slots : ListAt(prepared, slot) = DropUnusableGlobs(ListAt(profile, slot))
         /\ CapsOf(prepared) = CapsOf(profile)
         /\ prepared.net = ExplicitNet(profile.net)
<1> DEFINE full == PopulateEmpty(profile)
           prepared == MapPathLists(full, DropUnusableGlobs)
<1>1. prepared = PrepareIntersect(profile)
  BY DEF PrepareIntersect
<1>2. /\ full \in Populated /\ full \in Profile
      /\ \A slot \in Slots : ListAt(full, slot) = ListAt(profile, slot)
      /\ CapsOf(full) = CapsOf(profile)
      /\ full.net = ExplicitNet(profile.net)
  BY PopulatedAt, PopulatedFacts
<1> HIDE DEF full
<1>3. Relisted(full, prepared, [slot \in Slots |-> DropUnusableGlobs(ListAt(full, slot))])
  BY <1>2, UsableRelisted
<1> HIDE DEF prepared
<1>4. CapsOf(prepared) = CapsOf(full) /\ prepared.net = full.net
  BY <1>3 DEF Relisted, CapsOf
<1>5. \A slot \in Slots : ListAt(prepared, slot) = DropUnusableGlobs(ListAt(profile, slot))
  BY <1>2, <1>3 DEF Relisted
<1>6. prepared \in Populated
  BY <1>1, PreparedAnswers
<1> QED
  BY <1>1, <1>2, <1>4, <1>5, <1>6

\* A boolean that is there is left as it is, and so are the sections.
LEMMA ExplicitOnce ==
  ASSUME NEW section \in Network \cup {Nil}
  PROVE  /\ ExplicitNet(section) \in [raw : BOOLEAN, protocols : [tcp : BOOLEAN, udp : BOOLEAN]]
         /\ ExplicitNet(ExplicitNet(section)) = ExplicitNet(section)
<1> DEFINE net == IF section = Nil THEN [raw |-> Nil, protocols |-> Nil] ELSE section
           protocols == IF net.protocols = Nil THEN [tcp |-> Nil, udp |-> Nil]
                        ELSE net.protocols
           explicit == [raw |-> OrFalse(net.raw),
                        protocols |-> [tcp |-> OrFalse(protocols.tcp),
                                       udp |-> OrFalse(protocols.udp)]]
<1>1. ExplicitNet(section) = explicit
  BY DEF ExplicitNet
<1>2. net.raw \in Bool /\ net.protocols \in Protocols \cup {Nil}
  <2>1. CASE section = Nil
    BY <2>1 DEF Bool
  <2>2. CASE section # Nil
    BY <2>2 DEF Network
  <2> QED
    BY <2>1, <2>2
<1> HIDE DEF net
<1>3. protocols.tcp \in Bool /\ protocols.udp \in Bool
  <2>1. CASE net.protocols = Nil
    BY <2>1 DEF Bool
  <2>2. CASE net.protocols # Nil
    BY <1>2, <2>2 DEF Protocols
  <2> QED
    BY <2>1, <2>2
<1> HIDE DEF protocols
<1>4. \A b \in Bool : OrFalse(b) \in BOOLEAN
  BY DEF OrFalse, Bool
<1>5. explicit \in [raw : BOOLEAN, protocols : [tcp : BOOLEAN, udp : BOOLEAN]]
  BY <1>2, <1>3, <1>4
<1>6. explicit.protocols \in Protocols /\ explicit \in Network
  BY <1>2, <1>3, <1>4 DEF Protocols, Network, Bool
<1>7. explicit # Nil /\ explicit.protocols # Nil
  BY <1>6, NilFacts
<1>8. /\ explicit.raw \in BOOLEAN /\ explicit.protocols.tcp \in BOOLEAN
      /\ explicit.protocols.udp \in BOOLEAN
      /\ explicit = [raw |-> explicit.raw,
                     protocols |-> [tcp |-> explicit.protocols.tcp,
                                    udp |-> explicit.protocols.udp]]
  BY <1>2, <1>3, <1>4
<1> HIDE DEF explicit
<1>9. \A b \in BOOLEAN : OrFalse(b) = b
  BY NilFacts DEF OrFalse
<1>10. ExplicitNet(explicit) = explicit
  BY <1>7, <1>8, <1>9 DEF ExplicitNet
<1> QED
  BY <1>1, <1>5, <1>10

\* A profile of which nothing is omitted is known by its lists.
LEMMA PopulatedByList ==
  ASSUME NEW left \in Populated, NEW right \in Populated,
         \A slot \in Slots : ListAt(left, slot) = ListAt(right, slot),
         left.net = right.net, CapsOf(left) = CapsOf(right)
  PROVE  left = right
<1>1. /\ left.exec # Nil /\ left.fs # Nil /\ left.caps # Nil
      /\ right.exec # Nil /\ right.fs # Nil /\ right.caps # Nil
  BY PopulatedFacts
<1>2. /\ left.exec.exe = right.exec.exe /\ left.exec.lib = right.exec.lib
      /\ left.fs.ro = right.fs.ro /\ left.fs.wo = right.fs.wo /\ left.fs.rw = right.fs.rw
  BY <1>1, ListAtIs DEF Slots, ExecSlots, FsSlots
<1>3. left.caps = right.caps
  BY <1>1 DEF CapsOf
<1>4. /\ left.exec \in PathLists /\ right.exec \in PathLists
      /\ left.fs \in FsLists /\ right.fs \in FsLists
  BY DEF Populated
<1>5. left.exec = right.exec
  BY <1>2, <1>4 DEF PathLists
<1>6. left.fs = right.fs
  BY <1>2, <1>4 DEF FsLists
<1> QED
  BY <1>3, <1>5, <1>6 DEF Populated

\* What validation finds in the lists of a profile.
LEMMA ValidByList ==
  ASSUME NEW profile
  PROVE  ValidProfile(profile) <=>
           /\ PathsOf(profile) \cap Variables = {}
           /\ KeysOf(ListAt(profile, "ro")) \cap KeysOf(ListAt(profile, "wo")) = {}
           /\ KeysOf(ListAt(profile, "ro")) \cap KeysOf(ListAt(profile, "rw")) = {}
           /\ KeysOf(ListAt(profile, "wo")) \cap KeysOf(ListAt(profile, "rw")) = {}
           /\ EmptyCapability \notin CapsOf(profile)
<1>1. KeysOf({}) = {} /\ \A a, b : KeysOf(a \cup b) = KeysOf(a) \cup KeysOf(b)
  BY DEF KeysOf
<1>2. EmptyCapability \notin CapsOf(profile) <=>
        (profile.caps # Nil => EmptyCapability \notin profile.caps)
  BY DEF CapsOf
<1>3. CASE profile.fs = Nil
  BY <1>1, <1>2, <1>3, ListAtIs DEF ValidProfile
<1>4. CASE profile.fs # Nil
  <2>1. /\ ListAt(profile, "ro") = profile.fs.ro /\ ListAt(profile, "wo") = profile.fs.wo
        /\ ListAt(profile, "rw") = profile.fs.rw
    BY <1>4, ListAtIs
  <2>2. (KeysOf(profile.fs.ro \cup profile.fs.wo) \cap KeysOf(profile.fs.rw) = {}) <=>
          /\ KeysOf(profile.fs.ro) \cap KeysOf(profile.fs.rw) = {}
          /\ KeysOf(profile.fs.wo) \cap KeysOf(profile.fs.rw) = {}
    BY <1>1
  <2> QED
    BY <1>2, <1>4, <2>1, <2>2 DEF ValidProfile
<1> QED
  BY <1>3, <1>4

-----------------------------------------------------------------------------
(* The spellings of a rule *)

\* The simplest path, of those given, that spells a rule.
SimplestOfRule(rule, paths) ==
  CHOOSE q \in paths :
    Key[q] = rule /\ \A r \in paths : Key[r] = rule => Simpler(q, r)

\* The paths that are the simplest spelling of their own rule.
Spelled(all) == {p \in all : p = SimplestOfRule(Key[p], all)}

LEMMA SimplestByRule ==
  ASSUME NEW p, NEW paths
  PROVE  Simplest(p, paths) = SimplestOfRule(Key[p], paths)
  BY DEF Simplest, SimplestOfRule

LEMMA SpelledOnce ==
  ASSUME NEW all, NEW p \in Spelled(all), NEW q \in Spelled(all), Key[p] = Key[q]
  PROVE  p = q
  BY DEF Spelled

LEMMA SpelledFacts ==
  ASSUME NEW all \in SUBSET Path, NEW p \in all
  PROVE  /\ Simplest(p, all) \in Spelled(all)
         /\ Key[Simplest(p, all)] = Key[p]
<1>1. Simplest(p, all) \in all /\ Key[Simplest(p, all)] = Key[p]
  BY SimplestSpelling
<1>2. Simplest(p, all) = SimplestOfRule(Key[Simplest(p, all)], all)
  BY <1>1, SimplestByRule
<1> QED
  BY <1>1, <1>2 DEF Spelled

\* The simplest spellings of some of the rules.
SpelledRules(all, rules) == {p \in Spelled(all) : Key[p] \in rules}

LEMMA SimplestPathsAre ==
  ASSUME NEW all \in SUBSET Path, NEW paths \in SUBSET all
  PROVE  /\ SimplestPaths(paths, all) = SpelledRules(all, KeysOf(paths))
         /\ KeysOf(SpelledRules(all, KeysOf(paths))) = KeysOf(paths)
<1>1. ASSUME NEW p \in paths
      PROVE  /\ Simplest(p, all) \in SpelledRules(all, KeysOf(paths))
             /\ Key[Simplest(p, all)] = Key[p]
  <2>1. Simplest(p, all) \in Spelled(all) /\ Key[Simplest(p, all)] = Key[p]
    BY SpelledFacts
  <2> QED
    BY <2>1 DEF SpelledRules, KeysOf
<1>2. ASSUME NEW p \in SpelledRules(all, KeysOf(paths)) PROVE p \in SimplestPaths(paths, all)
  <2>1. p \in Spelled(all) /\ Key[p] \in KeysOf(paths)
    BY DEF SpelledRules
  <2>2. PICK q \in paths : Key[q] = Key[p]
    BY <2>1 DEF KeysOf
  <2>3. Simplest(q, all) \in Spelled(all) /\ Key[Simplest(q, all)] = Key[p]
    BY <2>2, SpelledFacts
  <2>4. Simplest(q, all) = p
    BY <2>1, <2>3, SpelledOnce
  <2> QED
    BY <2>2, <2>4 DEF SimplestPaths
<1>3. SimplestPaths(paths, all) = SpelledRules(all, KeysOf(paths))
  BY <1>1, <1>2 DEF SimplestPaths
<1>4. KeysOf(SpelledRules(all, KeysOf(paths))) = KeysOf(paths)
  <2>1. \A rule \in KeysOf(paths) : rule \in KeysOf(SpelledRules(all, KeysOf(paths)))
    <3>1. SUFFICES ASSUME NEW rule \in KeysOf(paths)
                   PROVE  rule \in KeysOf(SpelledRules(all, KeysOf(paths)))
      OBVIOUS
    <3>2. PICK p \in paths : Key[p] = rule
      BY DEF KeysOf
    <3>3. Simplest(p, all) \in SpelledRules(all, KeysOf(paths)) /\ Key[Simplest(p, all)] = rule
      BY <1>1, <3>2
    <3> QED
      BY <3>3 DEF KeysOf
  <2>2. \A rule \in KeysOf(SpelledRules(all, KeysOf(paths))) : rule \in KeysOf(paths)
    BY DEF SpelledRules, KeysOf
  <2> QED
    BY <2>1, <2>2
<1> QED
  BY <1>3, <1>4

LEMMA FoldedAliases ==
  ASSUME NEW paths \in SUBSET Path
  PROVE  /\ FoldAliasList(paths) \subseteq paths
         /\ KeysOf(FoldAliasList(paths)) = KeysOf(paths)
<1>1. FoldAliasList(paths) = SpelledRules(paths, KeysOf(paths))
  BY SimplestPathsAre DEF FoldAliasList, SimplestPaths
<1>2. KeysOf(FoldAliasList(paths)) = KeysOf(paths)
  BY <1>1, SimplestPathsAre
<1>3. FoldAliasList(paths) \subseteq paths
  BY <1>1 DEF SpelledRules, Spelled
<1> QED
  BY <1>2, <1>3

\* The rules an input has in a list, however it spells them.
RulesAt(profile, slot) == KeysOf(FilteredPaths(ListAt(profile, slot)))

LEMMA FilteredPathsFacts ==
  ASSUME NEW paths \in SUBSET Path
  PROVE  /\ FilteredPaths(paths) \in SUBSET Path
         /\ \A p \in FilteredPaths(paths) : Filtered[p] = p
  BY PathAssumption DEF FilteredPaths

\* A canonical list has the rules of the input's, in paths that the filter
\* leaves as they are.
LEMMA CanonicalRules ==
  ASSUME NEW profile \in Profile, NEW slot \in Slots
  PROVE  LET paths == ListAt(Canonical(profile), slot) IN
         /\ paths \in SUBSET Path
         /\ KeysOf(paths) = RulesAt(profile, slot)
         /\ paths \subseteq FilteredPaths(ListAt(profile, slot))
         /\ \A p \in paths : Filtered[p] = p
<1> DEFINE filtered == FilteredPaths(ListAt(profile, slot))
<1>1. filtered \in SUBSET Path /\ \A p \in filtered : Filtered[p] = p
  BY ListAtType, FilteredPathsFacts
<1>2. ListAt(Canonical(profile), slot) = FoldAliasList(filtered)
  BY CanonicalAt
<1> HIDE DEF filtered
<1>3. /\ FoldAliasList(filtered) \subseteq filtered
      /\ KeysOf(FoldAliasList(filtered)) = KeysOf(filtered)
  BY <1>1, FoldedAliases
<1> QED
  BY <1>1, <1>2, <1>3 DEF filtered, RulesAt

\* The paths of a canonical copy are filtered paths of the input.
LEMMA CanonicalPaths ==
  ASSUME NEW profile \in Profile, NEW p \in PathsOf(Canonical(profile))
  PROVE  /\ p \in Path /\ Filtered[p] = p
         /\ \E q \in PathsOf(profile) : q \in Path /\ p = Filtered[q]
<1>1. PICK slot \in Slots : p \in ListAt(Canonical(profile), slot)
  BY PathsByList
<1>2. /\ p \in FilteredPaths(ListAt(profile, slot)) /\ Filtered[p] = p
      /\ p \in Path
  BY <1>1, CanonicalRules
<1>3. PICK q \in ListAt(profile, slot) : p = Filtered[q]
  BY <1>2 DEF FilteredPaths
<1>4. q \in PathsOf(profile) /\ q \in Path
  BY PathsByList, ListAtType
<1> QED
  BY <1>2, <1>3, <1>4

-----------------------------------------------------------------------------
(* What a merge lists *)

\* The paths of a merge are listed by one of the two sides.
LEMMA MergedPermsListed ==
  ASSUME NEW left \in Perms, NEW right \in Perms, NEW intersect \in BOOLEAN, NEW p \in Path,
         left[p] = {}, right[p] = {}
  PROVE  MergePerms(left, right, intersect)[p] = {}
<1>1. ASSUME NEW exceeds PROVE UnionPerms(left, right, exceeds)[p] = {}
  BY DEF UnionPerms, UnionLiteral
<1>2. ASSUME NEW exceeds PROVE IntersectPerms(left, right, exceeds)[p] = {}
  <2>1. \A other, patterns : /\ SharedWith(left, p, other, patterns) = {}
                             /\ SharedWith(right, p, other, patterns) = {}
    BY DEF SharedWith
  <2> QED
    BY <2>1 DEF IntersectPerms
<1>3. CASE intersect = TRUE
  BY <1>2, <1>3 DEF MergePerms
<1>4. CASE intersect = FALSE
  BY <1>1, <1>4 DEF MergePerms
<1> QED
  BY <1>3, <1>4

\* A map merged with itself stays as it is: a union drops no literal that both
\* sides list, and an intersection nothing but patterns that cannot be used.
LEMMA MergedPermsAgain ==
  ASSUME NEW perms \in Perms, NEW intersect \in BOOLEAN,
         intersect => \A p \in Path : Matcher[p].kind = "unusable" => perms[p] = {}
  PROVE  MergePerms(perms, perms, intersect) = perms
<1>1. ASSUME NEW exceeds PROVE UnionPerms(perms, perms, exceeds) = perms
  <2>1. ASSUME NEW p \in Path PROVE UnionPerms(perms, perms, exceeds)[p] = perms[p]
    BY DEF UnionPerms, UnionLiteral
  <2>2. perms = [p \in Path |-> perms[p]]
    BY DEF Perms
  <2>3. UnionPerms(perms, perms, exceeds) = [p \in Path |-> UnionPerms(perms, perms, exceeds)[p]]
    BY DEF UnionPerms
  <2> QED
    BY <2>1, <2>2, <2>3
<1>2. ASSUME NEW exceeds, \A p \in Path : Matcher[p].kind = "unusable" => perms[p] = {}
      PROVE  IntersectPerms(perms, perms, exceeds) = perms
  <2>1. ASSUME NEW p \in Path PROVE IntersectPerms(perms, perms, exceeds)[p] = perms[p]
    <3>1. CASE Matcher[p].kind = "unusable"
      BY <1>2, <3>1 DEF IntersectPerms
    <3>2. CASE Matcher[p].kind # "unusable"
      <4>1. \A other, patterns : SharedWith(perms, p, other, patterns) \subseteq perms[p]
        BY DEF SharedWith
      <4> QED
        BY <3>2, <4>1 DEF IntersectPerms
    <3> QED
      BY <3>1, <3>2
  <2>2. perms = [p \in Path |-> perms[p]]
    BY DEF Perms
  <2>3. IntersectPerms(perms, perms, exceeds)
          = [p \in Path |-> IntersectPerms(perms, perms, exceeds)[p]]
    BY DEF IntersectPerms
  <2> QED
    BY <2>1, <2>2, <2>3
<1>3. CASE intersect = TRUE
  BY <1>2, <1>3 DEF MergePerms
<1>4. CASE intersect = FALSE
  BY <1>1, <1>4 DEF MergePerms
<1> QED
  BY <1>3, <1>4

NoneUnusable(paths) == DropUnusableGlobs(paths) = paths

LEMMA NoneUnusableIs ==
  ASSUME NEW paths \in SUBSET Path, NoneUnusable(paths), NEW p \in paths
  PROVE  Matcher[p].kind # "unusable"
  BY DEF NoneUnusable, DropUnusableGlobs, IsGlobPattern, Usable

LEMMA ReadPermsType ==
  ASSUME NEW paths \in SUBSET Path
  PROVE  /\ ReadPerms(paths) \in Perms /\ Listed(ReadPerms(paths)) = paths
         /\ \A p \in Path : p \notin paths => ReadPerms(paths)[p] = {}
  BY DEF ReadPerms, Perms, Perm, Listed

LEMMA MergedPathsListed ==
  ASSUME NEW left \in SUBSET Path, NEW right \in SUBSET Path, NEW intersect \in BOOLEAN
  PROVE  /\ MergePaths(left, right, intersect) \subseteq left \cup right
         /\ left = right /\ (intersect => NoneUnusable(left)) =>
              MergePaths(left, right, intersect) = left
<1> DEFINE l == ReadPerms(left)
           r == ReadPerms(right)
           merged == MergePerms(l, r, intersect)
<1>1. /\ l \in Perms /\ r \in Perms /\ Listed(l) = left
      /\ \A p \in Path : p \notin left => l[p] = {}
      /\ \A p \in Path : p \notin right => r[p] = {}
      /\ left = right => l = r
  BY ReadPermsType
<1>2. MergePaths(left, right, intersect) = Listed(merged)
  BY DEF MergePaths
<1> HIDE DEF l, r
<1>3. \A p \in Path : p \notin left \cup right => merged[p] = {}
  BY <1>1, MergedPermsListed
<1>4. ASSUME left = right, intersect => NoneUnusable(left) PROVE merged = l
  <2>1. ASSUME intersect, NEW p \in Path, Matcher[p].kind = "unusable" PROVE l[p] = {}
    BY <1>1, <1>4, <2>1, NoneUnusableIs
  <2> QED
    BY <1>1, <1>4, <2>1, MergedPermsAgain
<1> HIDE DEF merged
<1>5. MergePaths(left, right, intersect) \subseteq left \cup right
  BY <1>2, <1>3 DEF Listed
<1> QED
  BY <1>1, <1>2, <1>4, <1>5

\* The filesystem lists have no path in common.
Separate(ro, wo, rw) == ro \cap wo = {} /\ ro \cap rw = {} /\ wo \cap rw = {}

LEMMA CollapseExpanded ==
  ASSUME NEW fs \in FsLists, Separate(fs.ro, fs.wo, fs.rw)
  PROVE  CollapseFsPerms(ExpandFsPerms(fs)) = fs
<1>1. fs.ro \subseteq Path /\ fs.wo \subseteq Path /\ fs.rw \subseteq Path
  BY DEF FsLists
<1>2. ASSUME NEW p \in Path
      PROVE  /\ ExpandFsPerms(fs)[p] = {"read"} <=> p \in fs.ro
             /\ ExpandFsPerms(fs)[p] = {"write"} <=> p \in fs.wo
             /\ ExpandFsPerms(fs)[p] = {"read", "write"} <=> p \in fs.rw
  <2>1. CASE p \in fs.ro
    BY <2>1 DEF ExpandFsPerms, Separate
  <2>2. CASE p \in fs.wo
    BY <2>2 DEF ExpandFsPerms, Separate
  <2>3. CASE p \in fs.rw
    BY <2>3 DEF ExpandFsPerms, Separate
  <2>4. CASE p \notin fs.ro \cup fs.wo \cup fs.rw
    BY <2>4 DEF ExpandFsPerms
  <2> QED
    BY <2>1, <2>2, <2>3, <2>4
<1>3. /\ CollapseFsPerms(ExpandFsPerms(fs)).ro = fs.ro
      /\ CollapseFsPerms(ExpandFsPerms(fs)).wo = fs.wo
      /\ CollapseFsPerms(ExpandFsPerms(fs)).rw = fs.rw
  BY <1>1, <1>2 DEF CollapseFsPerms
<1> QED
  BY <1>3 DEF CollapseFsPerms, FsLists

LEMMA MergedFsListed ==
  ASSUME NEW left \in FsLists, NEW right \in FsLists, NEW intersect \in BOOLEAN
  PROVE  LET fs == MergedFs(left, right, intersect) IN
         /\ fs \in FsLists
         /\ fs.ro \cup fs.wo \cup fs.rw
              \subseteq left.ro \cup left.wo \cup left.rw \cup right.ro \cup right.wo \cup right.rw
         /\ Separate(fs.ro, fs.wo, fs.rw)
         /\ /\ left = right /\ Separate(left.ro, left.wo, left.rw)
            /\ intersect => /\ NoneUnusable(left.ro) /\ NoneUnusable(left.wo)
                            /\ NoneUnusable(left.rw)
            => fs = left
<1> DEFINE l == ExpandFsPerms(left)
           r == ExpandFsPerms(right)
           merged == MergePerms(l, r, intersect)
           fs == MergedFs(left, right, intersect)
<1>1. l \in Perms /\ r \in Perms
  BY ExpandedPerms
<1>2. /\ fs = CollapseFsPerms(merged)
      /\ fs \in FsLists
  BY MergedFsPermits DEF MergedFs
<1>3. /\ left.ro \subseteq Path /\ left.wo \subseteq Path /\ left.rw \subseteq Path
      /\ right.ro \subseteq Path /\ right.wo \subseteq Path /\ right.rw \subseteq Path
  BY DEF FsLists
<1>4. \A p \in Path : /\ p \notin left.ro \cup left.wo \cup left.rw => l[p] = {}
                      /\ p \notin right.ro \cup right.wo \cup right.rw => r[p] = {}
  BY DEF ExpandFsPerms
<1>5. left = right => l = r
  OBVIOUS
<1>6. Separate(left.ro, left.wo, left.rw) => CollapseFsPerms(l) = left
  BY CollapseExpanded
<1> HIDE DEF l, r, fs
<1>7. \A p \in Path : p \notin left.ro \cup left.wo \cup left.rw
                                 \cup right.ro \cup right.wo \cup right.rw => merged[p] = {}
  BY <1>1, <1>4, MergedPermsListed
<1>8. ASSUME left = right,
             intersect => /\ NoneUnusable(left.ro) /\ NoneUnusable(left.wo)
                          /\ NoneUnusable(left.rw)
      PROVE  merged = l
  <2>1. ASSUME intersect, NEW p \in Path, Matcher[p].kind = "unusable" PROVE l[p] = {}
    <3>1. NoneUnusable(left.ro) /\ NoneUnusable(left.wo) /\ NoneUnusable(left.rw)
      BY <1>8, <2>1
    <3>2. p \notin left.ro \cup left.wo \cup left.rw
      BY <1>3, <2>1, <3>1, NoneUnusableIs
    <3> QED
      BY <1>4, <3>2
  <2> QED
    BY <1>1, <1>5, <1>8, <2>1, MergedPermsAgain
<1> HIDE DEF merged
<1>9. /\ fs.ro = {p \in Path : merged[p] = {"read"}}
      /\ fs.wo = {p \in Path : merged[p] = {"write"}}
      /\ fs.rw = {p \in Path : merged[p] = {"read", "write"}}
  BY <1>2 DEF CollapseFsPerms
<1>10. fs.ro \cup fs.wo \cup fs.rw
         \subseteq left.ro \cup left.wo \cup left.rw \cup right.ro \cup right.wo \cup right.rw
  BY <1>7, <1>9
<1>11. Separate(fs.ro, fs.wo, fs.rw)
  BY <1>9 DEF Separate
<1> QED
  BY <1>2, <1>6, <1>8, <1>10, <1>11 DEF fs

SeparateLists(profile) ==
  Separate(ListAt(profile, "ro"), ListAt(profile, "wo"), ListAt(profile, "rw"))

\* The same lists and capabilities.
SameLists(profile, other) ==
  /\ \A slot \in Slots : ListAt(profile, slot) = ListAt(other, slot)
  /\ CapsOf(profile) = CapsOf(other)

AllUsable(profile) == \A slot \in Slots : NoneUnusable(ListAt(profile, slot))

\* A profile that lists no more than two others do together.
MergedFrom(left, right, merged) ==
  /\ PathsOf(merged) \subseteq PathsOf(left) \cup PathsOf(right)
  /\ SeparateLists(left) /\ SeparateLists(right) => SeparateLists(merged)
  /\ CapsOf(merged) \subseteq CapsOf(left) \cup CapsOf(right)

LEMMA FsPaths ==
  ASSUME NEW profile \in Profile, profile.fs # Nil
  PROVE  /\ ListAt(profile, "ro") = profile.fs.ro /\ ListAt(profile, "wo") = profile.fs.wo
         /\ ListAt(profile, "rw") = profile.fs.rw
         /\ profile.fs \in FsLists
         /\ profile.fs.ro \cup profile.fs.wo \cup profile.fs.rw \subseteq PathsOf(profile)
  BY ListAtIs, ProfileFields DEF PathsOf, PathListsOf

LEMMA ExecPaths ==
  ASSUME NEW profile \in Profile, profile.exec # Nil
  PROVE  /\ ListAt(profile, "exe") = profile.exec.exe /\ ListAt(profile, "lib") = profile.exec.lib
         /\ profile.exec.exe \in SUBSET Path /\ profile.exec.lib \in SUBSET Path
         /\ profile.exec.exe \cup profile.exec.lib \subseteq PathsOf(profile)
  BY ListAtIs, ListsOfProfile DEF PathsOf, PathListsOf

\* The lists of a merge, whichever it is, from its sections.
MergedSections(left, right, merged, caps, intersect) ==
  /\ Chosen(left.exec, right.exec,
            [exe |-> MergePaths(left.exec.exe, right.exec.exe, intersect),
             lib |-> MergePaths(left.exec.lib, right.exec.lib, intersect)], merged.exec)
  /\ Chosen(left.fs, right.fs, MergedFs(left.fs, right.fs, intersect), merged.fs)
  /\ Chosen(left.caps, right.caps, caps, merged.caps)

LEMMA MergedExec ==
  ASSUME NEW left \in Profile, NEW right \in Profile, NEW merged \in Profile,
         NEW intersect \in BOOLEAN, NEW caps,
         MergedSections(left, right, merged, caps, intersect)
  PROVE  /\ ListAt(merged, "exe") \cup ListAt(merged, "lib")
              \subseteq PathsOf(left) \cup PathsOf(right)
         /\ SameLists(left, right) /\ (intersect => AllUsable(left)) =>
              /\ ListAt(merged, "exe") = ListAt(left, "exe")
              /\ ListAt(merged, "lib") = ListAt(left, "lib")
<1>1. Chosen(left.exec, right.exec,
            [exe |-> MergePaths(left.exec.exe, right.exec.exe, intersect),
             lib |-> MergePaths(left.exec.lib, right.exec.lib, intersect)], merged.exec)
  BY DEF MergedSections
<1>2. SameLists(left, right) => /\ ListAt(left, "exe") = ListAt(right, "exe")
                                /\ ListAt(left, "lib") = ListAt(right, "lib")
  BY DEF SameLists, Slots, ExecSlots
<1>3. AllUsable(left) => /\ NoneUnusable(ListAt(left, "exe"))
                         /\ NoneUnusable(ListAt(left, "lib"))
  BY DEF AllUsable, Slots, ExecSlots
<1>4. CASE left.exec = Nil
  <2>1. merged.exec = right.exec
    BY <1>1, <1>4 DEF Chosen
  <2>2. CASE right.exec = Nil
    BY <1>4, <2>1, <2>2, ListAtIs
  <2>3. CASE right.exec # Nil
    BY <1>2, <2>1, <2>3, ListAtIs, ExecPaths
  <2> QED
    BY <2>2, <2>3
<1>5. CASE left.exec # Nil /\ right.exec = Nil
  <2>1. merged.exec = left.exec
    BY <1>1, <1>5 DEF Chosen
  <2> QED
    BY <1>5, <2>1, ListAtIs, ExecPaths
<1>6. CASE left.exec # Nil /\ right.exec # Nil
  <2> DEFINE exe == MergePaths(left.exec.exe, right.exec.exe, intersect)
             lib == MergePaths(left.exec.lib, right.exec.lib, intersect)
  <2>1. /\ ListAt(left, "exe") = left.exec.exe /\ ListAt(left, "lib") = left.exec.lib
        /\ ListAt(right, "exe") = right.exec.exe /\ ListAt(right, "lib") = right.exec.lib
        /\ left.exec.exe \in SUBSET Path /\ left.exec.lib \in SUBSET Path
        /\ right.exec.exe \in SUBSET Path /\ right.exec.lib \in SUBSET Path
        /\ left.exec.exe \cup left.exec.lib \subseteq PathsOf(left)
        /\ right.exec.exe \cup right.exec.lib \subseteq PathsOf(right)
    BY <1>6, ExecPaths
  <2>2. /\ exe \subseteq left.exec.exe \cup right.exec.exe
        /\ left.exec.exe = right.exec.exe /\ (intersect => NoneUnusable(left.exec.exe)) =>
             exe = left.exec.exe
    BY <2>1, MergedPathsListed
  <2>3. /\ lib \subseteq left.exec.lib \cup right.exec.lib
        /\ left.exec.lib = right.exec.lib /\ (intersect => NoneUnusable(left.exec.lib)) =>
             lib = left.exec.lib
    BY <2>1, MergedPathsListed
  <2>4. merged.exec = [exe |-> exe, lib |-> lib]
    BY <1>1, <1>6 DEF Chosen
  <2>5. [exe |-> exe, lib |-> lib] \in PathLists
    BY <2>1, <2>2, <2>3 DEF PathLists
  <2> HIDE DEF exe, lib
  <2>6. merged.exec # Nil
    BY <2>4, <2>5, NilFacts
  <2>7. ListAt(merged, "exe") = exe /\ ListAt(merged, "lib") = lib
    BY <2>4, <2>6, ListAtIs
  <2>8. exe \cup lib \subseteq PathsOf(left) \cup PathsOf(right)
    BY <2>1, <2>2, <2>3
  <2>9. SameLists(left, right) /\ (intersect => AllUsable(left)) =>
          exe = ListAt(left, "exe") /\ lib = ListAt(left, "lib")
    BY <1>2, <1>3, <2>1, <2>2, <2>3
  <2> QED
    BY <2>7, <2>8, <2>9
<1> QED
  BY <1>4, <1>5, <1>6

LEMMA MergedFsLists ==
  ASSUME NEW left \in Profile, NEW right \in Profile, NEW merged \in Profile,
         NEW intersect \in BOOLEAN, NEW caps,
         MergedSections(left, right, merged, caps, intersect)
  PROVE  /\ ListAt(merged, "ro") \cup ListAt(merged, "wo") \cup ListAt(merged, "rw")
              \subseteq PathsOf(left) \cup PathsOf(right)
         /\ SeparateLists(left) /\ SeparateLists(right) => SeparateLists(merged)
         /\ /\ SameLists(left, right) /\ SeparateLists(left)
            /\ intersect => AllUsable(left)
            => /\ ListAt(merged, "ro") = ListAt(left, "ro")
               /\ ListAt(merged, "wo") = ListAt(left, "wo")
               /\ ListAt(merged, "rw") = ListAt(left, "rw")
<1>1. Chosen(left.fs, right.fs, MergedFs(left.fs, right.fs, intersect), merged.fs)
  BY DEF MergedSections
<1>2. SameLists(left, right) => /\ ListAt(left, "ro") = ListAt(right, "ro")
                                /\ ListAt(left, "wo") = ListAt(right, "wo")
                                /\ ListAt(left, "rw") = ListAt(right, "rw")
  BY DEF SameLists, Slots, FsSlots
<1>3. AllUsable(left) => /\ NoneUnusable(ListAt(left, "ro")) /\ NoneUnusable(ListAt(left, "wo"))
                         /\ NoneUnusable(ListAt(left, "rw"))
  BY DEF AllUsable, Slots, FsSlots
<1>4. CASE left.fs = Nil
  <2>1. merged.fs = right.fs
    BY <1>1, <1>4 DEF Chosen
  <2>2. /\ ListAt(merged, "ro") = ListAt(right, "ro") /\ ListAt(merged, "wo") = ListAt(right, "wo")
        /\ ListAt(merged, "rw") = ListAt(right, "rw")
    BY <2>1, ListAtIs
  <2>3. CASE right.fs = Nil
    BY <1>2, <2>2, <2>3, ListAtIs DEF SeparateLists
  <2>4. CASE right.fs # Nil
    BY <1>2, <2>2, <2>4, FsPaths DEF SeparateLists
  <2> QED
    BY <2>3, <2>4
<1>5. CASE left.fs # Nil /\ right.fs = Nil
  <2>1. merged.fs = left.fs
    BY <1>1, <1>5 DEF Chosen
  <2>2. /\ ListAt(merged, "ro") = ListAt(left, "ro") /\ ListAt(merged, "wo") = ListAt(left, "wo")
        /\ ListAt(merged, "rw") = ListAt(left, "rw")
    BY <2>1, ListAtIs
  <2> QED
    BY <1>5, <2>2, FsPaths DEF SeparateLists
<1>6. CASE left.fs # Nil /\ right.fs # Nil
  <2> DEFINE fs == MergedFs(left.fs, right.fs, intersect)
  <2>1. /\ ListAt(left, "ro") = left.fs.ro /\ ListAt(left, "wo") = left.fs.wo
        /\ ListAt(left, "rw") = left.fs.rw
        /\ left.fs \in FsLists
        /\ left.fs.ro \cup left.fs.wo \cup left.fs.rw \subseteq PathsOf(left)
    BY <1>6, FsPaths
  <2>2. /\ ListAt(right, "ro") = right.fs.ro /\ ListAt(right, "wo") = right.fs.wo
        /\ ListAt(right, "rw") = right.fs.rw
        /\ right.fs \in FsLists
        /\ right.fs.ro \cup right.fs.wo \cup right.fs.rw \subseteq PathsOf(right)
    BY <1>6, FsPaths
  <2>3. merged.fs = fs
    BY <1>1, <1>6 DEF Chosen
  <2>4. /\ fs \in FsLists
        /\ fs.ro \cup fs.wo \cup fs.rw
             \subseteq left.fs.ro \cup left.fs.wo \cup left.fs.rw
                         \cup right.fs.ro \cup right.fs.wo \cup right.fs.rw
        /\ Separate(fs.ro, fs.wo, fs.rw)
        /\ /\ left.fs = right.fs /\ Separate(left.fs.ro, left.fs.wo, left.fs.rw)
           /\ intersect => /\ NoneUnusable(left.fs.ro) /\ NoneUnusable(left.fs.wo)
                           /\ NoneUnusable(left.fs.rw)
           => fs = left.fs
    <3> DEFINE l == left.fs
               r == right.fs
    <3>1. l \in FsLists /\ r \in FsLists
      BY <2>1, <2>2
    <3> HIDE DEF l, r
    <3>2. LET merge == MergedFs(l, r, intersect) IN
          /\ merge \in FsLists
          /\ merge.ro \cup merge.wo \cup merge.rw
               \subseteq l.ro \cup l.wo \cup l.rw \cup r.ro \cup r.wo \cup r.rw
          /\ Separate(merge.ro, merge.wo, merge.rw)
          /\ /\ l = r /\ Separate(l.ro, l.wo, l.rw)
             /\ intersect => NoneUnusable(l.ro) /\ NoneUnusable(l.wo) /\ NoneUnusable(l.rw)
             => merge = l
      BY ONLY <3>1, MergedFsListed, intersect \in BOOLEAN
    <3> QED
      BY <3>2 DEF l, r
  <2> HIDE DEF fs
  <2>5. merged.fs # Nil
    BY <2>3, <2>4, NilFacts
  <2>6. /\ ListAt(merged, "ro") = fs.ro /\ ListAt(merged, "wo") = fs.wo
        /\ ListAt(merged, "rw") = fs.rw
    BY <2>3, <2>5, ListAtIs
  <2>7. SameLists(left, right) => left.fs = right.fs
    <3>1. SameLists(left, right) => /\ left.fs.ro = right.fs.ro /\ left.fs.wo = right.fs.wo
                                    /\ left.fs.rw = right.fs.rw
      BY <1>2, <2>1, <2>2
    <3> QED
      BY <2>1, <2>2, <3>1 DEF FsLists
  <2>8. SeparateLists(left) <=> Separate(left.fs.ro, left.fs.wo, left.fs.rw)
    BY <2>1 DEF SeparateLists
  <2>9. fs.ro \cup fs.wo \cup fs.rw \subseteq PathsOf(left) \cup PathsOf(right)
    BY <2>1, <2>2, <2>4
  <2>10. SeparateLists(merged)
    BY <2>4, <2>6 DEF SeparateLists
  <2>11. ASSUME SameLists(left, right), SeparateLists(left), intersect => AllUsable(left)
         PROVE  fs = left.fs
    BY <1>3, <2>1, <2>4, <2>7, <2>8, <2>11
  <2> QED
    BY <2>1, <2>6, <2>9, <2>10, <2>11
<1> QED
  BY <1>4, <1>5, <1>6

LEMMA MergedLists ==
  ASSUME NEW left \in Profile, NEW right \in Profile, NEW merged \in Profile,
         NEW intersect \in BOOLEAN, NEW caps,
         MergedSections(left, right, merged, caps, intersect),
         caps \subseteq left.caps \cup right.caps,
         left.caps = right.caps /\ left.caps # Nil => caps = left.caps,
         caps # Nil
  PROVE  /\ MergedFrom(left, right, merged)
         /\ /\ SameLists(left, right) /\ SeparateLists(left)
            /\ intersect => AllUsable(left)
            => SameLists(merged, left)
<1>1. /\ ListAt(merged, "exe") \cup ListAt(merged, "lib")
           \subseteq PathsOf(left) \cup PathsOf(right)
      /\ SameLists(left, right) /\ (intersect => AllUsable(left)) =>
           /\ ListAt(merged, "exe") = ListAt(left, "exe")
           /\ ListAt(merged, "lib") = ListAt(left, "lib")
  BY MergedExec
<1>2. /\ ListAt(merged, "ro") \cup ListAt(merged, "wo") \cup ListAt(merged, "rw")
           \subseteq PathsOf(left) \cup PathsOf(right)
      /\ SeparateLists(left) /\ SeparateLists(right) => SeparateLists(merged)
      /\ /\ SameLists(left, right) /\ SeparateLists(left)
         /\ intersect => AllUsable(left)
         => /\ ListAt(merged, "ro") = ListAt(left, "ro")
            /\ ListAt(merged, "wo") = ListAt(left, "wo")
            /\ ListAt(merged, "rw") = ListAt(left, "rw")
  BY MergedFsLists
<1>3. Chosen(left.caps, right.caps, caps, merged.caps)
  BY DEF MergedSections
<1>4. CapsOf(merged) \subseteq CapsOf(left) \cup CapsOf(right)
  <2>1. CASE left.caps = Nil
    BY <1>3, <2>1 DEF Chosen, CapsOf
  <2>2. CASE left.caps # Nil /\ right.caps = Nil
    BY <1>3, <2>2 DEF Chosen, CapsOf
  <2>3. CASE left.caps # Nil /\ right.caps # Nil
    BY <1>3, <2>3 DEF Chosen, CapsOf
  <2> QED
    BY <2>1, <2>2, <2>3
<1>5. CapsOf(left) = CapsOf(right) => CapsOf(merged) = CapsOf(left)
  <2>1. CASE left.caps = Nil
    BY <1>3, <2>1 DEF Chosen, CapsOf
  <2>2. CASE left.caps # Nil /\ right.caps = Nil
    BY <1>3, <2>2 DEF Chosen, CapsOf
  <2>3. CASE left.caps # Nil /\ right.caps # Nil
    BY <1>3, <2>3 DEF Chosen, CapsOf
  <2> QED
    BY <2>1, <2>2, <2>3
<1>6. ASSUME NEW p \in PathsOf(merged) PROVE p \in PathsOf(left) \cup PathsOf(right)
  <2>1. PICK slot \in Slots : p \in ListAt(merged, slot)
    BY PathsByList
  <2> QED
    BY <1>1, <1>2, <2>1, SlotsAre
<1>7. MergedFrom(left, right, merged)
  BY <1>2, <1>4, <1>6 DEF MergedFrom
<1>8. ASSUME SameLists(left, right), SeparateLists(left), intersect => AllUsable(left)
      PROVE  SameLists(merged, left)
  <2>1. \A slot \in Slots : ListAt(merged, slot) = ListAt(left, slot)
    BY <1>1, <1>2, <1>8, SlotsAre
  <2>2. CapsOf(merged) = CapsOf(left)
    BY <1>5, <1>8 DEF SameLists
  <2> QED
    BY <2>1, <2>2 DEF SameLists
<1> QED
  BY <1>7, <1>8

\* The parts of a network section once nothing of it is omitted.
ExplicitProtocols(protocols) ==
  IF protocols = Nil THEN [tcp |-> FALSE, udp |-> FALSE]
  ELSE [tcp |-> OrFalse(protocols.tcp), udp |-> OrFalse(protocols.udp)]

LEMMA ExplicitNetIs ==
  /\ ExplicitNet(Nil) = [raw |-> FALSE, protocols |-> [tcp |-> FALSE, udp |-> FALSE]]
  /\ \A net : net # Nil =>
       ExplicitNet(net) = [raw |-> OrFalse(net.raw),
                           protocols |-> ExplicitProtocols(net.protocols)]
<1>1. OrFalse(Nil) = FALSE
  BY DEF OrFalse
<1>2. ExplicitNet(Nil) = [raw |-> FALSE, protocols |-> [tcp |-> FALSE, udp |-> FALSE]]
  BY <1>1 DEF ExplicitNet
<1>3. ASSUME NEW net, net # Nil
      PROVE  ExplicitNet(net) = [raw |-> OrFalse(net.raw),
                                 protocols |-> ExplicitProtocols(net.protocols)]
  BY <1>1, <1>3 DEF ExplicitNet, ExplicitProtocols
<1> QED
  BY <1>2, <1>3

LEMMA MergedBoolAgain ==
  ASSUME NEW left \in Bool, NEW right \in Bool, OrFalse(left) = OrFalse(right)
  PROVE  /\ OrFalse(UnionBool(left, right)) = OrFalse(left)
         /\ left \in BOOLEAN /\ right = left => IntersectBool(left, right) = left
<1>1. Nil # TRUE /\ Nil # FALSE
  BY NilFacts
<1>2. CASE left = Nil
  <2>1. UnionBool(left, right) = right
    BY <1>2 DEF UnionBool, MergeBool, MergeOptional
  <2> QED
    BY <1>1, <1>2, <2>1
<1>3. CASE left # Nil /\ right = Nil
  <2>1. UnionBool(left, right) = left
    BY <1>3 DEF UnionBool, MergeBool, MergeOptional
  <2> QED
    BY <1>1, <1>3, <2>1
<1>4. CASE left # Nil /\ right # Nil
  <2>1. left \in BOOLEAN /\ right \in BOOLEAN
    BY <1>4 DEF Bool
  <2>2. left = right
    BY <1>4 DEF OrFalse
  <2>3. /\ UnionBool(left, right) \in Bool
        /\ Allowed(UnionBool(left, right)) <=> Allowed(left) \/ Allowed(right)
    BY MergedBool
  <2>4. CASE left = TRUE
    <3>1. Allowed(UnionBool(left, right))
      BY <1>4, <2>3, <2>4 DEF Allowed
    <3>2. UnionBool(left, right) = TRUE
      BY <2>3, <3>1 DEF Allowed, Bool
    <3>3. IntersectBool(TRUE, TRUE) = TRUE
      <4>1. IntersectBool(TRUE, TRUE) = MergeOptional(TRUE, TRUE, TRUE)
        BY DEF IntersectBool, MergeBool
      <4> QED
        BY <1>1, <4>1 DEF MergeOptional
    <3> QED
      BY <2>2, <2>4, <3>2, <3>3
  <2>5. CASE left = FALSE
    <3>1. ~Allowed(UnionBool(left, right))
      BY <2>2, <2>3, <2>5 DEF Allowed
    <3>2. OrFalse(UnionBool(left, right)) = FALSE
      BY <2>3, <3>1 DEF Allowed, Bool, OrFalse
    <3>3. OrFalse(left) = FALSE
      BY <2>5 DEF OrFalse
    <3>4. IntersectBool(FALSE, FALSE) = FALSE
      <4>1. IntersectBool(FALSE, FALSE) = MergeOptional(FALSE, FALSE, FALSE)
        BY DEF IntersectBool, MergeBool
      <4> QED
        BY <1>1, <4>1 DEF MergeOptional
    <3> QED
      BY <2>2, <2>5, <3>2, <3>3, <3>4
  <2> QED
    BY <2>1, <2>4, <2>5
<1> QED
  BY <1>2, <1>3, <1>4

LEMMA MergedProtocolsAgain ==
  ASSUME NEW left \in Protocols \cup {Nil}, NEW right \in Protocols \cup {Nil},
         ExplicitProtocols(left) = ExplicitProtocols(right)
  PROVE  ExplicitProtocols(MergeOptional(left, right, UnionProtocols(left, right)))
           = ExplicitProtocols(left)
<1> DEFINE merged == MergeOptional(left, right, UnionProtocols(left, right))
<1>1. CASE left = Nil
  <2>1. merged = right
    BY <1>1 DEF MergeOptional
  <2> QED
    BY <2>1
<1>2. CASE left # Nil /\ right = Nil
  <2>1. merged = left
    BY <1>2 DEF MergeOptional
  <2> QED
    BY <2>1
<1>3. CASE left # Nil /\ right # Nil
  <2>1. merged = UnionProtocols(left, right)
    BY <1>3 DEF MergeOptional
  <2>2. left.tcp \in Bool /\ left.udp \in Bool /\ right.tcp \in Bool /\ right.udp \in Bool
    BY <1>3 DEF Protocols
  <2>3. OrFalse(left.tcp) = OrFalse(right.tcp) /\ OrFalse(left.udp) = OrFalse(right.udp)
    BY <1>3 DEF ExplicitProtocols
  <2>4. UnionProtocols(left, right)
          = [tcp |-> UnionBool(left.tcp, right.tcp), udp |-> UnionBool(left.udp, right.udp)]
    BY DEF UnionProtocols
  <2>5. UnionBool(left.tcp, right.tcp) \in Bool /\ UnionBool(left.udp, right.udp) \in Bool
    BY <2>2, MergedBool
  <2>6. UnionProtocols(left, right) # Nil
    <3>1. UnionProtocols(left, right) \in Protocols
      BY <2>4, <2>5 DEF Protocols
    <3> QED
      BY <3>1, NilFacts
  <2>7. /\ OrFalse(UnionBool(left.tcp, right.tcp)) = OrFalse(left.tcp)
        /\ OrFalse(UnionBool(left.udp, right.udp)) = OrFalse(left.udp)
    BY <2>2, <2>3, MergedBoolAgain
  <2>8. ExplicitProtocols(UnionProtocols(left, right))
          = [tcp |-> OrFalse(left.tcp), udp |-> OrFalse(left.udp)]
    BY <2>4, <2>6, <2>7 DEF ExplicitProtocols
  <2> QED
    BY <1>3, <2>1, <2>8 DEF ExplicitProtocols
<1> QED
  BY <1>1, <1>2, <1>3

LEMMA MergedNetAgain ==
  ASSUME NEW left \in Profile, NEW right \in Profile,
         ExplicitNet(left.net) = ExplicitNet(right.net)
  PROVE  ExplicitNet(UnionProfiles(left, right).net) = ExplicitNet(left.net)
<1> DEFINE net == UnionProfiles(left, right).net
           l == left.net
           r == right.net
           protocols == MergeOptional(l.protocols, r.protocols,
                                      UnionProtocols(l.protocols, r.protocols))
<1>1. Chosen(l, r, [raw |-> UnionBool(l.raw, r.raw), protocols |-> protocols], net)
  BY UnionSections
<1>2. /\ l \in Network \cup {Nil} /\ r \in Network \cup {Nil}
      /\ l # Nil => l.raw \in Bool /\ l.protocols \in Protocols \cup {Nil}
      /\ r # Nil => r.raw \in Bool /\ r.protocols \in Protocols \cup {Nil}
  BY ProfileFields
<1>3. net \in Network \cup {Nil}
  BY UnionOfTwo, ProfileFields
<1> HIDE DEF net, l, r
<1>4. CASE l = Nil
  <2>1. net = r
    BY <1>1, <1>4 DEF Chosen
  <2> QED
    BY <2>1 DEF net, l, r
<1>5. CASE l # Nil /\ r = Nil
  <2>1. net = l
    BY <1>1, <1>5 DEF Chosen
  <2> QED
    BY <2>1 DEF net, l, r
<1>6. CASE l # Nil /\ r # Nil
  <2>1. net = [raw |-> UnionBool(l.raw, r.raw), protocols |-> protocols]
    BY <1>1, <1>6 DEF Chosen
  <2>2. /\ ExplicitNet(l) = [raw |-> OrFalse(l.raw), protocols |-> ExplicitProtocols(l.protocols)]
        /\ ExplicitNet(r) = [raw |-> OrFalse(r.raw), protocols |-> ExplicitProtocols(r.protocols)]
    BY <1>6, ExplicitNetIs
  <2>3. ExplicitNet(l) = ExplicitNet(r)
    BY DEF l, r
  <2>4. /\ OrFalse(l.raw) = OrFalse(r.raw)
        /\ ExplicitProtocols(l.protocols) = ExplicitProtocols(r.protocols)
    BY <2>2, <2>3
  <2>5. OrFalse(UnionBool(l.raw, r.raw)) = OrFalse(l.raw)
    BY <1>2, <1>6, <2>4, MergedBoolAgain
  <2>6. ExplicitProtocols(protocols) = ExplicitProtocols(l.protocols)
    BY <1>2, <1>6, <2>4, MergedProtocolsAgain
  <2> HIDE DEF protocols
  <2>7. net.raw = UnionBool(l.raw, r.raw) /\ net.protocols = protocols
    BY <2>1
  <2>8. net # Nil
    <3>1. UnionBool(l.raw, r.raw) \in Bool
      BY <1>2, <1>6, MergedBool
    <3>2. protocols \in Protocols \cup {Nil}
      <4>1. UnionProtocols(l.protocols, r.protocols)
              = [tcp |-> UnionBool(l.protocols.tcp, r.protocols.tcp),
                 udp |-> UnionBool(l.protocols.udp, r.protocols.udp)]
        BY DEF UnionProtocols
      <4>2. CASE l.protocols # Nil /\ r.protocols # Nil
        <5>1. /\ l.protocols.tcp \in Bool /\ l.protocols.udp \in Bool
              /\ r.protocols.tcp \in Bool /\ r.protocols.udp \in Bool
          BY <1>2, <1>6, <4>2 DEF Protocols
        <5>2. /\ UnionBool(l.protocols.tcp, r.protocols.tcp) \in Bool
              /\ UnionBool(l.protocols.udp, r.protocols.udp) \in Bool
          BY <5>1, MergedBool
        <5>3. UnionProtocols(l.protocols, r.protocols) \in Protocols
          BY <4>1, <5>2 DEF Protocols
        <5> QED
          BY <4>2, <5>3 DEF protocols, MergeOptional
      <4>3. CASE l.protocols = Nil \/ r.protocols = Nil
        BY <1>2, <1>6, <4>3 DEF protocols, MergeOptional
      <4> QED
        BY <4>2, <4>3
    <3>3. [raw |-> UnionBool(l.raw, r.raw), protocols |-> protocols] \in Network
      BY <3>1, <3>2 DEF Network
    <3> QED
      BY <2>1, <3>3, NilFacts
  <2>9. ExplicitNet(net) = [raw |-> OrFalse(l.raw), protocols |-> ExplicitProtocols(l.protocols)]
    BY <2>5, <2>6, <2>7, <2>8, ExplicitNetIs
  <2> QED
    BY <2>2, <2>9 DEF net, l
<1> QED
  BY <1>4, <1>5, <1>6

Same(profile, other) ==
  SameLists(profile, other) /\ ExplicitNet(profile.net) = ExplicitNet(other.net)

LEMMA PopulatedNet ==
  ASSUME NEW profile \in Populated
  PROVE  /\ ExplicitNet(profile.net) = profile.net
         /\ profile.net.raw \in BOOLEAN
         /\ profile.net.protocols.tcp \in BOOLEAN /\ profile.net.protocols.udp \in BOOLEAN
         /\ profile.net = [raw |-> profile.net.raw,
                           protocols |-> [tcp |-> profile.net.protocols.tcp,
                                          udp |-> profile.net.protocols.udp]]
<1>1. profile.net \in [raw : BOOLEAN, protocols : [tcp : BOOLEAN, udp : BOOLEAN]]
  BY DEF Populated
<1>2. /\ profile.net.raw \in BOOLEAN
      /\ profile.net.protocols.tcp \in BOOLEAN /\ profile.net.protocols.udp \in BOOLEAN
      /\ profile.net = [raw |-> profile.net.raw,
                        protocols |-> [tcp |-> profile.net.protocols.tcp,
                                       udp |-> profile.net.protocols.udp]]
  BY <1>1
<1>3. profile.net # Nil /\ profile.net.protocols # Nil
  BY PopulatedFacts
<1>4. \A b \in BOOLEAN : OrFalse(b) = b
  BY NilFacts DEF OrFalse
<1>5. ExplicitProtocols(profile.net.protocols)
        = [tcp |-> profile.net.protocols.tcp, udp |-> profile.net.protocols.udp]
  BY <1>2, <1>3, <1>4 DEF ExplicitProtocols
<1>6. ExplicitNet(profile.net)
        = [raw |-> OrFalse(profile.net.raw),
           protocols |-> ExplicitProtocols(profile.net.protocols)]
  BY <1>3, ExplicitNetIs
<1>7. OrFalse(profile.net.raw) = profile.net.raw
  BY <1>2, <1>4
<1> QED
  BY <1>2, <1>5, <1>6, <1>7

LEMMA IntersectedNetAgain ==
  ASSUME NEW left \in Populated, NEW right \in Populated, left.net = right.net
  PROVE  IntersectProfiles(left, right).net = left.net
<1> DEFINE net == IntersectProfiles(left, right).net
           l == left.net
<1>1. /\ l # Nil /\ l.protocols # Nil
      /\ l.raw \in BOOLEAN /\ l.protocols.tcp \in BOOLEAN /\ l.protocols.udp \in BOOLEAN
      /\ l = [raw |-> l.raw,
              protocols |-> [tcp |-> l.protocols.tcp, udp |-> l.protocols.udp]]
  BY PopulatedFacts, PopulatedNet
<1>2. Chosen(left.net, right.net,
             [raw |-> IntersectBool(left.net.raw, right.net.raw),
              protocols |-> MergeOptional(left.net.protocols, right.net.protocols,
                IntersectProtocols(left.net.protocols, right.net.protocols))], net)
  BY IntersectSections
<1>3. Chosen(l, l, [raw |-> IntersectBool(l.raw, l.raw),
                    protocols |-> MergeOptional(l.protocols, l.protocols,
                      IntersectProtocols(l.protocols, l.protocols))], net)
  BY <1>2
<1> HIDE DEF net, l
<1>4. net = [raw |-> IntersectBool(l.raw, l.raw),
             protocols |-> MergeOptional(l.protocols, l.protocols,
                             IntersectProtocols(l.protocols, l.protocols))]
  BY <1>1, <1>3 DEF Chosen
<1>5. MergeOptional(l.protocols, l.protocols, IntersectProtocols(l.protocols, l.protocols))
        = IntersectProtocols(l.protocols, l.protocols)
  BY <1>1 DEF MergeOptional
<1>6. ASSUME NEW b \in BOOLEAN PROVE IntersectBool(b, b) = b
  BY MergedBoolAgain DEF Bool
<1>7. IntersectProtocols(l.protocols, l.protocols)
        = [tcp |-> l.protocols.tcp, udp |-> l.protocols.udp]
  BY <1>1, <1>6 DEF IntersectProtocols
<1>8. IntersectBool(l.raw, l.raw) = l.raw
  BY <1>1, <1>6
<1>9. net = l
  BY <1>1, <1>4, <1>5, <1>7, <1>8
<1> QED
  BY <1>9 DEF net, l

LEMMA UnionListed ==
  ASSUME NEW left \in Profile, NEW right \in Profile
  PROVE  LET merged == UnionProfiles(left, right) IN
         /\ merged \in Profile
         /\ MergedFrom(left, right, merged)
         /\ Same(left, right) /\ SeparateLists(left) => Same(merged, left)
<1> DEFINE merged == UnionProfiles(left, right)
           caps == IF left.caps = Nil \/ right.caps = Nil THEN {} ELSE left.caps \cup right.caps
<1>1. merged \in Profile
  BY UnionOfTwo
<1>2. MergedSections(left, right, merged, left.caps \cup right.caps, FALSE)
  BY UnionSections DEF MergedSections
<1>3. MergedSections(left, right, merged, caps, FALSE)
  BY <1>2 DEF MergedSections, Chosen
<1>4. /\ caps \subseteq left.caps \cup right.caps
      /\ left.caps = right.caps /\ left.caps # Nil => caps = left.caps
      /\ caps \in SUBSET Capability
  BY ProfileFields
<1>5. caps # Nil
  <2> HIDE DEF caps
  <2> QED
    BY <1>4, NilFacts
<1>6. Same(left, right) => ExplicitNet(merged.net) = ExplicitNet(left.net)
  BY MergedNetAgain DEF Same
<1> HIDE DEF merged, caps
<1>7. /\ MergedFrom(left, right, merged)
      /\ SameLists(left, right) /\ SeparateLists(left) => SameLists(merged, left)
  BY <1>1, <1>3, <1>4, <1>5, MergedLists
<1> QED
  BY <1>1, <1>6, <1>7 DEF Same, merged

LEMMA IntersectionListed ==
  ASSUME NEW left \in Populated, NEW right \in Populated
  PROVE  LET merged == IntersectProfiles(left, right) IN
         /\ merged \in Populated
         /\ MergedFrom(left, right, merged)
         /\ Same(left, right) /\ SeparateLists(left) /\ AllUsable(left) => Same(merged, left)
<1> DEFINE merged == IntersectProfiles(left, right)
           caps == left.caps \cap right.caps
<1>1. merged \in Populated /\ merged \in Profile /\ left \in Profile /\ right \in Profile
  BY IntersectionOfTwo, PopulatedFacts
<1>2. MergedSections(left, right, merged, caps, TRUE)
  BY IntersectSections DEF MergedSections
<1>3. caps \in SUBSET Capability
  BY <1>1, PopulatedFacts, ProfileFields
<1>4. caps # Nil
  <2> HIDE DEF caps
  <2> QED
    BY <1>3, NilFacts
<1>5. caps \subseteq left.caps \cup right.caps /\ (left.caps = right.caps => caps = left.caps)
  OBVIOUS
<1>6. ASSUME Same(left, right) PROVE ExplicitNet(merged.net) = ExplicitNet(left.net)
  <2>1. left.net = right.net
    BY <1>6, PopulatedNet DEF Same
  <2> QED
    BY <2>1, IntersectedNetAgain
<1> HIDE DEF merged, caps
<1>7. /\ MergedFrom(left, right, merged)
      /\ SameLists(left, right) /\ SeparateLists(left) /\ AllUsable(left) =>
           SameLists(merged, left)
  BY <1>1, <1>2, <1>4, <1>5, MergedLists
<1> QED
  BY <1>1, <1>6, <1>7 DEF Same, merged

LEMMA MergeTwoListed ==
  ASSUME strategy \in {"intersect", "union"},
         NEW left \in Form(strategy), NEW right \in Form(strategy)
  PROVE  LET merged == MergeTwo(left, right) IN
         /\ merged \in Form(strategy)
         /\ MergedFrom(left, right, merged)
         /\ /\ Same(left, right) /\ SeparateLists(left)
            /\ strategy = "intersect" => AllUsable(left)
            => Same(merged, left)
<1>1. CASE strategy = "intersect"
  <2>1. MergeTwo(left, right) = IntersectProfiles(left, right)
    BY <1>1, MergeTwoIs
  <2>2. left \in Populated /\ right \in Populated
    BY <1>1 DEF Form
  <2> QED
    BY <1>1, <2>1, <2>2, IntersectionListed DEF Form
<1>2. CASE strategy = "union"
  <2>1. MergeTwo(left, right) = UnionProfiles(left, right)
    BY <1>2, MergeTwoIs
  <2>2. left \in Profile /\ right \in Profile
    BY <1>2 DEF Form
  <2> QED
    BY <1>2, <2>1, <2>2, UnionListed DEF Form
<1> QED
  BY <1>1, <1>2

-----------------------------------------------------------------------------
(* The inputs of a call, spelled alike *)

\* Every spelling that some canonical copy uses.
AllSpellings(inputs) == UNION {PathsOf(Canonical(inputs[i])) : i \in DOMAIN inputs}

\* A profile in the simplest of the spellings given.
InSpellings(profile, all) ==
  MapPathLists(profile, LAMBDA paths : {Simplest(p, all) : p \in paths})

Kept(s, paths) == IF s = "intersect" THEN DropUnusableGlobs(paths) ELSE paths

\* An input ready to be merged: its own rules, each in its simplest spelling.
SpelledInput(s, inputs, i, profile) ==
  /\ \A slot \in Slots :
       ListAt(profile, slot) =
         Kept(s, SpelledRules(AllSpellings(inputs), RulesAt(inputs[i], slot)))
  /\ CapsOf(profile) = UpperCaps(CapsOf(inputs[i]))
  /\ ExplicitNet(profile.net) = ExplicitNet(inputs[i].net)

\* What a result is made of.
BuiltFrom(inputs, profile) ==
  /\ PathsOf(profile) \subseteq Spelled(AllSpellings(inputs))
  /\ SeparateLists(profile)
  /\ CapsOf(profile) \subseteq UNION {UpperCaps(CapsOf(inputs[i])) : i \in DOMAIN inputs}

LEMMA AllSpellingsFacts ==
  ASSUME NEW n \in Nat, NEW inputs, DOMAIN inputs = 1..n,
         \A i \in 1..n : inputs[i] \in Profile
  PROVE  /\ AllSpellings(inputs) \in SUBSET Path
         /\ \A i \in 1..n : PathsOf(Canonical(inputs[i])) \subseteq AllSpellings(inputs)
         /\ \A p \in AllSpellings(inputs) : Filtered[p] = p
<1>1. ASSUME NEW p \in AllSpellings(inputs) PROVE p \in Path /\ Filtered[p] = p
  <2>1. PICK i \in 1..n : p \in PathsOf(Canonical(inputs[i]))
    BY DEF AllSpellings
  <2>2. inputs[i] \in Profile
    OBVIOUS
  <2> QED
    BY <2>1, <2>2, CanonicalPaths
<1> QED
  BY <1>1 DEF AllSpellings

\* What the preparation of a call makes of a canonical copy.
LEMMA PreparedSpelling ==
  ASSUME NEW n \in Nat, NEW inputs, DOMAIN inputs = 1..n,
         \A i \in 1..n : inputs[i] \in Profile,
         NEW s \in {"intersect", "union"}, NEW i \in 1..n, NEW profile,
         LET unified == InSpellings(Canonical(inputs[i]), AllSpellings(inputs))
         IN profile = IF s = "intersect" THEN PrepareIntersect(unified) ELSE unified
  PROVE  SpelledInput(s, inputs, i, profile)
<1> DEFINE all == AllSpellings(inputs)
           canonical == Canonical(inputs[i])
           unified == InSpellings(canonical, all)
<1>1. all \in SUBSET Path /\ PathsOf(canonical) \subseteq all
  BY AllSpellingsFacts
<1>2. inputs[i] \in Profile
  OBVIOUS
<1>3. /\ canonical \in Profile
      /\ canonical.net = inputs[i].net
      /\ CapsOf(canonical) = UpperCaps(CapsOf(inputs[i]))
  BY <1>2, CanonicalAt
<1>4. \A slot \in Slots : /\ ListAt(canonical, slot) \in SUBSET all
                          /\ KeysOf(ListAt(canonical, slot)) = RulesAt(inputs[i], slot)
  BY <1>1, <1>2, CanonicalRules, PathsByList
<1>5. profile = IF s = "intersect" THEN PrepareIntersect(unified) ELSE unified
  OBVIOUS
<1> HIDE DEF all, canonical
<1>6. /\ Relisted(canonical, unified,
                  [slot \in Slots |-> SimplestPaths(ListAt(canonical, slot), all)])
      /\ unified \in Profile
  BY <1>1, <1>3, UnifiedRelisted, UnifiedProfile DEF Respelled, InSpellings
<1> HIDE DEF unified
<1>7. ASSUME NEW slot \in Slots
      PROVE  ListAt(unified, slot) = SpelledRules(all, RulesAt(inputs[i], slot))
  <2>1. ListAt(unified, slot) = SimplestPaths(ListAt(canonical, slot), all)
    BY <1>6 DEF Relisted
  <2> QED
    BY <1>1, <1>4, <2>1, SimplestPathsAre
<1>8. /\ CapsOf(unified) = UpperCaps(CapsOf(inputs[i]))
      /\ unified.net = inputs[i].net
  BY <1>3, <1>6 DEF Relisted, CapsOf
<1>9. CASE s = "intersect"
  <2>1. /\ \A slot \in Slots : ListAt(profile, slot) = DropUnusableGlobs(ListAt(unified, slot))
        /\ CapsOf(profile) = CapsOf(unified)
        /\ profile.net = ExplicitNet(unified.net)
    BY <1>5, <1>6, <1>9, PreparedAt
  <2>2. ExplicitNet(profile.net) = ExplicitNet(unified.net)
    BY <1>6, <2>1, ProfileFields, ExplicitOnce
  <2> QED
    BY <1>7, <1>8, <1>9, <2>1, <2>2 DEF SpelledInput, Kept, all
<1>10. CASE s = "union"
  <2>1. profile = unified
    BY <1>5, <1>10
  <2> QED
    BY <1>7, <1>8, <1>10, <2>1 DEF SpelledInput, Kept, all
<1> QED
  BY <1>9, <1>10

\* The rules of a valid input are each in one filesystem list.
LEMMA SeparateRules ==
  ASSUME NEW profile \in Profile, ValidProfile(Canonical(profile))
  PROVE  /\ RulesAt(profile, "ro") \cap RulesAt(profile, "wo") = {}
         /\ RulesAt(profile, "ro") \cap RulesAt(profile, "rw") = {}
         /\ RulesAt(profile, "wo") \cap RulesAt(profile, "rw") = {}
<1>1. "ro" \in Slots /\ "wo" \in Slots /\ "rw" \in Slots
  BY DEF Slots, FsSlots
<1> QED
  BY <1>1, CanonicalRules, ValidByList

LEMMA SpelledIsBuilt ==
  ASSUME NEW n \in Nat, NEW inputs, DOMAIN inputs = 1..n,
         NEW s, NEW i \in 1..n, NEW profile, SpelledInput(s, inputs, i, profile),
         inputs[i] \in Profile, ValidProfile(Canonical(inputs[i]))
  PROVE  BuiltFrom(inputs, profile)
<1> DEFINE all == AllSpellings(inputs)
<1>1. ASSUME NEW slot \in Slots, NEW p \in ListAt(profile, slot)
      PROVE  p \in Spelled(all) /\ Key[p] \in RulesAt(inputs[i], slot)
  BY DEF SpelledInput, SpelledRules, Kept, DropUnusableGlobs
<1> HIDE DEF all
<1>2. PathsOf(profile) \subseteq Spelled(all)
  BY <1>1, PathsByList
<1>3. SeparateLists(profile)
  <2>1. "ro" \in Slots /\ "wo" \in Slots /\ "rw" \in Slots
    BY DEF Slots, FsSlots
  <2> QED
    BY <1>1, <2>1, SeparateRules DEF SeparateLists, Separate
<1>4. CapsOf(profile) \subseteq UNION {UpperCaps(CapsOf(inputs[j])) : j \in DOMAIN inputs}
  BY DEF SpelledInput
<1> QED
  BY <1>2, <1>3, <1>4 DEF BuiltFrom, all

LEMMA MergedIsBuilt ==
  ASSUME NEW inputs, NEW left, NEW right, NEW merged, MergedFrom(left, right, merged),
         BuiltFrom(inputs, left), BuiltFrom(inputs, right)
  PROVE  BuiltFrom(inputs, merged)
<1> DEFINE caps == UNION {UpperCaps(CapsOf(inputs[i])) : i \in DOMAIN inputs}
<1>1. /\ CapsOf(left) \subseteq caps /\ CapsOf(right) \subseteq caps
      /\ CapsOf(merged) \subseteq CapsOf(left) \cup CapsOf(right)
  BY DEF BuiltFrom, MergedFrom
<1> HIDE DEF caps
<1>2. CapsOf(merged) \subseteq caps
  BY <1>1
<1>3. PathsOf(merged) \subseteq Spelled(AllSpellings(inputs)) /\ SeparateLists(merged)
  BY DEF BuiltFrom, MergedFrom
<1> QED
  BY <1>2, <1>3 DEF BuiltFrom, caps

-----------------------------------------------------------------------------
(* Profiles that compare equal *)

\* The rules a comparison reads off a profile.
SameRulesAs(profile, other) ==
  /\ \A slot \in Slots : RulesAt(profile, slot) = RulesAt(other, slot)
  /\ ExplicitNet(profile.net) = ExplicitNet(other.net)
  /\ UpperCaps(CapsOf(profile)) = UpperCaps(CapsOf(other))

LEMMA ExplicitAt ==
  ASSUME NEW profile \in Profile
  PROVE  LET explicit == Explicit(profile) IN
         /\ explicit \in Populated
         /\ \A slot \in Slots : ListAt(explicit, slot) = FilteredPaths(ListAt(profile, slot))
         /\ explicit.caps = UpperCaps(CapsOf(profile))
         /\ explicit.net = ExplicitNet(profile.net)
<1> DEFINE filtered == FilteredLists(profile)
           caps == IF filtered.caps = Nil THEN Nil ELSE UpperCaps(filtered.caps)
           upper == [filtered EXCEPT !.caps = caps]
           explicit == Explicit(profile)
<1>1. explicit = PopulateEmpty(upper)
  BY DEF Explicit, FilteredLists, UpperCaps
<1>2. /\ Relisted(profile, filtered, [slot \in Slots |-> FilteredPaths(ListAt(profile, slot))])
      /\ filtered \in Profile
  BY FilteredRelisted, FilteredProfile DEF FilteredLists, Respelled
<1> HIDE DEF filtered
<1>3. caps \in (SUBSET Capability) \cup {Nil}
  BY <1>2, ProfileFields, UpperAnswers DEF UpperCaps
<1>4. /\ upper \in Profile /\ upper.exec = filtered.exec /\ upper.fs = filtered.fs
      /\ upper.net = filtered.net /\ upper.caps = caps
  <2> HIDE DEF caps
  <2> QED
    BY <1>2, <1>3 DEF Profile
<1>5. filtered.caps = profile.caps /\ filtered.net = profile.net
  BY <1>2 DEF Relisted
<1>6. CapsOf(upper) = UpperCaps(CapsOf(profile))
  <2>1. UpperCaps({}) = {}
    BY DEF UpperCaps
  <2>2. profile.caps # Nil => UpperCaps(profile.caps) # Nil
    <3>1. profile.caps # Nil => UpperCaps(profile.caps) \in SUBSET Capability
      BY ProfileFields, UpperAnswers DEF UpperCaps
    <3> QED
      BY <3>1, NilFacts
  <2> QED
    BY <1>4, <1>5, <2>1, <2>2 DEF CapsOf
<1> HIDE DEF upper, caps, explicit
<1>7. /\ explicit \in Populated
      /\ \A slot \in Slots : ListAt(explicit, slot) = ListAt(upper, slot)
      /\ explicit.caps = CapsOf(upper) /\ explicit.net = ExplicitNet(upper.net)
  BY <1>1, <1>4, PopulatedAt
<1>8. \A slot \in Slots : ListAt(upper, slot) = ListAt(filtered, slot)
  BY <1>4 DEF ListAt
<1>9. \A slot \in Slots : ListAt(filtered, slot) = FilteredPaths(ListAt(profile, slot))
  BY <1>2 DEF Relisted
<1> QED
  BY <1>4, <1>5, <1>6, <1>7, <1>8, <1>9 DEF explicit

LEMMA SameRulesIs ==
  ASSUME NEW a, NEW b
  PROVE  SameRules(Added(a, b)) <=> a = b
  BY DEF SameRules, Added

LEMMA EqualIs ==
  ASSUME NEW profile \in Profile, NEW other \in Profile
  PROVE  Equal(profile, other) <=> SameRulesAs(profile, other)
<1> DEFINE l == Explicit(profile)
           r == Explicit(other)
           diff == Diff(profile, other)
<1>1. diff = [executables |-> PathsDiff(l.exec.exe, r.exec.exe),
              libraries |-> PathsDiff(l.exec.lib, r.exec.lib),
              readOnly |-> PathsDiff(l.fs.ro, r.fs.ro),
              writeOnly |-> PathsDiff(l.fs.wo, r.fs.wo),
              readWrite |-> PathsDiff(l.fs.rw, r.fs.rw),
              network |-> Added({l.net}, {r.net}),
              capabilities |-> Added(l.caps, r.caps)]
  BY DEF Diff
<1>2. Equal(profile, other) <=> \A part \in DOMAIN diff : SameRules(diff[part])
  BY DEF Equal
<1>3. /\ l \in Populated /\ l \in Profile /\ r \in Populated /\ r \in Profile
      /\ \A slot \in Slots : /\ ListAt(l, slot) = FilteredPaths(ListAt(profile, slot))
                             /\ ListAt(r, slot) = FilteredPaths(ListAt(other, slot))
      /\ l.caps = UpperCaps(CapsOf(profile)) /\ r.caps = UpperCaps(CapsOf(other))
      /\ l.net = ExplicitNet(profile.net) /\ r.net = ExplicitNet(other.net)
  BY ExplicitAt, PopulatedFacts
<1> HIDE DEF l, r, diff
<1>4. /\ l.exec # Nil /\ l.fs # Nil /\ r.exec # Nil /\ r.fs # Nil
  BY <1>3, PopulatedFacts
<1>5. /\ l.exec.exe = ListAt(l, "exe") /\ l.exec.lib = ListAt(l, "lib")
      /\ l.fs.ro = ListAt(l, "ro") /\ l.fs.wo = ListAt(l, "wo") /\ l.fs.rw = ListAt(l, "rw")
      /\ r.exec.exe = ListAt(r, "exe") /\ r.exec.lib = ListAt(r, "lib")
      /\ r.fs.ro = ListAt(r, "ro") /\ r.fs.wo = ListAt(r, "wo") /\ r.fs.rw = ListAt(r, "rw")
  BY <1>4, ListAtIs
<1>6. (\A part \in DOMAIN diff : SameRules(diff[part])) <=>
        /\ SameRules(PathsDiff(l.exec.exe, r.exec.exe))
        /\ SameRules(PathsDiff(l.exec.lib, r.exec.lib))
        /\ SameRules(PathsDiff(l.fs.ro, r.fs.ro))
        /\ SameRules(PathsDiff(l.fs.wo, r.fs.wo))
        /\ SameRules(PathsDiff(l.fs.rw, r.fs.rw))
        /\ SameRules(Added({l.net}, {r.net}))
        /\ SameRules(Added(l.caps, r.caps))
  BY <1>1
<1>7. \A a, b : SameRules(PathsDiff(a, b)) <=> KeysOf(a) = KeysOf(b)
  BY SameRulesIs DEF PathsDiff, RuleTexts, KeysOf
<1>8. SameRules(Added({l.net}, {r.net})) <=> l.net = r.net
  <2>1. SameRules(Added({l.net}, {r.net})) <=> {l.net} = {r.net}
    BY SameRulesIs
  <2> QED
    BY <2>1
<1>9. SameRules(Added(l.caps, r.caps)) <=> l.caps = r.caps
  BY SameRulesIs
<1>10. ASSUME NEW slot \in Slots
       PROVE  (KeysOf(ListAt(l, slot)) = KeysOf(ListAt(r, slot)))
                <=> RulesAt(profile, slot) = RulesAt(other, slot)
  BY <1>3 DEF RulesAt
<1>11. (\A slot \in Slots : RulesAt(profile, slot) = RulesAt(other, slot)) <=>
         /\ KeysOf(l.exec.exe) = KeysOf(r.exec.exe) /\ KeysOf(l.exec.lib) = KeysOf(r.exec.lib)
         /\ KeysOf(l.fs.ro) = KeysOf(r.fs.ro) /\ KeysOf(l.fs.wo) = KeysOf(r.fs.wo)
         /\ KeysOf(l.fs.rw) = KeysOf(r.fs.rw)
  BY <1>5, <1>10 DEF Slots, ExecSlots, FsSlots
<1> QED
  BY <1>2, <1>3, <1>6, <1>7, <1>8, <1>9, <1>11 DEF SameRulesAs

AllEqual(inputs) == \A i \in DOMAIN inputs : Equal(inputs[1], inputs[i])

\* Spelled alike, equal inputs are the same.
LEMMA EqualInputsAreSame ==
  ASSUME NEW n \in Nat, NEW inputs, DOMAIN inputs = 1..n,
         \A i \in 1..n : inputs[i] \in Profile, AllEqual(inputs),
         NEW s, NEW first, SpelledInput(s, inputs, 1, first),
         NEW i \in 1..n, NEW profile, SpelledInput(s, inputs, i, profile)
  PROVE  Same(profile, first)
<1>1. inputs[1] \in Profile /\ inputs[i] \in Profile /\ Equal(inputs[1], inputs[i])
  BY DEF AllEqual
<1>2. SameRulesAs(inputs[1], inputs[i])
  BY <1>1, EqualIs
<1> QED
  BY <1>2 DEF SameRulesAs, SpelledInput, Same, SameLists

-----------------------------------------------------------------------------
(* What the steps of a call keep of its inputs and its result *)

Valid(profile) == ValidProfile(Canonical(profile))

InputsInv ==
  /\ \A i \in 1..Len(args) : args[i] \in Profiles[arity]
  /\ pc # "failed" => \A i \in 1..Len(args) : RawPathsValid(args[i])
  /\ pc # "failed" => \A i \in 1..Len(normalized) : Valid(args[i])
  /\ pc = "validate" => \A i \in 1..Len(normalized) : normalized[i] = Canonical(args[i])
  /\ pc \in {"fold", "done"} =>
       \A i \in 1..arity : SpelledInput(strategy, args, i, normalized[i])
  /\ pc = "failed" /\ arity > 0 =>
       \E i \in 1..Len(args) : ~RawPathsValid(args[i]) \/ ~Valid(args[i])

ResultInv ==
  /\ folded = 1 => result = normalized[1]
  /\ folded = 2 => result = MergeTwo(normalized[1], normalized[2])
  /\ folded > 0 => BuiltFrom(args, result)
  /\ folded > 0 /\ AllEqual(args) => Same(result, normalized[1])

RulesInv == MergeInv /\ InputsInv /\ ResultInv

LEMMA RulesInit == Init => RulesInv
  BY MergeInit, CallsAssumption DEF Init, InputsInv, ResultInv, RulesInv

LEMMA InputsRead ==
  ASSUME RulesInv, NEW profile \in Profiles[arity], ReadProfile(profile)
  PROVE  InputsInv'
<1> DEFINE Read == Append(args, profile)
<1>1. arity \in Nat /\ args \in Seq(Profile \cup {Nil}) /\ profile \in Profile \cup {Nil}
  BY CallsAssumption DEF RulesInv, MergeInv, CallInv
<1>2. /\ pc = "read" /\ Len(args) < arity /\ args' = Read
      /\ UNCHANGED <<strategy, arity, normalized>>
      /\ RawPathsValid(profile) => pc' = pc
      /\ ~RawPathsValid(profile) => pc' = "failed"
  BY DEF ReadProfile
<1>3. /\ normalized = <<>>
      /\ \A i \in 1..Len(args) : RawPathsValid(args[i]) /\ args[i] \in Profiles[arity]
  BY <1>2 DEF RulesInv, MergeInv, NormalizedInv, InputsInv
<1>4. /\ Len(Read) = Len(args) + 1 /\ Len(args) \in Nat
      /\ \A i \in 1..Len(args) : Read[i] = args[i]
      /\ Read[Len(args) + 1] = profile
  BY <1>1
<1> HIDE DEF Read
<1>5. \A i \in 1..Len(Read) : i \in 1..Len(args) \/ i = Len(args) + 1
  BY <1>4
<1>6. \A i \in 1..Len(Read) : Read[i] \in Profiles[arity]
  BY <1>3, <1>4, <1>5
<1>7. Len(args) + 1 \in 1..Len(Read)
  BY <1>4
<1>8. CASE RawPathsValid(profile)
  <2>1. \A i \in 1..Len(Read) : RawPathsValid(Read[i])
    BY <1>3, <1>4, <1>5, <1>8
  <2> QED
    BY <1>2, <1>3, <1>6, <1>8, <2>1 DEF InputsInv
<1>9. CASE ~RawPathsValid(profile)
  <2>1. \E i \in 1..Len(Read) : ~RawPathsValid(Read[i])
    BY <1>4, <1>7, <1>9
  <2> QED
    BY <1>2, <1>6, <1>9, <2>1 DEF InputsInv
<1> QED
  BY <1>8, <1>9

LEMMA InputsValidate ==
  ASSUME RulesInv, ValidateNext
  PROVE  InputsInv'
<1> DEFINE k == Len(normalized) + 1
           profile == Canonical(args[k])
<1>1. /\ arity \in Nat /\ Len(args) = arity /\ normalized \in Seq(Profile)
      /\ Len(normalized) < arity /\ pc = "validate"
      /\ \A i \in 1..Len(normalized) : Valid(args[i]) /\ normalized[i] = Canonical(args[i])
      /\ \A i \in 1..Len(args) : RawPathsValid(args[i]) /\ args[i] \in Profiles[arity]
      /\ args \in Seq(Profile \cup {Nil}) /\ \A i \in 1..Len(args) : args[i] # Nil
  BY CallsAssumption
  DEF RulesInv, MergeInv, CallInv, NormalizedInv, InputsInv, ValidateNext
<1>2. /\ UNCHANGED <<strategy, arity, args>>
      /\ \/ /\ Valid(args[k])
            /\ normalized' = Append(normalized, profile) /\ pc' = "validate"
         \/ /\ ~Valid(args[k])
            /\ normalized' = normalized /\ pc' = "failed"
  BY DEF ValidateNext, Valid
<1>3. Len(normalized) \in Nat /\ k \in 1..arity
  BY <1>1
<1>4. args[k] \in Profile
  <2> HIDE DEF k
  <2>1. args[k] \in Profile \cup {Nil} /\ args[k] # Nil
    BY <1>1, <1>3
  <2> QED
    BY <2>1
<1>5. profile \in Profile
  <2> HIDE DEF k
  <2> QED
    BY <1>4, CanonicalAnswers
<1>6. CASE Valid(args[k]) /\ normalized' = Append(normalized, profile) /\ pc' = "validate"
  <2>1. /\ Len(Append(normalized, profile)) = k
        /\ Append(normalized, profile)[k] = profile
        /\ \A i \in 1..Len(normalized) : Append(normalized, profile)[i] = normalized[i]
    BY <1>1, <1>5
  <2>2. \A i \in 1..k : i \in 1..Len(normalized) \/ i = k
    BY <1>3
  <2>3. \A i \in 1..k : Valid(args[i]) /\ normalized'[i] = Canonical(args[i])
    <3> HIDE DEF k
    <3>1. profile = Canonical(args[k])
      OBVIOUS
    <3> HIDE DEF profile
    <3> QED
      BY <1>1, <1>6, <2>1, <2>2, <3>1
  <2>4. Len(normalized') = k
    BY <1>6, <2>1
  <2> HIDE DEF k, profile
  <2>5. (\A i \in 1..Len(normalized) : Valid(args[i]))'
    BY <1>2, <2>3, <2>4 DEF Valid
  <2>6. (\A i \in 1..Len(normalized) : normalized[i] = Canonical(args[i]))'
    BY <1>2, <2>3, <2>4
  <2> QED
    BY <1>1, <1>2, <1>6, <2>5, <2>6 DEF InputsInv
<1>7. CASE ~Valid(args[k]) /\ normalized' = normalized /\ pc' = "failed"
  <2> HIDE DEF k, profile
  <2>1. \E i \in 1..Len(args) : ~Valid(args[i])
    BY <1>1, <1>3, <1>7
  <2>2. (\E i \in 1..Len(args) : ~RawPathsValid(args[i]) \/ ~Valid(args[i]))'
    BY <1>2, <2>1
  <2> QED
    BY <1>1, <1>2, <1>7, <2>2 DEF InputsInv
<1> QED
  BY <1>2, <1>6, <1>7

LEMMA InputsPrepare ==
  ASSUME RulesInv, Prepare
  PROVE  InputsInv'
<1> DEFINE unified == UnifyAliasSpellings(normalized)
           prepared == [i \in DOMAIN normalized |-> Prepared(unified[i])]
           all == AllSpellings(args)
           spelled == UNION {PathsOf(normalized[i]) : i \in DOMAIN normalized}
<1>1. /\ arity \in Nat /\ Len(args) = arity /\ normalized \in Seq(Profile)
      /\ Len(normalized) = arity /\ pc = "validate"
      /\ strategy \in {"intersect", "union"}
      /\ \A i \in 1..Len(normalized) : Valid(args[i]) /\ normalized[i] = Canonical(args[i])
      /\ \A i \in 1..Len(args) : RawPathsValid(args[i]) /\ args[i] \in Profiles[arity]
      /\ args \in Seq(Profile \cup {Nil}) /\ \A i \in 1..Len(args) : args[i] # Nil
  BY CallsAssumption DEF RulesInv, MergeInv, CallInv, NormalizedInv, InputsInv, Prepare
<1>2. /\ UNCHANGED <<strategy, arity, args>>
      /\ pc' = "fold" /\ normalized' = prepared
  BY DEF Prepare
<1>3. /\ DOMAIN args = 1..arity /\ DOMAIN normalized = 1..arity
      /\ \A i \in 1..arity : args[i] \in Profile
  BY <1>1
<1>4. spelled = all
  BY <1>1, <1>3 DEF AllSpellings
<1>5. ASSUME NEW i \in 1..arity PROVE SpelledInput(strategy, args, i, prepared[i])
  <2>1. normalized[i] = Canonical(args[i])
    BY <1>1
  <2>4. unified[i] = InSpellings(normalized[i], spelled)
    BY <1>3 DEF UnifyAliasSpellings, InSpellings
  <2>3. prepared[i] = IF strategy = "intersect" THEN PrepareIntersect(unified[i]) ELSE unified[i]
    BY <1>3 DEF Prepared
  <2> HIDE DEF unified, prepared, spelled
  <2>2. unified[i] = InSpellings(Canonical(args[i]), AllSpellings(args))
    BY <1>4, <2>1, <2>4
  <2> QED
    BY <1>1, <1>3, <2>2, <2>3, PreparedSpelling
<1>6. Len(prepared) = arity
  <2>1. DOMAIN prepared = 1..arity
    BY <1>3
  <2>2. prepared = [i \in 1..arity |-> prepared[i]]
    BY <1>3
  <2> HIDE DEF prepared
  <2> QED
    BY <1>1, <2>2, LenProperties
<1> HIDE DEF prepared
<1>7. \A i \in 1..Len(normalized') : Valid(args[i])
  BY <1>1, <1>2, <1>6
<1>8. (\A i \in 1..arity : SpelledInput(strategy, args, i, normalized[i]))'
  BY <1>2, <1>5
<1> QED
  BY <1>1, <1>2, <1>7, <1>8 DEF InputsInv

LEMMA InputsOther ==
  ASSUME RulesInv, AllRead \/ RejectEmptyCall \/ FoldNext \/ Finish \/ UNCHANGED vars
  PROVE  InputsInv'
<1>1. UNCHANGED <<strategy, arity, args, normalized>>
  BY DEF AllRead, RejectEmptyCall, FoldNext, Finish, vars
<1>2. \/ UNCHANGED pc
      \/ pc = "read" /\ pc' = "validate" /\ normalized = <<>>
      \/ pc' = "failed" /\ arity = 0
      \/ pc = "fold" /\ pc' = "done"
  BY DEF RulesInv, MergeInv, NormalizedInv, AllRead, RejectEmptyCall, FoldNext, Finish, vars
<1>3. \A i \in 1..Len(args) : args[i] \in Profiles[arity]
  BY DEF RulesInv, InputsInv
<1>4. CASE UNCHANGED pc
  BY <1>1, <1>4 DEF RulesInv, InputsInv
<1>5. CASE pc = "read" /\ pc' = "validate" /\ normalized = <<>>
  <2>1. 1..Len(normalized) = {}
    BY <1>5
  <2>2. \A i \in 1..Len(args) : RawPathsValid(args[i])
    BY <1>5 DEF RulesInv, InputsInv
  <2> QED
    BY <1>1, <1>3, <1>5, <2>1, <2>2 DEF InputsInv
<1>6. CASE pc' = "failed" /\ arity = 0
  BY <1>1, <1>3, <1>6 DEF InputsInv
<1>7. CASE pc = "fold" /\ pc' = "done"
  BY <1>1, <1>3, <1>7 DEF RulesInv, InputsInv
<1> QED
  BY <1>2, <1>4, <1>5, <1>6, <1>7

\* What is known once the inputs are prepared.
LEMMA PreparedInputs ==
  ASSUME RulesInv, pc \in {"fold", "done"}
  PROVE  /\ arity \in Nat /\ strategy \in {"intersect", "union"}
         /\ DOMAIN args = 1..arity /\ Len(args) = arity
         /\ \A i \in 1..arity :
              /\ args[i] \in Profile /\ args[i] \in Profiles[arity] /\ Valid(args[i])
              /\ RawPathsValid(args[i])
              /\ SpelledInput(strategy, args, i, normalized[i])
              /\ normalized[i] \in Form(strategy) /\ BuiltFrom(args, normalized[i])
         /\ AllEqual(args) => \A i \in 1..arity : Same(normalized[i], normalized[1])
<1>1. /\ arity \in Nat /\ strategy \in {"intersect", "union"}
      /\ args \in Seq(Profile \cup {Nil}) /\ Len(args) = arity
      /\ \A i \in 1..Len(args) : args[i] # Nil /\ args[i] \in Profiles[arity]
      /\ Len(normalized) = arity
      /\ \A i \in 1..arity : normalized[i] \in Form(strategy)
      /\ \A i \in 1..Len(normalized) : Valid(args[i])
      /\ \A i \in 1..Len(args) : RawPathsValid(args[i])
      /\ \A i \in 1..arity : SpelledInput(strategy, args, i, normalized[i])
  BY CallsAssumption DEF RulesInv, MergeInv, CallInv, NormalizedInv, InputsInv
<1>2. DOMAIN args = 1..arity /\ \A i \in 1..arity : args[i] \in Profile
  BY <1>1
<1>3. ASSUME NEW i \in 1..arity PROVE BuiltFrom(args, normalized[i])
  <2>1. /\ SpelledInput(strategy, args, i, normalized[i])
        /\ args[i] \in Profile /\ ValidProfile(Canonical(args[i]))
    BY <1>1, <1>2 DEF Valid
  <2> QED
    BY <1>1, <1>2, <2>1, SpelledIsBuilt
<1>4. ASSUME AllEqual(args), NEW i \in 1..arity PROVE Same(normalized[i], normalized[1])
  <2>1. 1 \in 1..arity
    BY <1>1
  <2>2. SpelledInput(strategy, args, 1, normalized[1])
    BY <1>1, <2>1
  <2>3. SpelledInput(strategy, args, i, normalized[i])
    BY <1>1
  <2> QED
    BY <1>1, <1>2, <1>4, <2>2, <2>3, EqualInputsAreSame
<1> QED
  BY <1>1, <1>2, <1>3, <1>4

\* An intersection has dropped the patterns that match nothing.
LEMMA KeptIsUsable ==
  ASSUME NEW inputs, NEW i, NEW profile, SpelledInput("intersect", inputs, i, profile),
         NEW other, Same(other, profile)
  PROVE  AllUsable(other)
<1>1. \A paths : DropUnusableGlobs(DropUnusableGlobs(paths)) = DropUnusableGlobs(paths)
  BY DEF DropUnusableGlobs
<1>2. ASSUME NEW slot \in Slots PROVE NoneUnusable(ListAt(other, slot))
  <2>1. ListAt(other, slot) = ListAt(profile, slot)
    BY DEF Same, SameLists
  <2>2. PICK paths : ListAt(profile, slot) = DropUnusableGlobs(paths)
    BY DEF SpelledInput, Kept
  <2> QED
    BY <1>1, <2>1, <2>2 DEF NoneUnusable
<1> QED
  BY <1>2 DEF AllUsable

LEMMA ResultFold ==
  ASSUME RulesInv, FoldNext
  PROVE  ResultInv'
<1> DEFINE k == folded + 1
<1>1. pc = "fold" /\ folded < arity /\ folded \in 0..arity
  BY DEF RulesInv, MergeInv, FoldInv, FoldNext
<1>2. /\ arity \in Nat /\ strategy \in {"intersect", "union"}
      /\ \A i \in 1..arity : /\ normalized[i] \in Form(strategy)
                             /\ BuiltFrom(args, normalized[i])
                             /\ SpelledInput(strategy, args, i, normalized[i])
      /\ AllEqual(args) => \A i \in 1..arity : Same(normalized[i], normalized[1])
  BY <1>1, PreparedInputs
<1>3. k \in 1..arity /\ 1 \in 1..arity
  BY <1>1, <1>2
<1>4. /\ UNCHANGED <<strategy, arity, args, pc, normalized>> /\ folded' = k
      /\ folded = 0 => result' = normalized[1]
      /\ folded # 0 => result' = MergeTwo(result, normalized[k])
  BY DEF FoldNext
<1>5. CASE folded = 0
  <2>1. k = 1 /\ result' = normalized[1]
    BY <1>4, <1>5
  <2>2. BuiltFrom(args, normalized[1])
    BY <1>2, <1>3
  <2>3. Same(normalized[1], normalized[1])
    BY DEF Same, SameLists
  <2> QED
    BY <1>4, <2>1, <2>2, <2>3 DEF ResultInv
<1>6. CASE folded # 0
  <2>1. /\ result \in Form(strategy) /\ BuiltFrom(args, result)
        /\ AllEqual(args) => Same(result, normalized[1])
        /\ folded = 1 => result = normalized[1]
    BY <1>1, <1>6 DEF RulesInv, MergeInv, FoldInv, ResultInv
  <2> HIDE DEF k
  <2>2. normalized[k] \in Form(strategy) /\ BuiltFrom(args, normalized[k])
    BY <1>2, <1>3
  <2>3. /\ MergedFrom(result, normalized[k], MergeTwo(result, normalized[k]))
        /\ /\ Same(result, normalized[k]) /\ SeparateLists(result)
           /\ strategy = "intersect" => AllUsable(result)
           => Same(MergeTwo(result, normalized[k]), result)
    BY <1>2, <2>1, <2>2, MergeTwoListed
  <2>4. BuiltFrom(args, result')
    BY <1>4, <1>6, <2>1, <2>2, <2>3, MergedIsBuilt
  <2>5. ASSUME AllEqual(args) PROVE Same(result', normalized[1])
    <3>1. Same(result, normalized[1]) /\ Same(normalized[k], normalized[1])
      BY <1>2, <1>3, <2>1, <2>5
    <3>2. Same(result, normalized[k])
      BY <3>1 DEF Same, SameLists
    <3>3. SeparateLists(result)
      BY <2>1 DEF BuiltFrom
    <3>4. strategy = "intersect" => AllUsable(result)
      BY <1>2, <1>3, <3>1, KeptIsUsable
    <3>5. Same(result', result)
      BY <1>4, <1>6, <2>3, <3>2, <3>3, <3>4
    <3> QED
      BY <3>1, <3>5 DEF Same, SameLists
  <2>6. folded' = 2 => result' = MergeTwo(normalized[1], normalized[2])
    <3>1. folded' = 2 => folded = 1 /\ k = 2
      BY <1>1, <1>4 DEF k
    <3> QED
      BY <1>4, <1>6, <2>1, <3>1
  <2>7. MergeTwo(normalized[1], normalized[2])' = MergeTwo(normalized[1], normalized[2])
    BY <1>4 DEF MergeTwo
  <2>8. folded' # 1
    BY <1>1, <1>4, <1>6 DEF k
  <2>9. /\ BuiltFrom(args, result)'
        /\ (AllEqual(args) => Same(result, normalized[1]))'
    BY <1>4, <2>4, <2>5
  <2>10. (folded = 2 => result = MergeTwo(normalized[1], normalized[2]))'
    BY <2>6, <2>7
  <2> QED
    BY <2>8, <2>9, <2>10 DEF ResultInv
<1> QED
  BY <1>5, <1>6

LEMMA ResultOther ==
  ASSUME RulesInv, MergeInv',
         \/ \E profile \in Profiles[arity] : ReadProfile(profile)
         \/ AllRead \/ ValidateNext \/ Prepare \/ RejectEmptyCall \/ Finish
         \/ UNCHANGED vars
  PROVE  ResultInv'
<1>1. CASE pc' \in {"read", "validate", "failed"}
  BY <1>1 DEF MergeInv, FoldInv, ResultInv
<1>2. CASE Prepare
  <2>1. folded = 0 /\ folded' = folded
    BY <1>2 DEF RulesInv, MergeInv, FoldInv, Prepare
  <2> QED
    BY <2>1 DEF ResultInv
<1>3. CASE pc' \in {"fold", "done"} /\ ~Prepare
  <2>1. UNCHANGED <<strategy, arity, args, normalized, folded, result>>
    <3>1. ASSUME NEW profile \in Profiles[arity], ReadProfile(profile) PROVE FALSE
      BY <1>3, <3>1 DEF ReadProfile
    <3>2. ~ValidateNext /\ ~AllRead /\ ~RejectEmptyCall
      BY <1>3 DEF ValidateNext, AllRead, RejectEmptyCall
    <3> QED
      BY <1>3, <3>1, <3>2 DEF Finish, vars
  <2>2. MergeTwo(normalized[1], normalized[2])' = MergeTwo(normalized[1], normalized[2])
    BY <2>1 DEF MergeTwo
  <2> QED
    BY <2>1, <2>2 DEF RulesInv, ResultInv
<1>4. pc' \in {"read", "validate", "fold", "done", "failed"}
  BY DEF MergeInv, CallInv
<1> QED
  BY <1>1, <1>2, <1>3, <1>4

LEMMA RulesStep == RulesInv /\ [Next]_vars => RulesInv'
<1>1. SUFFICES ASSUME RulesInv, [Next]_vars PROVE RulesInv'
  OBVIOUS
<1>2. MergeInv'
  BY <1>1, MergeStep DEF RulesInv
<1>3. InputsInv'
  BY <1>1, InputsRead, InputsValidate, InputsPrepare, InputsOther DEF Next, Returned
<1>4. ResultInv'
  <2>1. CASE FoldNext
    BY <1>1, <2>1, ResultFold
  <2>2. CASE ~FoldNext
    BY <1>1, <1>2, <2>2, ResultOther DEF Next, Returned
  <2> QED
    BY <2>1, <2>2
<1> QED
  BY <1>2, <1>3, <1>4 DEF RulesInv

-----------------------------------------------------------------------------
(* What a comparison tells of a merge *)

LEMMA ExplicitAnswers ==
  ASSUME NEW profile \in Profile
  PROVE  AnswersAlike(Explicit(profile), profile)
<1> DEFINE filtered == FilteredLists(profile)
           caps == IF filtered.caps = Nil THEN Nil ELSE {Upper[cap] : cap \in filtered.caps}
<1>1. Explicit(profile) = PopulateEmpty([filtered EXCEPT !.caps = caps])
  BY DEF Explicit, FilteredLists
<1>2. filtered \in Profile /\ AnswersAlike(filtered, profile)
  <2>1. Respelled(profile, filtered)
    BY FilteredProfile DEF FilteredLists
  <2> HIDE DEF filtered
  <2> QED
    BY <2>1, RespelledAnswers DEF Respelled, AnswersAlike
<1> HIDE DEF filtered
<1>3. caps \in (SUBSET Capability) \cup {Nil}
      /\ \A name : CapAnswers(caps, name) <=> CapAnswers(filtered.caps, name)
  BY <1>2, ProfileFields, UpperAnswers
<1> HIDE DEF caps
<1>4. /\ [filtered EXCEPT !.caps = caps] \in Profile
      /\ AnswersAlike([filtered EXCEPT !.caps = caps], filtered)
  BY <1>2, <1>3, OtherCaps
<1>5. AnswersAlike(PopulateEmpty([filtered EXCEPT !.caps = caps]),
                   [filtered EXCEPT !.caps = caps])
  BY <1>4, PopulateEmptyAnswers
<1> QED
  BY <1>1, <1>2, <1>4, <1>5 DEF AnswersAlike

LEMMA SameKeysPermit ==
  ASSUME NEW left \in SUBSET Path, NEW right \in SUBSET Path, KeysOf(left) = KeysOf(right),
         NEW name
  PROVE  Permits(left, name) <=> Permits(right, name)
<1>1. \A p, q \in Path : Key[p] = Key[q] => Matcher[p].covers = Matcher[q].covers
  BY PathAssumption
<1>2. ASSUME NEW a \in SUBSET Path, NEW b \in SUBSET Path, KeysOf(a) \subseteq KeysOf(b),
             Permits(a, name)
      PROVE  Permits(b, name)
  <2>1. PICK p \in a : name \in Matcher[p].covers
    BY <1>2 DEF Permits, Matches
  <2>2. PICK q \in b : Key[q] = Key[p]
    BY <1>2 DEF KeysOf
  <2> QED
    BY <1>1, <2>1, <2>2 DEF Permits, Matches
<1> QED
  BY <1>2

\* Profiles with the same rules permit alike.
LEMMA SameRulesAnswer ==
  ASSUME NEW profile \in Profile, NEW other \in Profile, SameRulesAs(profile, other)
  PROVE  AnswersAlike(profile, other)
<1> DEFINE l == Explicit(profile)
           r == Explicit(other)
<1>1. /\ l \in Populated /\ r \in Populated
      /\ \A slot \in Slots : /\ ListAt(l, slot) = FilteredPaths(ListAt(profile, slot))
                             /\ ListAt(r, slot) = FilteredPaths(ListAt(other, slot))
      /\ l.caps = r.caps /\ l.net = r.net
      /\ AnswersAlike(l, profile) /\ AnswersAlike(r, other)
  BY ExplicitAt, ExplicitAnswers DEF SameRulesAs
<1> HIDE DEF l, r
<1>2. /\ l.exec # Nil /\ l.fs # Nil /\ r.exec # Nil /\ r.fs # Nil
      /\ l \in Profile /\ r \in Profile
  BY <1>1, PopulatedFacts
<1>3. ASSUME NEW slot \in Slots, NEW name
      PROVE  Permits(ListAt(l, slot), name) <=> Permits(ListAt(r, slot), name)
  <2>1. KeysOf(ListAt(l, slot)) = KeysOf(ListAt(r, slot))
    BY <1>1 DEF SameRulesAs, RulesAt
  <2>2. ListAt(l, slot) \in SUBSET Path /\ ListAt(r, slot) \in SUBSET Path
    BY <1>2, ListAtType
  <2> QED
    BY <2>1, <2>2, SameKeysPermit
<1>4. \A name : /\ Permits(l.exec.exe, name) <=> Permits(r.exec.exe, name)
                /\ Permits(l.exec.lib, name) <=> Permits(r.exec.lib, name)
                /\ Permits(l.fs.ro, name) <=> Permits(r.fs.ro, name)
                /\ Permits(l.fs.wo, name) <=> Permits(r.fs.wo, name)
                /\ Permits(l.fs.rw, name) <=> Permits(r.fs.rw, name)
  <2>1. /\ l.exec.exe = ListAt(l, "exe") /\ l.exec.lib = ListAt(l, "lib")
        /\ l.fs.ro = ListAt(l, "ro") /\ l.fs.wo = ListAt(l, "wo") /\ l.fs.rw = ListAt(l, "rw")
        /\ r.exec.exe = ListAt(r, "exe") /\ r.exec.lib = ListAt(r, "lib")
        /\ r.fs.ro = ListAt(r, "ro") /\ r.fs.wo = ListAt(r, "wo") /\ r.fs.rw = ListAt(r, "rw")
    BY <1>2, ListAtIs
  <2>2. /\ "exe" \in Slots /\ "lib" \in Slots /\ "ro" \in Slots /\ "wo" \in Slots
        /\ "rw" \in Slots
    BY DEF Slots, ExecSlots, FsSlots
  <2> QED
    BY <1>3, <2>1, <2>2
<1>5. \A a, b, name : Permits(a \cup b, name) <=> Permits(a, name) \/ Permits(b, name)
  BY DEF Permits
<1>6. ASSUME NEW q \in Question PROVE Answers(l, q) <=> Answers(r, q)
  <2>1. CASE q.about \in {"exe", "lib"}
    BY <1>2, <1>4, <2>1, AnswersBySection
  <2>2. CASE q.about \in {"read", "write"}
    BY <1>2, <1>4, <1>5, <2>2, AnswersBySection
  <2>3. CASE q.about = "capability"
    BY <1>1, <2>3, AnswersBySection
  <2>4. CASE q.about = "network"
    BY <1>1, <2>4, AnswersBySection
  <2> QED
    BY <2>1, <2>2, <2>3, <2>4, QuestionFacts
<1> QED
  BY <1>1, <1>6 DEF AnswersAlike

\* Dropping the patterns that match nothing loses rules where there are any.
LEMMA DroppedRules ==
  ASSUME NEW filtered \in SUBSET Path, NEW spelled \in SUBSET Path,
         KeysOf(spelled) = KeysOf(filtered)
  PROVE  (KeysOf(DropUnusableGlobs(spelled)) = KeysOf(filtered)) <=> NoneUnusable(filtered)
<1>1. \A p, q \in Path : Key[p] = Key[q] => Matcher[p].kind = Matcher[q].kind
  BY PathAssumption
<1>2. \A p : (~IsGlobPattern(p) \/ Usable(p)) <=>
               Matcher[p].kind = "literal" \/ Matcher[p].kind = "glob"
  BY DEF IsGlobPattern, Usable
<1>3. ASSUME NoneUnusable(filtered), NEW p \in spelled PROVE p \in DropUnusableGlobs(spelled)
  <2>1. PICK q \in filtered : Key[q] = Key[p]
    BY DEF KeysOf
  <2>2. Matcher[p].kind = Matcher[q].kind
    BY <1>1, <2>1
  <2>3. q \in DropUnusableGlobs(filtered)
    BY <1>3 DEF NoneUnusable
  <2> QED
    BY <1>2, <2>2, <2>3 DEF DropUnusableGlobs
<1>4. NoneUnusable(filtered) => KeysOf(DropUnusableGlobs(spelled)) = KeysOf(filtered)
  <2>1. NoneUnusable(filtered) => DropUnusableGlobs(spelled) = spelled
    BY <1>3 DEF DropUnusableGlobs
  <2> QED
    BY <2>1
<1>5. ASSUME KeysOf(DropUnusableGlobs(spelled)) = KeysOf(filtered), NEW p \in filtered
      PROVE  p \in DropUnusableGlobs(filtered)
  <2>4. Key[p] \in KeysOf(DropUnusableGlobs(spelled))
    <3>1. Key[p] \in KeysOf(filtered)
      BY <1>5 DEF KeysOf
    <3> QED
      BY <1>5, <3>1
  <2>1. PICK q \in DropUnusableGlobs(spelled) : Key[q] = Key[p]
    BY <2>4 DEF KeysOf
  <2>2. q \in Path
    BY DEF DropUnusableGlobs
  <2>3. Matcher[p].kind = Matcher[q].kind
    BY <1>1, <2>1, <2>2
  <2> QED
    BY <1>2, <2>3 DEF DropUnusableGlobs
<1>6. KeysOf(DropUnusableGlobs(spelled)) = KeysOf(filtered) => NoneUnusable(filtered)
  BY <1>5 DEF NoneUnusable, DropUnusableGlobs
<1> QED
  BY <1>4, <1>6

LEMMA NoUnusableIs ==
  ASSUME NEW profile \in Profile
  PROVE  ~HoldsUnusableGlob(profile) <=>
           \A slot \in Slots : NoneUnusable(FilteredPaths(ListAt(profile, slot)))
<1> DEFINE paths == PathsOf(Explicit(profile))
<1>1. \A p : p \in paths <=> \E slot \in Slots : p \in FilteredPaths(ListAt(profile, slot))
  BY ExplicitAt, PathsByList
<1>2. HoldsUnusableGlob(profile) <=> DropUnusableGlobs(paths) # paths
  BY DEF HoldsUnusableGlob
<1> HIDE DEF paths
<1>3. (DropUnusableGlobs(paths) = paths) <=> \A p \in paths : ~IsGlobPattern(p) \/ Usable(p)
  BY DEF DropUnusableGlobs
<1>4. \A slot \in Slots :
        NoneUnusable(FilteredPaths(ListAt(profile, slot))) <=>
          \A p \in FilteredPaths(ListAt(profile, slot)) : ~IsGlobPattern(p) \/ Usable(p)
  BY DEF NoneUnusable, DropUnusableGlobs
<1> QED
  BY <1>1, <1>2, <1>3, <1>4

\* A profile made of spelled inputs has the rules it lists.
LEMMA BuiltRules ==
  ASSUME NEW n \in Nat, NEW inputs, DOMAIN inputs = 1..n,
         \A i \in 1..n : inputs[i] \in Profile,
         NEW profile, BuiltFrom(inputs, profile), NEW slot \in Slots
  PROVE  RulesAt(profile, slot) = KeysOf(ListAt(profile, slot))
<1>1. \A p \in ListAt(profile, slot) : Filtered[p] = p
  <2>1. SUFFICES ASSUME NEW p \in ListAt(profile, slot) PROVE Filtered[p] = p
    OBVIOUS
  <2>2. p \in Spelled(AllSpellings(inputs))
    BY PathsByList DEF BuiltFrom
  <2>3. p \in AllSpellings(inputs)
    BY <2>2 DEF Spelled
  <2> QED
    BY <2>3, AllSpellingsFacts
<1>2. FilteredPaths(ListAt(profile, slot)) = ListAt(profile, slot)
  BY <1>1 DEF FilteredPaths
<1> QED
  BY <1>2 DEF RulesAt

LEMMA UpperCapsOnce ==
  ASSUME NEW caps \in SUBSET Capability
  PROVE  /\ UpperCaps(UpperCaps(caps)) = UpperCaps(caps)
         /\ \A cap \in UpperCaps(caps) : Upper[cap] = cap
<1>1. \A cap \in UpperCaps(caps) : Upper[cap] = cap
  BY UpperFacts DEF UpperCaps
<1> QED
  BY <1>1 DEF UpperCaps

\* A profile made of what an input is spelled to compares equal to the input,
\* but for the patterns that were dropped.
LEMMA SpelledCompares ==
  ASSUME NEW n \in Nat, NEW inputs, DOMAIN inputs = 1..n,
         \A j \in 1..n : inputs[j] \in Profile,
         NEW s \in {"intersect", "union"}, NEW i \in 1..n,
         NEW profile, SpelledInput(s, inputs, i, profile),
         NEW merged \in Profile, BuiltFrom(inputs, merged), Same(merged, profile)
  PROVE  Equal(inputs[i], merged) <=> (s = "intersect" => ~HoldsUnusableGlob(inputs[i]))
<1> DEFINE all == AllSpellings(inputs)
           input == inputs[i]
<1>1. input \in Profile
  OBVIOUS
<1>2. Equal(input, merged) <=> SameRulesAs(input, merged)
  BY <1>1, EqualIs
<1>3. /\ ExplicitNet(input.net) = ExplicitNet(merged.net)
      /\ CapsOf(merged) = UpperCaps(CapsOf(input))
  BY DEF Same, SameLists, SpelledInput
<1>4. UpperCaps(CapsOf(input)) = UpperCaps(CapsOf(merged))
  BY <1>1, <1>3, ListAtType, UpperCapsOnce
<1>5. all \in SUBSET Path /\ PathsOf(Canonical(input)) \subseteq all
  BY AllSpellingsFacts
<1> HIDE DEF all
<1>6. ASSUME NEW slot \in Slots
      PROVE  /\ RulesAt(merged, slot) = KeysOf(Kept(s, SpelledRules(all, RulesAt(input, slot))))
             /\ KeysOf(SpelledRules(all, RulesAt(input, slot))) = RulesAt(input, slot)
             /\ SpelledRules(all, RulesAt(input, slot)) \in SUBSET Path
  <2>1. RulesAt(merged, slot) = KeysOf(ListAt(merged, slot))
    BY BuiltRules
  <2>2. ListAt(merged, slot) = Kept(s, SpelledRules(all, RulesAt(input, slot)))
    BY DEF Same, SameLists, SpelledInput, all
  <2>3. /\ ListAt(Canonical(input), slot) \in SUBSET all
        /\ KeysOf(ListAt(Canonical(input), slot)) = RulesAt(input, slot)
    BY <1>1, <1>5, CanonicalRules, PathsByList
  <2>4. KeysOf(SpelledRules(all, RulesAt(input, slot))) = RulesAt(input, slot)
    BY <1>5, <2>3, SimplestPathsAre
  <2>5. SpelledRules(all, RulesAt(input, slot)) \in SUBSET Path
    BY <1>5 DEF SpelledRules, Spelled
  <2> QED
    BY <2>1, <2>2, <2>4, <2>5
<1>7. ASSUME NEW slot \in Slots
      PROVE  (RulesAt(input, slot) = RulesAt(merged, slot)) <=>
               (s = "intersect" => NoneUnusable(FilteredPaths(ListAt(input, slot))))
  <2> DEFINE spelled == SpelledRules(all, RulesAt(input, slot))
             filtered == FilteredPaths(ListAt(input, slot))
  <2>1. filtered \in SUBSET Path /\ RulesAt(input, slot) = KeysOf(filtered)
    BY <1>1, ListAtType, FilteredPathsFacts DEF RulesAt
  <2>2. /\ spelled \in SUBSET Path /\ KeysOf(spelled) = KeysOf(filtered)
        /\ RulesAt(merged, slot) = KeysOf(Kept(s, spelled))
    BY <1>6, <2>1
  <2> HIDE DEF spelled, filtered
  <2>3. (KeysOf(DropUnusableGlobs(spelled)) = KeysOf(filtered)) <=> NoneUnusable(filtered)
    BY <2>1, <2>2, DroppedRules
  <2>4. CASE s = "intersect"
    BY <2>1, <2>2, <2>3, <2>4 DEF Kept, filtered
  <2>5. CASE s = "union"
    BY <2>1, <2>2, <2>5 DEF Kept
  <2> QED
    BY <2>4, <2>5
<1>8. ~HoldsUnusableGlob(input) <=>
        \A slot \in Slots : NoneUnusable(FilteredPaths(ListAt(input, slot)))
  BY <1>1, NoUnusableIs
<1>9. SameRulesAs(input, merged) <=>
        \A slot \in Slots : RulesAt(input, slot) = RulesAt(merged, slot)
  BY <1>3, <1>4 DEF SameRulesAs
<1>10. (\E slot : slot \in Slots)
  BY DEF Slots, ExecSlots
<1> QED
  BY <1>2, <1>7, <1>8, <1>9, <1>10

LEMMA DiffTells == RulesInv => DiffTellsWhatMergesChange
<1>1. SUFFICES ASSUME RulesInv, pc = "done", \A i \in 1..arity : Equal(args[1], args[i]),
                      NEW i \in 1..arity
               PROVE  /\ \A q \in Question : Answers(args[1], q) <=> Answers(args[i], q)
                      /\ Equal(args[i], result) <=>
                           (strategy = "intersect" => ~HoldsUnusableGlob(args[i]))
  BY DEF DiffTellsWhatMergesChange
<1>2. /\ arity \in Nat /\ strategy \in {"intersect", "union"}
      /\ DOMAIN args = 1..arity
      /\ \A j \in 1..arity : /\ args[j] \in Profile
                             /\ SpelledInput(strategy, args, j, normalized[j])
      /\ AllEqual(args) => \A j \in 1..arity : Same(normalized[j], normalized[1])
  BY <1>1, PreparedInputs
<1>3. AllEqual(args) /\ 1 \in 1..arity
  BY <1>1, <1>2 DEF AllEqual
<1>4. /\ folded > 0
      /\ result \in Form(strategy) /\ BuiltFrom(args, result) /\ Same(result, normalized[1])
  <2>1. folded = arity /\ arity > 0
    BY <1>1 DEF RulesInv, MergeInv, FoldInv
  <2> QED
    BY <1>1, <1>3, <2>1 DEF RulesInv, MergeInv, FoldInv, ResultInv
<1>5. result \in Profile
  BY <1>2, <1>4, PopulatedFacts DEF Form
<1>6. Same(result, normalized[i])
  <2>1. Same(normalized[i], normalized[1])
    BY <1>1, <1>2, <1>3
  <2> QED
    BY <1>4, <2>1 DEF Same, SameLists
<1>7. Equal(args[i], result) <=> (strategy = "intersect" => ~HoldsUnusableGlob(args[i]))
  BY <1>1, <1>2, <1>4, <1>5, <1>6, SpelledCompares
<1>8. AnswersAlike(args[1], args[i])
  BY <1>1, <1>2, <1>3, EqualIs, SameRulesAnswer
<1> QED
  BY <1>7, <1>8 DEF AnswersAlike

\* Profiles that compare equal permit alike, and a merge of them compares equal
\* to each unless an intersection dropped patterns that match nothing: for any
\* paths and spellings and any number of profiles.
THEOREM DiffTellsTheChange == Spec => []DiffTellsWhatMergesChange
<1>1. Init => RulesInv
  BY RulesInit
<1>2. RulesInv /\ [Next]_vars => RulesInv'
  BY RulesStep
<1>3. RulesInv => DiffTellsWhatMergesChange
  BY DiffTells
<1> QED
  BY <1>1, <1>2, <1>3, PTL DEF Spec

-----------------------------------------------------------------------------
(* What has to survive an intersection *)

\* A literal survives if the other side grants its name: as the literal it has
\* in common with the other side, spelled alike, or through a pattern.
LEMMA LiteralKept ==
  ASSUME NEW mine \in Perms, NEW other \in Perms, NEW all \in SUBSET Path,
         Listed(mine) \subseteq Spelled(all), Listed(other) \subseteq Spelled(all),
         NEW p \in Path, ~IsGlobPattern(p), NEW perm, perm \in mine[p],
         Matcher[p].literal \in Name, GrantsName(other, perm, Matcher[p].literal),
         NEW exceeds, ~exceeds
  PROVE  /\ GrantsName(IntersectPerms(mine, other, exceeds), perm, Matcher[p].literal)
         /\ GrantsName(IntersectPerms(other, mine, exceeds), perm, Matcher[p].literal)
<1> DEFINE name == Matcher[p].literal
<1>1. PICK g \in Path : perm \in other[g] /\ Matches(g, name)
  BY DEF GrantsName
<1>2. Matcher[p].kind = "literal" /\ p \in Listed(mine) /\ g \in Listed(other)
  BY <1>1 DEF IsGlobPattern, Listed
<1>3. \/ perm \in mine[p] \cap other[p]
      \/ perm \in SharedWith(mine, p, other, Covering(other, p))
  <2>1. CASE ~IsGlobPattern(g)
    <3>1. Matcher[g].literal = name /\ Matcher[g].kind = "literal"
      BY <1>1, <2>1, LiteralCovers DEF IsGlobPattern
    <3>2. \A q, r \in Path :
            Matcher[q].kind = "literal" /\ Matcher[r].kind = "literal"
              /\ Matcher[q].literal = Matcher[r].literal => Key[q] = Key[r]
      BY PathAssumption
    <3>3. Key[p] = Key[g]
      BY <1>2, <3>1, <3>2
    <3>4. p = g
      BY <1>2, <3>3, SpelledOnce
    <3> QED
      BY <1>1, <3>4
  <2>2. CASE IsGlobPattern(g)
    <3>1. Usable(g)
      BY <1>1, <2>2, MatcherFacts DEF IsGlobPattern, Usable, Matches, Kinds
    <3>2. StartsWith(name, Matcher[g].prefix)
      BY <1>1, MatcherFacts DEF Matches
    <3>3. g \in Covering(other, p)
      BY <1>1, <1>2, <3>1, <3>2 DEF Covering, Candidates, Globs
    <3> QED
      BY <1>1, <3>3 DEF SharedWith
  <2> QED
    BY <2>1, <2>2
<1>4. /\ perm \in IntersectPerms(mine, other, exceeds)[p]
      /\ perm \in IntersectPerms(other, mine, exceeds)[p]
  BY <1>2, <1>3 DEF IntersectPerms
<1>5. Matches(p, name)
  BY <1>2, MatcherFacts DEF Matches
<1> QED
  BY <1>4, <1>5 DEF GrantsName

LEMMA ListedFs ==
  ASSUME NEW fs \in FsLists
  PROVE  Listed(ExpandFsPerms(fs)) \subseteq fs.ro \cup fs.wo \cup fs.rw
  BY DEF Listed, ExpandFsPerms

\* What a permission map grants, the section it collapses to permits.
LEMMA CollapsedAnswers ==
  ASSUME NEW merged \in Perms, NEW perm \in {"read", "write"}, NEW q \in Question,
         q.about = perm, q.name \in Name, GrantsName(merged, perm, q.name),
         NEW profile \in Populated, profile.fs = CollapseFsPerms(merged)
  PROVE  Answers(profile, q)
<1>1. profile.fs # Nil
  BY PopulatedFacts
<1>2. /\ perm = "read" => Permits(profile.fs.ro \cup profile.fs.rw, q.name)
      /\ perm = "write" => Permits(profile.fs.wo \cup profile.fs.rw, q.name)
  BY CollapsedPerms
<1>3. CASE perm = "read"
  BY <1>1, <1>2, <1>3, AnswersBySection
<1>4. CASE perm = "write"
  BY <1>1, <1>2, <1>4, AnswersBySection
<1> QED
  BY <1>3, <1>4

\* An intersection of two profiles, within its budget, is populated and holds
\* the permissions that both of them do.
LEMMA IntersectedFs ==
  ASSUME NEW left \in Populated, NEW right \in Populated,
         ~ExceedsPairBudget(ExpandFsPerms(left.fs), ExpandFsPerms(right.fs))
  PROVE  LET profile == IntersectProfiles(left, right)
             merged == IntersectPerms(ExpandFsPerms(left.fs), ExpandFsPerms(right.fs), FALSE) IN
         /\ profile \in Populated /\ profile.fs = CollapseFsPerms(merged)
         /\ merged \in Perms
<1> DEFINE l == ExpandFsPerms(left.fs)
           r == ExpandFsPerms(right.fs)
           merged == MergePerms(l, r, TRUE)
           profile == IntersectProfiles(left, right)
<1>1. /\ left.fs # Nil /\ right.fs # Nil /\ left \in Profile /\ right \in Profile
      /\ left.fs \in FsLists /\ right.fs \in FsLists
  BY PopulatedFacts DEF Populated
<1>2. profile.fs = CollapseFsPerms(merged) /\ profile \in Populated
  <2>1. Chosen(left.fs, right.fs, MergedFs(left.fs, right.fs, TRUE), profile.fs)
    BY IntersectSections
  <2> QED
    BY <1>1, <2>1, IntersectionOfTwo DEF Chosen, MergedFs
<1>3. l \in Perms /\ r \in Perms
  BY <1>1, ExpandedPerms
<1>4. merged = IntersectPerms(l, r, FALSE)
  <2>1. merged = IntersectPerms(l, r, ExceedsPairBudget(l, r)) /\ ~ExceedsPairBudget(l, r)
    BY DEF MergePerms
  <2> HIDE DEF l, r, merged
  <2>2. \A exceeds : ~exceeds => IntersectPerms(l, r, exceeds) = IntersectPerms(l, r, FALSE)
    BY DEF IntersectPerms
  <2> QED
    BY <2>1, <2>2
<1> HIDE DEF l, r
<1>5. merged \in Perms
  BY <1>3, MergePermsGrants
<1> QED
  BY <1>2, <1>4, <1>5 DEF l, r

\* Of two inputs prepared to be intersected, one that grants a literal and one
\* that grants its name.
LEMMA LiteralAnswered ==
  ASSUME NEW mine \in Populated, NEW other \in Populated, NEW all \in SUBSET Path,
         PathsOf(mine) \subseteq Spelled(all), PathsOf(other) \subseteq Spelled(all),
         NEW p \in Literals(ExpandFsPerms(mine.fs)), NEW perm \in ExpandFsPerms(mine.fs)[p],
         NEW q \in Question, q.about = perm, q.name = Matcher[p].literal, Answers(other, q)
  PROVE  /\ ~ExceedsPairBudget(ExpandFsPerms(mine.fs), ExpandFsPerms(other.fs)) =>
              Answers(IntersectProfiles(mine, other), q)
         /\ ~ExceedsPairBudget(ExpandFsPerms(other.fs), ExpandFsPerms(mine.fs)) =>
              Answers(IntersectProfiles(other, mine), q)
<1> DEFINE m == ExpandFsPerms(mine.fs)
           o == ExpandFsPerms(other.fs)
<1>1. /\ mine.fs # Nil /\ other.fs # Nil /\ mine \in Profile /\ other \in Profile
      /\ mine.fs \in FsLists /\ other.fs \in FsLists
  BY PopulatedFacts DEF Populated
<1>2. /\ m \in Perms /\ o \in Perms
      /\ Listed(m) \subseteq Spelled(all) /\ Listed(o) \subseteq Spelled(all)
  <2>1. Listed(m) \subseteq PathsOf(mine) /\ Listed(o) \subseteq PathsOf(other)
    BY <1>1, ListedFs, FsPaths
  <2>2. m \in Perms /\ o \in Perms
    BY <1>1, ExpandedPerms
  <2> HIDE DEF m, o
  <2> QED
    BY <2>1, <2>2
<1>3. p \in Path /\ ~IsGlobPattern(p) /\ perm \in m[p]
  BY DEF Literals, Listed
<1>4. perm \in {"read", "write"}
  <2> HIDE DEF m, o
  <2> QED
    BY <1>2, <1>3 DEF Perms, Perm
<1>5. q.name \in Name
  BY <1>4, QuestionFacts
<1>6. GrantsName(o, perm, q.name)
  <2>1. /\ GrantsName(o, "read", q.name) <=> Permits(other.fs.ro \cup other.fs.rw, q.name)
        /\ GrantsName(o, "write", q.name) <=> Permits(other.fs.wo \cup other.fs.rw, q.name)
    BY <1>1, ExpandedPerms
  <2> HIDE DEF m, o
  <2>2. CASE perm = "read"
    BY <2>1, <2>2, AnswersBySection
  <2>3. CASE perm = "write"
    BY <2>1, <2>3, AnswersBySection
  <2> QED
    BY <1>4, <2>2, <2>3
<1> HIDE DEF m, o
<1>7. /\ GrantsName(IntersectPerms(m, o, FALSE), perm, q.name)
      /\ GrantsName(IntersectPerms(o, m, FALSE), perm, q.name)
  BY <1>2, <1>3, <1>5, <1>6, LiteralKept
<1>8. ASSUME ~ExceedsPairBudget(m, o) PROVE Answers(IntersectProfiles(mine, other), q)
  <2>1. /\ IntersectProfiles(mine, other) \in Populated
        /\ IntersectProfiles(mine, other).fs = CollapseFsPerms(IntersectPerms(m, o, FALSE))
        /\ IntersectPerms(m, o, FALSE) \in Perms
    BY <1>8, IntersectedFs DEF m, o
  <2> QED
    BY <1>4, <1>5, <1>7, <2>1, CollapsedAnswers
<1>9. ASSUME ~ExceedsPairBudget(o, m) PROVE Answers(IntersectProfiles(other, mine), q)
  <2>1. /\ IntersectProfiles(other, mine) \in Populated
        /\ IntersectProfiles(other, mine).fs = CollapseFsPerms(IntersectPerms(o, m, FALSE))
        /\ IntersectPerms(o, m, FALSE) \in Perms
    BY <1>9, IntersectedFs DEF m, o
  <2> QED
    BY <1>4, <1>5, <1>7, <2>1, CollapsedAnswers
<1> QED
  BY <1>8, <1>9 DEF m, o

LEMMA SharedLiterals == RulesInv => SharedLiteralsSurvive
<1> DEFINE fs(i) == ExpandFsPerms(normalized[i].fs)
<1>1. SUFFICES ASSUME RulesInv, pc = "done", strategy = "intersect", arity = 2,
                      ~ExceedsPairBudget(fs(1), fs(2)),
                      NEW i \in 1..2, NEW p \in Literals(fs(i)), NEW perm \in fs(i)[p],
                      Answers(args[3 - i], [about |-> perm, name |-> Matcher[p].literal])
               PROVE  Answers(result, [about |-> perm, name |-> Matcher[p].literal])
  BY DEF SharedLiteralsSurvive
<1> DEFINE q == [about |-> perm, name |-> Matcher[p].literal]
           j == 3 - i
           left == normalized[1]
           right == normalized[2]
<1>2. j \in 1..2 /\ (i = 1 => j = 2) /\ (i = 2 => j = 1)
  OBVIOUS
<1>3. /\ DOMAIN args = 1..2
      /\ \A k \in 1..2 : /\ args[k] \in Profile
                         /\ normalized[k] \in Populated /\ BuiltFrom(args, normalized[k])
  BY <1>1, PreparedInputs DEF Form
<1>4. result = IntersectProfiles(left, right)
  <2>1. folded = 2
    BY <1>1 DEF RulesInv, MergeInv, FoldInv
  <2> QED
    BY <1>1, <2>1, MergeTwoIs DEF RulesInv, ResultInv
<1>5. AllSpellings(args) \in SUBSET Path
  BY <1>3, AllSpellingsFacts
<1>6. PathsOf(left) \subseteq Spelled(AllSpellings(args))
      /\ PathsOf(right) \subseteq Spelled(AllSpellings(args))
  BY <1>3 DEF BuiltFrom
<1>7. perm \in {"read", "write"}
  <2>1. normalized[i].fs \in FsLists
    BY <1>3 DEF Populated
  <2>2. fs(i) \in Perms /\ p \in Path
    BY <2>1, ExpandedPerms DEF Literals, Listed
  <2> HIDE DEF fs
  <2> QED
    BY <2>2 DEF Perms, Perm
<1>8. q \in Question
  <2>1. q.about = perm /\ q.name = Matcher[p].literal
    OBVIOUS
  <2>2. args[j] \in Profile
    BY <1>2, <1>3
  <2>3. args[j].fs # Nil /\ \/ Permits(args[j].fs.ro \cup args[j].fs.rw, q.name)
                            \/ Permits(args[j].fs.wo \cup args[j].fs.rw, q.name)
    <3>1. Answers(args[j], q)
      BY <1>1
    <3> HIDE DEF q, j
    <3>2. CASE perm = "read"
      BY <2>1, <3>1, <3>2 DEF Answers
    <3>3. CASE perm = "write"
      BY <2>1, <3>1, <3>3 DEF Answers
    <3> QED
      BY <1>7, <3>2, <3>3
  <2>4. PICK g \in Path : Matches(g, q.name)
    BY <2>2, <2>3, ListsOfProfile DEF Permits
  <2>5. q.name \in Name
    BY <2>4, MatcherFacts DEF Matches
  <2> QED
    BY <1>7, <2>5 DEF Question
<1>9. Answers(normalized[j], q)
  <2>1. AnswersAlike(normalized[j], args[j])
    BY <1>1, <1>2 DEF RulesInv, MergeInv, NormalizedInv
  <2>2. Answers(args[j], q)
    BY <1>1
  <2> HIDE DEF q, j
  <2> QED
    BY <1>8, <2>1, <2>2 DEF AnswersAlike
<1>10. q.about = perm /\ q.name = Matcher[p].literal
  OBVIOUS
<1>11. left \in Populated /\ right \in Populated
  BY <1>3
<1>12. ~ExceedsPairBudget(ExpandFsPerms(left.fs), ExpandFsPerms(right.fs))
  BY <1>1
<1>13. Answers(result, q)
  <2>1. CASE i = 1
    <3>1. normalized[j] = right
      BY <1>2, <2>1
    <3>2. p \in Literals(ExpandFsPerms(left.fs)) /\ perm \in ExpandFsPerms(left.fs)[p]
      BY <1>1, <2>1
    <3> HIDE DEF q, left, right, j, fs
    <3>3. Answers(right, q)
      BY <1>9, <3>1
    <3>4. Answers(IntersectProfiles(left, right), q)
      BY <1>5, <1>6, <1>8, <1>10, <1>11, <1>12, <3>2, <3>3, LiteralAnswered
    <3> QED
      BY <1>4, <3>4
  <2>2. CASE i = 2
    <3>1. normalized[j] = left
      BY <1>2, <2>2
    <3>2. p \in Literals(ExpandFsPerms(right.fs)) /\ perm \in ExpandFsPerms(right.fs)[p]
      BY <1>1, <2>2
    <3> HIDE DEF q, left, right, j, fs
    <3>3. Answers(left, q)
      BY <1>9, <3>1
    <3>4. Answers(IntersectProfiles(left, right), q)
      BY <1>5, <1>6, <1>8, <1>10, <1>11, <1>12, <3>2, <3>3, LiteralAnswered
    <3> QED
      BY <1>4, <3>4
  <2> QED
    BY <2>1, <2>2
<1> QED
  BY <1>13

-----------------------------------------------------------------------------
(* What is made of the artifacts a runtime accepts *)

\* An accepted artifact passes the checks of a merge.
LEMMA AcceptedIsValid ==
  ASSUME NEW profile \in Profile, WellStructured(profile)
  PROVE  RawPathsValid(profile) /\ Valid(profile)
<1> DEFINE filtered == FilteredLists(profile)
           canonical == Canonical(profile)
<1>1. RawPathsValid(profile) /\ ValidProfile(filtered)
  BY DEF WellStructured, FilteredLists
<1>2. /\ \A slot \in Slots : ListAt(filtered, slot) = FilteredPaths(ListAt(profile, slot))
      /\ CapsOf(filtered) = CapsOf(profile)
  BY FilteredRelisted DEF Relisted, CapsOf
<1>3. /\ \A slot \in Slots :
           /\ ListAt(canonical, slot) \subseteq FilteredPaths(ListAt(profile, slot))
           /\ KeysOf(ListAt(canonical, slot)) = KeysOf(FilteredPaths(ListAt(profile, slot)))
      /\ CapsOf(canonical) = UpperCaps(CapsOf(profile))
  BY CanonicalRules, CanonicalAt DEF RulesAt
<1>4. "ro" \in Slots /\ "wo" \in Slots /\ "rw" \in Slots
  BY DEF Slots, FsSlots
<1> HIDE DEF filtered, canonical
<1>5. PathsOf(canonical) \cap Variables = {}
  <2>1. PathsOf(canonical) \subseteq PathsOf(filtered)
    BY <1>2, <1>3, PathsByList
  <2> QED
    BY <1>1, <2>1, ValidByList
<1>6. EmptyCapability \notin CapsOf(canonical)
  <2>1. EmptyCapability \notin CapsOf(profile)
    BY <1>1, <1>2, ValidByList
  <2>2. CapsOf(profile) \in SUBSET Capability
    BY ListAtType
  <2> QED
    BY <1>3, <2>1, <2>2, UpperFacts DEF UpperCaps
<1>7. /\ KeysOf(ListAt(canonical, "ro")) \cap KeysOf(ListAt(canonical, "wo")) = {}
      /\ KeysOf(ListAt(canonical, "ro")) \cap KeysOf(ListAt(canonical, "rw")) = {}
      /\ KeysOf(ListAt(canonical, "wo")) \cap KeysOf(ListAt(canonical, "rw")) = {}
  <2>1. /\ KeysOf(ListAt(filtered, "ro")) \cap KeysOf(ListAt(filtered, "wo")) = {}
        /\ KeysOf(ListAt(filtered, "ro")) \cap KeysOf(ListAt(filtered, "rw")) = {}
        /\ KeysOf(ListAt(filtered, "wo")) \cap KeysOf(ListAt(filtered, "rw")) = {}
    BY <1>1, ValidByList
  <2>2. ASSUME NEW slot \in Slots
        PROVE  KeysOf(ListAt(canonical, slot)) = KeysOf(ListAt(filtered, slot))
    BY <1>2, <1>3
  <2> QED
    BY <1>4, <2>1, <2>2
<1>8. ValidProfile(canonical)
  BY <1>5, <1>6, <1>7, ValidByList
<1> QED
  BY <1>1, <1>8 DEF Valid, canonical

\* A path that cannot be rendered spells its rule only if every input that has
\* the rule spells it so as well.
LEMMA SpelledUnquotable ==
  ASSUME NEW n \in Nat, NEW inputs, DOMAIN inputs = 1..n,
         \A i \in 1..n : inputs[i] \in Profile,
         NEW p \in Spelled(AllSpellings(inputs)), p \in Unquotable,
         NEW i \in 1..n, NEW q \in PathsOf(inputs[i]), Key[Filtered[q]] = Key[p]
  PROVE  Filtered[q] \in Unquotable
<1> DEFINE all == AllSpellings(inputs)
<1>1. all \in SUBSET Path /\ PathsOf(Canonical(inputs[i])) \subseteq all
  BY AllSpellingsFacts
<1>2. PICK slot \in Slots : q \in ListAt(inputs[i], slot)
  BY PathsByList
<1> DEFINE filtered == FilteredPaths(ListAt(inputs[i], slot))
           r == Simplest(Filtered[q], filtered)
<1>3. filtered \in SUBSET Path /\ Filtered[q] \in filtered
  BY <1>2, ListAtType, FilteredPathsFacts DEF FilteredPaths
<1>4. r \in FoldAliasList(filtered)
  BY <1>3 DEF FoldAliasList
<1>5. r \in all
  <2>1. ListAt(Canonical(inputs[i]), slot) = FoldAliasList(filtered)
    BY CanonicalAt
  <2> HIDE DEF filtered, r
  <2>2. r \in PathsOf(Canonical(inputs[i]))
    BY <1>4, <2>1, PathsByList
  <2> QED
    BY <1>1, <2>2
<1> HIDE DEF filtered
<1>6. Key[r] = Key[p] /\ Simpler(r, Filtered[q])
  BY <1>3, SimplestSpelling
<1> HIDE DEF r, all
<1>7. p \in all /\ p = Simplest(p, all)
  BY SimplestByRule DEF Spelled, all
<1>8. Simpler(p, r)
  BY <1>1, <1>5, <1>6, <1>7, SimplestSpelling
<1> QED
  BY <1>6, <1>8 DEF Simpler

\* The spellings of a call are finitely many, and so are the paths of what is
\* built from them.
LEMMA FiniteImage ==
  ASSUME NEW S, IsFiniteSet(S), NEW T, NEW f, \A y \in T : \E x \in S : y = f[x]
  PROVE  IsFiniteSet(T) /\ Cardinality(T) <= Cardinality(S)
<1> DEFINE pre == {x \in S : f[x] \in T}
           g == [x \in pre |-> f[x]]
<1>1. IsFiniteSet(pre) /\ Cardinality(pre) <= Cardinality(S)
  BY FS_Subset
<1>2. g \in Surjection(pre, T)
  BY DEF Surjection
<1> HIDE DEF pre, g
<1>3. IsFiniteSet(T) /\ Cardinality(T) <= Cardinality(pre)
  BY <1>1, <1>2, FS_Surjection
<1>4. Cardinality(T) \in Nat /\ Cardinality(pre) \in Nat /\ Cardinality(S) \in Nat
  BY <1>1, <1>3, FS_CardinalityType
<1> QED
  BY <1>1, <1>3, <1>4

LEMMA FiniteSpellings ==
  ASSUME NEW n \in Nat, NEW inputs, DOMAIN inputs = 1..n,
         \A i \in 1..n : inputs[i] \in Profile /\ IsFiniteSet(PathsOf(inputs[i]))
  PROVE  IsFiniteSet(AllSpellings(inputs))
<1> DEFINE spelled == [i \in 1..n |-> PathsOf(Canonical(inputs[i]))]
           sets == {PathsOf(Canonical(inputs[i])) : i \in 1..n}
<1>1. ASSUME NEW i \in 1..n PROVE IsFiniteSet(PathsOf(Canonical(inputs[i])))
  <2>1. \A p \in PathsOf(Canonical(inputs[i])) : \E q \in PathsOf(inputs[i]) : p = Filtered[q]
    BY CanonicalPaths
  <2> QED
    BY <2>1, FiniteImage
<1>2. IsFiniteSet(1..n)
  BY FS_Interval
<1>3. IsFiniteSet(sets)
  <2>1. \A s \in sets : \E i \in 1..n : s = spelled[i]
    OBVIOUS
  <2> HIDE DEF sets, spelled
  <2> QED
    BY <1>2, <2>1, FiniteImage
<1>4. \A s \in sets : IsFiniteSet(s)
  BY <1>1
<1>5. AllSpellings(inputs) = UNION sets
  BY DEF AllSpellings
<1> HIDE DEF sets
<1> QED
  BY <1>3, <1>4, <1>5, FS_UNION

\* No rule is spelled twice among the simplest spellings.
LEMMA SpelledIsOnce ==
  ASSUME NEW all, NEW paths \in SUBSET Spelled(all), IsFiniteSet(paths)
  PROVE  ~SpellsTwice(paths)
<1> DEFINE simplest == [rule \in KeysOf(paths) |-> SimplestOfRule(rule, all)]
<1>1. IsFiniteSet(KeysOf(paths))
  <2>1. \A rule \in KeysOf(paths) : \E p \in paths : rule = Key[p]
    BY DEF KeysOf
  <2> QED
    BY <2>1, FiniteImage
<1>2. \A p \in paths : \E rule \in KeysOf(paths) : p = simplest[rule]
  <2>1. SUFFICES ASSUME NEW p \in paths PROVE Key[p] \in KeysOf(paths) /\ p = simplest[Key[p]]
    OBVIOUS
  <2>2. Key[p] \in KeysOf(paths)
    BY DEF KeysOf
  <2> QED
    BY <2>2 DEF Spelled
<1> HIDE DEF simplest
<1>3. Cardinality(paths) <= Cardinality(KeysOf(paths))
  BY <1>1, <1>2, FiniteImage
<1>4. Cardinality(paths) \in Nat /\ Cardinality(KeysOf(paths)) \in Nat
  BY <1>1, FS_CardinalityType
<1> QED
  BY <1>3, <1>4 DEF SpellsTwice

\* Where the paths of a result are from.
LEMMA BuiltPaths ==
  ASSUME NEW n \in Nat, NEW inputs, DOMAIN inputs = 1..n,
         \A i \in 1..n : inputs[i] \in Profile,
         NEW profile, BuiltFrom(inputs, profile), NEW p \in PathsOf(profile)
  PROVE  /\ p \in Path /\ Filtered[p] = p
         /\ \E i \in 1..n : /\ p \in PathsOf(Canonical(inputs[i]))
                            /\ \E q \in PathsOf(inputs[i]) : q \in Path /\ p = Filtered[q]
<1>1. p \in AllSpellings(inputs)
  BY DEF BuiltFrom, Spelled
<1>2. PICK i \in 1..n : p \in PathsOf(Canonical(inputs[i]))
  BY <1>1 DEF AllSpellings
<1> QED
  BY <1>2, CanonicalPaths

LEMMA BuiltCaps ==
  ASSUME NEW n \in Nat, NEW inputs, DOMAIN inputs = 1..n,
         \A i \in 1..n : inputs[i] \in Profile,
         NEW profile, BuiltFrom(inputs, profile), NEW cap \in CapsOf(profile)
  PROVE  /\ cap \in Capability /\ Upper[cap] = cap
         /\ \E i \in 1..n : /\ cap \in CapsOf(Canonical(inputs[i]))
                            /\ \E c \in CapsOf(inputs[i]) : c \in Capability /\ cap = Upper[c]
<1>1. PICK i \in 1..n : cap \in UpperCaps(CapsOf(inputs[i]))
  BY DEF BuiltFrom
<1>2. PICK c \in CapsOf(inputs[i]) : cap = Upper[c]
  BY <1>1 DEF UpperCaps
<1>3. c \in Capability
  BY ListAtType
<1>4. cap \in CapsOf(Canonical(inputs[i]))
  BY <1>1, CanonicalAt
<1> QED
  BY <1>2, <1>3, <1>4, UpperFacts

\* A result has each rule in one filesystem list.
LEMMA BuiltSeparately ==
  ASSUME NEW inputs, NEW profile \in Profile, BuiltFrom(inputs, profile)
  PROVE  /\ KeysOf(ListAt(profile, "ro")) \cap KeysOf(ListAt(profile, "wo")) = {}
         /\ KeysOf(ListAt(profile, "ro")) \cap KeysOf(ListAt(profile, "rw")) = {}
         /\ KeysOf(ListAt(profile, "wo")) \cap KeysOf(ListAt(profile, "rw")) = {}
<1> DEFINE all == AllSpellings(inputs)
<1>1. "ro" \in Slots /\ "wo" \in Slots /\ "rw" \in Slots
  BY DEF Slots, FsSlots
<1>2. \A slot \in Slots : ListAt(profile, slot) \subseteq Spelled(all)
  BY PathsByList DEF BuiltFrom
<1>3. \A left, right \in SUBSET Spelled(all) :
        left \cap right = {} => KeysOf(left) \cap KeysOf(right) = {}
  BY SpelledOnce DEF KeysOf
<1>4. /\ ListAt(profile, "ro") \cap ListAt(profile, "wo") = {}
      /\ ListAt(profile, "ro") \cap ListAt(profile, "rw") = {}
      /\ ListAt(profile, "wo") \cap ListAt(profile, "rw") = {}
  BY DEF BuiltFrom, SeparateLists, Separate
<1> HIDE DEF all
<1> QED
  BY <1>1, <1>2, <1>3, <1>4

\* What is made of profiles that load loads.
LEMMA BuiltLoads ==
  ASSUME NEW n \in Nat, NEW inputs, DOMAIN inputs = 1..n,
         \A i \in 1..n : /\ inputs[i] \in Profile /\ IsFiniteSet(PathsOf(inputs[i]))
                         /\ Loads(inputs[i]),
         NEW profile \in Profile, BuiltFrom(inputs, profile)
  PROVE  Loads(profile)
<1> DEFINE all == AllSpellings(inputs)
           filtered == FilteredLists(profile)
<1>1. \A i \in 1..n : WellStructured(inputs[i]) /\ Renderable(inputs[i]) /\ inputs[i] \in Profile
  BY DEF Loads
<1>2. \A i \in 1..n : RawPathsValid(inputs[i]) /\ ValidProfile(Canonical(inputs[i]))
  BY <1>1, AcceptedIsValid DEF Valid
<1>3. ASSUME NEW slot \in Slots
      PROVE  FilteredPaths(ListAt(profile, slot)) = ListAt(profile, slot)
  <2>1. \A p \in ListAt(profile, slot) : Filtered[p] = p
    BY PathsByList, BuiltPaths
  <2> QED
    BY <2>1 DEF FilteredPaths
<1>4. /\ \A slot \in Slots : ListAt(filtered, slot) = ListAt(profile, slot)
      /\ CapsOf(filtered) = CapsOf(profile)
  BY <1>3, FilteredRelisted DEF Relisted, CapsOf
<1>5. RawPathsValid(profile)
  <2>1. ASSUME NEW p \in PathsOf(profile) PROVE p \notin Unreadable
    <3>1. PICK i \in 1..n, q \in Path : q \in PathsOf(inputs[i]) /\ p = Filtered[q]
      BY BuiltPaths
    <3>2. q \notin Unreadable
      BY <1>2, <3>1 DEF RawPathsValid
    <3> QED
      BY <3>1, <3>2, RulesAssumption
  <2> QED
    BY <2>1, NilFacts DEF RawPathsValid
<1>6. ValidProfile(filtered)
  <2> HIDE DEF filtered
  <2>1. PathsOf(filtered) \cap Variables = {}
    <3>1. ASSUME NEW p \in PathsOf(profile) PROVE p \notin Variables
      <4>1. PICK i \in 1..n : p \in PathsOf(Canonical(inputs[i]))
        BY BuiltPaths
      <4> QED
        BY <1>2, <4>1, ValidByList
    <3>2. PathsOf(filtered) \subseteq PathsOf(profile)
      BY <1>4, PathsByList
    <3> QED
      BY <3>1, <3>2
  <2>2. EmptyCapability \notin CapsOf(filtered)
    <3>1. ASSUME NEW cap \in CapsOf(profile) PROVE cap # EmptyCapability
      <4>1. PICK i \in 1..n : cap \in CapsOf(Canonical(inputs[i]))
        BY BuiltCaps
      <4> QED
        BY <1>2, <4>1, ValidByList
    <3> QED
      BY <1>4, <3>1
  <2>3. "ro" \in Slots /\ "wo" \in Slots /\ "rw" \in Slots
    BY DEF Slots, FsSlots
  <2>4. /\ KeysOf(ListAt(filtered, "ro")) \cap KeysOf(ListAt(filtered, "wo")) = {}
        /\ KeysOf(ListAt(filtered, "ro")) \cap KeysOf(ListAt(filtered, "rw")) = {}
        /\ KeysOf(ListAt(filtered, "wo")) \cap KeysOf(ListAt(filtered, "rw")) = {}
    BY <1>4, <2>3, BuiltSeparately
  <2> QED
    BY <2>1, <2>2, <2>4, ValidByList
<1>7. profile.fs # Nil =>
        \A paths \in {profile.fs.ro, profile.fs.wo, profile.fs.rw} :
          ~SpellsTwice(FilteredPaths(paths))
  <2>1. SUFFICES ASSUME NEW slot \in Slots PROVE ~SpellsTwice(FilteredPaths(ListAt(profile, slot)))
    <3>1. "ro" \in Slots /\ "wo" \in Slots /\ "rw" \in Slots
      BY DEF Slots, FsSlots
    <3> QED
      BY <2>1, <3>1, ListAtIs
  <2>2. ListAt(profile, slot) \in SUBSET Spelled(all) /\ Spelled(all) \subseteq all
    BY PathsByList DEF BuiltFrom, Spelled
  <2>3. IsFiniteSet(ListAt(profile, slot))
    BY <2>2, FiniteSpellings, FS_Subset
  <2> HIDE DEF all
  <2>4. ~SpellsTwice(ListAt(profile, slot))
    BY <2>2, <2>3, SpelledIsOnce
  <2> QED
    BY <1>3, <2>4
<1>8. profile.caps # Nil => {Upper[cap] : cap \in profile.caps} = profile.caps
  <2>1. \A cap \in CapsOf(profile) : Upper[cap] = cap
    BY BuiltCaps
  <2> QED
    BY <2>1 DEF CapsOf
<1>9. WellStructured(profile)
  BY <1>5, <1>6, <1>7, <1>8 DEF WellStructured, FilteredLists, FilteredPaths
<1>10. PathsOf(profile) \cap (Relative \cup Unquotable \cup Unmatched) = {}
  <2>1. SUFFICES ASSUME NEW p \in PathsOf(profile)
                 PROVE  p \notin Relative /\ p \notin Unquotable /\ p \notin Unmatched
    OBVIOUS
  <2>2. PICK i \in 1..n, q \in Path : q \in PathsOf(inputs[i]) /\ p = Filtered[q]
    BY BuiltPaths
  <2>3. q \notin Relative /\ q \notin Unquotable /\ q \notin Unmatched
    BY <1>1, <2>2 DEF Renderable
  <2> QED
    BY <2>2, <2>3, PathAssumption, ArtifactAssumption
<1>11. \A p \in PathsOf(profile) : IsGlobPattern(Filtered[p]) => Usable(Filtered[p])
  <2>1. SUFFICES ASSUME NEW p \in PathsOf(profile) PROVE IsGlobPattern(p) => Usable(p)
    BY BuiltPaths
  <2>2. PICK i \in 1..n, q \in Path : q \in PathsOf(inputs[i]) /\ p = Filtered[q]
    BY BuiltPaths
  <2> QED
    BY <1>1, <2>2 DEF Renderable
<1>12. profile.caps # Nil => profile.caps \subseteq CapabilityWord
  <2>1. ASSUME NEW cap \in CapsOf(profile) PROVE cap \in CapabilityWord
    <3>1. PICK i \in 1..n, c \in Capability : c \in CapsOf(inputs[i]) /\ cap = Upper[c]
      BY BuiltCaps
    <3>2. c \in CapabilityWord
      BY <1>1, <3>1 DEF Renderable, CapsOf
    <3> QED
      BY <3>1, <3>2, ArtifactAssumption
  <2> QED
    BY <2>1 DEF CapsOf
<1>13. Renderable(profile)
  BY <1>10, <1>11, <1>12 DEF Renderable
<1> QED
  BY <1>9, <1>13 DEF Loads

FsPathsOf(profile) ==
  IF profile.fs = Nil THEN {} ELSE profile.fs.ro \cup profile.fs.wo \cup profile.fs.rw

LEMMA UnionCount ==
  ASSUME NEW A, NEW B, NEW C, IsFiniteSet(A), IsFiniteSet(B), IsFiniteSet(C)
  PROVE  /\ IsFiniteSet(A \cup B \cup C)
         /\ Cardinality(A \cup B \cup C) <= Cardinality(A) + Cardinality(B) + Cardinality(C)
<1>1. /\ IsFiniteSet(A \cup B)
      /\ Cardinality(A \cup B) = Cardinality(A) + Cardinality(B) - Cardinality(A \cap B)
      /\ IsFiniteSet(A \cap B)
  BY FS_Union, FS_Intersection
<1>2. /\ IsFiniteSet((A \cup B) \cup C)
      /\ Cardinality((A \cup B) \cup C)
           = Cardinality(A \cup B) + Cardinality(C) - Cardinality((A \cup B) \cap C)
      /\ IsFiniteSet((A \cup B) \cap C)
  BY <1>1, FS_Union, FS_Intersection
<1>3. /\ Cardinality(A) \in Nat /\ Cardinality(B) \in Nat /\ Cardinality(C) \in Nat
      /\ Cardinality(A \cap B) \in Nat /\ Cardinality((A \cup B) \cap C) \in Nat
  BY <1>1, <1>2, FS_CardinalityType
<1> QED
  BY <1>1, <1>2, <1>3

\* An accepted artifact has few filesystem paths.
LEMMA FewPaths ==
  ASSUME NEW profile \in Profile, FewEnough(profile), IsFiniteSet(PathsOf(profile))
  PROVE  /\ IsFiniteSet(FsPathsOf(profile))
         /\ Cardinality(FsPathsOf(profile)) <= MaxArtifactPaths
<1> DEFINE exec == IF profile.exec = Nil THEN 0
                   ELSE Cardinality(profile.exec.exe) + Cardinality(profile.exec.lib)
           fs == IF profile.fs = Nil THEN 0
                 ELSE Cardinality(profile.fs.ro) + Cardinality(profile.fs.wo)
                        + Cardinality(profile.fs.rw)
<1>1. exec + fs <= MaxArtifactPaths
  BY DEF FewEnough
<1>2. /\ profile.exec # Nil => /\ profile.exec.exe \subseteq PathsOf(profile)
                               /\ profile.exec.lib \subseteq PathsOf(profile)
      /\ profile.fs # Nil => /\ profile.fs.ro \subseteq PathsOf(profile)
                             /\ profile.fs.wo \subseteq PathsOf(profile)
                             /\ profile.fs.rw \subseteq PathsOf(profile)
  BY DEF PathsOf, PathListsOf
<1>3. \A paths \in SUBSET PathsOf(profile) : IsFiniteSet(paths) /\ Cardinality(paths) \in Nat
  BY FS_Subset, FS_CardinalityType
<1>4. exec \in Nat
  <2>1. CASE profile.exec = Nil
    BY <2>1
  <2>2. CASE profile.exec # Nil
    <3>1. Cardinality(profile.exec.exe) \in Nat /\ Cardinality(profile.exec.lib) \in Nat
      BY <1>2, <1>3, <2>2
    <3> QED
      BY <2>2, <3>1
  <2> QED
    BY <2>1, <2>2
<1>5. MaxArtifactPaths \in Nat
  BY ArtifactAssumption
<1> HIDE DEF exec
<1>6. CASE profile.fs = Nil
  BY <1>1, <1>4, <1>5, <1>6, FS_EmptySet DEF FsPathsOf
<1>7. CASE profile.fs # Nil
  <2>1. /\ IsFiniteSet(profile.fs.ro) /\ IsFiniteSet(profile.fs.wo) /\ IsFiniteSet(profile.fs.rw)
        /\ Cardinality(profile.fs.ro) \in Nat /\ Cardinality(profile.fs.wo) \in Nat
        /\ Cardinality(profile.fs.rw) \in Nat
    BY <1>2, <1>3, <1>7
  <2>2. fs <= MaxArtifactPaths /\ fs = Cardinality(profile.fs.ro) + Cardinality(profile.fs.wo)
                                         + Cardinality(profile.fs.rw)
    BY <1>1, <1>4, <1>5, <1>7, <2>1
  <2>3. /\ FsPathsOf(profile) = profile.fs.ro \cup profile.fs.wo \cup profile.fs.rw
        /\ IsFiniteSet(FsPathsOf(profile))
        /\ Cardinality(FsPathsOf(profile)) <= fs
    BY <1>7, <2>1, <2>2, UnionCount DEF FsPathsOf
  <2>4. Cardinality(FsPathsOf(profile)) \in Nat
    BY <2>3, FS_CardinalityType
  <2> QED
    BY <1>5, <2>1, <2>2, <2>3, <2>4
<1> QED
  BY <1>6, <1>7

\* An input prepared to be merged lists no more paths than it did.
LEMMA PreparedCount ==
  ASSUME NEW n \in Nat, NEW inputs, DOMAIN inputs = 1..n,
         \A j \in 1..n : inputs[j] \in Profile,
         NEW s, NEW i \in 1..n, NEW profile \in Profile,
         SpelledInput(s, inputs, i, profile),
         IsFiniteSet(FsPathsOf(inputs[i]))
  PROVE  LET perms == ExpandFsPerms(PopulateEmpty(profile).fs) IN
         /\ IsFiniteSet(Literals(perms)) /\ IsFiniteSet(Globs(perms))
         /\ Cardinality(Literals(perms)) + Cardinality(Globs(perms))
              <= Cardinality(FsPathsOf(inputs[i]))
<1> DEFINE full == PopulateEmpty(profile)
           perms == ExpandFsPerms(full.fs)
           all == AllSpellings(inputs)
           spelling == [q \in FsPathsOf(inputs[i]) |-> SimplestOfRule(Key[Filtered[q]], all)]
           both == Literals(perms) \cup Globs(perms)
<1>1. /\ full \in Profile /\ full.fs # Nil
      /\ \A slot \in Slots : ListAt(full, slot) = ListAt(profile, slot)
  BY PopulatedAt, PopulatedFacts
<1>2. both \subseteq ListAt(profile, "ro") \cup ListAt(profile, "wo") \cup ListAt(profile, "rw")
  <2>1. full.fs \in FsLists /\ ListAt(full, "ro") = full.fs.ro /\ ListAt(full, "wo") = full.fs.wo
        /\ ListAt(full, "rw") = full.fs.rw
    BY <1>1, FsPaths
  <2>2. "ro" \in Slots /\ "wo" \in Slots /\ "rw" \in Slots
    BY DEF Slots, FsSlots
  <2> HIDE DEF full
  <2>3. Listed(perms) \subseteq full.fs.ro \cup full.fs.wo \cup full.fs.rw
    BY <2>1, ListedFs
  <2> QED
    BY <1>1, <2>1, <2>2, <2>3 DEF Literals, Globs
<1>3. ASSUME NEW slot \in FsSlots, NEW p \in ListAt(profile, slot)
      PROVE  \E q \in FsPathsOf(inputs[i]) : p = spelling[q]
  <2>1. slot \in Slots
    BY DEF Slots
  <2>2. p \in SpelledRules(all, RulesAt(inputs[i], slot))
    BY <2>1 DEF SpelledInput, Kept, DropUnusableGlobs
  <2>3. PICK q \in ListAt(inputs[i], slot) : Key[p] = Key[Filtered[q]]
    BY <2>2 DEF SpelledRules, RulesAt, KeysOf, FilteredPaths
  <2>4. q \in FsPathsOf(inputs[i])
    BY <2>3, ListAtIs DEF FsSlots, FsPathsOf
  <2>5. p = SimplestOfRule(Key[p], all)
    BY <2>2 DEF SpelledRules, Spelled
  <2> QED
    BY <2>3, <2>4, <2>5
<1>4. \A p \in both : \E q \in FsPathsOf(inputs[i]) : p = spelling[q]
  BY <1>2, <1>3 DEF FsSlots
<1>5. Literals(perms) \cap Globs(perms) = {}
  BY DEF Literals, Globs, IsGlobPattern, Usable
<1>6. Literals(perms) \subseteq both /\ Globs(perms) \subseteq both
  OBVIOUS
<1> DEFINE literals == Literals(perms)
           globs == Globs(perms)
<1>7. both = literals \cup globs
  OBVIOUS
<1> HIDE DEF spelling, both, full, literals, globs
<1>8. IsFiniteSet(both) /\ Cardinality(both) <= Cardinality(FsPathsOf(inputs[i]))
  BY <1>4, FiniteImage
<1>9. IsFiniteSet(literals) /\ IsFiniteSet(globs)
  BY <1>7, <1>8, FS_Subset
<1>10. Cardinality(both) = Cardinality(literals) + Cardinality(globs)
  <2>1. literals \cap globs = {}
    BY <1>5 DEF literals, globs
  <2>2. Cardinality(literals \cup globs)
          = Cardinality(literals) + Cardinality(globs) - Cardinality(literals \cap globs)
    BY <1>9, FS_Union
  <2>3. Cardinality(literals \cap globs) = 0
    BY <2>1, FS_EmptySet
  <2>4. Cardinality(literals) \in Nat /\ Cardinality(globs) \in Nat
    BY <1>9, FS_CardinalityType
  <2> QED
    BY <1>7, <2>2, <2>3, <2>4
<1> QED
  BY <1>8, <1>9, <1>10 DEF literals, globs, full

\* Two sides of few paths make few pairs.
LEMMA FewPairs ==
  ASSUME NEW a \in Nat, NEW b \in Nat, NEW c \in Nat, NEW d \in Nat, NEW max \in Nat,
         a + b <= max, c + d <= max
  PROVE  PairCost(a, b, c, d) <= max * max
<1>1. (a + b) * (c + d) <= max * max
  <2>1. \A x, y, z \in Nat : x <= y => x * z <= y * z /\ z * x <= z * y
    OBVIOUS
  <2>2. (a + b) * (c + d) <= max * (c + d)
    BY <2>1
  <2>3. max * (c + d) <= max * max
    BY <2>1
  <2> QED
    BY <2>2, <2>3
<1>2. PairCost(a, b, c, d) <= (a + b) * (c + d)
  <2>1. (a + b) * (c + d) = a * c + a * d + b * c + b * d
    OBVIOUS
  <2>2. c * b = b * c /\ a * c \in Nat /\ a * d \in Nat /\ b * c \in Nat /\ b * d \in Nat
    OBVIOUS
  <2> QED
    BY <2>1, <2>2 DEF PairCost
<1>3. PairCost(a, b, c, d) \in Nat
  BY DEF PairCost
<1> QED
  BY <1>1, <1>2, <1>3

\* Two accepted artifacts are merged within the budget of pairs.
LEMMA ArtifactsFit ==
  ASSUME NEW inputs, DOMAIN inputs = 1..2, NEW s, NEW profiles,
         \A i \in 1..2 : /\ inputs[i] \in Profile /\ IsFiniteSet(PathsOf(inputs[i]))
                         /\ FewEnough(inputs[i])
                         /\ profiles[i] \in Profile /\ SpelledInput(s, inputs, i, profiles[i])
  PROVE  ~ExceedsPairs(ExpandFsPerms(PopulateEmpty(profiles[1]).fs),
                       ExpandFsPerms(PopulateEmpty(profiles[2]).fs))
<1> DEFINE perms(i) == ExpandFsPerms(PopulateEmpty(profiles[i]).fs)
           literals(i) == Cardinality(Literals(perms(i)))
           globs(i) == Cardinality(Globs(perms(i)))
<1>1. /\ MaxArtifactPaths \in Nat /\ MaxMergePathPairs \in Nat
      /\ MaxArtifactPaths * MaxArtifactPaths <= MaxMergePathPairs
  BY ArtifactAssumption
<1>2. ASSUME NEW i \in 1..2
      PROVE  literals(i) \in Nat /\ globs(i) \in Nat /\ literals(i) + globs(i) <= MaxArtifactPaths
  <2>1. /\ IsFiniteSet(FsPathsOf(inputs[i]))
        /\ Cardinality(FsPathsOf(inputs[i])) <= MaxArtifactPaths
        /\ Cardinality(FsPathsOf(inputs[i])) \in Nat
    BY FewPaths, FS_CardinalityType
  <2>2. 2 \in Nat /\ i \in 1..2
    OBVIOUS
  <2>3. /\ IsFiniteSet(Literals(perms(i))) /\ IsFiniteSet(Globs(perms(i)))
        /\ literals(i) + globs(i) <= Cardinality(FsPathsOf(inputs[i]))
    BY <2>1, <2>2, PreparedCount
  <2>4. literals(i) \in Nat /\ globs(i) \in Nat
    BY <2>3, FS_CardinalityType
  <2> HIDE DEF literals, globs
  <2> QED
    BY <1>1, <2>1, <2>3, <2>4
<1>3. PairCost(literals(1), globs(1), literals(2), globs(2)) <= MaxMergePathPairs
  <2> HIDE DEF literals, globs
  <2>1. /\ literals(1) \in Nat /\ globs(1) \in Nat /\ literals(1) + globs(1) <= MaxArtifactPaths
        /\ literals(2) \in Nat /\ globs(2) \in Nat /\ literals(2) + globs(2) <= MaxArtifactPaths
    BY <1>2
  <2>2. PairCost(literals(1), globs(1), literals(2), globs(2))
          <= MaxArtifactPaths * MaxArtifactPaths
    BY <1>1, <2>1, FewPairs
  <2>3. PairCost(literals(1), globs(1), literals(2), globs(2)) \in Nat
    BY <2>1 DEF PairCost
  <2>4. MaxArtifactPaths * MaxArtifactPaths \in Nat
    BY <1>1
  <2> QED
    BY <1>1, <2>2, <2>3, <2>4
<1>4. PairCost(literals(1), globs(1), literals(2), globs(2)) \in Nat
  BY <1>2 DEF PairCost
<1> QED
  BY <1>1, <1>3, <1>4 DEF ExceedsPairs

LEMMA ArtifactsLoad == RulesInv => ArtifactsStayLoadable
<1> DEFINE accepted == \A i \in DOMAIN args : AcceptsArtifact(args[i])
<1>1. SUFFICES ASSUME RulesInv PROVE ArtifactsStayLoadable
  OBVIOUS
<1>2. /\ arity \in Nat /\ arity \in Arities /\ args \in Seq(Profile \cup {Nil})
      /\ DOMAIN args = 1..Len(args)
  BY <1>1, CallsAssumption DEF RulesInv, MergeInv, CallInv
<1>3. pc = "failed" /\ arity > 0 => ~accepted
  <2>1. SUFFICES ASSUME pc = "failed", arity > 0, accepted PROVE FALSE
    OBVIOUS
  <2>2. PICK i \in 1..Len(args) : ~RawPathsValid(args[i]) \/ ~Valid(args[i])
    BY <1>1, <2>1 DEF RulesInv, InputsInv
  <2>3. AcceptsArtifact(args[i])
    BY <1>2, <2>1
  <2>4. args[i] \in Profile /\ WellStructured(args[i])
    BY <1>2, <2>3 DEF AcceptsArtifact, Loads
  <2> QED
    BY <2>2, <2>4, AcceptedIsValid
<1>4. ASSUME pc = "done"
      PROVE  /\ accepted => Loads(result)
             /\ accepted /\ arity = 2 =>
                  ~ExceedsPairs(ExpandFsPerms(PopulateEmpty(normalized[1]).fs),
                                ExpandFsPerms(PopulateEmpty(normalized[2]).fs))
             /\ \A p \in PathsOf(result) \cap Unquotable, i \in 1..arity :
                  \A q \in PathsOf(args[i]) :
                    Key[Filtered[q]] = Key[p] => Filtered[q] \in Unquotable
  <2>1. /\ DOMAIN args = 1..arity /\ strategy \in {"intersect", "union"}
        /\ \A i \in 1..arity : /\ args[i] \in Profile /\ args[i] \in Profiles[arity]
                               /\ SpelledInput(strategy, args, i, normalized[i])
                               /\ normalized[i] \in Form(strategy)
    BY <1>1, <1>4, PreparedInputs
  <2>2. folded > 0
    BY <1>1, <1>4, <1>2 DEF RulesInv, MergeInv, FoldInv
  <2>3. result \in Form(strategy) /\ BuiltFrom(args, result)
    BY <1>1, <2>2 DEF RulesInv, MergeInv, FoldInv, ResultInv
  <2>4. \A profile \in Form(strategy) : profile \in Profile
    BY PopulatedFacts DEF Form
  <2>5. \A i \in 1..arity : IsFiniteSet(PathsOf(args[i]))
    BY <1>2, <2>1, NilFacts, ArtifactAssumption
  <2>6. accepted => \A i \in 1..arity : FewEnough(args[i]) /\ Loads(args[i])
    BY <2>1 DEF AcceptsArtifact
  <2> HIDE DEF accepted
  <2>7. accepted => Loads(result)
    BY <1>2, <2>1, <2>3, <2>4, <2>5, <2>6, BuiltLoads
  <2>8. accepted /\ arity = 2 =>
          ~ExceedsPairs(ExpandFsPerms(PopulateEmpty(normalized[1]).fs),
                        ExpandFsPerms(PopulateEmpty(normalized[2]).fs))
    BY <2>1, <2>4, <2>5, <2>6, ArtifactsFit
  <2>9. \A p \in PathsOf(result) \cap Unquotable, i \in 1..arity :
          \A q \in PathsOf(args[i]) :
            Key[Filtered[q]] = Key[p] => Filtered[q] \in Unquotable
    <3>1. SUFFICES ASSUME NEW p \in PathsOf(result), p \in Unquotable, NEW i \in 1..arity,
                          NEW q \in PathsOf(args[i]), Key[Filtered[q]] = Key[p]
                   PROVE  Filtered[q] \in Unquotable
      OBVIOUS
    <3>2. p \in Spelled(AllSpellings(args))
      BY <2>3 DEF BuiltFrom
    <3> QED
      BY <1>2, <2>1, <3>1, <3>2, SpelledUnquotable
  <2> QED
    BY <2>7, <2>8, <2>9
<1> QED
  BY <1>3, <1>4 DEF ArtifactsStayLoadable

\* Whatever paths, patterns and sizes: what both sides of an intersection have
\* survives it, and merges of artifacts that are accepted load.
THEOREM RulesSurviveMerges == Spec => []RulesSurvive
<1>1. Init => RulesInv
  BY RulesInit
<1>2. RulesInv /\ [Next]_vars => RulesInv'
  BY RulesStep
<1>3. RulesInv => RulesSurvive
  BY SharedLiterals, ArtifactsLoad DEF RulesSurvive
<1> QED
  BY <1>1, <1>2, <1>3, PTL DEF Spec
==============================================================================
