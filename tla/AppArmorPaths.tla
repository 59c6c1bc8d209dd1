---------------------------- MODULE AppArmorPaths ----------------------------
(***************************************************************************)
(* The paths of AppArmor profiles as the merge sees them: literal names,   *)
(* glob patterns with the names they cover, spellings of one rule, and the *)
(* merge of two permission maps.  Names and prefixes are split behind      *)
(* every slash, so that a directory prefix of a name is an initial segment *)
(* of it.                                                                  *)
(***************************************************************************)
EXTENDS Integers, Sequences, FiniteSetsExt

CONSTANTS
  Path,           \* the spellings profiles use
  Name,           \* the canonical names the kernel asks about
  Matcher,        \* what matcherFor finds in a path
  Key,            \* the rule a path spells
  Filtered,       \* the path with its slash runs filtered
  Unquotable,     \* those a consumer cannot write into a rule as they are
  Length,
  Rank,           \* spellings of one rule and one length by text
  MaxMergePathPairs, MaxMergePathWork

StartsWith(name, prefix) ==
  /\ Len(prefix) <= Len(name)
  /\ \A i \in 1..Len(prefix) : name[i] = prefix[i]

Kinds == {"literal", "glob", "unusable"}

\* A pattern covers only names its literal prefix starts.  "<prefix>**" covers
\* all of them but the prefix itself.  Spellings of one rule cover the same, and
\* a literal's rule is the name it denotes.  Filtering a path twice changes no
\* more than filtering it once, and adds no character to it.
ASSUME PathAssumption ==
  /\ Name \subseteq Seq(STRING)
  /\ \A p \in Path :
       /\ Matcher[p].kind \in Kinds
       /\ Matcher[p].prefix \in Seq(STRING)
       /\ Matcher[p].starStar \in BOOLEAN
       /\ Matcher[p].doubleSlash \in BOOLEAN
       /\ Matcher[p].covers \subseteq Name
       /\ \A name \in Matcher[p].covers : StartsWith(name, Matcher[p].prefix)
       /\ Matcher[p].kind = "literal" =>
            Matcher[p].covers = {Matcher[p].literal} \cap Name
       /\ Matcher[p].kind = "unusable" => Matcher[p].covers = {}
       /\ Matcher[p].starStar =>
            /\ Matcher[p].kind = "glob"
            /\ Matcher[p].covers = {name \in Name : StartsWith(name, Matcher[p].prefix)
                                                      /\ name # Matcher[p].prefix}
       /\ Filtered[p] \in Path
       /\ Matcher[Filtered[p]].covers = Matcher[p].covers
       /\ Filtered[Filtered[p]] = Filtered[p]
       /\ Filtered[p] \in Unquotable => p \in Unquotable
       /\ Length[p] \in Nat /\ Rank[p] \in Nat
  /\ Unquotable \subseteq Path
  /\ \A p, q \in Path :
       Key[p] = Key[q] => /\ Matcher[p].covers = Matcher[q].covers
                          /\ Matcher[p].kind = Matcher[q].kind
                          /\ Length[p] = Length[q] /\ Rank[p] = Rank[q] => p = q
  /\ \A p, q \in Path :
       Matcher[p].kind = "literal" /\ Matcher[q].kind = "literal"
         /\ Matcher[p].literal = Matcher[q].literal => Key[p] = Key[q]

IsGlobPattern(p) == Matcher[p].kind # "literal"
Usable(p) == Matcher[p].kind = "glob"
Matches(p, name) == name \in Matcher[p].covers

-----------------------------------------------------------------------------
(* Spellings *)

Shorter(p, q) ==
  Length[p] < Length[q] \/ (Length[p] = Length[q] /\ Rank[p] <= Rank[q])

\* Fault: the shorter spelling is the simpler one.
SimplerShorter(p, q) == Shorter(p, q)

\* Spellings a consumer can render come first, then shorter ones.
Simpler(p, q) ==
  \/ p \notin Unquotable /\ q \in Unquotable
  \/ /\ p \in Unquotable => q \in Unquotable
     /\ Shorter(p, q)

\* The simplest spelling, among the given paths, of the rule a path spells.
Simplest(p, paths) ==
  CHOOSE q \in paths :
    Key[q] = Key[p] /\ \A r \in paths : Key[r] = Key[p] => Simpler(q, r)

FoldAliasList(paths) == {Simplest(p, paths) : p \in paths}

DropUnusableGlobs(paths) == {p \in paths : ~IsGlobPattern(p) \/ Usable(p)}

-----------------------------------------------------------------------------
(* Permission maps: a path without permissions is not in the map *)

Perm == {"read", "write"}
Perms == [Path -> SUBSET Perm]

Listed(perms) == {p \in Path : perms[p] # {}}
Literals(perms) == {p \in Listed(perms) : ~IsGlobPattern(p)}
Globs(perms) == {p \in Listed(perms) : Usable(p)}

Bytes(paths) == MapThenSumSet(LAMBDA p : Length[p], paths)

\* The pairs to try, of so many literals and patterns, or of their bytes.
PairCost(leftLiterals, leftGlobs, rightLiterals, rightGlobs) ==
  leftLiterals * rightGlobs + rightLiterals * leftGlobs + leftGlobs * rightGlobs

ExceedsPairs(left, right) ==
  PairCost(Cardinality(Literals(left)), Cardinality(Globs(left)),
           Cardinality(Literals(right)), Cardinality(Globs(right))) > MaxMergePathPairs

ExceedsPairBudget(left, right) ==
  \/ ExceedsPairs(left, right)
  \/ PairCost(Bytes(Literals(left)), Bytes(Globs(left)),
              Bytes(Literals(right)), Bytes(Globs(right))) > MaxMergePathWork

\* The patterns the prefix index offers for a name.
Candidates(perms, name) == {g \in Globs(perms) : StartsWith(name, Matcher[g].prefix)}

\* The patterns of a side that cover the name a literal path denotes.
Covering(perms, p) ==
  {g \in Candidates(perms, Matcher[p].literal) : Matches(g, Matcher[p].literal)}

\* Fault: a pattern that matches the prefix itself is narrowed as well.
ExpandedByAny(p, base) ==
  /\ Matcher[base].starStar /\ Usable(p)
  /\ StartsWith(Matcher[p].prefix, Matcher[base].prefix)
  /\ ~Matcher[p].doubleSlash

\* The pattern base, a prefix and "**", covers every canonical name p does.
ExpandedBy(p, base) ==
  /\ Matcher[base].starStar /\ Usable(p)
  /\ StartsWith(Matcher[p].prefix, Matcher[base].prefix)
  /\ ~Matcher[p].doubleSlash
  /\ \/ Matcher[p].prefix # Matcher[base].prefix
     \/ ~Matches(p, Matcher[base].prefix)

Expanding(perms, p) ==
  {base \in Candidates(perms, Matcher[p].prefix) : ExpandedBy(p, base)}

-----------------------------------------------------------------------------
(* Intersection *)

\* What entry p of one side keeps of the patterns given of the other side.
SharedWith(perms, p, other, patterns) == UNION {perms[p] \cap other[g] : g \in patterns}

\* The permissions both sides grant, per path: paths both list, literals a
\* pattern of the other side covers and patterns one of the other side expands
\* over.  Past the budget only the first.
IntersectPerms(left, right, exceeds) ==
  [p \in Path |->
    IF Matcher[p].kind = "unusable" THEN {}
    ELSE (left[p] \cap right[p])
           \cup IF exceeds THEN {}
                ELSE IF IsGlobPattern(p)
                THEN SharedWith(left, p, right, Expanding(right, p))
                       \cup SharedWith(right, p, left, Expanding(left, p))
                ELSE SharedWith(left, p, right, Covering(right, p))
                       \cup SharedWith(right, p, left, Covering(left, p))]

-----------------------------------------------------------------------------
(* Union *)

Grants(perms, p) == UNION {perms[g] : g \in Covering(perms, p)}

\* A literal only one side lists is dropped where the patterns of the other
\* side grant all it grants, and otherwise takes what they grant.
UnionLiteral(mine, other, p) ==
  CASE mine[p] = {} -> {}
    [] mine[p] # {} /\ other[p] # {} -> mine[p]
    [] OTHER -> LET granted == Grants(other, p) IN
                IF mine[p] \subseteq granted THEN {} ELSE mine[p] \cup granted

\* Every pattern of either side is kept; past the budget every path is.
UnionPerms(left, right, exceeds) ==
  [p \in Path |->
    IF IsGlobPattern(p) \/ exceeds
    THEN left[p] \cup right[p]
    ELSE UnionLiteral(left, right, p) \cup UnionLiteral(right, left, p)]
=============================================================================
