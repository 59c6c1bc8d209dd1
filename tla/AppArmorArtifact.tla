-------------------------- MODULE AppArmorArtifact --------------------------
(***************************************************************************)
(* apparmor.ValidateArtifact: what a runtime accepts of a profile it did   *)
(* not write, and what the merges make of profiles that it accepted.       *)
(***************************************************************************)
EXTENDS AppArmorDiff

CONSTANTS
  Relative,          \* the paths that do not begin with a slash
  PatternSyntax,     \* those with a pattern's characters, or with escapes
  Unmatched,         \* those with a NUL byte or a dot component
  CapabilityWord,    \* the capability names made of letters, digits and "_"
  MaxArtifactPaths, MaxArtifactPatternBytes, MaxArtifactCapabilities

\* Two artifacts stay within the merge's budget of pairs.  Filtering makes no
\* path relative and adds no dot component, upper-casing keeps a word one, and
\* the lists of a profile are finite.
ASSUME ArtifactAssumption ==
  /\ MaxArtifactPaths \in Nat /\ MaxMergePathPairs \in Nat
  /\ MaxArtifactPaths * MaxArtifactPaths <= MaxMergePathPairs
  /\ Relative \subseteq Path /\ Unmatched \subseteq Path
  /\ \A p \in Path : /\ Filtered[p] \in Relative => p \in Relative
                     /\ Filtered[p] \in Unmatched => p \in Unmatched
  /\ \A cap \in Capability \cap CapabilityWord : Upper[cap] \in CapabilityWord
  /\ \A n \in Arities : \A profile \in Profiles[n] \ {Nil} : IsFiniteSet(PathsOf(profile))
  /\ \A p \in Path : IsGlobPattern(p) => p \in PatternSyntax

-----------------------------------------------------------------------------
\* A rule that two paths of a list spell.
SpellsTwice(paths) == Cardinality(KeysOf(paths)) < Cardinality(paths)

\* validatePathCount: every list counts its own paths.
FewEnough(profile) ==
  LET count(measure(_)) ==
        (IF profile.exec = Nil THEN 0 ELSE measure(profile.exec.exe) + measure(profile.exec.lib))
          + (IF profile.fs = Nil THEN 0
             ELSE measure(profile.fs.ro) + measure(profile.fs.wo) + measure(profile.fs.rw))
  IN /\ count(Cardinality) <= MaxArtifactPaths
     /\ count(LAMBDA paths : Bytes(paths \cap PatternSyntax)) <= MaxArtifactPatternBytes
     /\ profile.caps # Nil => Cardinality(profile.caps) <= MaxArtifactCapabilities

\* validateStructure, on a profile as it is written.
WellStructured(profile) ==
  LET filtered(paths) == {Filtered[p] : p \in paths} IN
  /\ RawPathsValid(profile)
  /\ ValidProfile(MapPathLists(profile, filtered))
  /\ profile.fs # Nil =>
       \A paths \in {profile.fs.ro, profile.fs.wo, profile.fs.rw} : ~SpellsTwice(filtered(paths))
  /\ profile.caps # Nil =>
       Cardinality({Upper[cap] : cap \in profile.caps}) = Cardinality(profile.caps)

\* validateLoadablePaths and validateCapabilitySpelling.
Renderable(profile) ==
  /\ PathsOf(profile) \cap (Relative \cup Unquotable \cup Unmatched) = {}
  /\ \A p \in PathsOf(profile) : IsGlobPattern(Filtered[p]) => Usable(Filtered[p])
  /\ profile.caps # Nil => profile.caps \subseteq CapabilityWord

Loads(profile) == WellStructured(profile) /\ Renderable(profile)

\* ValidateArtifact.
AcceptsArtifact(profile) == profile # Nil /\ FewEnough(profile) /\ Loads(profile)

-----------------------------------------------------------------------------
\* A merge refuses nothing that is accepted as an artifact, keeps two of them
\* within its budget of pairs, and makes of artifacts a profile that loads,
\* whatever spellings meet in it.  Even where some inputs would not load, the
\* result spells a rule so that it cannot be rendered only if all inputs do.
ArtifactsStayLoadable ==
  LET accepted == \A i \in DOMAIN args : AcceptsArtifact(args[i]) IN
  /\ pc = "failed" /\ arity > 0 => ~accepted
  /\ pc = "done" =>
       /\ accepted => Loads(result)
       /\ accepted /\ arity = 2 =>
            LET fs(i) == PopulateEmpty(normalized[i]).fs
            IN ~ExceedsPairs(ExpandFsPerms(fs(1)), ExpandFsPerms(fs(2)))
       /\ \A p \in PathsOf(result) \cap Unquotable, i \in 1..arity : \A q \in PathsOf(args[i]) :
            Key[Filtered[q]] = Key[p] => Filtered[q] \in Unquotable

\* What has to survive does, and under a spelling that loads.
RulesSurvive == SharedLiteralsSurvive /\ ArtifactsStayLoadable
=============================================================================
