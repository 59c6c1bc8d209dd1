CONSTANTS
  Path <- MCPath
  Name <- MCName
  Matcher <- MCMatcherOf
  Key <- MCKey
  Filtered <- MCFiltered
  Rank <- MCRank
  Length <- MCLength
  Unquotable = {"/etc/s/ b"}
  MaxMergePathPairs = 4
  MaxMergePathWork = 6
  Relative = {"etc/a"}
  PatternSyntax <- MCPatternSyntax
  Unmatched = {"/etc/./a"}
  CapabilityWord = {"chown", "CHOWN", "kill", "KILL"}
  MaxArtifactPaths = 2
  MaxArtifactPatternBytes = 4
  MaxArtifactCapabilities = 1
  Nil = Nil
  Unreadable = {""}
  Variables = {"/@{HOME}"}
  Capability <- MCCapability
  Upper <- MCUpper
  EmptyCapability = ""
  Profiles <- MCProfiles
  Arities = {0, 1, 2, 3}
SPECIFICATION Spec
INVARIANTS
  RulesSurvive
  EveryGroupingIsSafe
  DiffTellsWhatMergesChange
