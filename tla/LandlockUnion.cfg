CONSTANTS
  RawPath <- MCRawPath
  Path <- MCPath
  NulPart = "nul"
  MaxPathLen = 7
  FSRight <- MCFSRight
  NetRight = {"bind_tcp", "connect_tcp"}
  ScopeRight = {"signal"}
  Refer = "refer"
  FileRight <- MCFileRight
  Port = {1}
  MaxArtifactRules = 3
  NilProfile = NilProfile
  RightABI <- MCRightABI
  LatestABIVersion = 6
  Strategy = "union"
  Profiles <- MCProfiles
  Arities = {0, 1, 2, 3}
SPECIFICATION Spec
INVARIANTS
  UnionNeverPermitsLess
  UnionAllowsEveryMove
  ResultNeedsNoNewerKernel
