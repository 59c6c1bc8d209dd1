SPECIFICATION Spec
CONSTANTS
  ProfileType <- Types
  Seccomp = "seccomp"
  Rejectable <- MCRejectable
  Stdin = "-"
  FlagLike <- MCFlagLike
  Files <- MCFiles
  Calls <- MCCalls
  MaxInputFiles = 4
  MaxInputSize = 3
  MaxTotalInputSize = 6
INVARIANTS
  ExitCodeTellsTheTruth
  BlameFallsOnTheRightInput
