CONSTANTS
  Index = {0, 1}
  MaxValue = 3
  MaxLow = 1
  And <- MCAnd
  Names <- TwoNames
  Multiplexers <- NoMultiplexers
  Carried <- NoneCarried
  MaxLoadedClauses = 2
  MaxPairwiseClauses = 1
  MaxSyscallClauses = 2
  MaxPruneClauses = 1
  Architectures <- MCArchitectures
  NarrowArchitectures <- MCNarrow
  MultiplexingArchitectures <- MCMultiplexing
  Natives = {"x86_64", "x32", ""}
  NoArch = ""
  Profiles <- MCLimitProfiles
  Arities = {1, 2}
  Nil = Nil
  NotifyWriteSyscall = "write"
SPECIFICATION Spec
INVARIANTS
  DirectCallsOnTheSafeSide
  EqualUpToOrder
  BareCallsOnTheSafeSide
