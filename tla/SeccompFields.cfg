CONSTANTS
  Index = {0, 1}
  MaxValue = 3
  MaxLow = 3
  And <- MCAnd
  Names <- FieldNames
  Multiplexers <- NoMultiplexers
  Carried <- NoneCarried
  MaxLoadedClauses = 100
  MaxPairwiseClauses = 100
  MaxSyscallClauses = 100
  MaxPruneClauses = 100
  Architectures <- MCArchitectures
  NarrowArchitectures <- MCNarrow
  MultiplexingArchitectures <- MCMultiplexing
  Natives = {"x86_64"}
  NoArch = ""
  Profiles <- MCFieldProfiles
  Arities = {0, 1, 2, 3}
  Nil = Nil
  NotifyWriteSyscall = "write"
SPECIFICATION Spec
INVARIANTS
  ResultIsValid
  FlagsFollowTheirPolarity
  ListenerComesWhole
