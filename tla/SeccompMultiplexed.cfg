CONSTANTS
  Index = {0, 1}
  MaxValue = 1
  MaxLow = 1
  And <- MCAndOfOneBit
  Names <- SocketNames
  Multiplexers <- Socketcall
  Carried <- SocketCarried
  MaxLoadedClauses = 100
  MaxPairwiseClauses = 100
  MaxSyscallClauses = 100
  MaxPruneClauses = 100
  Architectures <- MCArchitectures
  NarrowArchitectures <- MCNarrow
  MultiplexingArchitectures <- MCMultiplexing
  Natives = {"x86_64", "ppc64"}
  NoArch = ""
  Profiles <- MCSocketProfiles
  Arities = {1, 2, 3}
  Nil = Nil
  NotifyWriteSyscall = "write"
SPECIFICATION Spec
INVARIANTS
  MultiplexedCallsOnTheSafeSide
  MultiplexersTakeTheResult
