CONSTANTS
  Index = {0, 1}
  MaxValue = 3
  MaxLow = 1
  And <- MCAnd
  Names <- MCNames
  Multiplexers <- Socketcall
  Carried <- SocketCarried
  MaxLoadedClauses = 100
  MaxPairwiseClauses = 100
  MaxSyscallClauses = 100
  MaxPruneClauses = 100
  Architectures <- MCArchitectures
  NarrowArchitectures <- MCNarrow
  MultiplexingArchitectures <- MCMultiplexing
  Natives = {"x86_64", "x86"}
  NoArch = ""
  Profiles <- MCNoProfiles
  Arities = {1, 2}
  Nil = Nil
  NotifyWriteSyscall = "write"
  Artifacts <- MCArtifacts
  Baselines <- MCBaselines
  MaxErrno = 4095
  MaxArtifactEntriesPerSyscall = 3
  MaxArtifactNamesPerEntry = 2
  MaxArtifactClauses = 4
  MaxArtifactClausesPerSyscall = 3
SPECIFICATION ArtifactSpec
INVARIANTS
  ConflictsAreFound
  
  ArtifactsMergePrecisely
