CONSTANTS
  w1 = w1
  w2 = w2
  Writer <- MCWriter
  Worlds = {"absent", "regular", "readonly", "symlink", "device", "directory", "mounted", "hidden mount"}
  None = None
SPECIFICATION Spec
SYMMETRY Symmetry
INVARIANTS
  LinkTargetUntouched
  ReaderSeesWholeProfile
  FailureLeavesNothing
  CrashLeavesWholeFile
PROPERTIES
  SuccessIsWritten
CHECK_DEADLOCK FALSE
