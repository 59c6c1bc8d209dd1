SPECIFICATION Spec
CONSTANTS
  Names <- MCNames
  Fold <- MCFold
  Fields <- MCFields
  RootType = "Profile"
  MaxReportedPaths = 2
  Inputs <- MCInputs
INVARIANTS
  AcceptedDocumentsReadAlike
  ScansMissNothing
  CommandAgreesWithLibrary
CHECK_DEADLOCK FALSE
