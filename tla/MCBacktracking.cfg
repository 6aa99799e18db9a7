SPECIFICATION Spec
CONSTANTS
  Texts <- MCTexts
  Keys <- MCKeys
  CLIs <- MCWithGap
  Inputs <- MCSegments
  ContractsEnforced = FALSE
INVARIANTS
  NoValueLost
