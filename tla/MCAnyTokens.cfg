SPECIFICATION Spec
CONSTANTS
  Texts <- MCTexts
  Keys <- MCKeys
  CLIs <- MCAll
  Inputs <- MCAnyTokens
  ContractsEnforced = TRUE
INVARIANTS
  AssertionsHold
  CommandResolution
  NoValueUsedTwice
  OnlyKnownAborts
