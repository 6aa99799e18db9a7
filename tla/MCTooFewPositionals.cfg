SPECIFICATION Spec
CONSTANTS
  Texts <- MCTexts
  Keys <- MCKeys
  CLIs <- MCFirstOnly
  Inputs <- MCPlainInputs
  ContractsEnforced = TRUE
INVARIANTS
  MissingPositionalIsHandled
