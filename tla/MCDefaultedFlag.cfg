SPECIFICATION Spec
CONSTANTS
  Texts <- MCTexts
  Keys <- MCKeys
  CLIs <- MCWithDefault
  Inputs <- MCInputs
  ContractsEnforced = FALSE
INVARIANTS
  DefaultedTellsDefaults
