SPECIFICATION Spec
CONSTANTS
  Texts <- MCTexts
  Keys <- MCKeys
  CLIs <- MCFirstOnly
  Inputs <- MCDashDash
  ContractsEnforced = TRUE
INVARIANTS
  ContractsKept
