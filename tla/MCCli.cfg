SPECIFICATION CliSpec
CONSTANTS
  Texts <- MCTexts
  Keys <- MCKeys
  CLIs <- MCCLIs
  Inputs <- MCInputs
  ContractsEnforced = FALSE
  TokensOf <- MCTokensOf
  Lines <- MCLines
  MaxCalls = 2
INVARIANTS
  CliTypeOK
  OnlyLeftoversTellCallsApart
  CommandHelpWhenAsked
  DocumentedFormsAnswer
PROPERTIES
  EveryCallReturns
