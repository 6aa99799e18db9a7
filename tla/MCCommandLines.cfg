SPECIFICATION Spec
CONSTANTS
  Texts <- MCTexts
  Keys <- MCKeys
  CLIs <- MCWithoutGap
  Inputs <- MCInputs
  ContractsEnforced = FALSE
INVARIANTS
  TypeOK
  OneValuePerOccurrence
  SingleOccurrence
  NoValueLost
  AcceptedIsComplete
  PositionalsInOrder
PROPERTIES
  ResultsOnlyGrow
  ImplementsParseSpec
