SPECIFICATION Spec
CONSTANTS
  b1 = b1
  b2 = b2
  Builders = {b1, b2}
  NoCli = NoCli
  ProgramName = "program"
  Paths <- MCPaths
  OptionsOfProgram <- MCOptions
  Group <- MCGroup
  ContractsEnforced = FALSE
  MaxCommands = 3
  MaxInCli = 2
  MaxGiven = 1
  MaxThrows = 1
SYMMETRY MCSymmetry
INVARIANTS
  DefaultIsCreated
