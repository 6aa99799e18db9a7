SPECIFICATION Spec
CONSTANTS
  LongBits = 5
  LowerCase <- MCLowerCase
  CodeOf <- MCCodeOf
  Enumerators <- MCEnumerators
  Types <- MCTypes
  Texts <- MCTexts
  ContractsEnforced = FALSE
  MaxCalls = 5
INVARIANTS
  TypeOK
  OneOwner
  ValueBuilderReachesOption
  NumbersAreExact
  BooleansBySign
  EnumeratorsOnly
PROPERTIES
  BuiltOptionsStay
