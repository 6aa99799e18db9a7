SPECIFICATION Spec
CONSTANTS
  Chars <- MCChars
  Dash = "-"
  Equals = "="
  CommandLines <- MCCommandLines
INVARIANTS
  TypeOK
  SplitsEveryArgument
  ParserCanRelyOn
PROPERTIES
  ImplementsTokenStream
