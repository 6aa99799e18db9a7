SPECIFICATION Spec
CONSTANTS
  Chars <- MCChars
  Dash = "-"
  Equals = "="
  CommandLines <- MCEmptyArguments
INVARIANTS
  EndOfInputMeansDone
