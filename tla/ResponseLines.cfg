\* Every short line, of the characters that the conversions look for.
SPECIFICATION Spec
CONSTANTS
  Chars <- MCChars
  Word <- MCWord
  SizeMod = 16
  MaxLen = 8
INVARIANTS
  ValueIsTheRest
  QuotedIsBetweenMarks
  ThrowsOnBareWord
\* nyx stops writing.
CHECK_DEADLOCK FALSE
