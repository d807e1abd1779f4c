SPECIFICATION LiveSpec
CONSTANTS
  Char <- MCChar
  Inputs <- MCInputs
  BufSize = 11
INVARIANTS
  TypeOK
  Conserved
  Resynchronises
  LineByLine
PROPERTIES
  NoLineLeft
CHECK_DEADLOCK FALSE
