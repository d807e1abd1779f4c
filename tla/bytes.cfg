SPECIFICATION LiveSpec
CONSTANTS
  Inputs <- MCInputs
  BufSize = 14
  FilterEager = TRUE
INVARIANTS
  BytesVerbatim
  OutputFits
PROPERTIES
  AllBytes
CHECK_DEADLOCK FALSE
