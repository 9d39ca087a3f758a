SPECIFICATION CallSpec
CONSTANTS
  Capacity = 2
  MaxInput = 4
  MaxOutput = 4
INVARIANTS OutputIsComplete
PROPERTY HarmlessReturns
CHECK_DEADLOCK FALSE
