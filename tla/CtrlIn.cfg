SPECIFICATION InSpec
CONSTANTS
  NUL = NUL
  Bytes = {a, b}
  MAX_INBUF_SZ = 3
  MaxPkt = 4
  MaxStream = 7
  Tails <- NoTail
INVARIANTS
  InTypeOK
  SplitsTheStream
  ClosedForLongString
CHECK_DEADLOCK FALSE
