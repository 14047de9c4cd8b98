SPECIFICATION InSpec
CONSTANTS
  NUL = NUL
  Bytes = {a, b}
  MAX_INBUF_SZ = 3
  MaxPkt = 2
  MaxStream = 4
  Tails <- AnyTail
INVARIANT SplitsTheStream
CHECK_DEADLOCK FALSE
