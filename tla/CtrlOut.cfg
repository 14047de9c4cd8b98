SPECIFICATION OutSpec
CONSTANTS
  MAXQLEN = 2
  payload_sz = 3
  OutLens = {1, 3, 7, 9}
  MaxMsgs = 3
INVARIANTS
  StreamUnbroken
  WaitsBehindFullQueue
PROPERTY
  EverythingSent
CHECK_DEADLOCK FALSE
