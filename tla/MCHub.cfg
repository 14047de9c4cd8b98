SPECIFICATION Spec
CONSTANTS
  Conns = {c1, c2, c3}
  None = None
  MAXQLEN = 2
  TIMES = 1
  EthFrame = 2
  Payloads = {0, 1, 2}
  MaxFrames = 3
INVARIANTS
  PortsAreLive
  FramesInOrder
PROPERTY
  EveryPortIsLossyFifo
CHECK_DEADLOCK FALSE
SYMMETRY Symmetry
