SPECIFICATION FdSpec
CONSTANTS
  Conns = {c1, c2}
  RemoteAuthorization = FALSE
  DirLen = 103
  SunPathLen = 107
  Radix = 10
  Pad = 4
  NoPath = NoPath
  MaxFd = 8
  App = App
  Listener = Listener
  Free = Free
INVARIANT LivePathOwned
SYMMETRY Symmetry
