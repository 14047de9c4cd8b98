SPECIFICATION FdSpec
CONSTANTS
  Conns = {c1, c2, c3}
  RemoteAuthorization = FALSE
  DirLen = 102
  SunPathLen = 107
  Radix = 10
  Pad = 4
  NoPath = NoPath
  MaxFd = 8
  App = App
  Listener = Listener
  Free = Free
INVARIANTS
  PendingExact
  EventsMatchStage
  LivePathOwned
  
  NoFdLeak
  OnlyZeroIsTaken

  
SYMMETRY Symmetry
