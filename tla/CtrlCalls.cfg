SPECIFICATION CallsSpec
CONSTANTS
  Comps = {h1}
  Sigs = {"port_new", "port_del"}
  PrefixPairs = {}
  Clients = {k1, k2}
  None = None
  FreedContext = {"intact"}
  Ctrl = ctrl
  MaxPorts = 2
INVARIANTS
  RecordsAgree
  NoDanglingCallback
  KnowsPorts
  KnowsSubscriptions
PROPERTIES
  ServesSubscribers
  OnlyEndMisleads
SYMMETRY Symmetry
