SPECIFICATION Spec
CONSTANTS
  Comps = {h1}
  Sigs = {"port_new", "port_del"}
  PrefixPairs = {}
  Clients = {k1}
  None = None
  FreedContext = {"intact", "lost"}
INVARIANT NoDanglingCallback
SYMMETRY Symmetry
