SPECIFICATION NetSpec
CONSTANTS
  Hubs = {h1, h2, h3, h4}
  NoHub = NoHub

  
  
PROPERTIES
  ReachesTheNetwork
  Returns
CHECK_DEADLOCK FALSE
