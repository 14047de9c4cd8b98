SPECIFICATION Spec
CONSTANTS
  Timeouts = {t1, t2, t3}
  None = None

  
PROPERTY
  Recurs
CHECK_DEADLOCK FALSE
