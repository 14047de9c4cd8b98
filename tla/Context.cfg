SPECIFICATION Spec
CONSTANTS
  Objs = {o1, o2, o3, o4}
  Names = {n1, n2, n3}
  Zero = Zero
  None = None
  Files <- ModuleFiles
INVARIANTS
  ListMatchesHash
  RefcountExact
  ReferencesAlive
  
  
CHECK_DEADLOCK FALSE
SYMMETRY Symmetry
