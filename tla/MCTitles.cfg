CONSTANTS
  Threads = {t1, t2}
  Entries = 2
  None = None
SYMMETRY Symmetric
SPECIFICATION Spec
INVARIANTS TypeOK 
