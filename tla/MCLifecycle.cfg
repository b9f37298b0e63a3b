CONSTANTS
  u1 = u1  u2 = u2
  Users = {u1, u2}
  Ports = {p1}
  Clients = {c1, c2, c3, c4}
  None = None
SYMMETRY Symmetric
SPECIFICATION Spec
INVARIANTS TypeOK NothingStranded PortIsBack  
