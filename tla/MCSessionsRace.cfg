CONSTANTS
  p1 = p1  p2 = p2  p3 = p3  k1 = k1  k2 = k2  k3 = k3
  Nil = Nil  Blank = Blank  Lost = Lost
  s1 = s1  d1 = d1
  Sessions = {s1}
  Default = s1
  Devices = {}
  Clients = {k1, k2}
  Requests = {"create", "init", "disconnect", "delete"}
  World = {"statement", "crash"}
  Procs = {p1, p2}
SPECIFICATION Spec
INVARIANT FlagHasOwner
PROPERTY ClientKept
SYMMETRY AllAlike
CHECK_DEADLOCK FALSE
