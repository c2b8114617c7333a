CONSTANTS
  h1 = h1  h2 = h2  c1 = c1  c2 = c2  s1 = s1  e1 = e1  e2 = e2
  Nil = Nil
  Hubs = {h1, h2}
  Clients = {c1, c2}
  Streams = {}
  Events = {e1}
  HubOf <- HomeOf
  Origin <- AllAtFirst
  Linked = {h1, h2}
  Closable = {}
  QueueSize = 1
  StreamSize = 1
  MaxAttempts <- RetryFirst
SPECIFICATION Spec
INVARIANT NoEcho
CHECK_DEADLOCK FALSE
