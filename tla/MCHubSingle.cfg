CONSTANTS
  h1 = h1  h2 = h2  c1 = c1  c2 = c2  s1 = s1  e1 = e1  e2 = e2
  Nil = Nil
  Hubs = {h1}
  Clients = {c1}
  Streams = {s1}
  Events = {e1, e2}
  HubOf <- HomeOf
  Origin <- AllAtFirst
  Linked = {}
  Closable = {h1}
  QueueSize = 1
  StreamSize = 1
  MaxAttempts <- NoRetry
SPECIFICATION LiveSpec
INVARIANTS TypeOK CloseOwnership RegisteredIsServed NoGap
PROPERTIES NoSendOnClosed BroadcastReturns DeadPeerForgotten CloseEndsPumps
CHECK_DEADLOCK FALSE
