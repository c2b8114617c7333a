CONSTANTS
  c1 = c1
  c2 = c2
  Nil = Nil
  Conversations = {c1, c2}
  Page = 1
  OlderPage = 1
  MaxMessages = 3
  MaxEvents = 1
  MaxFailures = 1
  Worlds <- MCWorlds
SPECIFICATION Spec
INVARIANTS TypeOK MixtureHeals  LoadingEnds
PROPERTIES CatchesUp SingleFlight
CHECK_DEADLOCK FALSE
