CONSTANTS
  g1 = g1  g2 = g2  g3 = g3
  None = None
  Goroutines = {g1, g2, g3}
  Calls = {"lookup", "connect", "dialed", "delete", "reset", "chats", "history"}
SPECIFICATION Spec
INVARIANTS TypeOK NoDataRace
PROPERTY OnlyHistoryStalls
CHECK_DEADLOCK FALSE
