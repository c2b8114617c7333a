CONSTANTS
  Nil = Nil
  Conversations = {"a", "b"}
  PageSize = 1
  MaxTime = 3
  MaxEvents = 1
  MaxFailures = 1
  Habits = {"open", "scroll"}
  Calls = {g1, g2}
  Items = {i1, i2}
  MaxCrmChanges = 3
  MaxCrmEvents = 2
  Sessions = {s1, s2}
  c1 = c1
  c2 = c2
  Chats = {c1, c2}
  Queries = {none, query}
  None = none
  Texts = {text}
  MaxChanges = 1
  MaxLookups = 2
  Shown = 1
  FetchLimit = 2
  MaxMessages = 4
  MaxNews = 1
  RowHeight = 2
  Overscan = 1
  MaxRows = 7
  Heights = {3, 4}
  Keys = {"j", "k"}
  MaxIds = 4
  MaxHeld = 2
  Subjects = {"toasts", "switches"}
  Urls = {u1, u2}
  MaxLists = 2
  Topics = {"publish", "revoke"}
SPECIFICATION MCSpec
INVARIANTS TypesOK PagesComplete   ScreenKept
PROPERTY ListSettles
CHECK_DEADLOCK FALSE
