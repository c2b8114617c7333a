CONSTANTS
  c1 = c1  c2 = c2  m1 = m1  m2 = m2  r1 = r1  p1 = p1  p2 = p2  p3 = p3
  Nil = Nil
  Chats = {c1}
  Messages = {m1, m2}
  ChatOf <- InFirst
  Mine = {}
  Ways = {"live", "markRead"}
  World = {}
  MaxPurges = 0
  Procs = {p1, p2}
SPECIFICATION Spec
INVARIANT ReadWasTold
