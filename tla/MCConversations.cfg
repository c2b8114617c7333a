CONSTANTS
  c1 = c1  c2 = c2  m1 = m1  m2 = m2  r1 = r1  p1 = p1  p2 = p2  p3 = p3
  Nil = Nil
  Chats = {c1}
  Messages = {m1, r1}
  ChatOf <- InFirst
  Mine = {r1}
  Ways = {"live", "send", "react", "history", "identity", "markRead", "receipt"}
  World = {"statement"}
  MaxPurges = 1
  Procs = {p1, p2}
SPECIFICATION Spec
INVARIANTS TypeOK OneNotice Announced 
SYMMETRY CallsAlike
