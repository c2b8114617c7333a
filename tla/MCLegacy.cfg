CONSTANTS
  r1 = r1  r2 = r2  t1 = t1  t2 = t2  m1 = m1  m2 = m2  m3 = m3
  Nil = Nil
  Runtimes = {r1, r2}
  Tasks = {t1, t2}
  Messages = {m1, m2}
  MaxRestarts = 1
  MaxSends = 1
  Own = {m3}
  MaxEvents = 4
SPECIFICATION MCSpec
SYMMETRY Alike
CONSTRAINT Calm
INVARIANTS TypesOK EnginesKept  SeenIsKept UnreadKept 
CHECK_DEADLOCK FALSE
