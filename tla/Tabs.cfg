SPECIFICATION FairSpec
CONSTANTS
  n1 = n1
  n2 = n2
  Path = {n1, n2}
  User = {u1, u2}
  Timers = {t1, t2}
  NoPath = NoPath
  Free = Free
  MaxAssembly = 2
  Stories <- Cases
INVARIANTS TypeOK TabsFollow StoreAgrees ShownCurrent
PROPERTIES GoneCloses
CHECK_DEADLOCK FALSE
