SPECIFICATION Spec
CONSTANTS
  Tx = {t1, t2}
  Version = {a, b}
  Absent = Absent
  Torn = Torn
  Shared = Shared
  MaxSave = 1
  MaxLate = 0
  MaxCrash = 1
  MaxFault = 1
SYMMETRY Symmetry
INVARIANTS NothingLost
CHECK_DEADLOCK FALSE
