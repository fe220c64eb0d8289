SPECIFICATION HistorySpec
CONSTANTS
  Tx = {t1}
  Version = {a, b}
  Absent = Absent
  Torn = Torn
  Shared = Shared
  MaxSave = 2
  MaxLate = 0
  MaxCrash = 1
  MaxFault = 1
PROPERTIES Settles Implements
CHECK_DEADLOCK FALSE
