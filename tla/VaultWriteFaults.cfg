SPECIFICATION Spec
CONSTANTS
  Tx = {t1}
  Version = {a, b, c}
  Absent = Absent
  Torn = Torn
  Shared = Shared
  MaxSave = 3
  MaxLate = 1
  MaxCrash = 1
  MaxFault = 1
SYMMETRY Symmetry
INVARIANTS TypeOK NothingLost Surfaced DisplacedKept ExternalStays NoteStays
PROPERTIES KernelNeverOverwrites
CHECK_DEADLOCK FALSE
