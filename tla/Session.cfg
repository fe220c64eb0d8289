SPECIFICATION Spec
CONSTANTS
  Text = {a, b, c}
  Absent = Absent
  MaxCopy = 2
  Budgets <- Stories
SYMMETRY Symmetry
INVARIANTS TypeOK DraftMirrors ShowsDisk
PROPERTIES TextKept DraftOwned FlushReachesAlone
CHECK_DEADLOCK FALSE
