SPECIFICATION Spec
CONSTANTS
  Text = {a, b, c}
  Absent = Absent
  MaxCopy = 1
  Budgets <- Undone
SYMMETRY Symmetry
PROPERTIES FlushReaches
CHECK_DEADLOCK FALSE
