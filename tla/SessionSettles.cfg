SPECIFICATION FairSpec
CONSTANTS
  Text = {a, b, c}
  Absent = Absent
  MaxCopy = 2
  Budgets <- Recovery
PROPERTIES AutosaveSettles
CHECK_DEADLOCK FALSE
