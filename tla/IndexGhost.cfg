SPECIFICATION Spec
CONSTANTS
  Path = {r, d}
  Root = {r}
  Budgets <- Transient
INVARIANTS NoGhosts
CHECK_DEADLOCK FALSE
