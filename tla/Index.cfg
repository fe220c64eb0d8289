SPECIFICATION FairSpec
CONSTANTS
  Path = {r, d, e}
  Root = {r}
  Budgets <- Stories
INVARIANTS TypeOK NotesIndexed NoGhostsOnceSeen SnapshotReached
PROPERTIES IndexForward IndexSettles
CHECK_DEADLOCK FALSE
