SPECIFICATION FairSpec
CONSTANTS
  Src = Src
  Dst = Dst
  L1 = L1
  L2 = L2
  N1 = N1
  Notes <- MCNotes
  Stories <- MCStories
INVARIANTS TypeOK SourceSafe LinksReach
PROPERTIES OthersStay ReceiptTrue MoveSettles
CHECK_DEADLOCK FALSE
