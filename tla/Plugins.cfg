SPECIFICATION FairSpec
CONSTANTS
  P1 = P1
  P2 = P2
  Plugin = {P1, P2}
  Renderer = {r1, r2, r3, r4}
  Spare = Spare
  Fresh = Fresh
  None = None
  Stories <- Cases
INVARIANTS TypeOK RenderersOwned EnvironmentAgreed
PROPERTIES FailuresStayHome CallsAnswered ExitsNoticed
CHECK_DEADLOCK FALSE
