SPECIFICATION Spec
CONSTANTS
  P1 = P1
  P2 = P2
  Plugin = {P1, P2}
  Renderer = {r1, r2, r3, r4}
  Spare = Spare
  Fresh = Fresh
  None = None
  Stories <- Cases
INVARIANT EnvironmentCurrent
CHECK_DEADLOCK FALSE
