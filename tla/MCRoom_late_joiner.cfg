\* A player joins while the match is starting.
SPECIFICATION Spec
CONSTANTS
  Players = {p1, p2}
  Nobody = Nobody
  MaxSlots = 2
  Inputs = {"FIRE"}
  MaxFrame = 1
  MaxJump = 1
  Allowed = {"overlap"}
INVARIANTS
  WaitingStartAwaitsAck
