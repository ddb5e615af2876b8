\* Newcomers one at a time, nobody returns, the clock never skips a frame;
\* clients that are asked answer or leave.  No symmetry: it is unsound for liveness.
SPECIFICATION FairSpec
CONSTANTS
  Players = {p1, p2, p3}
  Nobody = Nobody
  MaxSlots = 2
  Inputs = {"FIRE"}
  MaxFrame = 1
  MaxJump = 1
  Allowed = {}
INVARIANTS
  WaitingStartAwaitsAck
  WaitingCutInAwaitsAck
PROPERTIES
  ImplementsLockstep
  StartCompletes
  CutInCompletes
