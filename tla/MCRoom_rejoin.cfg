\* Players enter whenever they like, also a second time, and the data
\* thread may stall for a frame period.
SPECIFICATION Spec
CONSTANTS
  Players = {p1, p2}
  Nobody = Nobody
  MaxSlots = 2
  Inputs = {"FIRE"}
  MaxFrame = 1
  MaxJump = 2
  Allowed = {"overlap", "rejoin"}
INVARIANTS
  TypeOK
  FramesAgree
PROPERTIES
  HistoryFrozen
SYMMETRY Symmetry
