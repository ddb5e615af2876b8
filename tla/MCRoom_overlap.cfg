\* Players enter whenever they like.
SPECIFICATION Spec
CONSTANTS
  Players = {p1, p2, p3}
  Nobody = Nobody
  MaxSlots = 2
  Inputs = {"FIRE"}
  MaxFrame = 2
  MaxJump = 1
  Allowed = {"overlap"}
INVARIANTS
  SameHistory
  ViewsAgree
  RosterAgrees
SYMMETRY Symmetry
