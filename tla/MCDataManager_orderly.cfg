\* Clients that only ask for what is there, and lost connections.
SPECIFICATION Spec
CONSTANTS
  Players = {p1, p2, p3}
  Nobody = Nobody
  MaxRooms = 3
  MaxSlots = 2
  Allowed = {}
INVARIANTS
  NoFault
  PlacementAgrees
PROPERTIES
  ImplementsPlacement
SYMMETRY Symmetry
