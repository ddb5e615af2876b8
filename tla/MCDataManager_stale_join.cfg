\* A client asks for a room that has gone since it was listed.
SPECIFICATION Spec
CONSTANTS
  Players = {p1, p2}
  Nobody = Nobody
  MaxRooms = 2
  MaxSlots = 2
  Allowed = {"stale"}
INVARIANTS
  RoomCanBeJoined
SYMMETRY Symmetry
CHECK_DEADLOCK FALSE
