\* A client logs out from a room, then its connection is closed.
SPECIFICATION Spec
CONSTANTS
  Players = {1, 2}
  Sockets = {1, 2}
  MaxSent = 3
  MaxRooms = 2
  MaxSlots = 2
  Allowed = {"logout"}
INVARIANTS
  PlayerIsInRoom
CHECK_DEADLOCK FALSE
