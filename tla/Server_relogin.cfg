\* A client closes its connection from a room and comes back at once.
SPECIFICATION Spec
CONSTANTS
  Players = {1, 2}
  Sockets = {1, 2}
  MaxSent = 3
  MaxRooms = 2
  MaxSlots = 2
  Allowed = {"relogin"}
INVARIANTS
  NoGhosts
CHECK_DEADLOCK FALSE
