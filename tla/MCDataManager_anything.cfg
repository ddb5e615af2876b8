\* Any message at any time; a failed assert ends the process.
SPECIFICATION Spec
CONSTANTS
  Players = {p1, p2, p3}
  Nobody = Nobody
  MaxRooms = 2
  MaxSlots = 2
  Allowed = {"anything"}
INVARIANTS
  TypeOK
  RoomIdsPartitioned
  NoEmptyRoom
  LobbyHasNoRoom
CHECK_DEADLOCK FALSE
SYMMETRY Symmetry
