\* Two players, one of whom may come back on the other connection.
SPECIFICATION FairSpec
CONSTANTS
  Players = {1, 2}
  Sockets = {1, 2}
  MaxSent = 3
  MaxRooms = 2
  MaxSlots = 2
  Allowed = {}
INVARIANTS
  TypeOK
  OneHome
  NoGhosts
PROPERTIES
  OnlyJoinsFail
  ImplementsSessions
  LostPlayersLeave
CHECK_DEADLOCK FALSE
