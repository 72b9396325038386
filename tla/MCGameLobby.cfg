\* Three requests at once, and a process that is stopped once.
SPECIFICATION Spec
CONSTANTS
  host = host
  guest = guest
  w1 = w1
  w2 = w2
  w3 = w3
  Users = {host, guest}
  Workers = {w1, w2, w3}
  GamesMax = 2
  RestartsMax = 1
SYMMETRY Symmetry
CHECK_DEADLOCK FALSE
INVARIANTS
  LobbyTypeOK
  NobodyJoinsTwice
  RoomsHaveRows
  RowsHaveRooms
  RoomAgreesWithRows
PROPERTIES
  GamesEndByHost
