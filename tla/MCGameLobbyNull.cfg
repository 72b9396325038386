\* A request for a game that is ended, replaced or not stored yet.
SPECIFICATION Spec
CONSTANTS
  host = host
  guest = guest
  w1 = w1
  w2 = w2
  w3 = w3
  Users = {host, guest}
  Workers = {w1, w2}
  GamesMax = 2
  RestartsMax = 0
SYMMETRY Symmetry
CHECK_DEADLOCK FALSE
INVARIANTS
  NoRoomIsMissed
