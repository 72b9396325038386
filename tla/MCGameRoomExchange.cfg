\* One connection for each player, exchanges included.
SPECIFICATION RoomSpec
CONSTANTS
  host = host
  guest = guest
  third = third
  h1 = h1
  g1 = g1
  a = a
  t1 = t1
  t2 = t2
  t3 = t3
  Width = 2
  Height = 1
  Letters = {a}
  NoLetter = NoLetter
  Users = {host, guest}
  Tiles = {t1, t2, t3}
  Nul = Nul
  LetterOf <- MCLetterOf
  TilesMax = 1
  Rosters <- MCRosters
  Placements <- MCPlacements
  Requests <- MCRequests
  PlacementScore <- MCPlacementScore
  PlayersMax = 2
  Host = host
  Workers = {1}
  Conns = {h1, g1}
  UserOf <- OneEach
  Actions = {"place", "submit", "pass", "change"}
SYMMETRY Symmetry
CHECK_DEADLOCK FALSE
PROPERTIES
  TurnMovesByHolder
