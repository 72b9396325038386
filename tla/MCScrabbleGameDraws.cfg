\* A draw outside the bag, or a hand that stays short while the bag has tiles.
SPECIFICATION Spec
CONSTANTS
  alice = alice
  bob = bob
  a = a
  b = b
  a1 = a1
  a2 = a2
  a3 = a3
  b1 = b1
  b2 = b2
  z = z
  Width = 3
  Height = 1
  Letters = {a, b}
  NoLetter = NoLetter
  Users = {alice, bob}
  Tiles <- MCTiles
  Nul = Nul
  LetterOf <- MCLetterOf
  TilesMax = 2
  Rosters <- MCRosters
  Placements <- MCPlacements
  Requests <- MCRequests
  PlacementScore <- MCPlacementScore
SYMMETRY Symmetry
CHECK_DEADLOCK FALSE
PROPERTIES
  DrawsKeepContract
