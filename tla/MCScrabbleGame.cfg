\* The rules engine on a strip of three cells, with NUL slot, refused exchanges
\* and repeated starts.  The game may stop after a draw outside the bag.
SPECIFICATION Spec
CONSTANTS
  alice = alice
  bob = bob
  a = a
  b = b
  a1 = a1
  a2 = a2
  a3 = a3
  b1 = b1
  b2 = b2
  z = z
  Width = 3
  Height = 1
  Letters = {a, b}
  NoLetter = NoLetter
  Users = {alice, bob}
  Tiles <- MCTiles
  Nul = Nul
  LetterOf <- MCLetterOf
  TilesMax = 2
  Rosters <- MCRosters
  Placements <- MCPlacements
  Requests <- MCRequests
  PlacementScore <- MCPlacementScore
SYMMETRY Symmetry
CHECK_DEADLOCK FALSE
INVARIANTS
  TypeOK
  PendingIsLegal
  DrawStaysInBag
  HandsAreBounded
  NoTileIsTwice
  NoLetterVanishes
PROPERTIES
  BoardIsPermanent
  PointsAreForTiles
  PlaysTurnGame
