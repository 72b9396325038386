\* A player's page, its room and an opponent on a board of two cells.
SPECIFICATION PageSpec
CONSTANTS
  me = me
  them = them
  a = a
  b = b
  t1 = t1
  t2 = t2
  t3 = t3
  Width = 2
  Height = 1
  Letters = {a, b}
  NoLetter = NoLetter
  Users = {me, them}
  Tiles = {t1, t2, t3}
  Nul = Nul
  LetterOf <- MCLetterOf
  TilesMax = 1
  Rosters <- MCRosters
  Placements <- MCPlacements
  Requests <- MCRequests
  PlacementScore <- MCPlacementScore
  Me = me
  Opponent = them
  Roster <- MCRoster
  Missing = Missing
  UpMax = 1
  DownMax = 1
CHECK_DEADLOCK FALSE
INVARIANTS
  PageTypeOK
  ShowsRealLetters
PROPERTIES
  SubmitsWhatIsShown
  PageCatchesUp
