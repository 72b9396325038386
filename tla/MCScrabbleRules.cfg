\* Words on a board of three by two cells, tiles placed with and without an empty cell between them.
SPECIFICATION Spec
CONSTANTS
  alice = alice
  a = a
  b = b
  t1 = t1
  Width = 3
  Height = 2
  Letters = {a, b}
  NoLetter = NoLetter
  Users = {alice}
  Tiles = {t1}
  Nul = Nul
  LetterOf <- MCLetterOf
  TilesMax = 1
  Rosters <- MCRosters
  Placements <- MCAll
  Requests = {}
  PlacementScore <- PlacementScoreOf
  Dictionary <- MCDictionary
  Points <- MCPoints
INVARIANTS
  PendingScoreIsWordTotal
PROPERTIES
  SubmittedWordsAreInDictionary
