\* Two tiles with an empty cell between them: words of the second one are not looked at.
SPECIFICATION Spec
CONSTANTS
  alice = alice
  a = a
  b = b
  t1 = t1
  Width = 4
  Height = 1
  Letters = {a, b}
  NoLetter = NoLetter
  Users = {alice}
  Tiles = {t1}
  Nul = Nul
  LetterOf <- MCLetterOf
  TilesMax = 1
  Rosters <- MCRosters
  Placements <- MCAll
  Requests = {}
  PlacementScore <- PlacementScoreOf
  Dictionary <- MCDictionary
  Points <- MCPoints
INVARIANTS
  EveryWordInDictionary
