----------------------------- MODULE MCGamePage -----------------------------
(***************************************************************************)
(* Two players on a board of two cells.  A tile on either cell is a word,  *)
(* two tiles are none.                                                     *)
(***************************************************************************)
EXTENDS GamePage

CONSTANTS me, them,        \* the players
          a, b,            \* letters: two tiles have the first, one the second
          t1, t2, t3       \* tiles

MCLetterOf == [t \in Tiles |-> IF t = t3 THEN b ELSE a]

MCRoster == <<me, them>>

MCRosters == {MCRoster}

\* A tile on either cell, one of each letter, and one that comes without its letter.
\* The room does not ask whether the player holds it.
MCPlacements ==
    LET On(x, y, letters) == [coordinates |-> <<<<x, y>>>>, tiles |-> letters]
    IN  {On(0, 0, <<a>>), On(0, 0, <<>>), On(1, 0, <<b>>)}

MCRequests == {<<a>>, <<b>>}

MCPlacementScore(before, p) ==
    IF \A c \in Cells : With(before, p)[c] # NoLetter THEN -1 ELSE Len(p.tiles)
=============================================================================
