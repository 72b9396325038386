--------------------------- MODULE MCScrabbleRules ---------------------------
(***************************************************************************)
(* Small instances of ScrabbleRules: the board and its words are what      *)
(* varies, so one player holds one tile (a submitted letter need not be in *)
(* the hand) and nothing is exchanged.                                     *)
(***************************************************************************)
EXTENDS ScrabbleRules

CONSTANTS alice,   \* the user
          a, b,    \* letters
          t1       \* the tile

MCLetterOf == [t \in {t1} |-> a]

MCDictionary == {<<a, b>>, <<b, a>>, <<b, b>>, <<a, b, a>>, <<b, a, b>>}

MCPoints == [l \in Letters |-> IF l = a THEN 1 ELSE 3]

MCRosters == {<<alice>>}

Spellings(n) == [1 .. n -> Letters]

\* All placements on the cells of the sequences of cells in cs.
PlacementsOn(cs) ==
    UNION {{[coordinates |-> c, tiles |-> ls] : ls \in Spellings(Len(c))} : c \in cs}

Singles == {<<c>> : c \in Cells}

\* Two different cells of one line, in either order.
Pairs ==
    {<<c, d>> : c, d \in Cells} \cap
    {cd \in Cells \X Cells : cd[1] # cd[2]
                                 /\ (cd[1][1] = cd[2][1] \/ cd[1][2] = cd[2][2])}

\* A whole row, from left to right.
Rows == {[k \in 1 .. Width |-> <<k - 1, y>>] : y \in 0 .. Height - 1}

\* Every placement of one tile, of two tiles of a line, and of a whole row.
MCAll == PlacementsOn(Singles \cup Pairs \cup Rows)
=============================================================================
