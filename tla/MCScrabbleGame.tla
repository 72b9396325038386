--------------------------- MODULE MCScrabbleGame ---------------------------
(***************************************************************************)
(* Small instances of ScrabbleGame for TLC: a strip of three cells, two    *)
(* letters, hands of two tiles and a bag of five, NUL slot included.       *)
(***************************************************************************)
EXTENDS ScrabbleGame, TLC

CONSTANTS alice, bob,            \* users
          a, b,                  \* letters
          a1, a2, a3, b1, b2, z  \* tiles; z is the slot FillBag_ leaves at 0

MCTiles == {a1, a2, b1, b2, z}

MCLetterOf == (a1 :> a) @@ (a2 :> a) @@ (b1 :> b) @@ (b2 :> b) @@ (z :> Nul)

\* The room's list after one and after two players have joined.
MCRosters == {<<alice>>, <<alice, bob>>}

Put(cs, ls) == [coordinates |-> cs, tiles |-> ls]

\* One tile, two in a row, a joined row that needs the board to be free, two
\* tiles on one cell, one off the board, one malformed, and unequal vectors.
MCPlacements ==
    {Put(<<<<0, 0>>>>, <<a>>),
     Put(<<<<1, 0>>>>, <<b>>),
     Put(<<<<1, 0>>, <<2, 0>>>>, <<b, a>>),
     Put(<<<<0, 0>>, <<0, 0>>>>, <<b, a>>),
     Put(<<<<3, 0>>>>, <<a>>),
     Put(<<<<0>>>>, <<a>>),
     Put(<<<<0, 0>>>>, <<a, b>>),
     NoPlacement}

\* Nothing, one letter, a letter twice, and two letters in both orders.
MCRequests == {<<>>, <<a>>, <<a, a>>, <<a, b>>, <<b, a>>}

\* An unknown word, a known one and a placement that forms no word: the word
\* "ab" exists, "bb" and "aba" do not.
MCPlacementScore(bd, p) ==
    LET row == With(bd, p)
        x   == [i \in 0 .. 2 |-> row[<<i, 0>>]]
    IN  IF x = [i \in 0 .. 2 |-> IF i = 1 THEN b ELSE a] THEN -1
        ELSE Cardinality({c \in Cells : row[c] # NoLetter}) - 1

Symmetry == Permutations({a1, a2}) \cup Permutations({b1, b2})
=============================================================================
