------------------------------- MODULE Board -------------------------------
(***************************************************************************)
(* The board of a game and what makes a placement of tiles on it legal:    *)
(* the part of ScrabbleGame::TilesCheck_ (src/src/game/ScrabbleGame.cpp)   *)
(* that looks at coordinates only.  The words a placement forms are the    *)
(* business of module WordFinder.                                          *)
(*                                                                         *)
(* A cell is a pair <<x, y>>, zero based as in the code.  A placement is   *)
(* the pair of vectors a client sends: a vector of coordinates, each one a *)
(* vector of integers that need not be a cell at all, and a vector of      *)
(* letters.                                                                *)
(***************************************************************************)
EXTENDS Integers, Sequences

CONSTANTS Width,     \* columns of the board (15 in the code)
          Height,    \* rows of the board (15 in the code)
          Letters,   \* the letters a tile can show, the joker included
          NoLetter   \* what an empty cell holds (std::nullopt)

ASSUME BoardAssumption ==
    /\ Width \in Nat \ {0}
    /\ Height \in Nat \ {0}
    /\ NoLetter \notin Letters

Cells == (0 .. Width - 1) \X (0 .. Height - 1)

\* Every content the board can have (GameState::board_letters).
Boards == [Cells -> Letters \cup {NoLetter}]

EmptyBoard == [c \in Cells |-> NoLetter]

\* A placement as it arrives (GameState::new_tiles_coordinates, new_letters).
PlacementType == [coordinates : Seq(Seq(Int)), tiles : Seq(Letters)]

NoPlacement == [coordinates |-> <<>>, tiles |-> <<>>]

\* The cell the i-th tile of placement p is put on.
At(p, i) == <<p.coordinates[i][1], p.coordinates[i][2]>>

-----------------------------------------------------------------------------
\* Every coordinate has an x and a y, and they are on the board.
InBoard(p) ==
    \A i \in DOMAIN p.coordinates :
        /\ Len(p.coordinates[i]) >= 2
        /\ At(p, i) \in Cells

\* All tiles share the y of the first one.
Horizontal(p) == \A i \in DOMAIN p.coordinates : At(p, i)[2] = At(p, 1)[2]

\* All tiles share the x of the first one.
Vertical(p) == \A i \in DOMAIN p.coordinates : At(p, i)[1] = At(p, 1)[1]

\* No tile is put on an occupied cell, nor on the cell of another new tile:
\* the code fills a copy of the board tile by tile and tests before it writes.
OnFreeCells(b, p) ==
    /\ \A i \in DOMAIN p.coordinates : b[At(p, i)] = NoLetter
    /\ \A i, j \in DOMAIN p.coordinates : At(p, i) = At(p, j) => i = j

\* Whether the cells are free is not asked.  This is a plausible mistake, used
\* only to see a property of the engine fail.
FaultyLegal(b, p) ==
    /\ p.coordinates # <<>>
    /\ InBoard(p)
    /\ Horizontal(p) \/ Vertical(p)

\* Placement p passes every check of TilesCheck_ that precedes the dictionary.
Legal(b, p) ==
    /\ p.coordinates # <<>>
    /\ InBoard(p)
    /\ Horizontal(p) \/ Vertical(p)
    /\ OnFreeCells(b, p)

\* The board with the tiles of placement p on it.
With(b, p) ==
    [c \in Cells |->
        IF \E i \in DOMAIN p.tiles : At(p, i) = c
        THEN p.tiles[CHOOSE i \in DOMAIN p.tiles : At(p, i) = c]
        ELSE b[c]]
=============================================================================
