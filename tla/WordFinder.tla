----------------------------- MODULE WordFinder -----------------------------
(***************************************************************************)
(* The words a placement forms and what they score: GetNewWords_,          *)
(* horizontal_check_, vertical_check_ and calculate_score_ of              *)
(* src/src/game/ScrabbleGame.cpp, as operators on a board.                 *)
(*                                                                         *)
(* The code calls a line of constant y horizontal and walks it along x;    *)
(* a line of constant x is vertical and is walked along y.                 *)
(***************************************************************************)
EXTENDS Board, FiniteSetsExt, Functions

CONSTANTS Dictionary,   \* the words word_checker accepts, as sequences of letters
          Points        \* what calculate_score_ gives for a letter

ASSUME WordAssumption ==
    /\ Dictionary \subseteq Seq(Letters)
    /\ Points \in [Letters -> Nat]

-----------------------------------------------------------------------------
\* The maximal run of occupied positions around k on a line of positions
\* 0 .. last, of which `occupied' hold a tile: the code walks down from k - 1
\* and up from k + 1 until it meets an empty cell or the edge.
FirstOfRun(occupied, k) ==
    CHOOSE lo \in 0 .. k :
        /\ \A j \in lo .. k - 1 : j \in occupied
        /\ lo - 1 \notin occupied

LastOfRun(occupied, k, last) ==
    CHOOSE hi \in k .. last :
        /\ \A j \in k + 1 .. hi : j \in occupied
        /\ hi + 1 \notin occupied

\* horizontal_check_: the word through cell c along x.
HorizontalWord(b, c) ==
    LET occupied == {x \in 0 .. Width - 1 : b[<<x, c[2]>>] # NoLetter}
        lo == FirstOfRun(occupied, c[1])
        hi == LastOfRun(occupied, c[1], Width - 1)
    IN  [k \in 1 .. hi - lo + 1 |-> b[<<lo + k - 1, c[2]>>]]

\* vertical_check_: the word through cell c along y.
VerticalWord(b, c) ==
    LET occupied == {y \in 0 .. Height - 1 : b[<<c[1], y>>] # NoLetter}
        lo == FirstOfRun(occupied, c[2])
        hi == LastOfRun(occupied, c[2], Height - 1)
    IN  [k \in 1 .. hi - lo + 1 |-> b[<<c[1], lo + k - 1>>]]

\* A walk looks at the word through one tile along one axis.
WordAt(b, p, walk) ==
    IF walk[1] = "x" THEN HorizontalWord(b, At(p, walk[2]))
                     ELSE VerticalWord(b, At(p, walk[2]))

\* Only the words across the tiles; or the line of the tiles once for each tile.
FaultyWalksAcross(p) ==
    (IF Horizontal(p) THEN {"y"} ELSE {"x"}) \X DOMAIN p.coordinates

FaultyWalksTwice(p) == {"x", "y"} \X DOMAIN p.coordinates

\* The walks of GetNewWords_: across the tiles at every one of them, and along
\* their line at the FIRST one only.
Walks(p) ==
    IF Horizontal(p) THEN {<<"x", 1>>} \cup ({"y"} \X DOMAIN p.coordinates)
                     ELSE {<<"y", 1>>} \cup ({"x"} \X DOMAIN p.coordinates)

\* GetNewWords_: the words the walks find, of which those of one letter are
\* dropped; their order tells nothing.  b is the board with the placement on it.
NewWords(b, p) ==
    [walk \in {v \in Walks(p) : Len(WordAt(b, p, v)) > 1} |-> WordAt(b, p, walk)]

\* calculate_score_: the points of the letters; board prices are not used.
WordScore(w) == SumFunction([k \in DOMAIN w |-> Points[w[k]]])

\* The dictionary loop of TilesCheck_: -1 when a word does not exist, the
\* total of the words otherwise.
PlacementScoreOf(b, p) ==
    LET words == NewWords(With(b, p), p)
    IN  IF \E walk \in DOMAIN words : words[walk] \notin Dictionary
        THEN -1
        ELSE SumFunction([walk \in DOMAIN words |-> WordScore(words[walk])])

-----------------------------------------------------------------------------
(***************************************************************************)
(* The reference the walk is compared with.  A segment is a stretch of at  *)
(* least two cells of one line; it is a word of board b when all its cells *)
(* are occupied and no longer segment around it is.                        *)
(***************************************************************************)
Segments ==
    {s \in {(x .. hi) \X {y} : x, hi \in 0 .. Width - 1, y \in 0 .. Height - 1}
         \cup {{x} \X (y .. hi) : x \in 0 .. Width - 1, y, hi \in 0 .. Height - 1} :
        Cardinality(s) >= 2}

WordsOn(b) ==
    LET Full == {s \in Segments : \A c \in s : b[c] # NoLetter}
    IN  {s \in Full : \A t \in Full : s \subseteq t => s = t}

\* The letters of segment s in reading order.
Spell(b, s) ==
    [k \in 1 .. Cardinality(s) |->
        b[CHOOSE c \in s :
            Cardinality({d \in s : d[1] + d[2] < c[1] + c[2]}) = k - 1]]

CellsOf(p) == {At(p, i) : i \in DOMAIN p.coordinates}

\* Between any two tiles of p on board b there is no empty cell.
Gapless(b, p) ==
    CellsOf(p) \in {{c} : c \in Cells}
        \/ \E s \in WordsOn(With(b, p)) : CellsOf(p) \subseteq s

\* The words of the board that contain a tile of p, and what they are worth.
FormedBy(b, p) == {s \in WordsOn(With(b, p)) : s \cap CellsOf(p) # {}}

FormedTotal(b, p) ==
    SumFunction([s \in FormedBy(b, p) |-> WordScore(Spell(With(b, p), s))])
=============================================================================
