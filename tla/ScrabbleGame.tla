---------------------------- MODULE ScrabbleGame ----------------------------
(***************************************************************************)
(* The rules engine of a room: class ScrabbleGame and its GameState        *)
(* (src/src/game/ScrabbleGame.cpp).  One action per operation that changes *)
(* state: set_players, TryPlaceTiles, SubmitWord, Change and Pass.         *)
(*                                                                         *)
(* Tiles have an identity here, the code only keeps their letters.  The    *)
(* order of the bag is abstracted away: a tile is drawn at a random index  *)
(* and the bag is compacted with its last tile, so any tile may come next. *)
(* Words and their points are a parameter, PlacementScore; module          *)
(* WordFinder holds the definition the code uses.                          *)
(*                                                                         *)
(* Randomizer::decrement_random_tile answers -1 once it has been asked as  *)
(* often as the bag was large at the start, and DrawTile_ uses the answer  *)
(* as an index unchecked.  What the program does after reading and writing *)
(* outside the bag is undefined: variable oob records that it happened,    *)
(* the interrupted operation is dropped, and nothing is modelled after it. *)
(***************************************************************************)
EXTENDS Board, FiniteSets

CONSTANTS Users,                \* user ids
          Tiles,                \* the physical tiles the bag starts with
          Nul,                  \* char32_t 0, the "letter" of a slot never filled
          LetterOf,             \* the letter of a tile
          TilesMax,             \* TILES_MAX_IN_HAND
          Rosters,              \* what set_players may be called with
          Placements,           \* what TryPlaceTiles may be called with
          Requests,             \* what Change may be called with
          PlacementScore(_, _)  \* board, placement: -1 for an unknown word, else points

ASSUME GameAssumption ==
    /\ IsFiniteSet(Tiles)
    /\ Nul \notin Letters
    /\ LetterOf \in [Tiles -> Letters \cup {Nul}]
    /\ TilesMax \in Nat \ {0}
    /\ Rosters \subseteq Seq(Users)
    /\ Placements \subseteq PlacementType
    /\ Requests \subseteq Seq(Letters)

\* A client may send vectors of different lengths; these are well formed.
WellFormed(p) == Len(p.coordinates) = Len(p.tiles)

ASSUME ScoreAssumption ==
    \A b \in Boards, p \in Placements :
        WellFormed(p) /\ Legal(b, p) =>
            PlacementScore(b, p) \in Nat \cup {-1}

VARIABLES players,         \* ids in seating order; [0] in the code is players[1]
          hands,           \* playersState[i].hand
          scores,          \* playersState[i].score
          current_player,  \* zero-based index of the player to move
          bag,             \* tiles left
          current_max,     \* Randomizer::current_max
          board,           \* board_letters
          new_tiles,       \* new_tiles_coordinates and new_letters
          score,           \* points of the pending placement, -1 for none
          oob              \* a draw went out of the bag's bounds

tableVars == <<players, hands, scores, bag, current_max, board>>
pendingVars == <<new_tiles, score>>
vars == <<players, hands, scores, current_player, bag, current_max, board,
          new_tiles, score, oob>>

-----------------------------------------------------------------------------
\* Position of the player to move in the one-based sequences.
Mover == current_player + 1

NulTiles == {t \in Tiles : LetterOf[t] = Nul}

CountOf(ts, l) == Cardinality({t \in ts : LetterOf[t] = l})

Occurrences(letters, l) == Cardinality({i \in DOMAIN letters : letters[i] = l})

\* Operators named Faulty... are plausible mistakes in the definition that
\* follows them.  The specification does not use them: they are put in its
\* place to see the properties fail.
FaultyDraws(hand, from, max) ==
    {drawn \in SUBSET from :
        /\ Cardinality(drawn) =< max
        /\ Cardinality(drawn) = TilesMax \/ drawn = from}

(***************************************************************************)
(* FillHand: the sets of tiles it may draw for a hand from a bag when the  *)
(* random counter stands at max.  It stops when the hand is full, when the *)
(* bag is empty, or after a NUL tile, which DrawTile_ returns as if the    *)
(* bag were empty and which is lost.                                       *)
(***************************************************************************)
Draws(hand, from, max) ==
    {drawn \in SUBSET from :
        LET room == TilesMax - Cardinality(hand)
            kept == Cardinality(drawn \ NulTiles)
        IN  /\ Cardinality(drawn) =< max
            /\ \/ kept = room /\ drawn \cap NulTiles = {}
               \/ kept < room /\ drawn = from /\ drawn \cap NulTiles = {}
               \/ kept < room /\ Cardinality(drawn \cap NulTiles) = 1}

\* FillHand may ask for a tile while the bag has some and the counter is at 0.
RunsOut(hand, from, max) ==
    /\ Cardinality(hand) + max < TilesMax
    /\ max < Cardinality(from)
    /\ max =< Cardinality(from \ NulTiles)

\* The tiles of a hand that erasing `letters` one by one removes; a letter the
\* hand lacks is skipped.
Taken(hand, letters) ==
    {ts \in SUBSET hand :
        \A l \in Letters :
            LET held   == CountOf(hand, l)
                wanted == Occurrences(letters, l)
            IN  CountOf(ts, l) = IF held < wanted THEN held ELSE wanted}

\* The hand has every letter asked for, as often as it is asked for.
Holds(hand, letters) ==
    \A l \in Letters : Occurrences(letters, l) =< CountOf(hand, l)

\* The read or write outside the bag: the state is undefined from here on.
OutOfBounds ==
    /\ oob' = TRUE
    /\ UNCHANGED <<tableVars, pendingVars, current_player>>
-----------------------------------------------------------------------------
Init ==
    /\ players = <<>>
    /\ hands = <<>>
    /\ scores = <<>>
    /\ current_player = 0
    /\ bag = Tiles
    /\ current_max = Cardinality(Tiles)
    /\ board = EmptyBoard
    /\ new_tiles = NoPlacement
    /\ score = -1
    /\ oob = FALSE

\* Hand of the i-th player after playersState.resize.
HandOf(i) == IF i \in DOMAIN hands THEN hands[i] ELSE {}

ScoreOf(i) == IF i \in DOMAIN scores THEN scores[i] ELSE 0

\* What the players before the i-th have drawn.
DealtBefore(dealt, i) == UNION {dealt[j] : j \in 1 .. i - 1}

\* The first n players fill their hands in turn; dealt[i] is what the i-th draws.
Deal(dealt, n) ==
    \A i \in 1 .. n :
        LET before == DealtBefore(dealt, i)
        IN  dealt[i] \in Draws(HandOf(i), bag \ before,
                               current_max - Cardinality(before))

\* set_players / init_players.  A room only ever appends to its list of players.
SetPlayers(ps) ==
    /\ \A i \in DOMAIN players : i \in DOMAIN ps /\ ps[i] = players[i]
    /\ \E dealt \in [DOMAIN ps -> SUBSET bag] :
        LET drawn == UNION {dealt[i] : i \in DOMAIN ps}
        IN  /\ Deal(dealt, Len(ps))
            /\ players' = ps
            /\ hands' = [i \in DOMAIN ps |-> HandOf(i) \cup (dealt[i] \ NulTiles)]
            /\ scores' = [i \in DOMAIN ps |-> ScoreOf(i)]
            /\ bag' = bag \ drawn
            /\ current_max' = current_max - Cardinality(drawn)
    /\ UNCHANGED <<current_player, board, pendingVars, oob>>

\* The same call when the k-th player's FillHand leaves the bag's bounds.
SetPlayersOutOfBounds(ps) ==
    /\ \A i \in DOMAIN players : i \in DOMAIN ps /\ ps[i] = players[i]
    /\ \E k \in DOMAIN ps :
        \E dealt \in [1 .. k - 1 -> SUBSET bag] :
            LET before == DealtBefore(dealt, k)
            IN  /\ Deal(dealt, k - 1)
                /\ RunsOut(HandOf(k), bag \ before, current_max - Cardinality(before))
    /\ OutOfBounds

\* TryPlaceTiles: a placement of unequal vectors is refused before it replaces
\* the previous one, any other is stored whatever TilesCheck_ says of it.
TryPlaceTiles(p) ==
    /\ IF WellFormed(p)
       THEN /\ new_tiles' = p
            /\ score' = IF Legal(board, p) THEN PlacementScore(board, p) ELSE -1
       ELSE /\ score' = -1
            /\ UNCHANGED new_tiles
    /\ UNCHANGED <<tableVars, current_player, oob>>

\* The turn does not wrap, the placement stays, or only its score does.
FaultyEndTurnUnwrapped ==
    /\ new_tiles' = NoPlacement
    /\ score' = -1
    /\ current_player' = current_player + 1

FaultyEndTurnKeeps ==
    /\ UNCHANGED pendingVars
    /\ current_player' = (current_player + 1) % Len(players)

FaultyEndTurnKeepsScore ==
    /\ new_tiles' = NoPlacement
    /\ UNCHANGED score
    /\ current_player' = (current_player + 1) % Len(players)

\* What Pass() does, as the last step of every move.
EndTurn ==
    /\ new_tiles' = NoPlacement
    /\ score' = -1
    /\ current_player' = (current_player + 1) % Len(players)

Pass ==
    /\ EndTurn
    /\ UNCHANGED <<tableVars, oob>>

\* The score is credited after the turn has moved on.
FaultySubmitWordLate ==
    /\ score # -1
    /\ UNCHANGED <<players, hands, bag, current_max, oob>>
    /\ board' = With(board, new_tiles)
    /\ EndTurn
    /\ scores' = [scores EXCEPT ![current_player' + 1] = @ + score]

\* The hand is filled without counting the draws.
FaultySubmitWordUncounted ==
    /\ score # -1
    /\ \E gone \in Taken(hands[Mover], new_tiles.tiles) :
        \E drawn \in Draws(hands[Mover] \ gone, bag, current_max) :
            /\ hands' = [hands EXCEPT ![Mover] = (@ \ gone) \cup (drawn \ NulTiles)]
            /\ bag' = bag \ drawn
    /\ board' = With(board, new_tiles)
    /\ scores' = [scores EXCEPT ![Mover] = @ + score]
    /\ EndTurn
    /\ UNCHANGED <<players, current_max, oob>>

\* SubmitWord: tiles go on the board, leave the hand if they are in it, the
\* hand is filled, the score is credited and the turn ends.
SubmitWord ==
    /\ score # -1
    /\ \E gone \in Taken(hands[Mover], new_tiles.tiles) :
        \E drawn \in Draws(hands[Mover] \ gone, bag, current_max) :
            /\ hands' = [hands EXCEPT ![Mover] = (@ \ gone) \cup (drawn \ NulTiles)]
            /\ bag' = bag \ drawn
            /\ current_max' = current_max - Cardinality(drawn)
    /\ board' = With(board, new_tiles)
    /\ scores' = [scores EXCEPT ![Mover] = @ + score]
    /\ EndTurn
    /\ UNCHANGED <<players, oob>>

SubmitWordOutOfBounds ==
    /\ score # -1
    /\ \E gone \in Taken(hands[Mover], new_tiles.tiles) :
        RunsOut(hands[Mover] \ gone, bag, current_max)
    /\ OutOfBounds

\* Change by the i-th player, who has every tile asked for.  Any seated player
\* may call it: neither the game nor the room asks whose turn it is.
Change(i, request) ==
    /\ Holds(hands[i], request)
    /\ \E back \in Taken(hands[i], request) :
        \E drawn \in Draws(hands[i] \ back, bag \cup back, current_max) :
            /\ hands' = [hands EXCEPT ![i] = (@ \ back) \cup (drawn \ NulTiles)]
            /\ bag' = (bag \cup back) \ drawn
            /\ current_max' = current_max - Cardinality(drawn)
    /\ EndTurn
    /\ UNCHANGED <<players, scores, board, oob>>

ChangeOutOfBounds(i, request) ==
    /\ Holds(hands[i], request)
    /\ \E back \in Taken(hands[i], request) :
        RunsOut(hands[i] \ back, bag \cup back, current_max)
    /\ OutOfBounds

\* The tiles leave the hand and reach no bag.
FaultyChangeRefused(i, request) ==
    /\ ~Holds(hands[i], request)
    /\ \E back \in Taken(hands[i], request) : hands' = [hands EXCEPT ![i] = @ \ back]
    /\ UNCHANGED <<players, scores, bag, current_player, current_max, board,
                   pendingVars, oob>>

\* The tiles reach the bag and the hand keeps them, as the page believes.
FaultyChangeRefusedCopies(i, request) ==
    /\ ~Holds(hands[i], request)
    /\ \E back \in Taken(hands[i], request) : bag' = bag \cup back
    /\ UNCHANGED <<players, hands, scores, current_player, current_max, board,
                   pendingVars, oob>>

\* Change when a letter is missing: the loop has already moved the letters
\* before it to the bag, and returns false.
ChangeRefused(i, request) ==
    /\ \E m \in 0 .. Len(request) - 1 :
        /\ Holds(hands[i], SubSeq(request, 1, m))
        /\ ~Holds(hands[i], SubSeq(request, 1, m + 1))
        /\ \E back \in Taken(hands[i], SubSeq(request, 1, m)) :
            /\ hands' = [hands EXCEPT ![i] = @ \ back]
            /\ bag' = bag \cup back
    /\ UNCHANGED <<players, scores, current_player, current_max, board,
                   pendingVars, oob>>

\* Moves are made in a game that has players: GameRoom refuses them before.
Move ==
    \/ \E p \in Placements : TryPlaceTiles(p)
    \/ SubmitWord
    \/ SubmitWordOutOfBounds
    \/ Pass
    \/ \E i \in DOMAIN players, request \in Requests :
        \/ Change(i, request)
        \/ ChangeOutOfBounds(i, request)
        \/ ChangeRefused(i, request)

Next ==
    /\ ~oob
    /\ \/ \E ps \in Rosters : SetPlayers(ps) \/ SetPlayersOutOfBounds(ps)
       \/ players # <<>> /\ Move

Spec == Init /\ [][Next]_vars

-----------------------------------------------------------------------------
TypeOK ==
    /\ players \in Seq(Users)
    /\ hands \in [DOMAIN players -> SUBSET (Tiles \ NulTiles)]
    /\ scores \in [DOMAIN players -> Nat]
    /\ current_player \in 0 .. (IF players = <<>> THEN 0 ELSE Len(players) - 1)
    /\ bag \subseteq Tiles
    /\ current_max \in Nat
    /\ board \in Boards
    /\ new_tiles \in PlacementType
    /\ score \in Nat \cup {-1}
    /\ oob \in BOOLEAN

\* A placement that SubmitWord would accept was checked against the board it
\* would be written on, and its points are the points on that board: no move
\* may change the board and leave a checked placement behind (score,
\* ScrabbleGame.cpp:278 and 467).
PendingIsLegal ==
    score # -1 =>
        /\ WellFormed(new_tiles)
        /\ Legal(board, new_tiles)
        /\ score = PlacementScore(board, new_tiles)

\* The random counter never exceeds the bag, so an index drawn below it is an
\* index of the bag (DrawTile_, ScrabbleGame.cpp:99-101); exchanges enlarge the
\* bag and not the counter, draws shrink both.
DrawStaysInBag == current_max =< Cardinality(bag)

\* FillHand never overfills a hand, refused exchanges and repeated starts included.
HandsAreBounded == \A i \in DOMAIN hands : Cardinality(hands[i]) =< TilesMax

\* No tile is in two places: not in two hands, however many players a start or a
\* late start deals to, and not in a hand and the bag, through exchanges that move
\* tiles one by one and stop half way (ScrabbleGame.cpp:451-461) and submissions of
\* letters the hand lacks (303-308).
NoTileIsTwice ==
    \A i \in DOMAIN hands :
        /\ hands[i] \cap bag = {}
        /\ \A j \in DOMAIN hands \ {i} : hands[i] \cap hands[j] = {}

InHands == UNION {hands[i] : i \in DOMAIN hands}

\* No letter is lost: every letter the bag started with is still in the bag, in
\* a hand or on the board, through exchanges that fail half way, submissions
\* of letters the hand lacks and repeated starts.
NoLetterVanishes ==
    \A l \in Letters :
        CountOf(bag \cup InHands, l) + Cardinality({c \in Cells : board[c] = l})
            >= CountOf(Tiles, l)

\* A letter on the board stays there, whatever placements were checked, left
\* pending, refused or passed over before the step.
BoardIsPermanent ==
    [][\A c \in Cells : board[c] # NoLetter => board'[c] = board[c]]_vars

\* Points are earned by the player to move only, and only for tiles the same
\* step puts on the board, as many as they are worth on the board before it.
PointsAreForTiles ==
    [][\A i \in DOMAIN scores :
        scores'[i] # scores[i] =>
            /\ i = Mover
            /\ board' = With(board, new_tiles)
            /\ board' # board
            /\ scores'[i] = scores[i] + PlacementScore(board, new_tiles)]_vars

\* DrawTile_ answers with a letter of the bag, or with 0 when the bag is empty
\* (ScrabbleGame.hpp:156-157): no draw leaves the bag's bounds, and FillHand, which
\* stops at a 0, leaves the hand of who has put down tiles short of nothing but when
\* the bag has nothing more.
DrawsKeepContract ==
    [][/\ ~oob'
       /\ board' # board => Cardinality(hands'[Mover]) = TilesMax \/ bag' = {}]_vars

-----------------------------------------------------------------------------
\* What a watcher of the public state is promised.
Public == INSTANCE TurnGame WITH
    seats  <- players,
    points <- scores,
    turn   <- current_player,
    board  <- board

\* The engine implements the turn game: no sequence of placements, exchanges,
\* passes and late starts lets a second player earn points in a turn, a cell
\* change twice or a seat lose its points.
PlaysTurnGame == Public!Spec
=============================================================================
