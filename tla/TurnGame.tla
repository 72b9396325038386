------------------------------ MODULE TurnGame ------------------------------
(***************************************************************************)
(* What the rules engine promises those who watch the public state of a    *)
(* game (GameRoom::public_state_): seats are only added, the board only    *)
(* fills up, whoever has the turn may fill cells and is the only one to    *)
(* earn points, and every such move hands the turn to the next seat.       *)
(*                                                                         *)
(* Hands, the bag, pending placements and the rules of words are not part  *)
(* of this specification; ScrabbleGame is shown to implement it.           *)
(***************************************************************************)
EXTENDS Board

VARIABLES seats,    \* user ids in seating order
          points,   \* points of each seat
          turn,     \* zero-based seat of the player to move
          board     \* letters on the board

vars == <<seats, points, turn, board>>

Init ==
    /\ seats = <<>>
    /\ points = <<>>
    /\ turn = 0
    /\ board = EmptyBoard

\* More users take the seats after the taken ones, without points.
Join ==
    /\ Len(seats') >= Len(seats)
    /\ \A i \in DOMAIN seats : seats'[i] = seats[i]
    /\ DOMAIN points' = DOMAIN seats'
    /\ \A i \in DOMAIN seats' : points'[i] = IF i \in DOMAIN seats THEN points[i] ELSE 0
    /\ UNCHANGED <<turn, board>>

NextTurn ==
    /\ seats # <<>>
    /\ turn' = (turn + 1) % Len(seats)
    /\ UNCHANGED seats

\* The player to move fills some empty cells and may earn points for it.
Play ==
    /\ NextTurn
    /\ board' \in Boards
    /\ \E c \in Cells : board[c] = NoLetter /\ board'[c] # NoLetter
    /\ \A c \in Cells : board[c] # NoLetter => board'[c] = board[c]
    /\ DOMAIN points' = DOMAIN points
    /\ \A i \in DOMAIN points :
        IF i = turn + 1 THEN points'[i] >= points[i] ELSE points'[i] = points[i]

\* A move that leaves the board alone: a pass or an exchange of tiles.
Skip ==
    /\ NextTurn
    /\ UNCHANGED <<points, board>>

Next == Join \/ Play \/ Skip

Spec == Init /\ [][Next]_vars
=============================================================================
