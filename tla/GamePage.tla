------------------------------ MODULE GamePage ------------------------------
(***************************************************************************)
(* The page a player sees (src/frontend/js/game_room.js) and the room it   *)
(* talks to: commands go up one websocket, states and errors come down.    *)
(*                                                                         *)
(* The page keeps tiles it has placed and not submitted as an overlay, and *)
(* sends the whole overlay after every change; a submit carries no tiles.  *)
(* The room keeps what the last `place` brought (the engine's new_tiles).  *)
(*                                                                         *)
(* A room builds a state from two reads of the engine and queues it later  *)
(* (GameRoom::json_game_state_for_user).  The read loop of either player   *)
(* does so for this page, without a lock, so states may mix two moments    *)
(* and overtake each other.  A read loop asks whose move it is and calls   *)
(* the engine (ScrabbleGame) later: an exchange, before which nobody is    *)
(* asked, may end the turn in between.                                     *)
(* How rooms end is in RoomSessions: here nobody leaves.                   *)
(***************************************************************************)
EXTENDS ScrabbleGame, SequencesExt

CONSTANTS Me,        \* the player whose page this is
          Opponent,
          Roster,      \* the two of them, in the order of their seats
          Missing,     \* what a page finds at an index its hand does not have
          UpMax,       \* bound: the player waits while so many commands are under way
          DownMax      \* bound: the room waits while so many messages are under way

ASSUME PageAssumption ==
    /\ Me # Opponent
    /\ Roster \in {<<Me, Opponent>>, <<Opponent, Me>>}
    /\ Roster \in Rosters
    /\ Missing \notin Letters
    /\ UpMax \in Nat \ {0}
    /\ DownMax \in Nat \ {0}

VARIABLES ongoing,    \* GameRoom::ongoing_
          up,         \* commands on their way to the room
          cleared,    \* read loops that have been told it is their player's move,
                      \* and have not called the engine since
          making,     \* the message for this page each player's read loop is building
          down,       \* messages on their way to the page
          view,       \* lastState
          started,    \* as in the page
          myTurn,
          pending,
          enabled,    \* buttons that are not disabled
          strayed     \* history: the room's placement was made by a player whose
                      \* turn had ended since his read loop asked

roomSide == <<ongoing, cleared, making, strayed>>
page == <<view, started, myTurn, pending, enabled>>
pageVars == <<vars, roomSide, up, down, page>>

-----------------------------------------------------------------------------
\* What a page is sent: a state, or one of the other kinds with an empty one.
NoView == [board |-> EmptyBoard, hand |-> <<>>, mine |-> FALSE, score |-> -1]

Message(kind, v) == [kind |-> kind, view |-> v]

MessageKinds == {"state", "lobby", "notStarted", "notYourMove", "rejected"}

\* What a page sends: tiles to place, tiles to change, or no tiles.  A submit is
\* marked with the overlay the player was looking at, which the frame does not carry.
Command(action, p) == [action |-> action, placement |-> p]

Commands == {"state", "place", "submit", "pass", "change"}

Loops == {"mine", "theirs"}

\* A read loop that makes nothing, is about to read the public part, the private
\* part, or to queue what it has read.
MakingStates == {"nothing", "due", "public", "ready"}

Nothing == [at |-> "nothing", msg |-> Message("lobby", NoView)]
Due == [at |-> "due", msg |-> Message("lobby", NoView)]

\* The actions for which the room asks whose move it is: all but an exchange.
Checked == {"place", "submit", "pass"}

\* check_if_users_move_
ToMove(l) == players # <<>> /\ players[Mover] = (IF l = "mine" THEN Me ELSE Opponent)

MyMove == ToMove("mine")

MySeat == CHOOSE i \in DOMAIN players : players[i] = Me

\* The letters of a hand in some order (the engine keeps sets of tiles).
HandsShown(hand) ==
    {[k \in DOMAIN s |-> LetterOf[s[k]]] : s \in SetToSeqs(hand)}

PageInit ==
    /\ Init
    /\ ongoing = FALSE
    /\ up = <<Command("state", NoPlacement)>>
    /\ cleared = {}
    /\ making = [l \in Loops |-> Nothing]
    /\ strayed = FALSE
    /\ down = <<>>
    /\ view = NoView
    /\ started = FALSE
    /\ myTurn = FALSE
    /\ pending = <<>>
    /\ enabled = {}

-----------------------------------------------------------------------------
(***************************************************************************)
(* The room.                                                               *)
(***************************************************************************)
\* start_game_, by either player, also again while the game runs.
StartGame ==
    /\ \/ SetPlayers(Roster)
       \/ SetPlayersOutOfBounds(Roster)
    /\ ongoing' = TRUE
    /\ UNCHANGED <<up, cleared, making, down, strayed, page>>

\* Queue an error, or begin to build the new state.
Tell(kind) ==
    /\ down' = Append(down, Message(kind, NoView))
    /\ UNCHANGED making

Inform(l) ==
    /\ making' = [making EXCEPT ![l] = Due]
    /\ UNCHANGED down

\* A move that ends the turn takes the placement away; one that is refused does not.
MoveEnds(l) ==
    /\ strayed' = FALSE
    /\ Inform(l)

MoveRefused ==
    /\ Tell("rejected")
    /\ UNCHANGED strayed

\* Nobody at this page is told: of a move the opponent is refused, and of one in which
\* the engine leaves the bag's bounds.
MoveUnseen == UNCHANGED <<making, down, strayed>>

\* receive_message in the player's read loop, but for a move that may be made.
ReceiveCommand ==
    /\ making["mine"] = Nothing /\ "mine" \notin cleared
    /\ Len(down) < DownMax
    /\ up # <<>>
    /\ up' = Tail(up)
    /\ LET command == Head(up)
       IN  \/ /\ command.action = "state"
              /\ Inform("mine")
              /\ UNCHANGED <<vars, strayed>>
           \/ /\ command.action # "state"
              /\ ~ongoing
              /\ Tell("notStarted")
              /\ UNCHANGED <<vars, strayed>>
           \/ /\ command.action \in Checked
              /\ ongoing
              /\ ~MyMove
              /\ Tell("notYourMove")
              /\ UNCHANGED <<vars, strayed>>
           \/ /\ command.action = "change"
              /\ ongoing
              /\ \/ Change(MySeat, command.placement.tiles) /\ MoveEnds("mine")
                 \/ ChangeRefused(MySeat, command.placement.tiles) /\ MoveRefused
                 \/ ChangeOutOfBounds(MySeat, command.placement.tiles) /\ MoveUnseen
    /\ UNCHANGED <<ongoing, cleared, page>>

\* A read loop asks, for a move, and may make it.  The player's command stays where
\* it is until then; what the opponent asks for is chosen when he makes it.
CheckIfUsersMove(l) ==
    /\ making[l] = Nothing /\ l \notin cleared
    /\ ongoing
    /\ l = "mine" => up # <<>> /\ Head(up).action \in Checked
    /\ ToMove(l)
    /\ cleared' = cleared \cup {l}
    /\ UNCHANGED <<vars, ongoing, up, making, down, strayed, page>>

\* action_place_, action_submit_ and action_pass_ after the check, in the player's
\* read loop.
Act ==
    /\ "mine" \in cleared
    /\ Len(down) < DownMax
    /\ cleared' = cleared \ {"mine"}
    /\ up' = Tail(up)
    /\ LET command == Head(up)
       IN  \/ /\ command.action = "place"
              /\ TryPlaceTiles(command.placement)
              /\ strayed' = ~MyMove
              /\ IF score' = -1 THEN Tell("rejected") ELSE Inform("mine")
           \/ /\ command.action = "submit"
              /\ \/ SubmitWord /\ MoveEnds("mine")
                 \/ SubmitWordOutOfBounds /\ MoveUnseen
                 \/ score = -1 /\ MoveRefused /\ UNCHANGED vars
           \/ command.action = "pass" /\ Pass /\ MoveEnds("mine")
    /\ UNCHANGED <<ongoing, page>>

\* The same in the opponent's; its errors do not reach this page.
OpponentActs ==
    /\ "theirs" \in cleared
    /\ cleared' = cleared \ {"theirs"}
    /\ \/ \E p \in Placements :
            /\ TryPlaceTiles(p)
            /\ strayed' = ~ToMove("theirs")
            /\ IF score' = -1 THEN UNCHANGED <<making, down>> ELSE Inform("theirs")
       \/ SubmitWord /\ MoveEnds("theirs")
       \/ SubmitWordOutOfBounds /\ MoveUnseen
       \/ score = -1 /\ MoveUnseen /\ UNCHANGED vars
       \/ Pass /\ MoveEnds("theirs")
    /\ UNCHANGED <<ongoing, up, page>>

\* action_change_ for the opponent.
OpponentChanges ==
    /\ making["theirs"] = Nothing /\ "theirs" \notin cleared
    /\ ongoing
    /\ \E i \in DOMAIN players, request \in Requests :
        /\ i # MySeat
        /\ \/ Change(i, request) /\ MoveEnds("theirs")
           \/ ChangeRefused(i, request) /\ MoveUnseen
           \/ ChangeOutOfBounds(i, request) /\ MoveUnseen
    /\ UNCHANGED <<ongoing, up, cleared, page>>

\* The public part shows what has been placed and not submitted.
FaultyReadPublic(l) ==
    /\ making[l].at = "due"
    /\ making' = [making EXCEPT ![l] =
            IF ongoing
            THEN [at |-> "public",
                  msg |-> Message("state", [NoView EXCEPT !.board = With(board, new_tiles)])]
            ELSE [at |-> "ready", msg |-> Message("lobby", NoView)]]
    /\ UNCHANGED <<vars, ongoing, up, cleared, down, strayed, page>>

\* json_game_state_for_user: ongoing_, and the public part.
ReadPublic(l) ==
    /\ making[l].at = "due"
    /\ making' = [making EXCEPT ![l] =
            IF ongoing
            THEN [at |-> "public", msg |-> Message("state", [NoView EXCEPT !.board = board])]
            ELSE [at |-> "ready", msg |-> Message("lobby", NoView)]]
    /\ UNCHANGED <<vars, ongoing, up, cleared, down, strayed, page>>

\* private_state_: the hand, and the score of the placement for whom it is to move.
ReadPrivate(l) ==
    /\ making[l].at = "public"
    /\ \E shown \in HandsShown(hands[MySeat]) :
        making' = [making EXCEPT ![l] =
            [at |-> "ready",
             msg |-> Message("state",
                        [@.msg.view EXCEPT !.hand = shown, !.mine = MyMove,
                                           !.score = IF MyMove THEN score ELSE -1])]]
    /\ UNCHANGED <<vars, ongoing, up, cleared, down, strayed, page>>

\* send_raw_message
Push(l) ==
    /\ making[l].at = "ready"
    /\ Len(down) < DownMax
    /\ down' = Append(down, making[l].msg)
    /\ making' = [making EXCEPT ![l] = Nothing]
    /\ UNCHANGED <<vars, ongoing, up, cleared, strayed, page>>

-----------------------------------------------------------------------------
(***************************************************************************)
(* The page: what it does with a message.                                  *)
(***************************************************************************)
\* updateTurnUI: the buttons for a state and an overlay.
Buttons(v, mine, overlay) ==
    {"swap"}
        \cup (IF mine THEN {"pass"} ELSE {})
        \cup (IF overlay # <<>> THEN {"recall"} ELSE {})
        \cup (IF mine /\ overlay # <<>> /\ v.score # -1 THEN {"submit"} ELSE {})

\* onLobby: what has been placed stays.
OnLobby ==
    /\ Head(down).kind \in {"lobby", "notStarted"}
    /\ started' = FALSE
    /\ myTurn' = FALSE
    /\ enabled' = {}
    /\ UNCHANGED <<view, pending>>

\* handleError: a refused command or move blocks the submission of the overlay.
OnError ==
    /\ Head(down).kind \in {"notYourMove", "rejected"}
    /\ enabled' = IF Head(down).kind = "rejected" THEN enabled \ {"submit"} ELSE enabled
    /\ UNCHANGED <<view, started, myTurn, pending>>

\* onState
OnState ==
    /\ Head(down).kind = "state"
    /\ view' = Head(down).view
    /\ started' = TRUE
    /\ myTurn' = view'.mine
    /\ pending' = IF myTurn' THEN pending ELSE <<>>
    /\ enabled' = Buttons(view', myTurn', pending')

\* handleMessage
ReceiveMessage ==
    /\ down # <<>>
    /\ down' = Tail(down)
    /\ OnLobby \/ OnError \/ OnState
    /\ UNCHANGED <<vars, roomSide, up>>

-----------------------------------------------------------------------------
(***************************************************************************)
(* The page: what the player does.                                         *)
(***************************************************************************)
CanSend == Len(up) < UpMax

SendUp(action, p) == up' = Append(up, Command(action, p))

\* An overlay as the page sends it: the letters are joined into a string, which is
\* too short when one is missing; the room looks no further then.
Overlay(tiles) ==
    [coordinates |-> [i \in DOMAIN tiles |-> tiles[i].cell],
     tiles       |-> IF \E i \in DOMAIN tiles : tiles[i].letter = Missing
                     THEN <<>>
                     ELSE [i \in DOMAIN tiles |-> tiles[i].letter]]

Shown(hand, i) == IF i \in DOMAIN hand THEN hand[i] ELSE Missing

Placed(cell) == \E i \in DOMAIN pending : pending[i].cell = cell

\* The positions of a hand whose tile has a click handler.  Which of them the player
\* has selected is chosen when the selection is used; a state may have come since
\* and the hand be another by then, or shorter.
Clickable ==
    {i \in 1 .. TilesMax : \A k \in DOMAIN pending : pending[k].index # i}

\* An empty overlay leaves the buttons alone.
FaultySyncPlacement ==
    IF pending' = <<>>
    THEN /\ enabled' = enabled
         /\ UNCHANGED up
    ELSE /\ enabled' = enabled \cup {"recall"}
         /\ SendUp("place", Overlay(pending'))

\* syncPlacement, after pending has changed; a bound: what the player composes is
\* among Placements.
SyncPlacement ==
    IF pending' = <<>>
    THEN /\ enabled' = enabled \ {"recall", "submit"}
         /\ UNCHANGED up
    ELSE /\ Overlay(pending') \in Placements
         /\ enabled' = enabled \cup {"recall"}
         /\ SendUp("place", Overlay(pending'))

\* onCellClick: a placed tile is taken back, or a selected one is placed.
ClickCell(cell) ==
    /\ started /\ CanSend
    /\ \/ /\ Placed(cell)
          /\ \E i \in DOMAIN pending :
                pending[i].cell = cell /\ pending' = RemoveAt(pending, i)
       \/ /\ ~Placed(cell)
          /\ myTurn /\ view.board[cell] = NoLetter
          /\ \E i \in Clickable :
                pending' = Append(pending,
                    [cell |-> cell, letter |-> Shown(view.hand, i), index |-> i])
    /\ SyncPlacement
    /\ UNCHANGED <<vars, roomSide, down, view, started, myTurn>>

Submit ==
    /\ "submit" \in enabled
    /\ CanSend
    /\ SendUp("submit", Overlay(pending))
    /\ UNCHANGED <<vars, roomSide, down, page>>

Recall ==
    /\ "recall" \in enabled
    /\ pending' = <<>>
    /\ SyncPlacement
    /\ UNCHANGED <<vars, roomSide, down, view, started, myTurn>>

\* The other buttons stay as they are.
PassTurn ==
    /\ "pass" \in enabled
    /\ myTurn
    /\ CanSend
    /\ pending' = <<>>
    /\ SendUp("pass", NoPlacement)
    /\ UNCHANGED <<vars, roomSide, down, view, started, myTurn, enabled>>

\* Both clicks on the exchange button: the positions selected between them become
\* letters of the last state, or nothing where its hand is shorter; no position
\* cancels.  In between the page only offers less than it does here.
Swap ==
    /\ "swap" \in enabled
    /\ \/ UNCHANGED up
       \/ /\ CanSend
          /\ \E chosen \in SUBSET Clickable \ {{}} :
                \E order \in SetToSeqs(chosen \cap DOMAIN view.hand) :
                    SendUp("change", [coordinates |-> <<>>,
                                      tiles |-> [k \in DOMAIN order |-> view.hand[order[k]]]])
    /\ enabled' = Buttons(view, myTurn, pending)
    /\ UNCHANGED <<vars, roomSide, down, view, started, myTurn, pending>>

\* The page polls in the lobby only.
FaultyPoll ==
    /\ ~started
    /\ \A i \in DOMAIN up : up[i].action # "state"
    /\ CanSend
    /\ SendUp("state", NoPlacement)
    /\ UNCHANGED <<vars, roomSide, down, page>>

\* requestState, from the timer; a bound: one poll is under way at a time.
Poll ==
    /\ \A i \in DOMAIN up : up[i].action # "state"
    /\ CanSend
    /\ SendUp("state", NoPlacement)
    /\ UNCHANGED <<vars, roomSide, down, page>>

-----------------------------------------------------------------------------
Player ==
    \/ \E c \in Cells : ClickCell(c)
    \/ Submit \/ Recall \/ PassTurn \/ Swap

BuildState(l) == ReadPublic(l) \/ ReadPrivate(l) \/ Push(l)

PageNext ==
    /\ ~oob
    /\ \/ StartGame
       \/ ReceiveCommand \/ Act
       \/ OpponentChanges \/ OpponentActs
       \/ \E l \in Loops : CheckIfUsersMove(l) \/ BuildState(l)
       \/ ReceiveMessage
       \/ Player
       \/ Poll

\* Read loops and the page's event loop run, and the timer fires; neither player
\* need do anything.
PageFairness ==
    /\ WF_pageVars(~oob /\ (ReceiveCommand \/ CheckIfUsersMove("mine") \/ Act))
    /\ WF_pageVars(~oob /\ OpponentActs)
    /\ \A l \in Loops : WF_pageVars(~oob /\ BuildState(l))
    /\ WF_pageVars(~oob /\ ReceiveMessage)
    /\ WF_pageVars(~oob /\ Poll)

PageSpec == PageInit /\ [][PageNext]_pageVars /\ PageFairness

-----------------------------------------------------------------------------
Views == [board : Boards, hand : Seq(Letters), mine : BOOLEAN, score : Nat \cup {-1}]

Messages == [kind : MessageKinds, view : Views]

PendingTiles == [cell : Cells, letter : Letters \cup {Missing}, index : Nat]

PageTypeOK ==
    /\ TypeOK
    /\ ongoing \in BOOLEAN
    /\ up \in Seq([action : Commands, placement : PlacementType])
    /\ cleared \subseteq Loops
    /\ making \in [Loops -> [at : MakingStates, msg : Messages]]
    /\ down \in Seq(Messages)
    /\ view \in Views
    /\ started \in BOOLEAN
    /\ myTurn \in BOOLEAN
    /\ pending \in Seq(PendingTiles)
    /\ enabled \subseteq {"submit", "recall", "pass", "swap"}
    /\ strayed \in BOOLEAN

\* A submit carries no tiles, the room writes what it was last told to place: that
\* is what the player saw on the page when he pressed the button, whatever he placed
\* and took back before, whichever of it was still under way, and although an
\* exchange of either player may end the turn at any moment (game_room.js:434-446,
\* GameRoom.cpp:217-229).  Two cases are left out, and false of the code.  An exchange
\* ends the player's own turn while his submit is between check and call: the tiles
\* written are the opponent's.  Or it ends the opponent's turn while a place of his is
\* between check and call: his tiles replace the player's in the player's turn.
SubmitsWhatIsShown ==
    [][/\ cleared' = cleared \ {"mine"} /\ cleared' # cleared
       /\ MyMove /\ ~strayed
       /\ board' # board
       => board' = With(board, Head(up).placement)]_pageVars

\* A page may show an old board, and go back to an older one, but never a letter that
\* is not on the board: not what the opponent has placed and not submitted, and not
\* what either of them has been refused, whatever states mix and overtake each other
\* (GameRoom.cpp:97-145).
ShowsRealLetters ==
    \A c \in Cells : view.board[c] # NoLetter => board[c] = view.board[c]

\* What the page shows and offers is so: the board, the hand, whose move it is, that
\* a submission will be accepted, and that it will be one of the overlay, but where
\* a strayed placement has replaced it: the page shows no sign of that.
ShowsTheGame ==
    /\ view.board = board
    /\ view.hand \in HandsShown(hands[MySeat])
    /\ myTurn = MyMove
    /\ "submit" \in enabled <=> MyMove /\ score # -1 /\ pending # <<>>
    /\ "submit" \in enabled /\ ~strayed => Overlay(pending) = new_tiles

\* The page catches up: once the game stands still and the player sends nothing but
\* polls, it comes to show the game as it is, although states mix two moments and
\* arrive out of order, errors block the button without one, and some changes are
\* followed by no push (game_room.js:151-155, GameRoom.cpp:98-117).
PageCatchesUp ==
    /\ <>[][FALSE]_vars
    /\ <>[](\A i \in DOMAIN up : up[i].action = "state")
    => <>[](ongoing /\ ~oob => ShowsTheGame)
=============================================================================
