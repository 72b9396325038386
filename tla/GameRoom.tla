------------------------------ MODULE GameRoom ------------------------------
(***************************************************************************)
(* A room: class GameRoom (src/src/session/GameRoom.cpp) around its rules  *)
(* engine, driven by the HTTP handlers that join and start it              *)
(* (src/src/api/http.cpp) and by one read loop per websocket connection    *)
(* (src/src/api/websocket.cpp).                                            *)
(*                                                                         *)
(* game_ has no lock: what a read loop reads of it and what it then does   *)
(* are separate steps here, as are set_players() and start() of one start  *)
(* request.  Each single call of the engine is one step: calls that overlap*)
(* are data races, whose outcomes are not modelled.                        *)
(*                                                                         *)
(* The locks of the room and the delivery of its messages are the subject  *)
(* of module RoomSessions.                                                 *)
(***************************************************************************)
EXTENDS ScrabbleGame

CONSTANTS PlayersMax,   \* players_max_ of the engine
          Host,         \* the user who created the room
          Workers,      \* HTTP requests that may be in progress at once
          Conns,        \* websocket connections
          UserOf,       \* the user a connection has authenticated as
          Actions       \* what clients may ask for

ASSUME RoomAssumption ==
    /\ PlayersMax \in Nat \ {0}
    /\ Host \in Users
    /\ UserOf \in [Conns -> Users]
    /\ Actions \subseteq {"place", "submit", "pass", "change"}

\* The engine can be started with any list of members the room can have.
ASSUME RosterAssumption ==
    /\ <<Host>> \in Rosters
    /\ \A r \in Rosters, u \in Users :
        (\A i \in DOMAIN r : r[i] # u) => Append(r, u) \in Rosters

VARIABLES roster,    \* GameRoom::players_, whose keys are those of sessions_
          ongoing,   \* ongoing_
          open,      \* open_
          starting,  \* workers between set_players() and start()
          loop,      \* where the read loop of a connection stands
          actions    \* what the clients of this room do ask for; never changes

roomVars == <<roster, ongoing, open, starting, loop, actions>>
allVars == <<vars, roomVars>>

\* The actions for which the room asks whose move it is: all but an exchange.
Checked == {"place", "submit", "pass"}

\* A read loop is not there, waits for a message, is about to ask whose move it
\* is for an action, or is about to call the engine for it.
About(at, action) == [at |-> at, action |-> action]
Absent == About("none", "none")
Reading == About("reading", "none")

LoopStates == {Absent, Reading} \cup [at : {"check", "act"}, action : Actions]

-----------------------------------------------------------------------------
\* create_game_: the host is attached before the room is stored.
RoomInit ==
    /\ Init
    /\ roster = <<Host>>
    /\ ongoing = FALSE
    /\ open = TRUE
    /\ starting = {}
    /\ loop = [c \in Conns |-> Absent]
    /\ actions \in {Actions, Actions \ {"change"}}

\* check_for_user(u) # -1
InRoom(u) == \E i \in DOMAIN roster : roster[i] = u

\* Joining twice; and taking a seat in the engine at once, without tiles.
FaultyAttachSessionAgain(u) ==
    /\ roster' = Append(roster, u)
    /\ UNCHANGED <<vars, ongoing, open, starting, loop, actions>>

FaultyAttachSessionSeated(u) ==
    /\ ~InRoom(u)
    /\ players = roster
    /\ roster' = Append(roster, u)
    /\ players' = Append(players, u)
    /\ hands' = Append(hands, {})
    /\ scores' = Append(scores, 0)
    /\ UNCHANGED <<current_player, bag, current_max, board, new_tiles, score, oob,
                   ongoing, open, starting, loop, actions>>

\* attach_session, under the exclusive lock.  join_game_ calls it for users that
\* are not in the room; the key of game_users stops a second, overlapping request.
AttachSession(u) ==
    /\ ~InRoom(u)
    /\ roster' = Append(roster, u)
    /\ UNCHANGED <<vars, ongoing, open, starting, loop, actions>>

\* A start that does not register the players first.
FaultyRegisterPlayers(w) ==
    /\ w \notin starting
    /\ starting' = starting \cup {w}
    /\ UNCHANGED <<vars, roster, ongoing, open, loop, actions>>

\* start_game_, first half: GameRoom::set_players.
RegisterPlayers(w) ==
    /\ w \notin starting
    /\ SetPlayers(roster)
    /\ starting' = starting \cup {w}
    /\ UNCHANGED <<roster, ongoing, open, loop, actions>>

RegisterPlayersOutOfBounds(w) ==
    /\ w \notin starting
    /\ SetPlayersOutOfBounds(roster)
    /\ UNCHANGED roomVars

\* start_game_, second half: GameRoom::start.
Start(w) ==
    /\ w \in starting
    /\ starting' = starting \ {w}
    /\ ongoing' = (ongoing \/ Len(roster) = PlayersMax)
    /\ UNCHANGED <<vars, roster, open, loop, actions>>

\* A connection authenticates: init_user_id_ asks for membership, nothing else.
Connect(c) ==
    /\ loop[c] = Absent
    /\ InRoom(UserOf[c])
    /\ loop' = [loop EXCEPT ![c] = Reading]
    /\ UNCHANGED <<vars, roster, ongoing, open, starting, actions>>

\* receive_message: declined unless the game is ongoing (a state request and
\* "end" change nothing).  An exchange goes straight to the engine.
ReceiveMessage(c, action) ==
    /\ loop[c] = Reading
    /\ ongoing
    /\ loop' = [loop EXCEPT ![c] =
                    About(IF action \in Checked THEN "check" ELSE "act", action)]
    /\ UNCHANGED <<vars, roster, ongoing, open, starting, actions>>

\* Whoever has a seat may move.
FaultyCheckIfUsersMove(c, action) ==
    /\ loop[c] = About("check", action)
    /\ loop' = [loop EXCEPT ![c] =
                    IF \E i \in DOMAIN players : players[i] = UserOf[c]
                    THEN About("act", action) ELSE Reading]
    /\ UNCHANGED <<vars, roster, ongoing, open, starting, actions>>

\* check_if_users_move_
CheckIfUsersMove(c, action) ==
    /\ loop[c] = About("check", action)
    /\ loop' = [loop EXCEPT ![c] =
                    IF players[Mover] = UserOf[c] THEN About("act", action) ELSE Reading]
    /\ UNCHANGED <<vars, roster, ongoing, open, starting, actions>>

\* Index of the user of connection c in the engine, as Change looks it up.
SeatsOf(c) == {i \in DOMAIN players : players[i] = UserOf[c]}

\* The engine is called: the tail of action_place_, action_submit_, action_pass_
\* and action_change_.
Act(c, action) ==
    /\ loop[c] = About("act", action)
    /\ \/ action = "place"  /\ \E p \in Placements : TryPlaceTiles(p)
       \/ action = "submit" /\ SubmitWord
       \/ action = "submit" /\ SubmitWordOutOfBounds
       \/ action = "submit" /\ score = -1 /\ UNCHANGED vars
       \/ action = "pass"   /\ Pass
       \/ /\ action = "change"
          /\ \E i \in SeatsOf(c), request \in Requests :
                \/ Change(i, request)
                \/ ChangeOutOfBounds(i, request)
                \/ ChangeRefused(i, request)
       \/ action = "change" /\ SeatsOf(c) = {} /\ UNCHANGED vars
    /\ loop' = [loop EXCEPT ![c] = Reading]
    /\ UNCHANGED <<roster, ongoing, open, starting, actions>>

\* The client closes its connection: close_session.
CloseSession(c) ==
    /\ loop[c] = Reading
    /\ open' = FALSE
    /\ ongoing' = FALSE
    /\ loop' = [loop EXCEPT ![c] = Absent]
    /\ UNCHANGED <<vars, roster, starting, actions>>

\* A message that is no JSON, has no action, or lacks what its action needs throws
\* out of the read loop: the connection ends, the room is not told.
Malformed(c) ==
    /\ \/ loop[c] = Reading
       \/ loop[c].at = "act" /\ loop[c].action \in {"place", "change"}
    /\ loop' = [loop EXCEPT ![c] = Absent]
    /\ UNCHANGED <<vars, roster, ongoing, open, starting, actions>>

RoomNext ==
    /\ ~oob
    /\ \/ \E u \in Users : AttachSession(u)
       \/ \E w \in Workers :
            RegisterPlayers(w) \/ RegisterPlayersOutOfBounds(w) \/ Start(w)
       \/ \E c \in Conns :
            \/ Connect(c)
            \/ CloseSession(c)
            \/ Malformed(c)
            \/ \E action \in actions :
                ReceiveMessage(c, action) \/ CheckIfUsersMove(c, action) \/ Act(c, action)

RoomSpec == RoomInit /\ [][RoomNext]_allVars

-----------------------------------------------------------------------------
RoomTypeOK ==
    /\ TypeOK
    /\ roster \in Seq(Users)
    /\ ongoing \in BOOLEAN
    /\ open \in BOOLEAN
    /\ starting \subseteq Workers
    /\ loop \in [Conns -> LoopStates]
    /\ actions \subseteq Actions

\* The engine's players are the first of the room's members, in the order they
\* joined, with the host first: a start that overlaps a join, another start or a
\* running game never reorders or drops a seat (whose hand and points are found
\* by its index).
SeatsFollowRoster ==
    /\ roster[1] = Host
    /\ Len(players) =< Len(roster)
    /\ \A i \in DOMAIN players : players[i] = roster[i]
    /\ \A i, j \in DOMAIN roster : roster[i] = roster[j] => i = j

\* While a read loop may ask whose move it is, somebody is to move:
\* whose_move_id indexes players with current_player unchecked
\* (ScrabbleGame.cpp:425), and Pass divides by the number of players.
SomeoneToMove ==
    (ongoing \/ \E c \in Conns : loop[c] \notin {Absent, Reading}) =>
        Mover \in DOMAIN players

\* What check_if_users_move_ answered is still true when the engine is called
\* (GameRoom.cpp:192-204, 218-222, 248-252), whatever the other connections do
\* and whoever joins or starts in between, in a room where nobody exchanges
\* tiles and nobody has two connections: then one player at most is past the
\* check, and only his call moves the turn.
ClearedIsToMove ==
    (/\ "change" \notin actions
     /\ \A c, d \in Conns : UserOf[c] = UserOf[d] => c = d) =>
        \A c \in Conns : loop[c].at = "act" => players[Mover] = UserOf[c]

\* The turn moves on only by a step of a connection of the player to move.
TurnMovesByHolder ==
    [][current_player' # current_player =>
        \E c \in Conns :
            /\ loop[c] \notin {Absent, Reading} /\ loop'[c] = Reading
            /\ UserOf[c] = players[Mover]]_allVars

\* The room drives the engine only in ways the engine is specified for: late,
\* repeated and overlapping starts included, a room's game is a behaviour of
\* ScrabbleGame.
RoomDrivesEngine == Spec
=============================================================================
