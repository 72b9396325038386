------------------------------ MODULE GameLobby ------------------------------
(***************************************************************************)
(* The games that exist: the HTTP handler that creates, joins, starts and  *)
(* ends them (GameHandler, src/src/api/http.cpp), the tables games and     *)
(* game_users it keeps them in (src/sqlite/users_1.sql), the rooms it keeps*)
(* in memory (StorageClient, src/src/session/GameStorage.cpp), and how a   *)
(* websocket finds its room (src/src/api/websocket.cpp).                   *)
(*                                                                         *)
(* A request is several statements and map operations without a            *)
(* transaction or a common lock around them, so each is a step here and    *)
(* requests interleave.  The process may stop between any two; the tables  *)
(* survive and the rooms do not.  A room is named by the id of its game,   *)
(* which is never used again (AUTOINCREMENT); a request that has found a   *)
(* room keeps it alive after it has left the map.                          *)
(*                                                                         *)
(* A room that is not in the map is a null pointer, and whoever uses one   *)
(* unchecked brings the process down.                                      *)
(***************************************************************************)
EXTENDS Integers, Sequences, FiniteSets

CONSTANTS Users,        \* users, logged in
          Workers,      \* requests and websocket handshakes that may overlap
          GamesMax,     \* bound: games ever created
          RestartsMax   \* bound: times the process is stopped

ASSUME LobbyAssumption ==
    /\ GamesMax \in Nat \ {0}
    /\ RestartsMax \in Nat

VARIABLES games,        \* table games: rows [id, host]
          game_users,   \* table game_users: rows [game, user]
          last_id,      \* the id given last
          umap,         \* ids of the rooms StorageClient holds
          members,      \* GameRoom::players_ of the room of each game
          request,      \* what each worker is doing
          process,      \* "up", "stopped", or "crashed"
          restarts,     \* times the process has been stopped
          born          \* history: last_id when what was in memory was last lost

tables == <<games, game_users, last_id>>
rooms == <<umap, members>>
life == <<process, restarts, born>>
vars == <<tables, rooms, request, life>>

-----------------------------------------------------------------------------
Ids == 1 .. GamesMax

\* The first step of create, join, start and end, and of a websocket.
Entries == {"select", "join", "start", "end", "auth"}

Steps == Entries \cup
    {"idle", "deleteOwn", "findOwn", "eraseOwn", "insert", "store",
     "insertUser", "attach", "findEnded", "eraseEnded", "open"}

Idle == [at |-> "idle", user |-> "none", game |-> 0]

\* Worker w is at the step called at.
AtStep(w, at) == request[w].at = at

Goto(w, at) == request' = [request EXCEPT ![w].at = at]

GotoWith(w, at, g) == request' = [request EXCEPT ![w].at = at, ![w].game = g]

Answer(w) == request' = [request EXCEPT ![w] = Idle]

RowsOf(u) == {row \in games : row.host = u}

IsMember(g, u) == \E i \in DOMAIN members[g] : members[g][i] = u

Init ==
    /\ games = {}
    /\ game_users = {}
    /\ last_id = 0
    /\ umap = {}
    /\ members = [g \in Ids |-> <<>>]
    /\ request = [w \in Workers |-> Idle]
    /\ process = "up"
    /\ restarts = 0
    /\ born = 0

\* HandleRequest and Handle: a request of a user the token identifies.  Clients
\* name games they have been told of.
Arrive(w, u, entry, g) ==
    /\ AtStep(w, "idle")
    /\ request' = [request EXCEPT ![w] = [at |-> entry, user |-> u, game |-> g]]
    /\ UNCHANGED <<tables, rooms, life>>

-----------------------------------------------------------------------------
\* DELETE FROM games WHERE id = g; game_users follows (ON DELETE CASCADE).
DeleteRow(g) ==
    /\ games' = {row \in games : row.id # g}
    /\ game_users' = {row \in game_users : row.game # g}
    /\ UNCHANGED last_id

\* Operators named Faulty... are plausible mistakes in the definition that
\* follows them; the specification does not use them.  Here the column of the
\* host is taken for the column of the id.
FaultySelectOwn(w) ==
    /\ AtStep(w, "select")
    /\ IF RowsOf(request[w].user) = {}
       THEN Goto(w, "insert")
       ELSE \E row \in RowsOf(request[w].user) : GotoWith(w, "deleteOwn", row.host)
    /\ UNCHANGED <<tables, rooms, life>>

\* create_game_: is there a game the user hosts?
SelectOwn(w) ==
    /\ AtStep(w, "select")
    /\ IF RowsOf(request[w].user) = {}
       THEN Goto(w, "insert")
       ELSE \E row \in RowsOf(request[w].user) : GotoWith(w, "deleteOwn", row.id)
    /\ UNCHANGED <<tables, rooms, life>>

\* The row of the previous game is left to the new one to replace.
FaultyDeleteOwn(w) ==
    /\ AtStep(w, "deleteOwn")
    /\ Goto(w, "findOwn")
    /\ UNCHANGED <<tables, rooms, life>>

DeleteOwn(w) ==
    /\ AtStep(w, "deleteOwn")
    /\ DeleteRow(request[w].game)
    /\ Goto(w, "findOwn")
    /\ UNCHANGED <<rooms, life>>

\* Without AUTOINCREMENT: one more than the largest id in the table.
FaultyInsertRowReuses(w) ==
    LET u == request[w].user
        id == CHOOSE g \in Ids :
                /\ \A row \in games : row.id < g
                /\ g = 1 \/ \E row \in games : row.id = g - 1
    IN  /\ AtStep(w, "insert")
        /\ IF RowsOf(u) = {}
           THEN /\ \A row \in games : row.id < GamesMax
                /\ last_id' = IF id > last_id THEN id ELSE last_id
                /\ games' = games \cup {[id |-> id, host |-> u]}
                /\ GotoWith(w, "store", id)
           ELSE Answer(w) /\ UNCHANGED <<games, last_id>>
        /\ UNCHANGED <<game_users, rooms, life>>

\* INSERT INTO games; host_user_id is UNIQUE, a second row is an exception.
InsertRow(w) ==
    LET u == request[w].user
    IN  /\ AtStep(w, "insert")
        /\ IF RowsOf(u) = {}
           THEN /\ last_id < GamesMax
                /\ last_id' = last_id + 1
                /\ games' = games \cup {[id |-> last_id', host |-> u]}
                /\ GotoWith(w, "store", last_id')
           ELSE Answer(w) /\ UNCHANGED <<games, last_id>>
        /\ UNCHANGED <<game_users, rooms, life>>

\* The room is made, the host attached, and new_room puts it in the map.
StoreRoom(w) ==
    LET g == request[w].game
    IN  /\ AtStep(w, "store")
        /\ members' = [members EXCEPT ![g] = <<request[w].user>>]
        /\ umap' = umap \cup {g}
        /\ Answer(w)
        /\ UNCHANGED <<tables, life>>

-----------------------------------------------------------------------------
\* Only the room is asked for its host.
FaultyDeleteEnded(w) ==
    /\ AtStep(w, "end")
    /\ DeleteRow(request[w].game)
    /\ Goto(w, "findEnded")
    /\ UNCHANGED <<rooms, life>>

\* end_game_: DELETE FROM games WHERE id = g AND host_user_id = u.
DeleteEnded(w) ==
    LET r == request[w]
    IN  /\ AtStep(w, "end")
        /\ IF [id |-> r.game, host |-> r.user] \in games
           THEN DeleteRow(r.game) /\ Goto(w, "findEnded")
           ELSE Answer(w) /\ UNCHANGED tables
        /\ UNCHANGED <<rooms, life>>

\* delete_room: the user must be the first member of the room; erase() is not
\* under the lock get_game_room takes.
FindDeleted(w) ==
    LET r == request[w]
        refused == members[r.game][1] # r.user
    IN  /\ r.game \in umap
        /\ \/ /\ AtStep(w, "findOwn")
              /\ Goto(w, IF refused THEN "insert" ELSE "eraseOwn")
           \/ /\ AtStep(w, "findEnded")
              /\ IF refused THEN Answer(w) ELSE Goto(w, "eraseEnded")
        /\ UNCHANGED <<tables, rooms, life>>

EraseRoom(w) ==
    /\ umap' = umap \ {request[w].game}
    /\ \/ AtStep(w, "eraseOwn") /\ Goto(w, "insert")
       \/ AtStep(w, "eraseEnded") /\ Answer(w)
    /\ UNCHANGED <<tables, members, life>>

-----------------------------------------------------------------------------
\* join_game_: a member has nothing to do.
CheckMember(w) ==
    LET r == request[w]
    IN  /\ AtStep(w, "join")
        /\ r.game \in umap
        /\ IF IsMember(r.game, r.user) THEN Answer(w) ELSE Goto(w, "insertUser")
        /\ UNCHANGED <<tables, rooms, life>>

\* INSERT OR IGNORE, as in SqlCheckUserStatusInGame; and no attach_session after.
FaultyInsertUserIgnore(w) ==
    LET r == request[w]
    IN  /\ AtStep(w, "insertUser")
        /\ IF \E row \in games : row.id = r.game
           THEN /\ game_users' = game_users \cup {[game |-> r.game, user |-> r.user]}
                /\ Goto(w, "attach")
           ELSE Answer(w) /\ UNCHANGED game_users
        /\ UNCHANGED <<games, last_id, rooms, life>>

FaultyInsertUserOnly(w) ==
    LET r == request[w]
        new == [game |-> r.game, user |-> r.user]
    IN  /\ AtStep(w, "insertUser")
        /\ game_users' = IF \E row \in games : row.id = r.game
                         THEN game_users \cup {new} ELSE game_users
        /\ Answer(w)
        /\ UNCHANGED <<games, last_id, rooms, life>>

\* INSERT INTO game_users: an exception if the game has no row, or the user one.
InsertUser(w) ==
    LET r == request[w]
        new == [game |-> r.game, user |-> r.user]
    IN  /\ AtStep(w, "insertUser")
        /\ IF new \notin game_users /\ \E row \in games : row.id = r.game
           THEN game_users' = game_users \cup {new} /\ Goto(w, "attach")
           ELSE Answer(w) /\ UNCHANGED game_users
        /\ UNCHANGED <<games, last_id, rooms, life>>

\* attach_session, on the room found before the insert.
Attach(w) ==
    LET r == request[w]
    IN  /\ AtStep(w, "attach")
        /\ members' = [members EXCEPT ![r.game] = Append(@, r.user)]
        /\ Answer(w)
        /\ UNCHANGED <<tables, umap, life>>

\* start_game_: what it does to the room is in GameRoom.
StartGame(w) ==
    /\ AtStep(w, "start")
    /\ request[w].game \in umap
    /\ Answer(w)
    /\ UNCHANGED <<tables, rooms, life>>

-----------------------------------------------------------------------------
\* init_user_id_: the room exists and has the user; otherwise the websocket is closed.
Authenticate(w) ==
    LET r == request[w]
    IN  /\ AtStep(w, "auth")
        /\ IF r.game \in umap /\ IsMember(r.game, r.user)
           THEN Goto(w, "open")
           ELSE Answer(w)
        /\ UNCHANGED <<tables, rooms, life>>

\* Handle looks the room up again; what its loops do is in GameRoom and RoomSessions.
OpenConnection(w) ==
    /\ AtStep(w, "open")
    /\ request[w].game \in umap
    /\ Answer(w)
    /\ UNCHANGED <<tables, rooms, life>>

-----------------------------------------------------------------------------
\* What the process had in memory is gone.
Forget ==
    /\ umap' = {}
    /\ members' = [g \in Ids |-> <<>>]
    /\ request' = [w \in Workers |-> Idle]
    /\ born' = last_id

\* The steps that use the answer of get_game_room unchecked.
NullRoom(w) ==
    /\ request[w].at \in {"findOwn", "findEnded", "join", "start", "open"}
    /\ request[w].game \notin umap
    /\ process' = "crashed"
    /\ Forget
    /\ UNCHANGED <<tables, restarts>>

Stop ==
    /\ restarts < RestartsMax
    /\ process' = "stopped"
    /\ restarts' = restarts + 1
    /\ Forget
    /\ UNCHANGED tables

\* The process comes up with the tables it left.
Boot ==
    /\ process = "stopped"
    /\ process' = "up"
    /\ UNCHANGED <<tables, rooms, request, restarts, born>>

Create(w) == SelectOwn(w) \/ DeleteOwn(w) \/ InsertRow(w) \/ StoreRoom(w)
End(w) == DeleteEnded(w) \/ FindDeleted(w) \/ EraseRoom(w)
Join(w) == CheckMember(w) \/ InsertUser(w) \/ Attach(w)
Handshake(w) == Authenticate(w) \/ OpenConnection(w)

Next ==
    \/ /\ process = "up"
       /\ \/ \E w \in Workers :
               \/ \E u \in Users : Arrive(w, u, "select", 0)
               \/ \E u \in Users, entry \in Entries \ {"select"}, g \in 1 .. last_id :
                    Arrive(w, u, entry, g)
               \/ Create(w) \/ End(w) \/ Join(w) \/ StartGame(w) \/ Handshake(w)
               \/ NullRoom(w)
          \/ Stop
    \/ Boot

Spec == Init /\ [][Next]_vars

-----------------------------------------------------------------------------
Requests == [at : Steps, user : Users \cup {"none"}, game : Ids \cup {0}]

LobbyTypeOK ==
    /\ games \subseteq [id : Ids, host : Users]
    /\ game_users \subseteq [game : Ids, user : Users]
    /\ last_id \in 0 .. GamesMax
    /\ umap \subseteq Ids
    /\ members \in [Ids -> Seq(Users)]
    /\ request \in [Workers -> Requests]
    /\ process \in {"up", "stopped", "crashed"}
    /\ restarts \in 0 .. RestartsMax
    /\ born \in 0 .. GamesMax

\* No user is twice in a room, although the room is asked for the user long
\* before attach_session appends him: of two overlapping joins one fails on the
\* key of game_users (http.cpp:579-590).  The seat of a player is the FIRST
\* index of his id, so a second one could never be played from.
NobodyJoinsTwice ==
    \A g \in Ids : \A i, j \in DOMAIN members[g] : members[g][i] = members[g][j] => i = j

\* A room in the map without a row, which nobody could find in the list or end,
\* is about to be erased: deleting the row and the room are two steps, and so
\* are inserting the row and storing the room (http.cpp:500-502, 506-523, 650-662).
RoomsHaveRows ==
    \A g \in umap :
        \/ \E row \in games : row.id = g
        \/ \E w \in Workers :
            /\ request[w].game = g
            /\ request[w].at \in {"findOwn", "eraseOwn", "findEnded", "eraseEnded"}

\* Of the games in the list exactly those created since the process came up have a
\* room, or are about to have one: creates and ends, in whatever order they overlap,
\* leave no new game without its room, and nothing gives an old one its room back
\* (GameStorage.cpp:17-29, http.cpp:487-528, 644-669).
RowsHaveRooms ==
    \A row \in games :
        row.id > born <=>
            \/ row.id \in umap
            \/ \E w \in Workers : AtStep(w, "store") /\ request[w].game = row.id

\* The two records of who is in a game agree whenever no join is between them:
\* the members of a room are the host and the users of its rows.
RoomAgreesWithRows ==
    \A row \in games :
        row.id \in umap /\ (\A w \in Workers : ~(AtStep(w, "attach") /\ request[w].game = row.id)) =>
            {members[row.id][i] : i \in DOMAIN members[row.id]} =
                {row.host} \cup {joined.user : joined \in {r \in game_users : r.game = row.id}}

\* A game leaves the list, and a room the map of a process that goes on, only by
\* a request of the host.  create_game_ deletes by an id it has read before and
\* names no host (http.cpp:491-502, 369-371), and delete_room erases by an id after
\* it has looked at the room (GameStorage.cpp:24-27): what else runs in between
\* must not make the id another user's.
GamesEndByHost ==
    [][/\ \A row \in games \ games' :
            \E w \in Workers : request[w].user = row.host /\ request'[w] # request[w]
       /\ process' = "up" =>
            \A g \in umap \ umap' :
                \E w \in Workers :
                    request[w].user = members[g][1] /\ request'[w] # request[w]]_vars

\* A request for a game that is gone is answered (GameStorage.hpp:37,
\* http_handlers.hpp:151: "or {} if error").
NoRoomIsMissed == process # "crashed"
=============================================================================
