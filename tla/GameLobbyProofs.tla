--------------------------- MODULE GameLobbyProofs ---------------------------
(***************************************************************************)
(* Theorems about GameLobby, for every number of users, overlapping        *)
(* requests, games and restarts: what the tables and the rooms in memory   *)
(* say of each other.                                                      *)
(***************************************************************************)
EXTENDS GameLobby, TLAPS

-----------------------------------------------------------------------------
\* The game has no row.
Gone(g) == \A row \in games : row.id # g

\* Requests that are at one of the given steps.
Doing(ats) == {w \in Workers : request[w].at \in ats}

\* The row is deleted, the room is not.
Deleting == {"findOwn", "eraseOwn", "findEnded", "eraseEnded"}

\* Everybody who is recorded as the host of game g.
Owns(u, g) ==
    \/ \E row \in games : row.id = g /\ row.host = u
    \/ members[g] # <<>> /\ members[g][1] = u
    \/ \E w \in Doing(Deleting \cup {"store", "deleteOwn"}) :
        request[w].game = g /\ request[w].user = u

(***************************************************************************)
(* The parts of the inductive invariant.                                   *)
(***************************************************************************)

\* An id beyond last_id is not in use; rows of game_users have a game; rooms in
\* the map have a host.
KnownIds ==
    /\ \A row \in games : row.id \in 1 .. last_id
    /\ \A g \in Ids : members[g] # <<>> => g \in 1 .. last_id
    /\ \A w \in Workers :
        /\ request[w].at \notin {"idle", "select", "insert"} => request[w].game \in 1 .. last_id
        /\ request[w].at # "idle" => request[w].user \in Users
    /\ \A r \in game_users : ~Gone(r.game)
    /\ \A g \in umap : members[g] # <<>>

\* What a request has found out of a room stays true of the room; what it has
\* deleted stays deleted.
RoomsInUse ==
    \A w \in Workers :
        LET r == request[w]
        IN  /\ r.at \in {"insertUser", "attach"} =>
                members[r.game] # <<>> /\ members[r.game][1] # r.user
            /\ r.at \in {"eraseOwn", "eraseEnded"} => members[r.game] # <<>>
            /\ r.at \in Deleting => Gone(r.game)

\* A room that is about to be stored is nobody else's and has no members yet;
\* if its row is deleted meanwhile, somebody will look for the room.
NewRooms ==
    \A w \in Doing({"store"}) :
        LET g == request[w].game
        IN  /\ members[g] = <<>>
            /\ \A r \in game_users : r.game # g
            /\ \A v \in Doing({"store"}) : request[v].game = g => v = w
            /\ Gone(g) => \E v \in Doing({"findOwn", "findEnded"}) : request[v].game = g

OneOwner == \A g \in Ids : \A u, v \in Users : Owns(u, g) /\ Owns(v, g) => u = v

\* Members other than the host have their row, while the game has one.
Joined ==
    \A g \in Ids : \A i \in DOMAIN members[g] :
        i = 1 \/ Gone(g) \/ [game |-> g, user |-> members[g][i]] \in game_users

\* Of the requests about to attach a user to a room there is one at most; it has
\* inserted the row and the user is not in the room.
Joining ==
    \A w \in Doing({"attach"}) :
        LET r == request[w]
        IN  /\ Gone(r.game) \/ [game |-> r.game, user |-> r.user] \in game_users
            /\ ~IsMember(r.game, r.user)
            /\ \A v \in Doing({"attach"}) :
                request[v].game = r.game /\ request[v].user = r.user => v = w

\* Who has a row is a member of the room, or about to be attached.
RowsJoin ==
    \A r \in game_users :
        members[r.game] # <<>> =>
            \/ IsMember(r.game, r.user)
            \/ \E w \in Doing({"attach"}) :
                request[w].game = r.game /\ request[w].user = r.user

\* Rooms in the map, and those about to be stored, are of games created since the
\* memory was last lost.
BornInv ==
    /\ born =< last_id
    /\ \A g \in umap : g > born
    /\ \A w \in Doing({"store"}) : request[w].game > born

LobbyInv ==
    /\ LobbyTypeOK
    /\ BornInv
    /\ KnownIds
    /\ RoomsInUse
    /\ NewRooms
    /\ OneOwner
    /\ Joined
    /\ Joining
    /\ RowsJoin
    /\ NobodyJoinsTwice
    /\ RoomsHaveRows
    /\ RowsHaveRooms

-----------------------------------------------------------------------------
(***************************************************************************)
(* The kinds of step, as what they do to the request that takes them.      *)
(***************************************************************************)

\* Only request w moves.
OnlyMoves(w) ==
    /\ request' \in [Workers -> Requests]
    /\ \A v \in Workers \ {w} : request'[v] = request[v]

\* Request w goes on to step at with the same user and game.
MovesTo(w, at) ==
    /\ OnlyMoves(w)
    /\ request'[w].at = at
    /\ request'[w].user = request[w].user
    /\ request'[w].game = request[w].game

\* Request w has been answered.
Answered(w) == OnlyMoves(w) /\ request'[w] = Idle

LEMMA RequestTypes ==
    ASSUME LobbyTypeOK, NEW w \in Workers
    PROVE  /\ request \in [Workers -> Requests]
           /\ request[w] = [at |-> request[w].at, user |-> request[w].user,
                            game |-> request[w].game]
           /\ request[w].at \in Steps
           /\ request[w].user \in Users \cup {"none"}
           /\ request[w].game \in Ids \cup {0}
BY DEF LobbyTypeOK, Requests

LEMMA GotoMoves ==
    ASSUME LobbyTypeOK, NEW w \in Workers, NEW at \in Steps, Goto(w, at)
    PROVE  MovesTo(w, at)
BY RequestTypes DEF Goto, MovesTo, OnlyMoves, Requests

LEMMA GotoWithMoves ==
    ASSUME LobbyTypeOK, NEW w \in Workers, NEW at \in Steps, NEW g \in Ids,
           GotoWith(w, at, g)
    PROVE  /\ OnlyMoves(w)
           /\ request'[w].at = at
           /\ request'[w].user = request[w].user
           /\ request'[w].game = g
BY RequestTypes DEF GotoWith, OnlyMoves, Requests

LEMMA AnswerMoves ==
    ASSUME LobbyTypeOK, NEW w \in Workers, Answer(w)
    PROVE  Answered(w)
BY RequestTypes DEF Answer, Answered, OnlyMoves, Idle, Requests, Steps

\* A step that looks and changes nothing but where request w stands.
Looks(w) ==
    LET r == request[w]
        s == request'[w]
    IN  /\ UNCHANGED <<tables, rooms, life>>
        /\ OnlyMoves(w)
        /\ \/ s = Idle /\ r.at \notin Deleting \cup {"store", "attach"}
           \/ /\ r.at = "idle" /\ s.at \in Entries /\ s.user \in Users
              /\ s.at # "select" => s.game \in 1 .. last_id
           \/ r.at = "select" /\ s.at = "insert" /\ s.user = r.user
           \/ /\ r.at = "select" /\ s.at = "deleteOwn" /\ s.user = r.user
              /\ \E row \in games : row.id = s.game /\ row.host = s.user
           \/ /\ s.user = r.user /\ s.game = r.game /\ s.game \in umap
              /\ \/ r.at = "findOwn" /\ s.at = "eraseOwn"
                 \/ r.at = "findEnded" /\ s.at = "eraseEnded"
                 \/ r.at = "join" /\ s.at = "insertUser" /\ ~IsMember(s.game, s.user)
                 \/ r.at = "auth" /\ s.at = "open"

\* The row of a game is deleted by its host.
Drops(w) ==
    /\ request[w].at \in {"deleteOwn", "end"}
    /\ Owns(request[w].user, request[w].game)
    /\ DeleteRow(request[w].game)
    /\ MovesTo(w, "findOwn") \/ MovesTo(w, "findEnded")
    /\ UNCHANGED <<rooms, life>>

\* A row with a new id.
Inserts(w) ==
    /\ request[w].at = "insert"
    /\ RowsOf(request[w].user) = {}
    /\ last_id' = last_id + 1 /\ last_id' \in Ids
    /\ games' = games \cup {[id |-> last_id', host |-> request[w].user]}
    /\ OnlyMoves(w)
    /\ request'[w] = [at |-> "store", user |-> request[w].user, game |-> last_id']
    /\ UNCHANGED <<game_users, rooms, life>>

\* The host in the new room, the room in the map.
Stores(w) ==
    /\ request[w].at = "store"
    /\ members' = [members EXCEPT ![request[w].game] = <<request[w].user>>]
    /\ umap' = umap \cup {request[w].game}
    /\ Answered(w)
    /\ UNCHANGED <<tables, life>>

\* The row of a user who joins.
Seats(w) ==
    LET r == request[w]
        new == [game |-> r.game, user |-> r.user]
    IN  /\ r.at = "insertUser"
        /\ new \notin game_users /\ ~Gone(r.game)
        /\ game_users' = game_users \cup {new}
        /\ MovesTo(w, "attach")
        /\ UNCHANGED <<games, last_id, rooms, life>>

\* The user in the room.
Attaches(w) ==
    LET r == request[w]
    IN  /\ r.at = "attach"
        /\ members' = [members EXCEPT ![r.game] = Append(@, r.user)]
        /\ Answered(w)
        /\ UNCHANGED <<tables, umap, life>>

\* The room out of the map.
Erases(w) ==
    /\ request[w].at \in {"eraseOwn", "eraseEnded"}
    /\ umap' = umap \ {request[w].game}
    /\ MovesTo(w, "insert") \/ Answered(w)
    /\ UNCHANGED <<tables, members, life>>

\* The process goes down, and up again.
GoesDown ==
    /\ process' \in {"stopped", "crashed"}
    /\ restarts' \in 0 .. RestartsMax
    /\ Forget
    /\ UNCHANGED tables

GoesUp ==
    /\ process = "stopped" /\ process' = "up"
    /\ UNCHANGED <<tables, rooms, request, restarts, born>>

WorkerStep(w) ==
    \/ Looks(w) \/ Drops(w) \/ Inserts(w) \/ Stores(w)
    \/ Seats(w) \/ Attaches(w) \/ Erases(w)

\* Only its host can be refused nothing: delete_room never refuses a request
\* that has deleted the row.
LEMMA NeverRefused ==
    ASSUME LobbyInv, NEW w \in Workers, request[w].at \in Deleting,
           request[w].game \in umap
    PROVE  members[request[w].game][1] = request[w].user
<1> DEFINE g == request[w].game
           u == request[w].user
<1>1. g \in Ids /\ members[g] # <<>> /\ u \in Users
    BY DEF LobbyInv, KnownIds, LobbyTypeOK, Deleting
<1>2. members[g] \in Seq(Users)
    BY <1>1 DEF LobbyInv, LobbyTypeOK
<1>3. members[g][1] \in Users
    BY <1>1, <1>2
<1>4. Owns(u, g)
    BY DEF Owns, Doing
<1>5. Owns(members[g][1], g)
    BY <1>1 DEF Owns
<1> QED  BY <1>1, <1>3, <1>4, <1>5 DEF LobbyInv, OneOwner

LEMMA StepKinds ==
    ASSUME LobbyInv, [Next]_vars
    PROVE  \/ UNCHANGED vars
           \/ process = "up" /\ \E w \in Workers : WorkerStep(w)
           \/ GoesDown
           \/ GoesUp
<1> USE DEF LobbyInv
<1> DEFINE Works(w) == process = "up" /\ WorkerStep(w)
<1>1. ASSUME NEW w \in Workers, NEW u \in Users, NEW entry \in Entries, NEW g \in 0 .. last_id,
             entry # "select" => g \in 1 .. last_id,
             Arrive(w, u, entry, g)
      PROVE  Looks(w)
    <2>1. [at |-> entry, user |-> u, game |-> g] \in Requests
        <3>1. g \in Ids \cup {0}
            BY LobbyAssumption DEF LobbyAssumption, LobbyTypeOK, Ids
        <3>2. entry \in Steps
            BY DEF Steps
        <3> QED  BY <3>1, <3>2 DEF Requests
    <2>2. OnlyMoves(w) /\ request'[w] = [at |-> entry, user |-> u, game |-> g]
        BY <1>1, <2>1, RequestTypes DEF Arrive, OnlyMoves
    <2> QED  BY <1>1, <2>2 DEF Arrive, Looks, AtStep
<1>2. ASSUME NEW w \in Workers, SelectOwn(w)
      PROVE  Looks(w)
    <2>1. CASE Goto(w, "insert")
        BY <1>2, <2>1, GotoMoves DEF Steps, SelectOwn, MovesTo, Looks, AtStep
    <2>2. ASSUME NEW row \in RowsOf(request[w].user), GotoWith(w, "deleteOwn", row.id)
          PROVE  Looks(w)
        <3>1. row \in games /\ row.host = request[w].user /\ row.id \in Ids
            BY <2>2 DEF RowsOf, LobbyTypeOK
        <3>2. /\ OnlyMoves(w) /\ request'[w].at = "deleteOwn"
              /\ request'[w].user = request[w].user /\ request'[w].game = row.id
            BY <2>2, <3>1, GotoWithMoves DEF Steps
        <3> QED  BY <1>2, <3>1, <3>2 DEF SelectOwn, Looks, AtStep
    <2> QED  BY <1>2, <2>1, <2>2 DEF SelectOwn
<1>3. ASSUME NEW w \in Workers, DeleteOwn(w)
      PROVE  Drops(w)
    <2>1. MovesTo(w, "findOwn")
        BY <1>3, GotoMoves DEF DeleteOwn, Steps
    <2> QED  BY <1>3, <2>1 DEF DeleteOwn, Drops, AtStep, Owns, Doing
<1>4. ASSUME NEW w \in Workers, InsertRow(w)
      PROVE  Inserts(w) \/ Looks(w)
    <2>1. CASE RowsOf(request[w].user) = {}
        <3>1. last_id' \in Ids /\ last_id' = last_id + 1
            BY <1>4, <2>1, LobbyAssumption DEF InsertRow, LobbyTypeOK, Ids, LobbyAssumption
        <3>2. /\ OnlyMoves(w) /\ request'[w].at = "store"
              /\ request'[w].user = request[w].user /\ request'[w].game = last_id'
            BY <1>4, <2>1, <3>1, GotoWithMoves DEF InsertRow, Steps
        <3>3. request'[w] = [at |-> "store", user |-> request[w].user, game |-> last_id']
            BY <3>2 DEF OnlyMoves, Requests
        <3> QED  BY <1>4, <2>1, <3>1, <3>2, <3>3 DEF InsertRow, Inserts, AtStep
    <2>2. CASE RowsOf(request[w].user) # {}
        BY <1>4, <2>2, AnswerMoves
        DEF InsertRow, Looks, Answered, AtStep, Deleting, tables
    <2> QED  BY <2>1, <2>2
<1>5. ASSUME NEW w \in Workers, StoreRoom(w)
      PROVE  Stores(w)
    BY <1>5, AnswerMoves DEF StoreRoom, Stores, AtStep
<1>6. ASSUME NEW w \in Workers, DeleteEnded(w)
      PROVE  Drops(w) \/ Looks(w)
    <2>1. CASE [id |-> request[w].game, host |-> request[w].user] \in games
        <3>1. MovesTo(w, "findEnded")
            BY <1>6, <2>1, GotoMoves DEF DeleteEnded, Steps
        <3>2. Owns(request[w].user, request[w].game)
            BY <2>1 DEF Owns
        <3> QED  BY <1>6, <2>1, <3>1, <3>2 DEF DeleteEnded, Drops, AtStep
    <2>2. CASE [id |-> request[w].game, host |-> request[w].user] \notin games
        BY <1>6, <2>2, AnswerMoves DEF DeleteEnded, Looks, Answered, AtStep, Deleting
    <2> QED  BY <2>1, <2>2
<1>7. ASSUME NEW w \in Workers, FindDeleted(w)
      PROVE  Looks(w)
    <2>1. /\ request[w].game \in umap
          /\ request[w].at \in {"findOwn", "findEnded"}
          /\ members[request[w].game][1] = request[w].user
        BY <1>7, NeverRefused DEF FindDeleted, AtStep, Deleting
    <2>2. \/ request[w].at = "findOwn" /\ Goto(w, "eraseOwn")
          \/ request[w].at = "findEnded" /\ Goto(w, "eraseEnded")
        BY <1>7, <2>1 DEF FindDeleted, AtStep
    <2>3. \/ request[w].at = "findOwn" /\ MovesTo(w, "eraseOwn")
          \/ request[w].at = "findEnded" /\ MovesTo(w, "eraseEnded")
        BY <2>2, GotoMoves DEF Steps
    <2> QED  BY <1>7, <2>1, <2>3 DEF FindDeleted, Looks, MovesTo
<1>8. ASSUME NEW w \in Workers, EraseRoom(w)
      PROVE  Erases(w)
    BY <1>8, GotoMoves, AnswerMoves DEF EraseRoom, Erases, AtStep, Steps
<1>9. ASSUME NEW w \in Workers, CheckMember(w)
      PROVE  Looks(w)
    <2>1. CASE IsMember(request[w].game, request[w].user)
        BY <1>9, <2>1, AnswerMoves DEF CheckMember, Looks, Answered, AtStep, Deleting
    <2>2. CASE ~IsMember(request[w].game, request[w].user)
        <3>1. MovesTo(w, "insertUser")
            BY <1>9, <2>2, GotoMoves DEF CheckMember, Steps
        <3> QED  BY <1>9, <2>2, <3>1 DEF CheckMember, Looks, MovesTo, AtStep
    <2> QED  BY <2>1, <2>2
<1>10. ASSUME NEW w \in Workers, InsertUser(w)
       PROVE  Seats(w) \/ Looks(w)
    <2> DEFINE ok == /\ [game |-> request[w].game, user |-> request[w].user] \notin game_users
                     /\ \E row \in games : row.id = request[w].game
    <2>1. CASE ok
        <3>1. MovesTo(w, "attach")
            BY <1>10, <2>1, GotoMoves DEF InsertUser, Steps
        <3> QED  BY <1>10, <2>1, <3>1 DEF InsertUser, Seats, AtStep, Gone
    <2>2. CASE ~ok
        BY <1>10, <2>2, AnswerMoves DEF InsertUser, Looks, Answered, AtStep, Deleting, tables
    <2> QED  BY <2>1, <2>2
<1>11. ASSUME NEW w \in Workers, Attach(w)
       PROVE  Attaches(w)
    BY <1>11, AnswerMoves DEF Attach, Attaches, AtStep
<1>12. ASSUME NEW w \in Workers, StartGame(w) \/ OpenConnection(w)
       PROVE  Looks(w)
    BY <1>12, AnswerMoves DEF StartGame, OpenConnection, Looks, Answered, AtStep, Deleting
<1>13. ASSUME NEW w \in Workers, Authenticate(w)
       PROVE  Looks(w)
    <2>1. CASE Answer(w)
        BY <1>13, <2>1, AnswerMoves DEF Authenticate, Looks, Answered, AtStep, Deleting
    <2>2. CASE Goto(w, "open") /\ request[w].game \in umap
        BY <1>13, <2>2, GotoMoves DEF Authenticate, Looks, MovesTo, AtStep, Steps
    <2> QED  BY <1>13, <2>1, <2>2 DEF Authenticate
<1>14. ASSUME Stop \/ \E w \in Workers : NullRoom(w)
       PROVE  GoesDown
    BY <1>14, LobbyAssumption DEF Stop, NullRoom, GoesDown, LobbyTypeOK, LobbyAssumption
<1>15. Boot => GoesUp
    BY DEF Boot, GoesUp
<1>16. last_id \in Nat
    BY DEF LobbyTypeOK
<1>17. ASSUME NEW w \in Workers, NEW u \in Users, Arrive(w, u, "select", 0)
       PROVE  Looks(w)
    BY <1>1, <1>16, <1>17 DEF Entries
<1>18. ASSUME NEW w \in Workers, NEW u \in Users, NEW entry \in Entries \ {"select"},
              NEW g \in 1 .. last_id, Arrive(w, u, entry, g)
       PROVE  Looks(w)
    BY <1>1, <1>16, <1>18
<1> QED
    BY <1>2, <1>3, <1>4, <1>5, <1>6, <1>7, <1>8, <1>9, <1>10, <1>11, <1>12, <1>13,
       <1>14, <1>15, <1>17, <1>18
    DEF Next, Create, End, Join, Handshake, WorkerStep

-----------------------------------------------------------------------------
(***************************************************************************)
(* The invariant is preserved: one lemma per part.                         *)
(***************************************************************************)

LEMMA InitLobby == Init => LobbyInv
<1> SUFFICES ASSUME Init
             PROVE  LobbyInv
    OBVIOUS
<1>1. LobbyTypeOK
    <2>1. Idle \in Requests
        BY DEF Idle, Requests, Steps
    <2> QED  BY <2>1, LobbyAssumption DEF Init, LobbyTypeOK, LobbyAssumption
<1>2. \A w \in Workers : request[w].at = "idle"
    BY DEF Init, Idle
<1>3. \A g \in Ids : members[g] = <<>> /\ DOMAIN members[g] = {}
    BY DEF Init
<1>4. BornInv /\ KnownIds /\ RoomsInUse
    BY <1>2, <1>3 DEF Init, BornInv, KnownIds, RoomsInUse, Deleting, Doing
<1>5. NewRooms /\ Joining /\ RowsJoin /\ Joined
    BY <1>2, <1>3 DEF Init, NewRooms, Joining, RowsJoin, Joined, Doing
<1>6. OneOwner
    BY <1>2, <1>3 DEF Init, OneOwner, Owns, Doing, Deleting
<1>7. NobodyJoinsTwice /\ RoomsHaveRows /\ RowsHaveRooms
    BY <1>3 DEF Init, NobodyJoinsTwice, RoomsHaveRows, RowsHaveRooms
<1> QED  BY <1>1, <1>4, <1>5, <1>6, <1>7 DEF LobbyInv

\* A process that went down left no requests and no rooms.
LEMMA DownLobby ==
    ASSUME LobbyInv, GoesDown
    PROVE  LobbyInv'
<1> USE DEF GoesDown, Forget
<1>1. LobbyTypeOK'
    <2>1. Idle \in Requests
        BY DEF Idle, Requests, Steps
    <2> QED  BY <2>1 DEF LobbyInv, LobbyTypeOK, tables
<1>2. \A w \in Workers : request'[w].at = "idle"
    BY DEF Idle
<1>3. \A g \in Ids : members'[g] = <<>> /\ DOMAIN members'[g] = {}
    OBVIOUS
<1>4. games' = games /\ game_users' = game_users /\ last_id' = last_id /\ umap' = {}
    BY DEF tables
<1>5. BornInv' /\ RoomsInUse'
    BY <1>2, <1>4 DEF BornInv, RoomsInUse, Deleting, Doing, LobbyInv, LobbyTypeOK
<1>6. KnownIds'
    BY <1>2, <1>3, <1>4 DEF LobbyInv, KnownIds, Gone
<1>7. NewRooms' /\ Joining' /\ Joined'
    BY <1>2, <1>3 DEF NewRooms, Joining, Joined, Doing
<1>8. RowsJoin'
    <2>1. \A r \in game_users : r.game \in Ids
        BY DEF LobbyInv, LobbyTypeOK
    <2> QED  BY <1>3, <1>4, <2>1 DEF RowsJoin
<1>9. OneOwner'
    <2> SUFFICES ASSUME NEW g \in Ids, NEW u \in Users, NEW v \in Users,
                        Owns(u, g)', Owns(v, g)'
                 PROVE  u = v
        BY DEF OneOwner
    <2>1. Owns(u, g) /\ Owns(v, g)
        BY <1>2, <1>3, <1>4 DEF Owns, Doing, Deleting
    <2> QED  BY <2>1 DEF LobbyInv, OneOwner
<1>10. NobodyJoinsTwice' /\ RoomsHaveRows'
    BY <1>3, <1>4 DEF NobodyJoinsTwice, RoomsHaveRows
<1>11. RowsHaveRooms'
    <2>1. \A row \in games : row.id \in 1 .. last_id
        BY DEF LobbyInv, KnownIds
    <2>2. last_id \in Nat /\ born' = last_id
        BY DEF LobbyInv, LobbyTypeOK
    <2> QED  BY <1>2, <1>4, <2>1, <2>2 DEF RowsHaveRooms, AtStep
<1> QED  BY <1>1, <1>5, <1>6, <1>7, <1>8, <1>9, <1>10, <1>11 DEF LobbyInv

\* What comes up is what the last stop left.
LEMMA UpLobby ==
    ASSUME LobbyInv, GoesUp
    PROVE  LobbyInv'
<1> USE DEF GoesUp, tables, rooms
<1>1. LobbyTypeOK' /\ BornInv' /\ KnownIds' /\ RoomsInUse'
    BY DEF LobbyInv, LobbyTypeOK, BornInv, KnownIds, RoomsInUse, Gone, Doing
<1>2. NewRooms' /\ Joined'
    BY DEF LobbyInv, NewRooms, Joined, Doing, Gone
<1>5. Joining' /\ RowsJoin'
    BY DEF LobbyInv, Joining, RowsJoin, Doing, Gone, IsMember
<1>3. OneOwner' /\ NobodyJoinsTwice' /\ RoomsHaveRows'
    BY DEF LobbyInv, OneOwner, Owns, Doing, NobodyJoinsTwice, RoomsHaveRows
<1>4. RowsHaveRooms'
    BY DEF LobbyInv, RowsHaveRooms, AtStep
<1> QED  BY <1>1, <1>2, <1>3, <1>4, <1>5 DEF LobbyInv

\* The user and the game of a request under way.
LEMMA Subject ==
    ASSUME LobbyInv, NEW w \in Workers, request[w].at \notin {"idle", "select", "insert"}
    PROVE  /\ request[w].user \in Users
           /\ request[w].game \in 1 .. last_id
           /\ request[w].game \in Ids
           /\ members[request[w].game] \in Seq(Users)
<1>1. request[w].user \in Users /\ request[w].game \in 1 .. last_id
    BY DEF LobbyInv, KnownIds
<1>2. request[w].game \in Ids
    BY <1>1, LobbyAssumption DEF LobbyInv, LobbyTypeOK, Ids, LobbyAssumption
<1> QED  BY <1>1, <1>2 DEF LobbyInv, LobbyTypeOK

LEMMA TypeStep ==
    ASSUME LobbyInv, NEW w \in Workers, WorkerStep(w)
    PROVE  LobbyTypeOK'
<1> USE DEF LobbyTypeOK, tables, rooms, life
<1>0. LobbyTypeOK
    BY DEF LobbyInv
<1>1. request' \in [Workers -> Requests]
    BY DEF WorkerStep, Looks, Drops, Inserts, Stores, Seats, Attaches, Erases, MovesTo,
           Answered, OnlyMoves
<1>2. CASE Looks(w)
    BY <1>0, <1>1, <1>2 DEF Looks
<1>3. CASE Drops(w)
    BY <1>0, <1>1, <1>3 DEF Drops, DeleteRow
<1>4. CASE Inserts(w)
    <2>1. request[w].user \in Users
        BY <1>4 DEF Inserts, LobbyInv, KnownIds
    <2>2. last_id' \in 0 .. GamesMax
        BY <1>4 DEF Inserts, Ids
    <2> QED  BY <1>0, <1>1, <1>4, <2>1, <2>2 DEF Inserts
<1>5. CASE Stores(w)
    <2>1. request[w].user \in Users /\ request[w].game \in Ids
        BY <1>5, Subject DEF Stores
    <2>2. <<request[w].user>> \in Seq(Users)
        BY <2>1
    <2> QED  BY <1>0, <1>1, <1>5, <2>1, <2>2 DEF Stores
<1>6. CASE Seats(w)
    <2>1. request[w].user \in Users /\ request[w].game \in Ids
        BY <1>6, Subject DEF Seats
    <2> QED  BY <1>0, <1>1, <1>6, <2>1 DEF Seats
<1>7. CASE Attaches(w)
    <2>1. /\ request[w].user \in Users /\ request[w].game \in Ids
          /\ members[request[w].game] \in Seq(Users)
        BY <1>7, Subject DEF Attaches
    <2>2. Append(members[request[w].game], request[w].user) \in Seq(Users)
        BY <2>1
    <2> QED  BY <1>0, <1>1, <1>7, <2>1, <2>2 DEF Attaches
<1>8. CASE Erases(w)
    BY <1>0, <1>1, <1>8 DEF Erases
<1> QED  BY <1>2, <1>3, <1>4, <1>5, <1>6, <1>7, <1>8 DEF WorkerStep

\* What a step does to the members of a room.
LEMMA MembersStep ==
    ASSUME LobbyInv, NEW w \in Workers, WorkerStep(w), NEW g \in Ids
    PROVE  \/ members'[g] = members[g]
           \/ /\ Stores(w) /\ g = request[w].game
              /\ members[g] = <<>> /\ members'[g] = <<request[w].user>>
           \/ /\ Attaches(w) /\ g = request[w].game
              /\ members[g] # <<>>
              /\ members'[g] = Append(members[g], request[w].user)
              /\ members'[g] # <<>> /\ members'[g][1] = members[g][1]
<1>1. members \in [Ids -> Seq(Users)]
    BY DEF LobbyInv, LobbyTypeOK
<1>2. CASE UNCHANGED members
    BY <1>2
<1>3. CASE Stores(w)
    <2>1. members[request[w].game] = <<>>
        BY <1>3 DEF Stores, LobbyInv, NewRooms, Doing
    <2> QED  BY <1>1, <1>3, <2>1 DEF Stores
<1>4. CASE Attaches(w)
    <2>1. members[request[w].game] # <<>> /\ request[w].user \in Users
        BY <1>4, Subject DEF Attaches, LobbyInv, RoomsInUse
    <2>2. CASE g # request[w].game
        BY <1>1, <1>4, <2>2 DEF Attaches
    <2>3. CASE g = request[w].game
        <3>1. members'[g] = Append(members[g], request[w].user)
            BY <1>1, <1>4, <2>3 DEF Attaches
        <3>2. Append(members[g], request[w].user)[1] = members[g][1]
            BY <1>1, <2>1, <2>3
        <3>3. Append(members[g], request[w].user) # <<>>
            BY <1>1, <2>1
        <3> QED  BY <1>4, <2>1, <2>3, <3>1, <3>2, <3>3
    <2> QED  BY <2>2, <2>3
<1> QED
    BY <1>2, <1>3, <1>4
    DEF WorkerStep, Looks, Drops, Inserts, Seats, Erases, rooms

\* A game that has lost its row does not get it back, and one gets a row only
\* when its id is new.
LEMMA RowsStep ==
    ASSUME LobbyInv, NEW w \in Workers, WorkerStep(w)
    PROVE  /\ last_id =< last_id' /\ last_id \in Nat /\ last_id' \in Nat
           /\ \A g \in 1 .. last_id : Gone(g) => Gone(g)'
           /\ \A row \in games' :
                \/ row \in games
                \/ /\ Inserts(w) /\ row.id = last_id' /\ row.id = last_id + 1
                   /\ row.host = request[w].user
           /\ \A row \in games :
                row \in games' \/ (Drops(w) /\ row.id = request[w].game)
<1>1. last_id \in Nat
    BY DEF LobbyInv, LobbyTypeOK
<1>2. CASE UNCHANGED <<games, last_id>>
    BY <1>1, <1>2 DEF Gone
<1>3. CASE Drops(w)
    BY <1>1, <1>3 DEF Drops, DeleteRow, Gone
<1>4. CASE Inserts(w)
    BY <1>1, <1>4 DEF Inserts, Gone
<1> QED
    BY <1>2, <1>3, <1>4
    DEF WorkerStep, Looks, Stores, Seats, Attaches, Erases, tables

\* Rows of game_users are there while their game is.
LEMMA UserRowsStep ==
    ASSUME LobbyInv, NEW w \in Workers, WorkerStep(w)
    PROVE  \A r \in game_users' :
            /\ ~Gone(r.game)'
            /\ \/ r \in game_users
               \/ /\ Seats(w)
                  /\ r = [game |-> request[w].game, user |-> request[w].user]
<1>1. \A r \in game_users : ~Gone(r.game)
    BY DEF LobbyInv, KnownIds
<1>2. CASE UNCHANGED <<games, game_users>>
    BY <1>1, <1>2 DEF Gone
<1>3. CASE Drops(w)
    BY <1>1, <1>3 DEF Drops, DeleteRow, Gone
<1>4. CASE Inserts(w)
    BY <1>1, <1>4 DEF Inserts, Gone
<1>5. CASE Seats(w)
    BY <1>1, <1>5 DEF Seats, Gone
<1> QED
    BY <1>2, <1>3, <1>4, <1>5
    DEF WorkerStep, Looks, Stores, Attaches, Erases, tables

LEMMA KnownStep ==
    ASSUME LobbyInv, NEW w \in Workers, WorkerStep(w)
    PROVE  KnownIds'
<1>1. last_id =< last_id' /\ last_id \in Nat /\ last_id' \in Nat
    BY RowsStep
<1>2. \A row \in games' : row.id \in 1 .. last_id'
    BY <1>1, RowsStep DEF LobbyInv, KnownIds
<1>3. \A g \in Ids : members'[g] # <<>> => g \in 1 .. last_id'
    <2> SUFFICES ASSUME NEW g \in Ids, members'[g] # <<>>
                 PROVE  g \in 1 .. last_id
        BY <1>1
    <2>1. CASE members'[g] = members[g]
        BY <2>1 DEF LobbyInv, KnownIds
    <2>2. CASE Stores(w) \/ Attaches(w)
        <3>1. request[w].game \in 1 .. last_id
            BY <2>2, Subject DEF Stores, Attaches
        <3> QED  BY <2>1, <2>2, <3>1, MembersStep
    <2> QED  BY <2>1, <2>2, MembersStep
<1>4. ASSUME NEW v \in Workers
      PROVE  /\ request'[v].at \notin {"idle", "select", "insert"} =>
                  request'[v].game \in 1 .. last_id'
             /\ request'[v].at # "idle" => request'[v].user \in Users
    <2> DEFINE Fine ==
            /\ request'[v].at \notin {"idle", "select", "insert"} =>
                  request'[v].game \in 1 .. last_id'
            /\ request'[v].at # "idle" => request'[v].user \in Users
    <2>0. /\ request[v].at \notin {"idle", "select", "insert"} =>
                  request[v].game \in 1 .. last_id
          /\ request[v].at # "idle" => request[v].user \in Users
        BY DEF LobbyInv, KnownIds
    <2>1. CASE request'[v] = request[v]
        BY <1>1, <2>0, <2>1
    <2>2. CASE v = w /\ Looks(w)
        <3>1. \A row \in games : row.id \in 1 .. last_id
            BY DEF LobbyInv, KnownIds
        <3>2. Idle.at = "idle"
            BY DEF Idle
        <3>3. last_id' = last_id
            BY <2>2 DEF Looks, tables
        <3> QED  BY <2>0, <2>2, <3>1, <3>2, <3>3 DEF Looks, Entries
    <2>3. CASE v = w /\ (Drops(w) \/ Seats(w) \/ Erases(w))
        BY <1>1, <2>0, <2>3 DEF Drops, Seats, Erases, MovesTo, Answered, Idle
    <2>4. CASE v = w /\ Inserts(w)
        BY <1>1, <2>0, <2>4 DEF Inserts
    <2>5. CASE v = w /\ (Stores(w) \/ Attaches(w))
        BY <2>5 DEF Stores, Attaches, Answered, Idle
    <2> QED
        BY <2>1, <2>2, <2>3, <2>4, <2>5
        DEF WorkerStep, Looks, Drops, Inserts, Stores, Seats, Attaches, Erases, MovesTo,
            Answered, OnlyMoves
<1>5. \A r \in game_users' : ~Gone(r.game)'
    BY UserRowsStep
<1>6. \A g \in umap' : members'[g] # <<>>
    <2> SUFFICES ASSUME NEW g \in umap'
                 PROVE  members'[g] # <<>>
        OBVIOUS
    <2>1. g \in umap \/ (Stores(w) /\ g = request[w].game)
        BY DEF WorkerStep, Looks, Drops, Inserts, Stores, Seats, Attaches, Erases, rooms
    <2>2. CASE g \in umap
        <3>1. g \in Ids /\ members[g] # <<>>
            BY <2>2 DEF LobbyInv, LobbyTypeOK, KnownIds
        <3> QED  BY <3>1, MembersStep
    <2>3. CASE Stores(w) /\ g = request[w].game
        <3>1. g \in Ids
            BY <2>3, Subject DEF Stores
        <3>2. members'[g] = <<request[w].user>>
            BY <2>3, <3>1 DEF Stores, LobbyInv, LobbyTypeOK
        <3> QED  BY <3>2
    <2> QED  BY <2>1, <2>2, <2>3
<1> QED  BY <1>2, <1>3, <1>4, <1>5, <1>6 DEF KnownIds

\* A step of one request leaves the others where they are; the steps that take
\* it into the middle of an operation.
LEMMA Moved ==
    ASSUME LobbyInv, NEW w \in Workers, WorkerStep(w), NEW v \in Workers
    PROVE  /\ v # w => request'[v] = request[v]
           /\ request'[w].at = "store" => Inserts(w)
           /\ request'[w].at = "attach" => Seats(w)
           /\ request'[w].at \in {"findOwn", "findEnded"} => Drops(w)
           /\ request'[w].at \in {"insertUser", "eraseOwn", "eraseEnded", "deleteOwn"} => Looks(w)
<1>1. Idle.at = "idle"
    BY DEF Idle
<1>2. v # w => request'[v] = request[v]
    BY DEF WorkerStep, Looks, Drops, Inserts, Stores, Seats, Attaches, Erases, MovesTo,
           Answered, OnlyMoves
<1>3. CASE Looks(w)
    BY <1>1, <1>2, <1>3 DEF Looks, Entries
<1>4. CASE ~Looks(w)
    BY <1>1, <1>2, <1>4
    DEF WorkerStep, Drops, Inserts, Stores, Seats, Attaches, Erases, MovesTo, Answered
<1> QED  BY <1>3, <1>4

\* What is stored is of this life of the process, and so is an id just given.
LEMMA BornStep ==
    ASSUME LobbyInv, NEW w \in Workers, WorkerStep(w)
    PROVE  BornInv'
<1>1. born' = born /\ born =< last_id /\ born \in Nat
    BY DEF LobbyInv, LobbyTypeOK, BornInv, WorkerStep, Looks, Drops, Inserts, Stores, Seats,
           Attaches, Erases, life
<1>2. last_id =< last_id' /\ last_id \in Nat /\ last_id' \in Nat
    BY RowsStep
<1>3. \A g \in umap' : g > born
    BY DEF LobbyInv, BornInv, Doing, WorkerStep, Looks, Drops, Inserts, Stores, Seats,
           Attaches, Erases, rooms
<1>4. ASSUME NEW x \in Workers, request'[x].at = "store"
      PROVE  request'[x].game > born
    <2>1. CASE x # w
        BY <1>4, <2>1, Moved DEF LobbyInv, BornInv, Doing
    <2>2. CASE x = w
        <3>1. Inserts(w)
            BY <1>4, <2>2
            DEF WorkerStep, Looks, Drops, Inserts, Stores, Seats, Attaches, Erases, MovesTo,
                Answered, Idle, Entries
        <3>2. request'[w].game = last_id + 1
            BY <3>1 DEF Inserts
        <3> QED  BY <1>1, <1>2, <2>2, <3>2
    <2> QED  BY <2>1, <2>2
<1> QED  BY <1>1, <1>2, <1>3, <1>4 DEF BornInv, Doing

LEMMA InUseStep ==
    ASSUME LobbyInv, NEW w \in Workers, WorkerStep(w)
    PROVE  RoomsInUse'
<1> SUFFICES ASSUME NEW v \in Workers
             PROVE  /\ request'[v].at \in {"insertUser", "attach"} =>
                         /\ members'[request'[v].game] # <<>>
                         /\ members'[request'[v].game][1] # request'[v].user
                    /\ request'[v].at \in {"eraseOwn", "eraseEnded"} =>
                         members'[request'[v].game] # <<>>
                    /\ request'[v].at \in Deleting => Gone(request[v].game)'
    BY DEF RoomsInUse
<1>1. \A g \in Ids : members[g] # <<>> =>
        members'[g] # <<>> /\ members'[g][1] = members[g][1]
    BY MembersStep
<1>2. \A g \in 1 .. last_id : Gone(g) => Gone(g)'
    BY RowsStep
<1>3. CASE request'[v] = request[v]
    <2>1. request[v].at \in Deleting \cup {"insertUser", "attach"} =>
            request[v].game \in Ids /\ request[v].game \in 1 .. last_id
        BY Subject DEF Deleting
    <2> QED  BY <1>1, <1>2, <1>3, <2>1 DEF LobbyInv, RoomsInUse, Deleting, Gone
<1>4. CASE v = w /\ request'[w].at \in {"insertUser", "attach"}
    <2>1. CASE Looks(w) /\ request'[w].at = "insertUser"
        <3>1. /\ request'[w].user = request[w].user /\ request'[w].game = request[w].game
              /\ request[w].at = "join" /\ request[w].game \in umap
              /\ ~IsMember(request[w].game, request[w].user)
            BY <2>1 DEF Looks, Entries, Idle
        <3>2. /\ members[request[w].game] # <<>> /\ members[request[w].game] \in Seq(Users)
              /\ request[w].game \in Ids
            BY <3>1, Subject DEF LobbyInv, KnownIds
        <3>3. 1 \in DOMAIN members[request[w].game]
            BY <3>2
        <3>4. members[request[w].game][1] # request[w].user
            BY <3>1, <3>3 DEF IsMember
        <3> QED  BY <1>1, <1>4, <2>1, <3>1, <3>2, <3>4 DEF Deleting
    <2>2. CASE Seats(w) /\ request'[w].at = "attach"
        <3>1. /\ request'[w].user = request[w].user /\ request'[w].game = request[w].game
              /\ request[w].at = "insertUser" /\ request[w].game \in Ids
            BY <2>2, Subject DEF Seats, MovesTo
        <3> QED  BY <1>1, <1>4, <2>2, <3>1 DEF LobbyInv, RoomsInUse, Deleting
    <2> QED  BY <1>4, <2>1, <2>2, Moved
<1>5. CASE v = w /\ request'[w].at \in {"eraseOwn", "eraseEnded"}
    <2>1. Looks(w)
        BY <1>5, Moved
    <2>2. /\ request'[w].game = request[w].game /\ request[w].game \in umap
          /\ request[w].at \in {"findOwn", "findEnded"}
        BY <1>5, <2>1 DEF Looks, Entries, Idle
    <2>3. members[request[w].game] # <<>> /\ request[w].game \in Ids
        BY <2>2, Subject DEF LobbyInv, KnownIds
    <2>4. Gone(request[w].game) /\ request[w].game \in 1 .. last_id
        BY <2>2, Subject DEF LobbyInv, RoomsInUse, Deleting
    <2> QED  BY <1>1, <1>2, <1>5, <2>2, <2>3, <2>4 DEF Gone
<1>6. CASE v = w /\ request'[w].at \in {"findOwn", "findEnded"}
    <2>1. Drops(w)
        BY <1>6, Moved
    <2>2. Gone(request[w].game)'
        BY <2>1 DEF Drops, DeleteRow, Gone, MovesTo
    <2> QED  BY <1>6, <2>2
<1> QED  BY <1>3, <1>4, <1>5, <1>6, Moved DEF Deleting

LEMMA OwnerStep ==
    ASSUME LobbyInv, NEW w \in Workers, WorkerStep(w)
    PROVE  OneOwner'
<1>1. ASSUME NEW g \in Ids, NEW u \in Users, Owns(u, g)'
      PROVE  Owns(u, g) \/ (Inserts(w) /\ g = last_id + 1 /\ u = request[w].user)
    <2>1. ASSUME NEW row \in games', row.id = g, row.host = u
          PROVE  Owns(u, g) \/ (Inserts(w) /\ g = last_id + 1 /\ u = request[w].user)
        BY <2>1, RowsStep DEF Owns
    <2>2. CASE members'[g] # <<>> /\ members'[g][1] = u
        <3>1. CASE Stores(w) /\ g = request[w].game /\ members'[g] = <<request[w].user>>
            BY <2>2, <3>1 DEF Stores, Owns, Doing
        <3> QED  BY <2>2, <3>1, MembersStep DEF Owns
    <2>3. ASSUME NEW v \in Workers, request'[v].at \in Deleting \cup {"store", "deleteOwn"},
                 request'[v].game = g, request'[v].user = u
          PROVE  Owns(u, g) \/ (Inserts(w) /\ g = last_id + 1 /\ u = request[w].user)
        <3>1. CASE request'[v] = request[v]
            BY <2>3, <3>1 DEF Owns, Doing
        <3>2. CASE v = w /\ Inserts(w)
            BY <2>3, <3>2 DEF Inserts
        <3>3. CASE v = w /\ Drops(w)
            BY <2>3, <3>3 DEF Drops, MovesTo
        <3>4. CASE v = w /\ Looks(w)
            BY <2>3, <3>4 DEF Looks, Entries, Idle, Deleting, Owns, Doing
        <3> QED  BY <2>3, <3>1, <3>2, <3>3, <3>4, Moved DEF Deleting
    <2> QED  BY <1>1, <2>1, <2>2, <2>3 DEF Owns, Doing
<1>2. ASSUME NEW g \in Ids, NEW u \in Users, Owns(u, g)
      PROVE  g # last_id + 1
    <2>1. last_id \in Nat
        BY RowsStep
    <2>2. g \in 1 .. last_id
        BY <1>2, Subject DEF Owns, Doing, Deleting, LobbyInv, KnownIds
    <2> QED  BY <2>1, <2>2
<1> SUFFICES ASSUME NEW g \in Ids, NEW u \in Users, NEW v \in Users,
                    Owns(u, g)', Owns(v, g)'
             PROVE  u = v
    BY DEF OneOwner
<1> QED  BY <1>1, <1>2 DEF LobbyInv, OneOwner

\* Membership only grows, by the step of the request that attaches.
LEMMA MemberStep ==
    ASSUME LobbyInv, NEW w \in Workers, WorkerStep(w), NEW g \in Ids, NEW u \in Users
    PROVE  /\ IsMember(g, u) => IsMember(g, u)'
           /\ IsMember(g, u)' =>
                \/ IsMember(g, u)
                \/ (Stores(w) \/ Attaches(w)) /\ g = request[w].game /\ u = request[w].user
<1>1. members[g] \in Seq(Users)
    BY DEF LobbyInv, LobbyTypeOK
<1>2. CASE members'[g] = members[g]
    BY <1>2 DEF IsMember
<1>3. CASE /\ Stores(w) /\ g = request[w].game
           /\ members[g] = <<>> /\ members'[g] = <<request[w].user>>
    BY <1>3 DEF IsMember
<1>4. CASE /\ Attaches(w) /\ g = request[w].game
           /\ members'[g] = Append(members[g], request[w].user)
    <2>1. \A i \in 1 .. Len(members[g]) : members'[g][i] = members[g][i]
        BY <1>1, <1>4
    <2>2. members'[g][Len(members[g]) + 1] = request[w].user
        BY <1>1, <1>4
    <2>3. /\ DOMAIN members[g] = 1 .. Len(members[g]) /\ Len(members[g]) \in Nat
          /\ DOMAIN members'[g] = 1 .. Len(members[g]) + 1
        BY <1>1, <1>4
    <2> QED  BY <1>4, <2>1, <2>2, <2>3 DEF IsMember
<1> QED  BY <1>2, <1>3, <1>4, MembersStep

LEMMA NewRoomsStep ==
    ASSUME LobbyInv, NEW w \in Workers, WorkerStep(w)
    PROVE  NewRooms'
<1> SUFFICES ASSUME NEW v \in Workers, request'[v].at = "store"
             PROVE  /\ members'[request'[v].game] = <<>>
                    /\ \A r \in game_users' : r.game # request'[v].game
                    /\ \A x \in Workers :
                        request'[x].at = "store" /\ request'[x].game = request'[v].game => x = v
                    /\ Gone(request[v].game)' =>
                        \E x \in Workers :
                            /\ request'[x].at \in {"findOwn", "findEnded"}
                            /\ request'[x].game = request'[v].game
    BY DEF NewRooms, Doing, Gone
<1>1. last_id \in Nat
    BY RowsStep
<1>2. CASE v = w
    <2>1. Inserts(w)
        BY <1>2, Moved
    <2>2. request'[v].game = last_id + 1 /\ last_id + 1 \in Ids
        BY <1>2, <2>1 DEF Inserts
    <2>3. members'[last_id + 1] = <<>>
        BY <1>1, <2>1, <2>2 DEF Inserts, rooms, LobbyInv, KnownIds
    <2>4. \A r \in game_users' : r.game # last_id + 1
        BY <1>1, <2>1 DEF Inserts, LobbyInv, KnownIds, Gone
    <2>5. \A x \in Workers \ {w} : request'[x].at = "store" => request'[x].game # last_id + 1
        BY <1>1, Moved DEF LobbyInv, KnownIds
    <2>6. ~Gone(request[v].game)'
        <3> DEFINE row == [id |-> last_id + 1, host |-> request[w].user]
        <3>1. row \in games' /\ row.id = request'[v].game
            BY <2>1, <2>2 DEF Inserts
        <3> QED  BY <3>1 DEF Gone
    <2> QED  BY <1>2, <2>2, <2>3, <2>4, <2>5, <2>6
<1>3. CASE v # w
    <2> DEFINE g == request[v].game
    <2>1. request'[v] = request[v] /\ request[v].at = "store"
        BY <1>3, Moved
    <2>2. /\ members[g] = <<>>
          /\ \A r \in game_users : r.game # g
          /\ \A x \in Workers : request[x].at = "store" /\ request[x].game = g => x = v
          /\ Gone(g) => \E x \in Workers :
                request[x].at \in {"findOwn", "findEnded"} /\ request[x].game = g
        BY <2>1 DEF LobbyInv, NewRooms, Doing
    <2>3. g \in Ids /\ g \in 1 .. last_id
        BY <2>1, Subject
    <2>4. members'[g] = <<>>
        <3>1. CASE Stores(w) /\ g = request[w].game
            BY <1>3, <2>2, <3>1 DEF Stores
        <3> QED  BY <2>2, <2>3, <3>1, MembersStep
    <2>5. \A r \in game_users' : r.game # g
        <3> SUFFICES ASSUME NEW r \in game_users', r.game = g
                     PROVE  FALSE
            OBVIOUS
        <3>1. Seats(w) /\ request[w].game = g
            BY <2>2, UserRowsStep
        <3>2. members[g] # <<>>
            BY <3>1 DEF Seats, LobbyInv, RoomsInUse
        <3> QED  BY <2>2, <3>2
    <2>6. \A x \in Workers : request'[x].at = "store" /\ request'[x].game = g => x = v
        <3> SUFFICES ASSUME NEW x \in Workers, request'[x].at = "store",
                            request'[x].game = g
                     PROVE  x = v
            OBVIOUS
        <3>1. CASE x = w
            <4>1. Inserts(w)
                BY <3>1, Moved
            <4>2. g = last_id + 1
                BY <3>1, <4>1 DEF Inserts
            <4> QED  BY <1>1, <2>3, <4>2
        <3>2. CASE x # w
            BY <2>2, <3>2, Moved
        <3> QED  BY <3>1, <3>2
    <2>7. ASSUME Gone(request[v].game)'
          PROVE  \E x \in Workers :
                    request'[x].at \in {"findOwn", "findEnded"} /\ request'[x].game = g
        <3>1. \A row \in games' : row.id # g
            BY <2>1, <2>7 DEF Gone
        <3>2. CASE Gone(g)
            <4>1. PICK x \in Workers :
                      request[x].at \in {"findOwn", "findEnded"} /\ request[x].game = g
                BY <2>2, <3>2
            <4>2. CASE x # w
                BY <4>1, <4>2, Moved
            <4>3. CASE x = w
                <5>1. g \notin umap
                    BY <2>2 DEF LobbyInv, KnownIds
                <5>2. FALSE
                    BY <4>1, <4>3, <5>1
                    DEF WorkerStep, Looks, Drops, Inserts, Stores, Seats, Attaches, Erases,
                        Deleting
                <5> QED  BY <5>2
            <4> QED  BY <4>2, <4>3
        <3>3. CASE ~Gone(g)
            <4>1. Drops(w) /\ request[w].game = g
                BY <3>1, <3>3, RowsStep DEF Gone
            <4> QED  BY <4>1 DEF Drops, MovesTo
        <3> QED  BY <3>2, <3>3
    <2> QED  BY <2>1, <2>4, <2>5, <2>6, <2>7
<1> QED  BY <1>2, <1>3

LEMMA JoinedStep ==
    ASSUME LobbyInv, NEW w \in Workers, WorkerStep(w)
    PROVE  Joined'
<1> SUFFICES ASSUME NEW g \in Ids, NEW i \in DOMAIN members'[g], i # 1,
                    ~(\A row \in games' : row.id # g)
             PROVE  [game |-> g, user |-> members'[g][i]] \in game_users'
    BY DEF Joined, Gone
<1>1. members[g] \in Seq(Users)
    BY DEF LobbyInv, LobbyTypeOK
<1>2. \A u \in Users :
        [game |-> g, user |-> u] \in game_users => [game |-> g, user |-> u] \in game_users'
    <2>1. CASE Drops(w)
        BY <2>1 DEF Drops, DeleteRow
    <2>2. CASE ~Drops(w)
        BY <2>2 DEF WorkerStep, Looks, Inserts, Stores, Seats, Attaches, Erases, tables
    <2> QED  BY <2>1, <2>2
<1>3. ASSUME g \in 1 .. last_id
      PROVE  ~Gone(g)
    BY <1>3, RowsStep DEF Gone
<1>4. CASE members'[g] = members[g]
    <2>1. members[g] # <<>> /\ members[g][i] \in Users /\ i \in DOMAIN members[g]
        BY <1>1, <1>4
    <2>2. g \in 1 .. last_id
        BY <2>1 DEF LobbyInv, KnownIds
    <2> QED  BY <1>2, <1>3, <1>4, <2>1, <2>2 DEF LobbyInv, Joined
<1>5. CASE members'[g] = <<request[w].user>>
    BY <1>5
<1>6. CASE /\ Attaches(w) /\ g = request[w].game /\ members[g] # <<>>
           /\ members'[g] = Append(members[g], request[w].user)
    <2>1. g \in 1 .. last_id /\ request[w].user \in Users
        BY <1>6, Subject DEF Attaches
    <2>2. CASE i = Len(members[g]) + 1
        <3>1. members'[g][i] = request[w].user
            BY <1>1, <1>6, <2>2
        <3>2. [game |-> g, user |-> request[w].user] \in game_users
            BY <1>3, <1>6, <2>1 DEF Attaches, LobbyInv, Joining, Doing
        <3> QED  BY <1>2, <2>1, <3>1, <3>2
    <2>3. CASE i # Len(members[g]) + 1
        <3>1. /\ i \in DOMAIN members[g] /\ members'[g][i] = members[g][i]
              /\ members[g][i] \in Users
            BY <1>1, <1>6, <2>1, <2>3
        <3> QED  BY <1>2, <1>3, <2>1, <3>1 DEF LobbyInv, Joined
    <2> QED  BY <2>2, <2>3
<1> QED  BY <1>4, <1>5, <1>6, MembersStep

LEMMA JoiningStep ==
    ASSUME LobbyInv, NEW w \in Workers, WorkerStep(w)
    PROVE  Joining'
<1> SUFFICES ASSUME NEW v \in Workers, request'[v].at = "attach"
             PROVE  /\ \/ \A row \in games' : row.id # request'[v].game
                       \/ [game |-> request'[v].game, user |-> request'[v].user] \in game_users'
                    /\ ~IsMember(request[v].game, request[v].user)'
                    /\ \A x \in Workers :
                        /\ request'[x].at = "attach"
                        /\ request'[x].game = request'[v].game
                        /\ request'[x].user = request'[v].user
                        => x = v
    BY DEF Joining, Doing, Gone
<1>1. CASE v = w
    <2> DEFINE g == request[w].game
               u == request[w].user
    <2>1. /\ Seats(w) /\ request[w].at = "insertUser"
          /\ request'[w].game = g /\ request'[w].user = u
        BY <1>1, Moved DEF Seats, MovesTo
    <2>2. g \in Ids /\ u \in Users /\ members[g] \in Seq(Users)
        BY <2>1, Subject
    <2>3. /\ [game |-> g, user |-> u] \in game_users' /\ ~Gone(g)
          /\ [game |-> g, user |-> u] \notin game_users
        BY <2>1 DEF Seats
    <2>4. ~IsMember(g, u)
        <3>1. members[g] # <<>> /\ members[g][1] # u
            BY <2>1 DEF LobbyInv, RoomsInUse
        <3>2. \A i \in DOMAIN members[g] : i # 1 => members[g][i] # u
            BY <2>2, <2>3 DEF LobbyInv, Joined
        <3> QED  BY <3>1, <3>2 DEF IsMember
    <2>5. ~IsMember(request[v].game, request[v].user)'
        <3>1. members' = members
            BY <2>1 DEF Seats, rooms
        <3> QED  BY <1>1, <2>1, <2>4, <3>1 DEF IsMember
    <2>6. \A x \in Workers \ {w} :
            request'[x].at = "attach" /\ request'[x].game = g => request'[x].user # u
        <3> SUFFICES ASSUME NEW x \in Workers \ {w}, request[x].at = "attach",
                            request[x].game = g, request[x].user = u
                     PROVE  FALSE
            BY Moved
        <3>1. Gone(g) \/ [game |-> g, user |-> u] \in game_users
            BY DEF LobbyInv, Joining, Doing
        <3> QED  BY <2>3, <3>1
    <2> QED  BY <1>1, <2>1, <2>3, <2>5, <2>6
<1>2. CASE v # w
    <2> DEFINE g == request[v].game
               u == request[v].user
    <2>1. request'[v] = request[v] /\ request[v].at = "attach"
        BY <1>2, Moved
    <2>2. /\ g \in Ids /\ u \in Users /\ g \in 1 .. last_id
          /\ members[g] # <<>>
        BY <2>1, Subject DEF LobbyInv, RoomsInUse
    <2>3. /\ Gone(g) \/ [game |-> g, user |-> u] \in game_users
          /\ ~IsMember(g, u)
          /\ \A x \in Workers :
                request[x].at = "attach" /\ request[x].game = g /\ request[x].user = u => x = v
        BY <2>1 DEF LobbyInv, Joining, Doing
    <2>4. \/ \A row \in games' : row.id # g
          \/ [game |-> g, user |-> u] \in game_users'
        <3>1. CASE Gone(g)
            BY <2>2, <3>1, RowsStep DEF Gone
        <3>2. CASE [game |-> g, user |-> u] \in game_users
            <4>1. CASE Drops(w)
                BY <3>2, <4>1 DEF Drops, DeleteRow
            <4>2. CASE ~Drops(w)
                BY <3>2, <4>2
                DEF WorkerStep, Looks, Inserts, Stores, Seats, Attaches, Erases, tables
            <4> QED  BY <4>1, <4>2
        <3> QED  BY <2>3, <3>1, <3>2
    <2>5. ~IsMember(g, u)'
        <3>1. ~(Stores(w) /\ g = request[w].game)
            BY <2>2 DEF Stores, LobbyInv, NewRooms, Doing
        <3>2. ~(Attaches(w) /\ g = request[w].game /\ u = request[w].user)
            BY <1>2, <2>3 DEF Attaches
        <3>3. members'[g] = members[g] \/ (Attaches(w) /\ g = request[w].game)
            BY <2>2, <3>1, MembersStep
        <3>4. ~ \E i \in DOMAIN members'[g] : members'[g][i] = u
            <4>1. CASE members'[g] = members[g]
                BY <2>3, <4>1 DEF IsMember
            <4>2. CASE Attaches(w) /\ g = request[w].game
                <5>1. members'[g] = Append(members[g], request[w].user)
                    BY <2>2, <4>2 DEF Attaches, LobbyInv, LobbyTypeOK
                <5>2. request[w].user # u /\ request[w].user \in Users
                    BY <3>2, <4>2, Subject DEF Attaches
                <5>3. members[g] \in Seq(Users)
                    BY <2>2 DEF LobbyInv, LobbyTypeOK
                <5> QED  BY <2>3, <5>1, <5>2, <5>3 DEF IsMember
            <4> QED  BY <3>3, <4>1, <4>2
        <3> QED  BY <2>1, <3>4 DEF IsMember
    <2>6. \A x \in Workers :
            request'[x].at = "attach" /\ request'[x].game = g /\ request'[x].user = u => x = v
        <3> SUFFICES ASSUME NEW x \in Workers, request'[x].at = "attach",
                            request'[x].game = g, request'[x].user = u
                     PROVE  x = v
            OBVIOUS
        <3>1. CASE x = w
            <4>1. /\ Seats(w) /\ request[w].game = g /\ request[w].user = u
                BY <3>1, Moved DEF Seats, MovesTo
            <4>2. ~Gone(g) /\ [game |-> g, user |-> u] \notin game_users
                BY <4>1 DEF Seats
            <4> QED  BY <2>3, <4>2
        <3>2. CASE x # w
            BY <2>3, <3>2, Moved
        <3> QED  BY <3>1, <3>2
    <2> QED  BY <2>1, <2>4, <2>5, <2>6
<1> QED  BY <1>1, <1>2

LEMMA NobodyTwiceStep ==
    ASSUME LobbyInv, NEW w \in Workers, WorkerStep(w)
    PROVE  NobodyJoinsTwice'
<1> SUFFICES ASSUME NEW g \in Ids, NEW i \in DOMAIN members'[g], NEW j \in DOMAIN members'[g],
                    members'[g][i] = members'[g][j]
             PROVE  i = j
    BY DEF NobodyJoinsTwice
<1>1. members[g] \in Seq(Users)
    BY DEF LobbyInv, LobbyTypeOK
<1>2. CASE members'[g] = members[g]
    BY <1>2 DEF LobbyInv, NobodyJoinsTwice
<1>3. CASE members'[g] = <<request[w].user>>
    BY <1>3
<1>4. CASE /\ Attaches(w) /\ g = request[w].game
           /\ members'[g] = Append(members[g], request[w].user)
    <2>1. request[w].user \in Users /\ ~IsMember(g, request[w].user)
        BY <1>4, Subject DEF Attaches, LobbyInv, Joining, Doing
    <2>2. \A k \in DOMAIN members[g] : members[g][k] # request[w].user
        BY <2>1 DEF IsMember
    <2>3. /\ DOMAIN members'[g] = 1 .. Len(members[g]) + 1
          /\ DOMAIN members[g] = 1 .. Len(members[g])
          /\ Len(members[g]) \in Nat
          /\ \A k \in 1 .. Len(members[g]) : members'[g][k] = members[g][k]
          /\ members'[g][Len(members[g]) + 1] = request[w].user
        BY <1>1, <1>4, <2>1
    <2>4. \A k, l \in DOMAIN members[g] : members[g][k] = members[g][l] => k = l
        BY DEF LobbyInv, NobodyJoinsTwice
    <2> DEFINE n == Len(members[g])
    <2>5. /\ i \in DOMAIN members[g] => members'[g][i] = members[g][i]
          /\ j \in DOMAIN members[g] => members'[g][j] = members[g][j]
        BY <2>3
    <2>6. /\ i \in DOMAIN members[g] \/ i = n + 1
          /\ j \in DOMAIN members[g] \/ j = n + 1
        BY <2>3
    <2>7. CASE i \in DOMAIN members[g] /\ j \in DOMAIN members[g]
        BY <2>4, <2>5, <2>7
    <2>8. CASE i = n + 1 /\ j \in DOMAIN members[g]
        BY <2>2, <2>3, <2>5, <2>8
    <2>9. CASE i \in DOMAIN members[g] /\ j = n + 1
        BY <2>2, <2>3, <2>5, <2>9
    <2> QED  BY <2>6, <2>7, <2>8, <2>9
<1> QED  BY <1>2, <1>3, <1>4, MembersStep

LEMMA RowsJoinStep ==
    ASSUME LobbyInv, NEW w \in Workers, WorkerStep(w)
    PROVE  RowsJoin'
<1> SUFFICES ASSUME NEW r \in game_users', members'[r.game] # <<>>
             PROVE  \/ IsMember(r.game, r.user)'
                    \/ \E x \in Workers :
                        /\ request'[x].at = "attach"
                        /\ request'[x].game = r.game /\ request'[x].user = r.user
    BY DEF RowsJoin, Doing
<1>1. r.game \in Ids /\ r.user \in Users
    BY TypeStep DEF LobbyTypeOK
<1>2. CASE r \in game_users
    <2>1. members[r.game] # <<>>
        <3>1. CASE Stores(w) /\ r.game = request[w].game
            BY <1>2, <3>1 DEF Stores, LobbyInv, NewRooms, Doing
        <3> QED  BY <1>1, <3>1, MembersStep
    <2>2. CASE IsMember(r.game, r.user)
        BY <1>1, <2>2, MemberStep
    <2>3. ASSUME NEW x \in Workers, request[x].at = "attach",
                 request[x].game = r.game, request[x].user = r.user
          PROVE  \/ IsMember(r.game, r.user)'
                 \/ /\ request'[x].at = "attach"
                    /\ request'[x].game = r.game /\ request'[x].user = r.user
        <3>1. CASE x # w
            BY <2>3, <3>1, Moved
        <3>2. CASE x = w
            <4>1. Attaches(w)
                BY <2>3, <3>2
                DEF WorkerStep, Looks, Drops, Inserts, Stores, Seats, Attaches, Erases
            <4>2. /\ members[r.game] \in Seq(Users)
                  /\ members'[r.game] = Append(members[r.game], r.user)
                BY <1>1, <2>3, <3>2, <4>1 DEF Attaches, LobbyInv, LobbyTypeOK
            <4>3. /\ Len(members[r.game]) + 1 \in DOMAIN members'[r.game]
                  /\ members'[r.game][Len(members[r.game]) + 1] = r.user
                BY <1>1, <4>2
            <4> QED  BY <4>3 DEF IsMember
        <3> QED  BY <3>1, <3>2
    <2>4. \/ IsMember(r.game, r.user)
          \/ \E x \in Workers :
                request[x].at = "attach" /\ request[x].game = r.game /\ request[x].user = r.user
        BY <1>2, <2>1 DEF LobbyInv, RowsJoin, Doing
    <2> QED  BY <2>2, <2>3, <2>4
<1>3. CASE Seats(w) /\ r = [game |-> request[w].game, user |-> request[w].user]
    BY <1>3 DEF Seats, MovesTo
<1> QED  BY <1>2, <1>3, UserRowsStep

LEMMA RoomsRowsStep ==
    ASSUME LobbyInv, NEW w \in Workers, WorkerStep(w)
    PROVE  RoomsHaveRows'
<1> SUFFICES ASSUME NEW g \in umap', \A row \in games' : row.id # g
             PROVE  \E x \in Workers : request'[x].game = g /\ request'[x].at \in Deleting
    BY DEF RoomsHaveRows, Deleting
<1>1. CASE g \in umap
    <2>1. CASE Gone(g)
        <3>1. PICK x \in Workers : request[x].game = g /\ request[x].at \in Deleting
            BY <1>1, <2>1 DEF LobbyInv, RoomsHaveRows, Deleting, Gone
        <3>2. CASE x # w
            BY <3>1, <3>2, Moved
        <3>3. CASE x = w
            <4>1. Looks(w) \/ Erases(w)
                BY <3>1, <3>3
                DEF WorkerStep, Looks, Drops, Inserts, Stores, Seats, Attaches, Erases, Deleting
            <4>2. ~Erases(w)
                BY <1>1, <3>1, <3>3 DEF Erases
            <4>3. request'[w].game = g /\ request'[w].at \in Deleting
                BY <3>1, <3>3, <4>1, <4>2 DEF Looks, Deleting, Entries
            <4> QED  BY <4>3
        <3> QED  BY <3>2, <3>3
    <2>2. CASE ~Gone(g)
        <3>1. Drops(w) /\ request[w].game = g
            BY <2>2, RowsStep DEF Gone
        <3> QED  BY <3>1 DEF Drops, MovesTo, Deleting
    <2> QED  BY <2>1, <2>2
<1>2. CASE Stores(w) /\ g = request[w].game
    <2>1. Gone(g)
        BY <1>2 DEF Stores, Gone, tables
    <2>2. PICK x \in Workers :
              request[x].at \in {"findOwn", "findEnded"} /\ request[x].game = g
        BY <1>2, <2>1 DEF Stores, LobbyInv, NewRooms, Doing
    <2>3. x # w
        BY <1>2, <2>2 DEF Stores
    <2> QED  BY <2>2, <2>3, Moved DEF Deleting
<1>3. g \in umap \/ (Stores(w) /\ g = request[w].game)
    BY DEF WorkerStep, Looks, Drops, Inserts, Stores, Seats, Attaches, Erases, rooms
<1> QED  BY <1>1, <1>2, <1>3

LEMMA RowsRoomsStep ==
    ASSUME LobbyInv, NEW w \in Workers, WorkerStep(w)
    PROVE  RowsHaveRooms'
<1>0. BornInv'
    BY BornStep
<1>1. born' = born
    BY DEF WorkerStep, Looks, Drops, Inserts, Stores, Seats, Attaches, Erases, life
<1> SUFFICES ASSUME NEW row \in games', row.id > born
             PROVE  \/ row.id \in umap'
                    \/ \E x \in Workers : request'[x].at = "store" /\ request'[x].game = row.id
    BY <1>0, <1>1 DEF RowsHaveRooms, AtStep, BornInv, Doing
<1>2. CASE row \in games
    <2>1. CASE row.id \in umap
        <3>1. ~(Erases(w) /\ request[w].game = row.id)
            <4>1. Erases(w) => Gone(request[w].game)
                BY DEF Erases, LobbyInv, RoomsInUse, Deleting
            <4> QED  BY <1>2, <4>1 DEF Gone
        <3> QED
            BY <2>1, <3>1
            DEF WorkerStep, Looks, Drops, Inserts, Stores, Seats, Attaches, Erases, rooms
    <2>2. ASSUME NEW x \in Workers, request[x].at = "store", request[x].game = row.id
          PROVE  row.id \in umap' \/ (request'[x].at = "store" /\ request'[x].game = row.id)
        <3>1. CASE x # w
            BY <2>2, <3>1, Moved
        <3>2. CASE x = w
            <4>1. Stores(w)
                BY <2>2, <3>2
                DEF WorkerStep, Looks, Drops, Inserts, Stores, Seats, Attaches, Erases
            <4> QED  BY <2>2, <3>2, <4>1 DEF Stores
        <3> QED  BY <3>1, <3>2
    <2>3. \/ row.id \in umap
          \/ \E x \in Workers : request[x].at = "store" /\ request[x].game = row.id
        BY <1>1, <1>2 DEF LobbyInv, RowsHaveRooms, AtStep
    <2> QED  BY <2>1, <2>2, <2>3
<1>3. CASE Inserts(w) /\ row.id = last_id'
    BY <1>3 DEF Inserts
<1> QED  BY <1>2, <1>3, RowsStep

-----------------------------------------------------------------------------
(***************************************************************************)
(* The theorems.                                                           *)
(***************************************************************************)

LEMMA NextLobby == LobbyInv /\ [Next]_vars => LobbyInv'
<1> SUFFICES ASSUME LobbyInv, [Next]_vars
             PROVE  LobbyInv'
    OBVIOUS
<1>1. CASE UNCHANGED vars
    <2>1. /\ LobbyTypeOK' /\ BornInv' /\ KnownIds' /\ RoomsInUse'
        BY <1>1 DEF vars, tables, rooms, life, LobbyInv, LobbyTypeOK, BornInv, KnownIds,
                    RoomsInUse, Gone, Doing
    <2>2. NewRooms' /\ Joined'
        BY <1>1 DEF vars, tables, rooms, LobbyInv, NewRooms, Joined, Doing, Gone
    <2>4. Joining' /\ RowsJoin'
        BY <1>1 DEF vars, tables, rooms, LobbyInv, Joining, RowsJoin, Doing, Gone, IsMember
    <2>3. OneOwner' /\ NobodyJoinsTwice' /\ RoomsHaveRows' /\ RowsHaveRooms'
        BY <1>1 DEF vars, tables, rooms, life, LobbyInv, OneOwner, Owns, Doing,
                    NobodyJoinsTwice, RoomsHaveRows, RowsHaveRooms, AtStep
    <2> QED  BY <2>1, <2>2, <2>3, <2>4 DEF LobbyInv
<1>2. ASSUME NEW w \in Workers, WorkerStep(w)
      PROVE  LobbyInv'
    BY <1>2, TypeStep, BornStep, KnownStep, InUseStep, NewRoomsStep, OwnerStep, JoinedStep,
       JoiningStep, RowsJoinStep, NobodyTwiceStep, RoomsRowsStep, RowsRoomsStep
    DEF LobbyInv
<1> QED  BY <1>1, <1>2, StepKinds, DownLobby, UpLobby

\* Any number of users, requests, games and restarts keep the invariant.
THEOREM LobbyInvariance == Spec => []LobbyInv
BY InitLobby, NextLobby, PTL DEF Spec

\* Tables, rooms and requests have their types: ids are ones the counter has
\* given, rows name users, and no request is at a step its handler lacks.
THEOREM LobbyTypeCorrect == Spec => []LobbyTypeOK
<1>1. LobbyInv => LobbyTypeOK
    BY DEF LobbyInv
<1> QED  BY <1>1, LobbyInvariance, PTL

\* Of two overlapping joins of one user, one fails on the key of game_users, and
\* a member who comes back to join is answered at once (http.cpp:579-590): no
\* user is ever twice in a room.
THEOREM NobodyEverJoinsTwice == Spec => []NobodyJoinsTwice
<1>1. LobbyInv => NobodyJoinsTwice
    BY DEF LobbyInv
<1> QED  BY <1>1, LobbyInvariance, PTL

\* A room in the map without a row is about to be erased, whatever creates, ends
\* and stops overlap.
THEOREM RoomsAlwaysHaveRows == Spec => []RoomsHaveRows
<1>1. LobbyInv => RoomsHaveRows
    BY DEF LobbyInv
<1> QED  BY <1>1, LobbyInvariance, PTL

\* Whatever creates, ends and stops overlap: of the games in the list exactly those
\* created since the process came up have their room or are about to have it.
THEOREM RowsAlwaysHaveRooms == Spec => []RowsHaveRooms
<1>1. LobbyInv => RowsHaveRooms
    BY DEF LobbyInv
<1> QED  BY <1>1, LobbyInvariance, PTL

\* Whenever no join is between its two writes, the members of a room are its
\* host and the users of its rows.
THEOREM RoomsAlwaysAgree == Spec => []RoomAgreesWithRows
<1>1. ASSUME LobbyInv
      PROVE  RoomAgreesWithRows
    <2> SUFFICES ASSUME NEW row \in games, row.id \in umap,
                        \A w \in Workers : ~(AtStep(w, "attach") /\ request[w].game = row.id)
                 PROVE  {members[row.id][i] : i \in DOMAIN members[row.id]} =
                            {row.host} \cup
                            {joined.user : joined \in {r \in game_users : r.game = row.id}}
        BY DEF RoomAgreesWithRows
    <2> DEFINE g == row.id
    <2>1. /\ g \in Ids /\ members[g] \in Seq(Users) /\ members[g] # <<>>
          /\ row.host \in Users /\ ~Gone(g)
        BY <1>1 DEF LobbyInv, LobbyTypeOK, KnownIds, Gone
    <2>2. 1 \in DOMAIN members[g] /\ members[g][1] \in Users
        BY <2>1
    <2>3. members[g][1] = row.host
        BY <1>1, <2>1, <2>2 DEF LobbyInv, OneOwner, Owns
    <2>4. \A i \in DOMAIN members[g] :
            i = 1 \/ [game |-> g, user |-> members[g][i]] \in game_users
        BY <1>1, <2>1 DEF LobbyInv, Joined
    <2>5. \A r \in game_users : r.game = g => \E i \in DOMAIN members[g] : members[g][i] = r.user
        BY <1>1, <2>1 DEF LobbyInv, RowsJoin, Doing, AtStep, IsMember
    <2> QED  BY <2>2, <2>3, <2>4, <2>5
<1> QED  BY <1>1, LobbyInvariance, PTL

\* A game leaves the list, and its room the map, only by a request of its host,
\* although create_game_ deletes by an id it has read in an earlier statement and
\* delete_room erases by one it has checked before: an id has one owner, ever.
THEOREM HostsEndTheirGames == Spec => GamesEndByHost
<1> DEFINE RowsByHost ==
               \A row \in games \ games' :
                   \E w \in Workers : request[w].user = row.host /\ request'[w] # request[w]
           RoomsByHost ==
               \A g \in umap \ umap' :
                   \E w \in Workers :
                       request[w].user = members[g][1] /\ request'[w] # request[w]
<1>1. ASSUME LobbyInv, NEW w \in Workers, WorkerStep(w)
      PROVE  RowsByHost
    <2> SUFFICES ASSUME NEW row \in games, row \notin games'
                 PROVE  request[w].user = row.host /\ request'[w] # request[w]
        OBVIOUS
    <2>1. Drops(w)
        BY <1>1 DEF WorkerStep, Looks, Inserts, Stores, Seats, Attaches, Erases, tables
    <2>2. row.id = request[w].game
        BY <2>1 DEF Drops, DeleteRow
    <2>3. row.id \in Ids /\ row.host \in Users /\ request[w].user \in Users
        BY <1>1, <2>1, Subject DEF Drops, LobbyInv, LobbyTypeOK
    <2>4. Owns(row.host, row.id) /\ Owns(request[w].user, row.id)
        BY <2>1, <2>2 DEF Drops, Owns
    <2>5. request[w].user = row.host
        BY <1>1, <2>3, <2>4 DEF LobbyInv, OneOwner
    <2> QED  BY <2>1, <2>5 DEF Drops, MovesTo
<1>2. ASSUME LobbyInv, NEW w \in Workers, WorkerStep(w)
      PROVE  RoomsByHost
    <2> SUFFICES ASSUME NEW g \in umap, g \notin umap'
                 PROVE  request[w].user = members[g][1] /\ request'[w] # request[w]
        OBVIOUS
    <2>1. Erases(w)
        BY <1>2 DEF WorkerStep, Looks, Drops, Inserts, Stores, Seats, Attaches, rooms
    <2>2. g = request[w].game /\ request[w].at \in Deleting
        BY <2>1 DEF Erases, Deleting
    <2>3. members[g][1] = request[w].user
        BY <1>2, <2>2, NeverRefused
    <2> QED  BY <2>1, <2>3 DEF Erases, MovesTo, Answered, Idle
<1>3. ASSUME LobbyInv, [Next]_vars
      PROVE  RowsByHost /\ (process' = "up" => RoomsByHost)
    BY <1>1, <1>2, <1>3, StepKinds DEF GoesDown, GoesUp, vars, tables, rooms
<1>4. LobbyInv /\ [Next]_vars =>
          [RowsByHost /\ (process' = "up" => RoomsByHost)]_vars
    BY <1>3
<1> QED  BY <1>4, LobbyInvariance, PTL DEF Spec, GamesEndByHost
=============================================================================
