--------------------------- MODULE GameRoomProofs ---------------------------
(***************************************************************************)
(* Theorems about GameRoom, for every number of users, connections and     *)
(* overlapping start requests: a room drives its engine only as the engine *)
(* is specified for, so what is proved of ScrabbleGame holds in rooms, and *)
(* the seats, the turn and the turn check agree.                           *)
(***************************************************************************)
EXTENDS GameRoom, LetterProofs

-----------------------------------------------------------------------------
\* Read loops that are about to ask whose move it is, or to call the engine.
Busy == {c \in Conns : loop[c].at \in {"check", "act"}}

\* The members are ones the engine can be started with.
RosterInv == roster \in Rosters /\ roster # <<>>

\* Wherever the engine may be called, it has been started.
StartedInv == ongoing \/ starting # {} \/ Busy # {} => players # <<>>

RoomInv ==
    /\ Inv
    /\ RoomTypeOK
    /\ RosterInv
    /\ SeatsFollowRoster
    /\ StartedInv
    /\ ClearedIsToMove

-----------------------------------------------------------------------------
(***************************************************************************)
(* Steps of the room as steps of the engine.                               *)
(***************************************************************************)

\* Every step of a room is a step of its engine or leaves the engine alone.
LEMMA RoomStepIsEngineStep ==
    ASSUME RosterInv, StartedInv, [RoomNext]_allVars
    PROVE  [Next]_vars
<1>1. CASE UNCHANGED vars
    BY <1>1
<1>2. CASE ~oob /\ (SetPlayers(roster) \/ SetPlayersOutOfBounds(roster))
    BY <1>2 DEF RosterInv, Next
<1>3. ASSUME ~oob, NEW c \in Conns, NEW action, Act(c, action)
      PROVE  [Next]_vars
    <2>1. players # <<>>
        BY <1>3 DEF StartedInv, Busy, Act, About
    <2>2. CASE UNCHANGED vars
        BY <2>2
    <2>3. CASE Move
        BY <1>3, <2>1, <2>3 DEF Next
    <2> QED  BY <1>3, <2>2, <2>3 DEF Act, Move, SeatsOf
<1> QED
    BY <1>1, <1>2, <1>3
    DEF RoomNext, AttachSession, RegisterPlayers, RegisterPlayersOutOfBounds, Start,
        Connect, CloseSession, Malformed, ReceiveMessage, CheckIfUsersMove, allVars

-----------------------------------------------------------------------------
(***************************************************************************)
(* The invariant of the room: one lemma per part.                          *)
(***************************************************************************)

LEMMA RoomInitInv == RoomInit => RoomInv
<1> SUFFICES ASSUME RoomInit
             PROVE  RoomInv
    OBVIOUS
<1>1. Inv
    BY InitInv DEF RoomInit
<1>2. Absent \in LoopStates /\ Absent.at = "none"
    BY DEF Absent, About, LoopStates
<1>3. RoomTypeOK
    <2>1. roster \in Seq(Users)
        BY RoomAssumption DEF RoomInit, RoomAssumption
    <2>2. loop \in [Conns -> LoopStates]
        BY <1>2 DEF RoomInit
    <2>3. actions \subseteq Actions
        BY DEF RoomInit
    <2> QED  BY <1>1, <2>1, <2>2, <2>3 DEF RoomInit, RoomTypeOK, Inv
<1>4. RosterInv
    BY RosterAssumption DEF RoomInit, RosterInv, RosterAssumption
<1>5. SeatsFollowRoster
    BY DEF RoomInit, Init, SeatsFollowRoster
<1>6. Busy = {}
    BY <1>2 DEF RoomInit, Busy
<1>7. StartedInv /\ ClearedIsToMove
    BY <1>2, <1>6 DEF RoomInit, StartedInv, ClearedIsToMove
<1> QED  BY <1>1, <1>3, <1>4, <1>5, <1>7 DEF RoomInv

\* A step of one read loop leaves the others where they are.
LEMMA LoopTypes ==
    ASSUME RoomTypeOK, [RoomNext]_allVars
    PROVE  /\ loop' \in [Conns -> LoopStates]
           /\ actions' = actions
<1>1. loop \in [Conns -> LoopStates] /\ actions \subseteq Actions
    BY DEF RoomTypeOK
<1>2. Absent \in LoopStates /\ Reading \in LoopStates
    BY DEF Absent, Reading, About, LoopStates
<1>3. \A action \in actions :
        About("check", action) \in LoopStates /\ About("act", action) \in LoopStates
    BY <1>1 DEF About, LoopStates
<1>4. CASE UNCHANGED <<loop, actions>>
    BY <1>1, <1>4
<1>5. ASSUME NEW c \in Conns, Connect(c) \/ CloseSession(c) \/ Malformed(c)
      PROVE  loop' \in [Conns -> LoopStates] /\ actions' = actions
    BY <1>1, <1>2, <1>5 DEF Connect, CloseSession, Malformed
<1>6. ASSUME NEW c \in Conns, NEW action \in actions,
             ReceiveMessage(c, action) \/ CheckIfUsersMove(c, action) \/ Act(c, action)
      PROVE  loop' \in [Conns -> LoopStates] /\ actions' = actions
    BY <1>1, <1>2, <1>3, <1>6 DEF ReceiveMessage, CheckIfUsersMove, Act
<1> QED
    BY <1>4, <1>5, <1>6
    DEF RoomNext, AttachSession, RegisterPlayers, RegisterPlayersOutOfBounds, Start,
        roomVars, allVars

\* Only a new member changes the list of members, and only by its end.
LEMMA RosterSteps ==
    ASSUME [RoomNext]_allVars
    PROVE  \/ roster' = roster
           \/ \E u \in Users : AttachSession(u)
BY DEF RoomNext, RegisterPlayers, RegisterPlayersOutOfBounds, Start, Connect,
       CloseSession, Malformed, ReceiveMessage, CheckIfUsersMove, Act, roomVars, allVars

\* Only registering the members changes the players of the engine.
LEMMA PlayersSteps ==
    ASSUME [RoomNext]_allVars
    PROVE  \/ players' = players
           \/ players' = roster /\ roster' = roster /\ SetPlayers(roster)
<1>1. ASSUME NEW c \in Conns, NEW action \in actions, Act(c, action)
      PROVE  players' = players
    BY <1>1
    DEF Act, TryPlaceTiles, SubmitWord, SubmitWordOutOfBounds, Pass, Change,
        ChangeOutOfBounds, ChangeRefused, OutOfBounds, tableVars, vars
<1> QED
    BY <1>1
    DEF RoomNext, AttachSession, RegisterPlayers, RegisterPlayersOutOfBounds, SetPlayers,
        SetPlayersOutOfBounds, OutOfBounds, Start, Connect, CloseSession, Malformed,
        ReceiveMessage, CheckIfUsersMove, vars, tableVars, allVars

LEMMA RosterStep ==
    ASSUME RosterInv, [RoomNext]_allVars
    PROVE  RosterInv'
<1>1. CASE roster' = roster
    BY <1>1 DEF RosterInv
<1>2. ASSUME NEW u \in Users, AttachSession(u)
      PROVE  RosterInv'
    <2>1. roster' = Append(roster, u) /\ \A i \in DOMAIN roster : roster[i] # u
        BY <1>2 DEF AttachSession, InRoom
    <2>2. roster \in Seq(Users)
        BY GameAssumption DEF GameAssumption, RosterInv
    <2>3. roster' # <<>>
        BY <2>1, <2>2
    <2> QED  BY <2>1, <2>3, RosterAssumption DEF RosterInv, RosterAssumption
<1> QED  BY <1>1, <1>2, RosterSteps

LEMMA SeatsStep ==
    ASSUME RosterInv, SeatsFollowRoster, Inv, [RoomNext]_allVars
    PROVE  SeatsFollowRoster'
<1>1. roster \in Seq(Users) /\ players \in Seq(Users)
    BY GameAssumption DEF GameAssumption, RosterInv, Inv, TypeOK
<1>2. CASE roster' = roster /\ players' = players
    BY <1>2 DEF SeatsFollowRoster
<1>3. CASE roster' = roster /\ players' = roster
    BY <1>1, <1>3 DEF SeatsFollowRoster
<1>4. ASSUME NEW u \in Users, AttachSession(u)
      PROVE  SeatsFollowRoster'
    <2>1. /\ roster' = Append(roster, u)
          /\ players' = players
          /\ \A i \in DOMAIN roster : roster[i] # u
        BY <1>4 DEF AttachSession, InRoom, vars
    <2>2. /\ Len(roster') = Len(roster) + 1
          /\ DOMAIN roster' = 1 .. Len(roster) + 1
          /\ \A i \in 1 .. Len(roster) : roster'[i] = roster[i]
          /\ roster'[Len(roster) + 1] = u
        BY <1>1, <2>1
    <2>3. Len(roster) \in Nat /\ Len(roster) >= 1 /\ DOMAIN roster = 1 .. Len(roster)
        BY <1>1 DEF RosterInv
    <2>4. Len(players) \in Nat /\ DOMAIN players = 1 .. Len(players)
        BY <1>1
    <2>5. roster'[1] = Host
        BY <2>2, <2>3 DEF SeatsFollowRoster
    <2>6. /\ Len(players') =< Len(roster')
          /\ \A i \in DOMAIN players' : players'[i] = roster'[i]
        BY <2>1, <2>2, <2>3, <2>4 DEF SeatsFollowRoster
    <2>7. \A i, j \in DOMAIN roster' : roster'[i] = roster'[j] => i = j
        BY <2>1, <2>2, <2>3 DEF SeatsFollowRoster
    <2> QED  BY <2>5, <2>6, <2>7 DEF SeatsFollowRoster
<1> QED  BY <1>2, <1>3, <1>4, RosterSteps, PlayersSteps DEF AttachSession, vars

LEMMA RoomTypeStep ==
    ASSUME Inv', RosterInv', RoomTypeOK, [RoomNext]_allVars
    PROVE  RoomTypeOK'
<1>1. TypeOK'
    BY DEF Inv
<1>2. roster' \in Seq(Users)
    BY GameAssumption DEF GameAssumption, RosterInv
<1>3. loop' \in [Conns -> LoopStates] /\ actions' \subseteq Actions
    BY LoopTypes DEF RoomTypeOK
<1>4. ongoing' \in BOOLEAN
    BY DEF RoomTypeOK, RoomNext, AttachSession, RegisterPlayers,
           RegisterPlayersOutOfBounds, Start, Connect, CloseSession, Malformed,
           ReceiveMessage, CheckIfUsersMove, Act, roomVars, allVars
<1>5. open' \in BOOLEAN
    BY DEF RoomTypeOK, RoomNext, AttachSession, RegisterPlayers,
           RegisterPlayersOutOfBounds, Start, Connect, CloseSession, Malformed,
           ReceiveMessage, CheckIfUsersMove, Act, roomVars, allVars
<1>6. starting' \subseteq Workers
    BY DEF RoomTypeOK, RoomNext, AttachSession, RegisterPlayers,
           RegisterPlayersOutOfBounds, Start, Connect, CloseSession, Malformed,
           ReceiveMessage, CheckIfUsersMove, Act, roomVars, allVars
<1> QED  BY <1>1, <1>2, <1>3, <1>4, <1>5, <1>6 DEF RoomTypeOK

\* Once the engine has players it never loses them.
LEMMA StaysStarted ==
    ASSUME RosterInv, [RoomNext]_allVars, players # <<>>
    PROVE  players' # <<>>
BY PlayersSteps DEF RosterInv

\* A loop becomes busy only on a message that arrives while the game is ongoing.
LEMMA StartedStep ==
    ASSUME RoomTypeOK, RosterInv, StartedInv, [RoomNext]_allVars
    PROVE  StartedInv'
<1> USE DEF StartedInv
<1>1. CASE players # <<>>
    BY <1>1, StaysStarted
<1>2. CASE players = <<>>
    <2>1. ~ongoing /\ starting = {} /\ Busy = {}
        BY <1>2
    <2>2. \A c \in Conns : loop[c].at \notin {"check", "act"}
        BY <2>1 DEF Busy
    <2>3. CASE UNCHANGED <<ongoing, starting, loop>>
        BY <2>1, <2>3 DEF Busy
    <2>4. ASSUME NEW w \in Workers, RegisterPlayers(w)
          PROVE  StartedInv'
        BY <2>4 DEF RegisterPlayers, SetPlayers, RosterInv
    <2>5. ASSUME NEW c \in Conns, Connect(c) \/ CloseSession(c) \/ Malformed(c)
          PROVE  StartedInv'
        <3>1. /\ ongoing' = FALSE /\ starting' = {}
              /\ loop' \in {[loop EXCEPT ![c] = Absent], [loop EXCEPT ![c] = Reading]}
            BY <2>1, <2>5 DEF Connect, CloseSession, Malformed
        <3>2. Absent.at = "none" /\ Reading.at = "reading"
            BY DEF Absent, Reading, About
        <3>3. \A d \in Conns : loop'[d].at \notin {"check", "act"}
            BY <2>2, <3>1, <3>2 DEF RoomTypeOK
        <3> QED  BY <3>1, <3>3 DEF Busy
    <2>6. ~ \E c \in Conns : \E action \in actions :
            ReceiveMessage(c, action) \/ CheckIfUsersMove(c, action) \/ Act(c, action)
        <3> SUFFICES ASSUME NEW c \in Conns, NEW action,
                            \/ ReceiveMessage(c, action)
                            \/ CheckIfUsersMove(c, action)
                            \/ Act(c, action)
                     PROVE  FALSE
            OBVIOUS
        <3>1. ~ReceiveMessage(c, action)
            BY <2>1 DEF ReceiveMessage
        <3>2. About("check", action).at = "check" /\ About("act", action).at = "act"
            BY DEF About
        <3>3. loop[c] # About("check", action) /\ loop[c] # About("act", action)
            BY <2>2, <3>2
        <3> QED  BY <3>1, <3>3 DEF CheckIfUsersMove, Act
    <2>7. ~ \E w \in Workers : Start(w)
        BY <2>1 DEF Start
    <2> QED
        BY <2>3, <2>4, <2>5, <2>6, <2>7
        DEF RoomNext, AttachSession, RegisterPlayersOutOfBounds, roomVars, allVars
<1> QED  BY <1>1, <1>2

\* Only a call of a read loop moves the turn.
LEMMA TurnKept ==
    ASSUME [RoomNext]_allVars,
           ~ \E d \in Conns : \E action \in actions : Act(d, action)
    PROVE  current_player' = current_player
BY DEF RoomNext, AttachSession, RegisterPlayers, RegisterPlayersOutOfBounds,
       SetPlayers, SetPlayersOutOfBounds, OutOfBounds, Start, Connect,
       CloseSession, Malformed, ReceiveMessage, CheckIfUsersMove, vars, allVars

\* Nothing but such a call changes who is to move: a start leaves him in his seat.
LEMMA HolderKept ==
    ASSUME Inv, SeatsFollowRoster, players # <<>>, [RoomNext]_allVars,
           ~ \E d \in Conns : \E action \in actions : Act(d, action)
    PROVE  players'[Mover'] = players[Mover]
<1>1. current_player' = current_player
    BY TurnKept
<1>2. Mover' = Mover
    BY <1>1 DEF Mover
<1>3. players' = players \/ players' = roster
    BY PlayersSteps
<1>4. Mover \in DOMAIN players
    BY SeatFacts
<1>5. roster[Mover] = players[Mover]
    BY <1>4 DEF SeatsFollowRoster
<1> QED  BY <1>2, <1>3, <1>5

LEMMA ClearedStep ==
    ASSUME RoomInv, [RoomNext]_allVars
    PROVE  ClearedIsToMove'
<1> SUFFICES ASSUME "change" \notin actions',
                    \A c, d \in Conns : UserOf[c] = UserOf[d] => c = d,
                    NEW c \in Conns, loop'[c].at = "act"
             PROVE  players'[Mover'] = UserOf[c]
    BY DEF ClearedIsToMove
<1>1. actions' = actions /\ "change" \notin actions
    BY LoopTypes DEF RoomInv
<1>2. actions \subseteq Checked
    BY <1>1, RoomAssumption DEF RoomInv, RoomTypeOK, RoomAssumption, Checked
<1>3. \A d \in Conns : loop[d].at = "act" => players[Mover] = UserOf[d]
    BY <1>1 DEF RoomInv, ClearedIsToMove
<1>4. loop \in [Conns -> LoopStates]
    BY DEF RoomInv, RoomTypeOK
<1>5. Absent.at = "none" /\ Reading.at = "reading"
    BY DEF Absent, Reading, About
<1>6. ~ \E d \in Conns : \E action \in actions : Act(d, action)
    <2> SUFFICES ASSUME NEW d \in Conns, NEW action \in actions, Act(d, action)
                 PROVE  FALSE
        OBVIOUS
    <2>1. loop[d].at = "act" /\ loop' = [loop EXCEPT ![d] = Reading]
        BY DEF Act, About
    <2>2. c # d /\ loop[c].at = "act"
        BY <1>4, <1>5, <2>1
    <2> QED  BY <1>3, <2>1, <2>2
<1>7. CASE loop[c].at = "act"
    <2>1. players # <<>>
        BY <1>7 DEF RoomInv, StartedInv, Busy
    <2> QED  BY <1>3, <1>6, <1>7, <2>1, HolderKept DEF RoomInv
<1>8. CASE loop[c].at # "act"
    <2>1. PICK d \in Conns, action \in actions :
              CheckIfUsersMove(d, action) \/ ReceiveMessage(d, action)
        <3>1. loop' # loop
            BY <1>8
        <3>2. ASSUME NEW d \in Conns, Connect(d) \/ CloseSession(d) \/ Malformed(d)
              PROVE  FALSE
            BY <1>4, <1>5, <1>8, <3>2 DEF Connect, CloseSession, Malformed
        <3> QED
            BY <1>6, <3>1, <3>2
            DEF RoomNext, AttachSession, RegisterPlayers, RegisterPlayersOutOfBounds,
                Start, roomVars, allVars
    <2>2. CASE ReceiveMessage(d, action)
        <3>1. loop' = [loop EXCEPT ![d] = About("check", action)]
            BY <1>2, <2>2 DEF ReceiveMessage
        <3>2. About("check", action).at = "check"
            BY DEF About
        <3> QED  BY <1>4, <1>8, <3>1, <3>2
    <2>3. CASE CheckIfUsersMove(d, action)
        <3>1. c = d
            BY <1>4, <1>8, <2>3 DEF CheckIfUsersMove
        <3>2. players[Mover] = UserOf[d]
            BY <1>4, <1>5, <2>3, <3>1 DEF CheckIfUsersMove
        <3>3. players' = players /\ Mover' = Mover
            BY <2>3 DEF CheckIfUsersMove, vars, Mover
        <3> QED  BY <3>1, <3>2, <3>3
    <2> QED  BY <2>1, <2>2, <2>3
<1> QED  BY <1>7, <1>8

-----------------------------------------------------------------------------
(***************************************************************************)
(* The theorems.                                                           *)
(***************************************************************************)

\* Every step of the room preserves the invariant.
LEMMA RoomNextInv == RoomInv /\ [RoomNext]_allVars => RoomInv'
<1> SUFFICES ASSUME RoomInv, [RoomNext]_allVars
             PROVE  RoomInv'
    OBVIOUS
<1>1. Inv'
    BY RoomStepIsEngineStep, NextInv DEF RoomInv
<1>2. RosterInv'
    BY RosterStep DEF RoomInv
<1>3. RoomTypeOK'
    BY <1>1, <1>2, RoomTypeStep DEF RoomInv
<1>4. SeatsFollowRoster'
    BY SeatsStep DEF RoomInv
<1>5. StartedInv'
    BY StartedStep DEF RoomInv
<1> QED  BY <1>1, <1>2, <1>3, <1>4, <1>5, ClearedStep DEF RoomInv

\* A room, with any number of members, connections and overlapping starts,
\* keeps its invariant.
THEOREM RoomInvariance == RoomSpec => []RoomInv
BY RoomInitInv, RoomNextInv, PTL DEF RoomSpec

\* GameRoom drives ScrabbleGame only in ways the engine is specified for: joins,
\* late and repeated starts and the messages of any number of read loops make a
\* behaviour of the engine.
THEOREM RoomImplementsEngine == RoomSpec => RoomDrivesEngine
<1>1. RoomInit => Init
    BY DEF RoomInit
<1>2. RoomInv /\ [RoomNext]_allVars => [Next]_vars
    BY RoomStepIsEngineStep DEF RoomInv
<1> QED  BY <1>1, <1>2, RoomInvariance, PTL DEF RoomSpec, RoomDrivesEngine, Spec

\* Read loops and start requests are where their handlers can be, the members are
\* users, and the engine in the room is correctly typed.
THEOREM RoomTypeCorrect == RoomSpec => []RoomTypeOK
<1>1. RoomInv => RoomTypeOK
    BY DEF RoomInv
<1> QED  BY <1>1, RoomInvariance, PTL

\* The seats of the engine are the first members of the room in joining order.
THEOREM SeatsStayWithRoster == RoomSpec => []SeatsFollowRoster
<1>1. RoomInv => SeatsFollowRoster
    BY DEF RoomInv
<1> QED  BY <1>1, RoomInvariance, PTL

\* whose_move_id never indexes an empty list of players, and Pass never divides
\* by their number when it is zero.
THEOREM SomeoneIsToMove == RoomSpec => []SomeoneToMove
<1>1. RoomInv => SomeoneToMove
    <2> SUFFICES ASSUME RoomInv,
                        ongoing \/ \E c \in Conns : loop[c] \notin {Absent, Reading}
                 PROVE  players # <<>>
        BY SeatFacts DEF RoomInv, SomeoneToMove
    <2>1. CASE ongoing
        BY <2>1 DEF RoomInv, StartedInv
    <2>2. ASSUME NEW c \in Conns, loop[c] \notin {Absent, Reading}
          PROVE  players # <<>>
        <3>1. loop[c].at \in {"check", "act"}
            BY <2>2 DEF RoomInv, RoomTypeOK, LoopStates
        <3> QED  BY <3>1 DEF RoomInv, StartedInv, Busy
    <2> QED  BY <2>1, <2>2
<1> QED  BY <1>1, RoomInvariance, PTL

\* In a room without exchanges and second tabs, what check_if_users_move_
\* answered is still true when the engine is called.
THEOREM ClearedStaysToMove == RoomSpec => []ClearedIsToMove
<1>1. RoomInv => ClearedIsToMove
    BY DEF RoomInv
<1> QED  BY <1>1, RoomInvariance, PTL

\* Exchanges and second tabs are the only ways past the turn check: where clients
\* exchange no tiles and nobody has two connections, the turn moves on only by a
\* call for the player to move, whatever else overlaps that call: the checks and
\* calls of the other loops, joins, repeated starts and connections that end.
THEOREM HoldersMoveTheTurn ==
    ASSUME "change" \notin Actions,
           \A c, d \in Conns : UserOf[c] = UserOf[d] => c = d
    PROVE  RoomSpec => TurnMovesByHolder
<1>1. ASSUME RoomInv, [RoomNext]_allVars, current_player' # current_player
      PROVE  \E c \in Conns :
                /\ loop[c] \notin {Absent, Reading} /\ loop'[c] = Reading
                /\ UserOf[c] = players[Mover]
    <2>1. PICK c \in Conns, action \in actions : Act(c, action)
        BY <1>1, TurnKept
    <2>2. loop[c].at = "act" /\ loop' = [loop EXCEPT ![c] = Reading]
        BY <2>1 DEF Act, About
    <2>3. UserOf[c] = players[Mover]
        BY <1>1, <2>2 DEF RoomInv, RoomTypeOK, ClearedIsToMove
    <2>4. loop[c] \notin {Absent, Reading}
        BY <2>2 DEF Absent, Reading, About
    <2>5. loop'[c] = Reading
        BY <1>1, <2>2 DEF RoomInv, RoomTypeOK
    <2> QED  BY <2>3, <2>4, <2>5
<1>2. RoomInv /\ [RoomNext]_allVars =>
          [current_player' # current_player =>
              \E c \in Conns :
                  /\ loop[c] \notin {Absent, Reading} /\ loop'[c] = Reading
                  /\ UserOf[c] = players[Mover]]_allVars
    BY <1>1
<1> QED  BY <1>2, RoomInvariance, PTL DEF RoomSpec, TurnMovesByHolder

\* What is proved of ScrabbleGame holds of the engine in every room.
THEOREM RoomKeepsEngineProperties ==
    RoomSpec => /\ [](/\ PendingIsLegal /\ DrawStaysInBag /\ HandsAreBounded
                      /\ NoTileIsTwice /\ NoLetterVanishes)
                /\ BoardIsPermanent
                /\ PointsAreForTiles
                /\ PlaysTurnGame
BY RoomImplementsEngine, PendingStaysLegal, DrawsStayInBag, HandsStayBounded,
   TilesStayApart, NoLetterEverVanishes, BoardStaysPermanent, PointsStayForTiles, EnginePlaysTurnGame, PTL
   DEF RoomDrivesEngine
=============================================================================
