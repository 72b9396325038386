--------------------------- MODULE GamePageProofs ---------------------------
(***************************************************************************)
(* Theorems about GamePage, for any board, words, bag and number of        *)
(* commands and messages under way: the types, and that a submit, which    *)
(* carries no tiles, writes the tiles the player saw when he pressed the   *)
(* button, unless an exchange has come between the check of a move and the *)
(* move.                                                                   *)
(*                                                                         *)
(* The invariant says, for a submit that is under way and for one that     *)
(* could be sent now, what the room will hold by the time it arrives: the  *)
(* last placement that is under way before it, or nothing after a pass, or *)
(* what the room holds already.                                            *)
(***************************************************************************)
EXTENDS GamePage, ScrabbleGameProofs

-----------------------------------------------------------------------------
(***************************************************************************)
(* What a submit will find, as facts about queues.                         *)
(***************************************************************************)
Writes == {"place", "pass"}

\* By the time the room has carried out the commands before the k-th, the room's
\* placement, if it can be submitted, will be p; now it can be when ready holds, and
\* is tiles.
Settled(queue, k, ready, tiles, p) ==
    /\ \A j \in 1 .. k - 1 :
        /\ queue[j].action = "place"
        /\ \A i \in j + 1 .. k - 1 : queue[i].action \notin Writes
        => queue[j].placement = p
    /\ (\A j \in 1 .. k - 1 : queue[j].action \notin Writes) /\ ready => tiles = p

\* A command that follows does not matter.
LEMMA SettledBefore ==
    ASSUME NEW S, NEW queue \in Seq(S), NEW c \in S, NEW k \in 1 .. Len(queue) + 1,
           NEW ready, NEW tiles, NEW p, Settled(queue, k, ready, tiles, p)
    PROVE  Settled(Append(queue, c), k, ready, tiles, p)
<1>1. \A j \in 1 .. k - 1 : Append(queue, c)[j] = queue[j]
    OBVIOUS
<1>2. \A j \in 1 .. k - 1 : j + 1 .. k - 1 \subseteq 1 .. k - 1
    OBVIOUS
<1> QED  BY <1>1, <1>2 DEF Settled

\* Neither does a last command that writes nothing.
LEMMA SettledAfter ==
    ASSUME NEW S, NEW queue \in Seq(S), NEW c \in S, c.action \notin Writes,
           NEW ready, NEW tiles, NEW p, Settled(queue, Len(queue) + 1, ready, tiles, p)
    PROVE  Settled(Append(queue, c), Len(queue) + 2, ready, tiles, p)
<1> DEFINE q == Append(queue, c)
           n == Len(queue)
<1>1. n \in Nat /\ q[n + 1] = c /\ \A j \in 1 .. n : q[j] = queue[j]
    OBVIOUS
<1> HIDE DEF q, n
<1>2. ASSUME NEW j \in 1 .. n + 1, q[j].action = "place",
             \A i \in j + 1 .. n + 1 : q[i].action \notin Writes
      PROVE  q[j].placement = p
    <2>1. j \in 1 .. n
        BY <1>1, <1>2 DEF Writes
    <2>2. \A i \in j + 1 .. n : queue[i].action \notin Writes
        BY <1>1, <1>2, <2>1
    <2> QED  BY <1>1, <1>2, <2>1, <2>2 DEF Settled, n
<1>3. (\A j \in 1 .. n + 1 : q[j].action \notin Writes) /\ ready => tiles = p
    BY <1>1 DEF Settled, n
<1>4. n + 2 - 1 = n + 1
    BY <1>1
<1> QED  BY <1>2, <1>3, <1>4 DEF Settled, q, n

\* A placement settles it, and a pass does.
LEMMA SettledByWrite ==
    ASSUME NEW S, NEW queue \in Seq(S), NEW c \in S, NEW ready, NEW tiles, NEW p,
           c.action = "pass" \/ (c.action = "place" /\ c.placement = p)
    PROVE  Settled(Append(queue, c), Len(queue) + 2, ready, tiles, p)
<1> DEFINE q == Append(queue, c)
           n == Len(queue)
<1>1. n \in Nat /\ q[n + 1] = c /\ n + 2 - 1 = n + 1 /\ n + 1 \in 1 .. n + 1
    OBVIOUS
<1> HIDE DEF q, n
<1>2. ASSUME NEW j \in 1 .. n + 1, q[j].action = "place",
             \A i \in j + 1 .. n + 1 : q[i].action \notin Writes
      PROVE  q[j].placement = p
    <2>1. CASE j = n + 1
        BY <1>1, <1>2, <2>1
    <2>2. CASE j # n + 1
        <3>1. n + 1 \in j + 1 .. n + 1
            BY <1>1, <2>2
        <3> QED  BY <1>1, <1>2, <3>1 DEF Writes
    <2> QED  BY <2>1, <2>2
<1> QED  BY <1>1, <1>2 DEF Settled, Writes, q, n

\* The room carries out the first command.
LEMMA SettledTail ==
    ASSUME NEW S, NEW queue \in Seq(S), queue # <<>>, NEW k \in 2 .. Len(queue) + 1,
           NEW ready, NEW tiles, NEW p, Settled(queue, k, ready, tiles, p),
           NEW ready1, NEW tiles1,
           queue[1].action = "place" /\ ready1 => tiles1 = queue[1].placement,
           queue[1].action = "pass" => ~ready1,
           queue[1].action \notin Writes /\ ready1 => ready /\ tiles1 = tiles
    PROVE  Settled(Tail(queue), k - 1, ready1, tiles1, p)
<1> DEFINE q == Tail(queue)
<1>1. \A j \in 1 .. k - 2 : q[j] = queue[j + 1]
    OBVIOUS
<1>2. k \in Nat /\ k >= 2 /\ k - 1 - 1 = k - 2
    OBVIOUS
<1> HIDE DEF q
<1>3. ASSUME NEW j \in 1 .. k - 2, q[j].action = "place",
             \A i \in j + 1 .. k - 2 : q[i].action \notin Writes
      PROVE  q[j].placement = p
    <2>1. j + 1 \in 1 .. k - 1 /\ q[j] = queue[j + 1]
        BY <1>1, <1>2
    <2>2. ASSUME NEW i \in j + 2 .. k - 1
          PROVE  queue[i].action \notin Writes
        <3>1. i - 1 \in j + 1 .. k - 2 /\ i - 1 \in 1 .. k - 2 /\ i - 1 + 1 = i
            BY <1>2
        <3> QED  BY <1>1, <1>3, <3>1
    <2>3. j + 1 + 1 = j + 2
        OBVIOUS
    <2> QED  BY <1>3, <2>1, <2>2, <2>3 DEF Settled
<1>4. ASSUME \A j \in 1 .. k - 2 : q[j].action \notin Writes, ready1
      PROVE  tiles1 = p
    <2>1. ASSUME NEW i \in 2 .. k - 1
          PROVE  queue[i].action \notin Writes
        <3>1. i - 1 \in 1 .. k - 2 /\ i - 1 + 1 = i
            BY <1>2
        <3> QED  BY <1>1, <1>4, <3>1
    <2>2. 1 \in 1 .. k - 1 /\ 1 + 1 = 2
        BY <1>2
    <2>3. CASE queue[1].action = "place"
        BY <1>4, <2>1, <2>2, <2>3 DEF Settled
    <2>4. CASE queue[1].action \notin Writes
        <3>1. \A j \in 1 .. k - 1 : queue[j].action \notin Writes
            BY <1>2, <2>1, <2>4
        <3> QED  BY <1>4, <2>4, <3>1 DEF Settled
    <2> QED  BY <1>4, <2>3, <2>4 DEF Writes
<1> QED  BY <1>2, <1>3, <1>4 DEF Settled, q

-----------------------------------------------------------------------------
(***************************************************************************)
(* The invariant.                                                          *)
(***************************************************************************)
\* A read loop carries out a command, its player's or the opponent's, or takes a step
\* that reaches neither the engine nor the page.
MyCommand == ReceiveCommand \/ Act

TheirCommand == OpponentChanges \/ OpponentActs

LoopStep(l) == CheckIfUsersMove(l) \/ BuildState(l)

\* A step of the page.
PageStep == ReceiveMessage \/ Player \/ Poll

LEMMA PageKinds ==
    ASSUME [PageNext]_pageVars
    PROVE  \/ /\ ~oob
              /\ \/ StartGame \/ MyCommand \/ TheirCommand
                 \/ \E l \in Loops : LoopStep(l)
                 \/ PageStep
           \/ UNCHANGED pageVars
BY DEF PageNext, MyCommand, TheirCommand, LoopStep, PageStep

\* The player could submit what the room holds, and it is what he has placed.
Ready == MyMove /\ score # -1 /\ ~strayed

\* The room has been started with the two players or has not been started.
SeatsInv ==
    /\ players \in {<<>>, Roster}
    /\ ongoing /\ ~oob => players = Roster
    /\ ~ongoing => players = <<>>
    /\ players = <<>> => score = -1
    /\ \A l \in Loops : making[l].at = "public" => ongoing

\* A read loop is past the check only in a game, and the player's with a command.
ClearedInv ==
    /\ cleared # {} => ongoing
    /\ "mine" \in cleared => up # <<>> /\ up[1].action \in Checked

\* What is placed is among Placements, which bounds what the player composes.
SentInv ==
    /\ \A k \in DOMAIN up : up[k].action = "place" => up[k].placement \in Placements
    /\ Overlay(pending) \in Placements \cup {NoPlacement}

\* The submits under way, and one that could be sent now or after another placement.
ShownInv ==
    /\ \A k \in DOMAIN up : up[k].action = "submit" =>
        Settled(up, k, Ready, new_tiles, up[k].placement)
    /\ "submit" \in enabled \/ pending # <<>> =>
        Settled(up, Len(up) + 1, Ready, new_tiles, Overlay(pending))

PageInv ==
    /\ Inv
    /\ PageTypeOK
    /\ SeatsInv
    /\ ClearedInv
    /\ SentInv
    /\ ShownInv

LEMMA RosterFacts ==
    /\ Roster \in Seq(Users) /\ Roster # <<>> /\ DOMAIN Roster = {1, 2}
    /\ \E i \in {1, 2} : Roster[i] = Me
<1>1. Roster \in Seq(Users)
    BY PageAssumption, GameAssumption DEF PageAssumption, GameAssumption
<1>2. CASE Roster = <<Me, Opponent>>
    BY <1>1, <1>2
<1>3. CASE Roster = <<Opponent, Me>>
    BY <1>1, <1>3
<1> QED  BY <1>2, <1>3, PageAssumption DEF PageAssumption

\* Steps that leave the engine alone.
LEMMA PageStepsKeep ==
    ASSUME PageStep
    PROVE  UNCHANGED <<vars, roomSide>>
BY DEF PageStep, ReceiveMessage, Player, ClickCell, Submit, Recall, PassTurn, Swap, Poll, roomSide

LEMMA LoopsKeep ==
    ASSUME NEW l \in Loops, LoopStep(l)
    PROVE  UNCHANGED <<vars, ongoing, up, strayed, page>>
BY DEF LoopStep, CheckIfUsersMove, BuildState, ReadPublic, ReadPrivate, Push

\* Where the room carries out commands there are two players.
LEMMA GameFacts ==
    ASSUME SeatsInv, ongoing, ~oob
    PROVE  players = Roster /\ players # <<>> /\ MySeat \in DOMAIN players
<1>1. players = Roster
    BY DEF SeatsInv
<1>2. \E i \in DOMAIN players : players[i] = Me
    BY <1>1, RosterFacts
<1> QED  BY <1>1, <1>2, RosterFacts DEF MySeat

-----------------------------------------------------------------------------
(***************************************************************************)
(* The engine.                                                             *)
(***************************************************************************)
\* The player's command is a step of the engine, or an exchange by the player, whose
\* letters need not be among those the engine is checked for.
LEMMA CommandStep ==
    ASSUME PageInv, ~oob, MyCommand
    PROVE  \/ [Next]_vars
           \/ OutOfBounds
           \/ /\ players # <<>>
              /\ \E request : Change(MySeat, request) \/ ChangeRefused(MySeat, request)
<1>1. CASE UNCHANGED vars
    BY <1>1
<1>2. CASE ReceiveCommand /\ vars' # vars
    <2>1. ongoing /\ \E request : \/ Change(MySeat, request) \/ ChangeRefused(MySeat, request)
                                  \/ ChangeOutOfBounds(MySeat, request)
        BY <1>2 DEF ReceiveCommand
    <2>2. players # <<>>
        BY <2>1, GameFacts DEF PageInv
    <2> QED  BY <2>1, <2>2 DEF ChangeOutOfBounds
<1>3. CASE Act
    <2>1. ongoing /\ up # <<>>
        BY <1>3 DEF Act, PageInv, ClearedInv
    <2>2. players # <<>>
        BY <2>1, GameFacts DEF PageInv
    <2>3. CASE Head(up).action = "place" /\ TryPlaceTiles(Head(up).placement)
        <3>1. Head(up).placement \in Placements
            <4>1. up \in Seq([action : Commands, placement : PlacementType])
                BY DEF PageInv, PageTypeOK
            <4>2. 1 \in DOMAIN up /\ Head(up) = up[1]
                BY <2>1, <4>1
            <4> QED  BY <2>3, <4>2 DEF PageInv, SentInv
        <3> QED  BY <2>2, <2>3, <3>1 DEF Next, Move
    <2>4. CASE SubmitWord \/ SubmitWordOutOfBounds \/ UNCHANGED vars \/ Pass
        BY <2>2, <2>4 DEF Next, Move
    <2> QED  BY <1>3, <2>3, <2>4 DEF Act
<1> QED  BY <1>1, <1>2, <1>3 DEF MyCommand

LEMMA OpponentStep ==
    ASSUME PageInv, ~oob, TheirCommand
    PROVE  [Next]_vars
<1>1. ongoing
    BY DEF TheirCommand, OpponentChanges, OpponentActs, PageInv, ClearedInv
<1>2. players # <<>>
    BY <1>1, GameFacts DEF PageInv
<1> QED  BY <1>2 DEF TheirCommand, OpponentChanges, OpponentActs, Next, Move

LEMMA EngineStep == PageInv /\ [PageNext]_pageVars => Inv'
<1> SUFFICES ASSUME PageInv, [PageNext]_pageVars
             PROVE  Inv'
    OBVIOUS
<1>0. Inv
    BY DEF PageInv
<1>1. CASE [Next]_vars
    BY <1>0, <1>1, NextInv
<1>2. CASE ~oob /\ StartGame
    BY <1>1, <1>2, PageAssumption DEF StartGame, Next, PageAssumption
<1>3. CASE ~oob /\ TheirCommand
    BY <1>1, <1>3, OpponentStep
<1>4. CASE ~oob /\ MyCommand
    <2>1. CASE OutOfBounds
        <3>1. TypeOK'
            BY <1>0, <2>1 DEF OutOfBounds, Inv, TypeOK, tableVars, pendingVars
        <3>2. BagInv'
            BY <1>0, <2>1
            DEF OutOfBounds, Inv, BagInv, DrawStaysInBag, HandsAreBounded, tableVars
        <3> QED  BY <3>1, <3>2 DEF Inv
    <2>2. ASSUME players # <<>>, NEW request, Change(MySeat, request)
          PROVE  Inv'
        <3>1. MySeat \in DOMAIN players
            BY <2>2, RosterFacts DEF PageInv, SeatsInv, MySeat
        <3> QED  BY <1>0, <2>2, <3>1, ChangeInv
    <2>3. ASSUME players # <<>>, NEW request, ChangeRefused(MySeat, request)
          PROVE  Inv'
        <3>1. MySeat \in DOMAIN players
            BY <2>3, RosterFacts DEF PageInv, SeatsInv, MySeat
        <3> QED  BY <1>0, <2>3, <3>1, ChangeRefusedInv
    <2> QED  BY <1>1, <1>4, <2>1, <2>2, <2>3, CommandStep
<1>5. CASE UNCHANGED vars
    BY <1>1, <1>5
<1>6. CASE (\E l \in Loops : LoopStep(l)) \/ PageStep
    BY <1>5, <1>6, LoopsKeep, PageStepsKeep
<1> QED  BY <1>2, <1>3, <1>4, <1>5, <1>6, PageKinds DEF pageVars

\* What the room does to the seats and to what can be submitted, but by a command of
\* the player.
LEMMA OtherRoomSteps ==
    ASSUME PageInv, ~oob, StartGame \/ TheirCommand
    PROVE  /\ players' = players \/ players' = Roster
           /\ ongoing' = TRUE /\ (~oob' => players' = Roster)
           /\ players' = <<>> => score' = -1
           /\ Ready' => Ready /\ new_tiles' = new_tiles
           /\ UNCHANGED <<up, page>>
<1>0. SeatsInv
    BY DEF PageInv
<1>1. CASE StartGame
    <2>1. CASE SetPlayers(Roster)
        <3>1. players' = Roster /\ UNCHANGED <<current_player, new_tiles, score>>
            BY <2>1 DEF SetPlayers, pendingVars
        <3>2. Ready' => Ready
            BY <1>0, <1>1, <3>1 DEF StartGame, SeatsInv, Ready, MyMove, ToMove, Mover
        <3> QED  BY <1>1, <3>1, <3>2, RosterFacts DEF StartGame
    <2>2. CASE SetPlayersOutOfBounds(Roster)
        BY <1>0, <1>1, <2>2
        DEF SeatsInv, StartGame, SetPlayersOutOfBounds, OutOfBounds, Ready, MyMove, ToMove, Mover,
            tableVars, pendingVars
    <2> QED  BY <1>1, <2>1, <2>2 DEF StartGame
<1>2. CASE TheirCommand
    <2>0. ongoing /\ UNCHANGED <<ongoing, up, page>>
        BY <1>2 DEF TheirCommand, OpponentChanges, OpponentActs, PageInv, ClearedInv
    <2>1. ongoing /\ ongoing' = TRUE /\ players = Roster /\ players # <<>> /\ UNCHANGED <<up, page>>
        BY <1>0, <2>0, GameFacts DEF PageInv, PageTypeOK
    <2>2. players' = players
        BY <1>2 DEF TheirCommand, OpponentChanges, OpponentActs, MoveUnseen, TryPlaceTiles,
            SubmitWord, SubmitWordOutOfBounds, Pass, vars,
            Change, ChangeRefused, ChangeOutOfBounds, OutOfBounds, tableVars
    \* A placement in the opponent's turn cannot be submitted, and one in the
    \* player's has strayed.
    <2>3. \/ UNCHANGED <<players, current_player>> /\ strayed' = ~ToMove("theirs")
          \/ score' = -1
          \/ UNCHANGED <<players, current_player, new_tiles, score, strayed>>
        BY <1>2 DEF TheirCommand, OpponentChanges, OpponentActs, MoveEnds, MoveUnseen,
            TryPlaceTiles, SubmitWord, SubmitWordOutOfBounds, Pass, Change, ChangeRefused,
            ChangeOutOfBounds, OutOfBounds, EndTurn, tableVars, pendingVars, vars
    <2>4. ToMove("theirs") => ~MyMove
        BY PageAssumption DEF PageAssumption, ToMove, MyMove
    <2>5. Ready' => Ready /\ new_tiles' = new_tiles
        <3>1. CASE UNCHANGED <<players, current_player>> /\ strayed' = ~ToMove("theirs")
            BY <2>4, <3>1 DEF Ready, MyMove, ToMove, Mover
        <3>2. CASE UNCHANGED <<players, current_player, new_tiles, score, strayed>>
            BY <3>2 DEF Ready, MyMove, ToMove, Mover
        <3> QED  BY <2>3, <3>1, <3>2 DEF Ready
    <2> QED  BY <2>1, <2>2, <2>5
<1> QED  BY <1>1, <1>2

\* What a command of the player does.
LEMMA CommandSteps ==
    ASSUME PageInv, ~oob, MyCommand
    PROVE  /\ UNCHANGED <<players, ongoing, page>>
           /\ players' = <<>> => score' = -1
           /\ up' = Tail(up) /\ up # <<>>
           /\ up[1].action = "place" /\ Ready' => new_tiles' = up[1].placement
           /\ up[1].action = "pass" => ~Ready'
           /\ up[1].action \notin Writes /\ Ready' => Ready /\ new_tiles' = new_tiles
           /\ board' # board => /\ up[1].action = "submit"
                                /\ score # -1
                                /\ board' = With(board, new_tiles)
<1>0. /\ up # <<>> /\ up' = Tail(up) /\ UNCHANGED <<ongoing, page>>
      /\ up \in Seq([action : Commands, placement : PlacementType])
      /\ SeatsInv
    BY DEF MyCommand, ReceiveCommand, Act, PageInv, PageTypeOK, ClearedInv
<1>1. Head(up) = up[1]
    BY <1>0
<1>2. CASE UNCHANGED <<vars, strayed>> /\ (up[1].action \notin Writes \/ ~ongoing \/ ~MyMove)
    <2>1. Ready' = Ready /\ UNCHANGED <<new_tiles, board, score, players>>
        BY <1>2 DEF vars, Ready, MyMove, ToMove, Mover
    <2>2. ~ongoing => ~Ready
        BY <1>0 DEF SeatsInv, Ready, MyMove, ToMove
    <2>3. players' = <<>> => score' = -1
        BY <1>0, <2>1 DEF SeatsInv
    <2>4. up[1].action \in Writes => ~Ready
        BY <1>2, <2>2 DEF Ready
    <2>5. UNCHANGED <<players, ongoing, page>>
        BY <1>0, <2>1
    <2> QED  BY <1>0, <2>1, <2>3, <2>4, <2>5 DEF Writes
<1>3. CASE Act \/ (ReceiveCommand /\ ongoing /\ up[1].action = "change")
    <2>0. players # <<>>
        <3>1. ongoing
            BY <1>3 DEF Act, PageInv, ClearedInv
        <3> QED  BY <3>1, GameFacts, <1>0
    <2>1. CASE up[1].action = "place" /\ TryPlaceTiles(up[1].placement)
        BY <1>0, <2>0, <2>1 DEF TryPlaceTiles, Ready, Writes, tableVars
    <2>2. CASE up[1].action = "submit" /\ SubmitWord
        BY <1>0, <2>0, <2>2 DEF SubmitWord, EndTurn, Ready, Writes
    <2>3. CASE up[1].action = "pass" /\ Pass
        BY <1>0, <2>0, <2>3 DEF Pass, EndTurn, Ready, Writes, tableVars
    <2>4. CASE up[1].action = "change" /\ Change(MySeat, up[1].placement.tiles)
        BY <1>0, <2>0, <2>4 DEF Change, EndTurn, Ready, Writes
    <2>5. CASE up[1].action \in {"submit", "change"}
               /\ UNCHANGED <<players, current_player, new_tiles, score, board, strayed>>
        <3>1. Ready' = Ready /\ up[1].action \notin Writes
            BY <2>5 DEF Ready, MyMove, ToMove, Mover, Writes
        <3> QED  BY <1>0, <2>0, <2>5, <3>1 DEF Writes
    <2>6. CASE Act
        BY <1>1, <2>1, <2>2, <2>3, <2>5, <2>6
        DEF Act, MoveUnseen, MoveRefused, SubmitWordOutOfBounds, OutOfBounds,
            tableVars, pendingVars, vars
    <2>7. CASE ReceiveCommand /\ ongoing /\ up[1].action = "change"
        BY <1>1, <2>4, <2>5, <2>7
        DEF ReceiveCommand, MoveUnseen, MoveRefused, Checked, ChangeOutOfBounds,
            ChangeRefused, OutOfBounds, tableVars, pendingVars, vars
    <2> QED  BY <1>3, <2>6, <2>7
<1> QED  BY <1>1, <1>2, <1>3 DEF MyCommand, ReceiveCommand, Writes

LEMMA SeatsStep == PageInv /\ [PageNext]_pageVars => SeatsInv'
<1> SUFFICES ASSUME PageInv, [PageNext]_pageVars
             PROVE  SeatsInv'
    OBVIOUS
<1>0. SeatsInv /\ making \in [Loops -> [at : MakingStates, msg : Messages]]
    BY DEF PageInv, PageTypeOK
<1>1. CASE ~oob /\ (StartGame \/ TheirCommand)
    BY <1>1, OtherRoomSteps, <1>0 DEF SeatsInv
<1>2. CASE ~oob /\ MyCommand
    <2>1. /\ UNCHANGED <<players, ongoing>>
          /\ players' = <<>> => score' = -1
        BY <1>2, CommandSteps
    <2>2. making' = making \/ making' = [making EXCEPT !["mine"] = Due]
        BY <1>2 DEF MyCommand, ReceiveCommand, Act, MoveEnds, MoveRefused, MoveUnseen, Tell, Inform
    <2>3. \A l \in Loops : making'[l].at = "public" => making[l].at = "public"
        BY <1>0, <2>2 DEF Due
    <2> QED  BY <1>0, <1>2, <2>1, <2>3 DEF SeatsInv
<1>3. ASSUME ~oob, NEW l \in Loops, LoopStep(l)
      PROVE  SeatsInv'
    <2>1. UNCHANGED <<players, ongoing, oob, score>>
        BY <1>3, LoopsKeep DEF vars
    <2>2. ASSUME NEW k \in Loops, making'[k].at = "public"
          PROVE  ongoing
        <3>1. CASE making[k].at = "public"
            BY <1>0, <3>1 DEF SeatsInv
        <3>2. CASE making[k].at # "public"
            <4>1. making' = [making EXCEPT ![l] =
                    IF ongoing
                    THEN [at |-> "public", msg |-> Message("state", [NoView EXCEPT !.board = board])]
                    ELSE [at |-> "ready", msg |-> Message("lobby", NoView)]] \/ ~ReadPublic(l)
                BY DEF ReadPublic
            <4>2. CASE ReadPublic(l)
                BY <1>0, <2>2, <3>2, <4>1, <4>2
            <4>3. CASE ReadPrivate(l)
                BY <1>0, <2>2, <3>2, <4>3 DEF ReadPrivate
            <4>4. CASE Push(l)
                BY <1>0, <2>2, <3>2, <4>4 DEF Push, Nothing
            <4>5. CASE CheckIfUsersMove(l)
                BY <2>2, <3>2, <4>5 DEF CheckIfUsersMove
            <4> QED  BY <1>3, <4>2, <4>3, <4>4, <4>5 DEF LoopStep, BuildState
        <3> QED  BY <3>1, <3>2
    <2> QED  BY <1>0, <2>1, <2>2 DEF SeatsInv
<1>4. CASE UNCHANGED <<vars, ongoing, making>>
    BY <1>0, <1>4 DEF SeatsInv, vars
<1> QED  BY <1>1, <1>2, <1>3, <1>4, PageStepsKeep, PageKinds DEF pageVars, roomSide

\* What the page sends comes after the command that is being carried out.
LEMMA ClearedStep ==
    ASSUME PageInv, [PageNext]_pageVars, PageTypeOK'
    PROVE  ClearedInv'
<1> DEFINE S == [action : Commands, placement : PlacementType]
<1>0. ClearedInv /\ cleared \subseteq Loops /\ ongoing \in BOOLEAN /\ up \in Seq(S)
    BY DEF PageInv, PageTypeOK
<1>1. CASE UNCHANGED <<ongoing, cleared, up>>
    BY <1>0, <1>1 DEF ClearedInv
<1>2. CASE ~oob /\ StartGame
    BY <1>0, <1>2 DEF StartGame, ClearedInv
<1>3. CASE MyCommand
    <2>1. "mine" \notin cleared' /\ cleared' \subseteq cleared /\ ongoing' = ongoing
        BY <1>3 DEF MyCommand, ReceiveCommand, Act
    <2> QED  BY <1>0, <2>1 DEF ClearedInv
<1>4. CASE TheirCommand
    <2>1. cleared' \subseteq cleared /\ UNCHANGED <<ongoing, up>>
        BY <1>4 DEF TheirCommand, OpponentChanges, OpponentActs
    <2> QED  BY <1>0, <2>1 DEF ClearedInv
<1>5. ASSUME NEW l \in Loops, LoopStep(l)
      PROVE  ClearedInv'
    <2>1. CASE CheckIfUsersMove(l)
        <3>1. /\ ongoing /\ UNCHANGED <<ongoing, up>>
              /\ cleared' = cleared \cup {l}
              /\ l = "mine" => up # <<>> /\ Head(up).action \in Checked
            BY <2>1 DEF CheckIfUsersMove
        <3>2. up # <<>> => Head(up) = up[1]
            BY <1>0
        <3> QED  BY <1>0, <3>1, <3>2 DEF ClearedInv
    <2>2. CASE BuildState(l)
        BY <1>1, <2>2 DEF BuildState, ReadPublic, ReadPrivate, Push
    <2> QED  BY <1>5, <2>1, <2>2 DEF LoopStep
<1>6. CASE PageStep
    <2>1. UNCHANGED <<ongoing, cleared>>
        BY <1>6, PageStepsKeep DEF roomSide
    <2>2. up' = up \/ \E c : up' = Append(up, c)
        BY <1>6 DEF PageStep, ReceiveMessage, Player, ClickCell, Submit, Recall, PassTurn,
            Swap, Poll, SyncPlacement, SendUp
    <2>3. ASSUME up # <<>>
          PROVE  up' # <<>> /\ up'[1] = up[1]
        <3>1. CASE up' = up
            BY <2>3, <3>1
        <3>2. ASSUME NEW c, up' = Append(up, c)
              PROVE  up' # <<>> /\ up'[1] = up[1]
            <4> HIDE DEF S
            <4> QED  BY <1>0, <2>3, <3>2
        <3> QED  BY <2>2, <3>1, <3>2
    <2> QED  BY <1>0, <2>1, <2>3 DEF ClearedInv
<1> QED  BY <1>1, <1>2, <1>3, <1>4, <1>5, <1>6, PageKinds DEF pageVars, roomSide

-----------------------------------------------------------------------------
(***************************************************************************)
(* What is sent, and what the player sees.                                 *)
(***************************************************************************)
\* An overlay that is empty is sent as no placement.
LEMMA EmptyOverlay == Overlay(<<>>) = NoPlacement
BY DEF Overlay, NoPlacement

LEMMA PlacementTypes ==
    /\ Placements \subseteq PlacementType
    /\ NoPlacement \in PlacementType
BY GameAssumption DEF GameAssumption, NoPlacement, PlacementType

\* The page's steps, by what they send and what becomes of the overlay.
LEMMA PageSends ==
    ASSUME PageInv, PageStep
    PROVE  \* nothing is sent, and no other overlay becomes one to submit
           \/ /\ up' = up
              /\ Overlay(pending') \in {Overlay(pending), NoPlacement}
              /\ "submit" \in enabled' \/ pending' # <<>> =>
                    /\ "submit" \in enabled \/ pending # <<>>
                    /\ Overlay(pending') = Overlay(pending)
           \* the overlay is sent
           \/ /\ up' = Append(up, Command("place", Overlay(pending')))
              /\ Overlay(pending') \in Placements
           \* a pass
           \/ /\ up' = Append(up, Command("pass", NoPlacement))
              /\ pending' = <<>>
           \* a submit
           \/ /\ up' = Append(up, Command("submit", Overlay(pending)))
              /\ "submit" \in enabled
              /\ UNCHANGED <<pending, enabled>>
           \* a poll or an exchange
           \/ /\ \E p : \/ up' = Append(up, Command("state", p))
                        \/ up' = Append(up, Command("change", p))
              /\ pending' = pending
              /\ "submit" \in enabled' => "submit" \in enabled \/ pending # <<>>
<1>0. enabled \subseteq {"submit", "recall", "pass", "swap"}
    BY DEF PageInv, PageTypeOK
<1>1. CASE ReceiveMessage
    <2>1. CASE OnLobby \/ OnError
        BY <1>1, <2>1 DEF ReceiveMessage, OnLobby, OnError
    <2>2. CASE OnState
        <3>1. /\ pending' \in {pending, <<>>}
              /\ "submit" \in enabled' => pending' # <<>>
            BY <2>2 DEF OnState, Buttons
        <3> QED  BY <1>1, <3>1, EmptyOverlay DEF ReceiveMessage
    <2> QED  BY <1>1, <2>1, <2>2 DEF ReceiveMessage
<1>2. CASE SyncPlacement
    <2>1. CASE pending' = <<>>
        BY <1>2, <2>1, EmptyOverlay DEF SyncPlacement
    <2>2. CASE pending' # <<>>
        BY <1>2, <2>2 DEF SyncPlacement, SendUp
    <2> QED  BY <2>1, <2>2
<1>3. CASE Submit
    BY <1>3 DEF Submit, SendUp, page
<1>4. CASE PassTurn
    BY <1>4 DEF PassTurn, SendUp
<1>5. CASE Swap
    <2>1. "submit" \in enabled' => pending # <<>>
        BY <1>5 DEF Swap, Buttons
    <2>2. pending' = pending
        BY <1>5 DEF Swap
    <2>3. up' = up \/ \E p : up' = Append(up, Command("change", p))
        BY <1>5 DEF Swap, SendUp
    <2> QED  BY <2>1, <2>2, <2>3
<1>6. CASE Poll
    BY <1>6 DEF Poll, SendUp, page
<1> QED  BY <1>1, <1>2, <1>3, <1>4, <1>5, <1>6 DEF PageStep, Player, ClickCell, Recall

LEMMA SentStep ==
    ASSUME PageInv, [PageNext]_pageVars, PageTypeOK'
    PROVE  SentInv'
<1>0. /\ SentInv
      /\ up \in Seq([action : Commands, placement : PlacementType])
      /\ up' \in Seq([action : Commands, placement : PlacementType])
    BY DEF PageInv, PageTypeOK
<1>1. CASE UNCHANGED <<up, pending>>
    BY <1>0, <1>1 DEF SentInv, Overlay
<1>2. CASE ~oob /\ MyCommand
    <2>1. up' = Tail(up) /\ up # <<>> /\ pending' = pending
        BY <1>2, CommandSteps DEF page
    <2>2. \A k \in DOMAIN up' : k + 1 \in DOMAIN up /\ up'[k] = up[k + 1]
        BY <1>0, <2>1
    <2> QED  BY <1>0, <2>1, <2>2 DEF SentInv, Overlay
<1>3. CASE PageStep
    <2>1. Overlay(pending') \in Placements \cup {NoPlacement}
        BY <1>0, <1>3, PageSends, EmptyOverlay DEF SentInv
    <2>2. ASSUME NEW c, up' = Append(up, c), c.action = "place" => c.placement \in Placements
          PROVE  \A k \in DOMAIN up' : up'[k].action = "place" => up'[k].placement \in Placements
        <3>1. \A k \in DOMAIN up' : (k \in DOMAIN up /\ up'[k] = up[k]) \/ up'[k] = c
            BY <1>0, <2>2
        <3> QED  BY <1>0, <2>2, <3>1 DEF SentInv
    <2>3. CASE up' = up
        BY <1>0, <2>1, <2>3 DEF SentInv, Overlay
    <2>4. \/ up' = up
          \/ \E c : up' = Append(up, c) /\ (c.action = "place" => c.placement \in Placements)
        <3>1. ASSUME NEW action, NEW p
              PROVE  Command(action, p).action = action /\ Command(action, p).placement = p
            BY DEF Command
        <3> QED  BY <1>3, <3>1, PageSends
    <2> QED  BY <2>1, <2>2, <2>3, <2>4 DEF SentInv, Overlay
<1>4. CASE ~oob /\ (StartGame \/ TheirCommand)
    BY <1>1, <1>4, OtherRoomSteps DEF page
<1>5. CASE \E l \in Loops : LoopStep(l)
    BY <1>1, <1>5, LoopsKeep DEF page
<1> QED  BY <1>1, <1>2, <1>3, <1>4, <1>5, PageKinds DEF pageVars, page

\* What can be submitted no longer, or is what it was.
LEMMA SettledStays ==
    ASSUME NEW queue, NEW k, NEW ready, NEW tiles, NEW ready1, NEW tiles1, NEW p,
           Settled(queue, k, ready, tiles, p), ready1 => ready /\ tiles1 = tiles
    PROVE  Settled(queue, k, ready1, tiles1, p)
BY DEF Settled

LEMMA ShownByRoom ==
    ASSUME PageInv, Ready' => Ready /\ new_tiles' = new_tiles, UNCHANGED <<up, pending, enabled>>
    PROVE  ShownInv'
<1>0. ShownInv
    BY DEF PageInv
<1>1. ASSUME NEW k \in DOMAIN up, up[k].action = "submit"
      PROVE  Settled(up, k, Ready', new_tiles', up[k].placement)
    <2>1. Settled(up, k, Ready, new_tiles, up[k].placement)
        BY <1>0, <1>1 DEF ShownInv
    <2> QED  BY <2>1, SettledStays
<1>2. ASSUME "submit" \in enabled \/ pending # <<>>
      PROVE  Settled(up, Len(up) + 1, Ready', new_tiles', Overlay(pending))
    <2>1. Settled(up, Len(up) + 1, Ready, new_tiles, Overlay(pending))
        BY <1>0, <1>2 DEF ShownInv
    <2> QED  BY <2>1, SettledStays
<1> QED  BY <1>1, <1>2 DEF ShownInv, Overlay

LEMMA ShownByCommand ==
    ASSUME PageInv, ~oob, MyCommand
    PROVE  ShownInv'
<1> DEFINE S == [action : Commands, placement : PlacementType]
<1>0. ShownInv /\ up \in Seq(S)
    BY DEF PageInv, PageTypeOK
<1>1. /\ UNCHANGED <<pending, enabled>>
      /\ up' = Tail(up) /\ up # <<>>
      /\ up[1].action = "place" /\ Ready' => new_tiles' = up[1].placement
      /\ up[1].action = "pass" => ~Ready'
      /\ up[1].action \notin Writes /\ Ready' => Ready /\ new_tiles' = new_tiles
    BY CommandSteps DEF page
<1>2. ASSUME NEW k \in 2 .. Len(up) + 1, NEW p, Settled(up, k, Ready, new_tiles, p)
      PROVE  Settled(up', k - 1, Ready', new_tiles', p)
    <2> HIDE DEF S
    <2>1. Settled(Tail(up), k - 1, Ready', new_tiles', p)
        BY <1>0, <1>1, <1>2, SettledTail
    <2> QED  BY <1>1, <2>1
<1>3. Len(up) \in Nat /\ Len(up) >= 1 /\ Len(up') = Len(up) - 1
    BY <1>0, <1>1
<1>4. ASSUME NEW k \in DOMAIN up', up'[k].action = "submit"
      PROVE  Settled(up', k, Ready', new_tiles', up'[k].placement)
    <2>1. /\ k \in Nat /\ k + 1 \in DOMAIN up /\ up'[k] = up[k + 1]
          /\ k + 1 \in 2 .. Len(up) + 1 /\ (k + 1) - 1 = k
        BY <1>0, <1>1
    <2>2. Settled(up, k + 1, Ready, new_tiles, up[k + 1].placement)
        BY <1>0, <1>4, <2>1 DEF ShownInv
    <2>3. Settled(up', (k + 1) - 1, Ready', new_tiles', up[k + 1].placement)
        BY <1>2, <2>1, <2>2
    <2> QED  BY <2>1, <2>3
<1>5. ASSUME "submit" \in enabled \/ pending # <<>>
      PROVE  Settled(up', Len(up') + 1, Ready', new_tiles', Overlay(pending))
    <2>1. Settled(up, Len(up) + 1, Ready, new_tiles, Overlay(pending))
        BY <1>0, <1>5 DEF ShownInv
    <2>2. Len(up) + 1 \in 2 .. Len(up) + 1 /\ (Len(up) + 1) - 1 = Len(up') + 1
        BY <1>3
    <2>3. Settled(up', (Len(up) + 1) - 1, Ready', new_tiles', Overlay(pending))
        BY <1>2, <2>1, <2>2
    <2> QED  BY <2>2, <2>3
<1> QED  BY <1>1, <1>4, <1>5 DEF ShownInv, Overlay

LEMMA ShownByPage ==
    ASSUME PageInv, PageStep, PageTypeOK'
    PROVE  ShownInv'
<1> DEFINE S == [action : Commands, placement : PlacementType]
<1>0. ShownInv /\ up \in Seq(S) /\ up' \in Seq(S) /\ Len(up) \in Nat
    BY DEF PageInv, PageTypeOK
<1>1. Ready' = Ready /\ new_tiles' = new_tiles
    BY PageStepsKeep DEF vars, roomSide, Ready, MyMove, ToMove, Mover
\* What was under way stays; the command that is new, and the next one, remain.
<1>2. ASSUME NEW c, up' = Append(up, c),
             c.action = "submit" => Settled(up, Len(up) + 1, Ready, new_tiles, c.placement),
             "submit" \in enabled' \/ pending' # <<>> =>
                Settled(up', Len(up) + 2, Ready, new_tiles, Overlay(pending'))
      PROVE  ShownInv'
    <2>1. c \in S /\ Len(up') = Len(up) + 1
        <3>1. up'[Len(up) + 1] = c /\ Len(up) + 1 \in DOMAIN up'
            BY <1>0, <1>2
        <3> QED  BY <1>0, <1>2, <3>1
    <2>2. ASSUME NEW k \in 1 .. Len(up) + 1, NEW p, Settled(up, k, Ready, new_tiles, p)
          PROVE  Settled(up', k, Ready, new_tiles, p)
        <3> HIDE DEF S
        <3> QED  BY <1>0, <1>2, <2>1, <2>2, SettledBefore
    <2>3. ASSUME NEW k \in DOMAIN up', up'[k].action = "submit"
          PROVE  Settled(up', k, Ready, new_tiles, up'[k].placement)
        <3>1. CASE k = Len(up) + 1
            <4>1. up'[k] = c /\ k \in 1 .. Len(up) + 1
                BY <1>0, <1>2, <3>1
            <4> QED  BY <1>2, <2>2, <2>3, <3>1, <4>1
        <3>2. CASE k # Len(up) + 1
            <4>1. k \in DOMAIN up /\ up'[k] = up[k] /\ k \in 1 .. Len(up) + 1
                BY <1>0, <1>2, <2>1, <3>2
            <4>2. Settled(up, k, Ready, new_tiles, up[k].placement)
                BY <1>0, <2>3, <4>1 DEF ShownInv
            <4> QED  BY <2>2, <4>1, <4>2
        <3> QED  BY <3>1, <3>2
    <2>4. Len(up') + 1 = Len(up) + 2
        BY <1>0, <2>1
    <2>5. "submit" \in enabled' \/ pending' # <<>> =>
            Settled(up', Len(up') + 1, Ready', new_tiles', Overlay(pending'))
        BY <1>1, <1>2, <2>4
    <2>6. \A k \in DOMAIN up' : up'[k].action = "submit" =>
            Settled(up', k, Ready', new_tiles', up'[k].placement)
        BY <1>1, <2>3
    <2>7. Overlay(pending)' = Overlay(pending')
        BY DEF Overlay
    <2> QED  BY <2>5, <2>6, <2>7 DEF ShownInv
<1>3. ASSUME NEW action, NEW p
      PROVE  Command(action, p).action = action /\ Command(action, p).placement = p
    BY DEF Command
<1>4. ASSUME NEW c, up' = Append(up, c)
      PROVE  c \in S
    <2> HIDE DEF S
    <2>1. up'[Len(up) + 1] = c /\ Len(up) + 1 \in DOMAIN up'
        BY <1>0, <1>4
    <2> QED  BY <1>0, <2>1
<1>5. CASE /\ up' = up
           /\ "submit" \in enabled' \/ pending' # <<>> =>
                /\ "submit" \in enabled \/ pending # <<>>
                /\ Overlay(pending') = Overlay(pending)
    <2>1. \A k \in DOMAIN up : up[k].action = "submit" =>
            Settled(up, k, Ready, new_tiles, up[k].placement)
        BY <1>0 DEF ShownInv
    <2>2. "submit" \in enabled' \/ pending' # <<>> =>
            Settled(up, Len(up) + 1, Ready, new_tiles, Overlay(pending'))
        BY <1>0, <1>5 DEF ShownInv
    <2> QED  BY <1>1, <1>5, <2>1, <2>2 DEF ShownInv, Overlay
<1>6. CASE up' = Append(up, Command("place", Overlay(pending')))
    <2> DEFINE c == Command("place", Overlay(pending'))
    <2>1. c \in S /\ c.action = "place" /\ c.placement = Overlay(pending')
        BY <1>3, <1>4, <1>6
    <2> HIDE DEF S, c
    <2>2. Settled(Append(up, c), Len(up) + 2, Ready, new_tiles, Overlay(pending'))
        BY <1>0, <2>1, SettledByWrite
    <2> QED  BY <1>2, <1>6, <2>1, <2>2 DEF c
<1>7. CASE up' = Append(up, Command("pass", NoPlacement))
    <2> DEFINE c == Command("pass", NoPlacement)
    <2>1. c \in S /\ c.action = "pass"
        BY <1>3, <1>4, <1>7
    <2> HIDE DEF S, c
    <2>2. Settled(Append(up, c), Len(up) + 2, Ready, new_tiles, Overlay(pending'))
        BY <1>0, <2>1, SettledByWrite
    <2> QED  BY <1>2, <1>7, <2>1, <2>2 DEF c
\* Commands that write nothing leave the next submit what it was.
<1>8. ASSUME NEW c, up' = Append(up, c), c.action \notin Writes,
             "submit" \in enabled' \/ pending' # <<>> =>
                /\ "submit" \in enabled \/ pending # <<>>
                /\ Overlay(pending') = Overlay(pending)
      PROVE  "submit" \in enabled' \/ pending' # <<>> =>
                Settled(up', Len(up) + 2, Ready, new_tiles, Overlay(pending'))
    <2>1. c \in S
        BY <1>4, <1>8
    <2> HIDE DEF S
    <2>2. Settled(up, Len(up) + 1, Ready, new_tiles, Overlay(pending)) =>
            Settled(up', Len(up) + 2, Ready, new_tiles, Overlay(pending))
        BY <1>0, <1>8, <2>1, SettledAfter
    <2> QED  BY <1>0, <1>8, <2>2 DEF ShownInv
<1>9. CASE /\ up' = Append(up, Command("submit", Overlay(pending)))
           /\ "submit" \in enabled
           /\ UNCHANGED <<pending, enabled>>
    <2> DEFINE c == Command("submit", Overlay(pending))
    <2>1. c.action = "submit" /\ c.placement = Overlay(pending)
        BY <1>3
    <2> HIDE DEF c
    <2>2. Settled(up, Len(up) + 1, Ready, new_tiles, Overlay(pending))
        BY <1>0, <1>9 DEF ShownInv
    <2>3. Overlay(pending') = Overlay(pending)
        BY <1>9
    <2>4. up' = Append(up, c)
        BY <1>9 DEF c
    <2>5. "submit" \in enabled' \/ pending' # <<>> =>
                Settled(up', Len(up) + 2, Ready, new_tiles, Overlay(pending'))
        BY <1>8, <1>9, <2>1, <2>3, <2>4 DEF Writes
    <2> QED  BY <1>2, <2>1, <2>2, <2>4, <2>5
<1>10. CASE /\ \E p : \/ up' = Append(up, Command("state", p))
                      \/ up' = Append(up, Command("change", p))
            /\ pending' = pending
            /\ "submit" \in enabled' => "submit" \in enabled \/ pending # <<>>
    <2>1. PICK c : /\ up' = Append(up, c)
                   /\ c.action \in {"state", "change"}
        BY <1>3, <1>10
    <2>2. Overlay(pending') = Overlay(pending)
        BY <1>10
    <2>3. "submit" \in enabled' \/ pending' # <<>> =>
                Settled(up', Len(up) + 2, Ready, new_tiles, Overlay(pending'))
        BY <1>8, <1>10, <2>1, <2>2 DEF Writes
    <2> QED  BY <1>2, <2>1, <2>3
<1> QED  BY <1>5, <1>6, <1>7, <1>9, <1>10, PageSends

LEMMA ShownStep ==
    ASSUME PageInv, [PageNext]_pageVars, PageTypeOK'
    PROVE  ShownInv'
<1>1. CASE ~oob /\ (StartGame \/ TheirCommand)
    <2>1. (Ready' => Ready /\ new_tiles' = new_tiles) /\ UNCHANGED <<up, pending, enabled>>
        BY <1>1, OtherRoomSteps DEF page
    <2> QED  BY <2>1, ShownByRoom
<1>2. CASE UNCHANGED <<vars, strayed, up, page>>
    <2>1. (Ready' => Ready /\ new_tiles' = new_tiles) /\ UNCHANGED <<up, pending, enabled>>
        BY <1>2 DEF vars, page, Ready, MyMove, ToMove, Mover
    <2> QED  BY <2>1, ShownByRoom
<1>3. CASE \E l \in Loops : LoopStep(l)
    BY <1>2, <1>3, LoopsKeep
<1> QED
    BY <1>1, <1>2, <1>3, ShownByCommand, ShownByPage, PageKinds DEF pageVars, roomSide

-----------------------------------------------------------------------------
(***************************************************************************)
(* Types.                                                                  *)
(***************************************************************************)
\* Views of the game, and messages.
LEMMA ViewTypes ==
    /\ NoView \in Views
    /\ \A kind \in MessageKinds, v \in Views : Message(kind, v) \in Messages
    /\ \A v \in Views, b \in Boards : [v EXCEPT !.board = b] \in Views
<1>1. EmptyBoard \in Boards
    BY DEF EmptyBoard, Boards
<1>2. NoView \in Views
    BY <1>1 DEF NoView, Views
<1>3. \A kind \in MessageKinds, v \in Views : Message(kind, v) \in Messages
    BY DEF Message, Messages
<1>4. \A v \in Views, b \in Boards : [v EXCEPT !.board = b] \in Views
    BY DEF Views
<1> QED  BY <1>2, <1>3, <1>4

\* The letters of a hand in an order are letters.
LEMMA HandsAreLetters ==
    ASSUME NEW hand \in SUBSET (Tiles \ NulTiles), NEW shown \in HandsShown(hand)
    PROVE  shown \in Seq(Letters)
<1>1. PICK s \in SetToSeqs(hand) : shown = [k \in DOMAIN s |-> LetterOf[s[k]]]
    BY DEF HandsShown
<1>2. Cardinality(hand) \in Nat
    BY TileSetsFinite
<1>3. s \in [1 .. Cardinality(hand) -> hand]
    BY <1>1 DEF SetToSeqs
<1>4. \A t \in hand : LetterOf[t] \in Letters
    BY GameAssumption DEF GameAssumption, NulTiles
<1>5. shown \in [1 .. Cardinality(hand) -> Letters]
    BY <1>1, <1>3, <1>4
<1> QED  BY <1>2, <1>5

\* Any letters of a hand that is shown, in any order.
LEMMA ChosenAreLetters ==
    ASSUME NEW hand \in Seq(Letters), NEW chosen \in SUBSET (1 .. TilesMax),
           NEW order \in SetToSeqs(chosen \cap DOMAIN hand)
    PROVE  [k \in DOMAIN order |-> hand[order[k]]] \in Seq(Letters)
<1> DEFINE C == chosen \cap DOMAIN hand
<1>1. Cardinality(C) \in Nat
    <2>1. TilesMax \in Int
        BY GameAssumption DEF GameAssumption
    <2>2. IsFiniteSet(1 .. TilesMax)
        BY <2>1, FS_Interval
    <2>3. C \subseteq 1 .. TilesMax
        OBVIOUS
    <2> QED  BY <2>2, <2>3, FS_Subset, FS_CardinalityType
<1>2. order \in [1 .. Cardinality(C) -> C]
    BY DEF SetToSeqs
<1>3. \A x \in C : hand[x] \in Letters
    OBVIOUS
<1> HIDE DEF C
<1> DEFINE f == [k \in DOMAIN order |-> hand[order[k]]]
<1>4. f \in [1 .. Cardinality(C) -> Letters]
    BY <1>2, <1>3
<1> HIDE DEF f
<1>5. f \in Seq(Letters)
    BY <1>1, <1>4
<1> QED  BY <1>5 DEF f

LEMMA PageInitTyped == PageInit => PageTypeOK /\ Inv
<1> SUFFICES ASSUME PageInit
             PROVE  PageTypeOK /\ Inv
    OBVIOUS
<1>1. Inv
    BY InitInv DEF PageInit
<1>2. up \in Seq([action : Commands, placement : PlacementType])
    <2>1. Command("state", NoPlacement) \in [action : Commands, placement : PlacementType]
        BY PlacementTypes DEF Command, Commands
    <2> QED  BY <2>1 DEF PageInit
<1>3. making \in [Loops -> [at : MakingStates, msg : Messages]]
    BY ViewTypes DEF PageInit, Nothing, MakingStates, MessageKinds
<1>4. TypeOK
    BY <1>1 DEF Inv
<1>5. down \in Seq(Messages) /\ pending \in Seq(PendingTiles)
    BY DEF PageInit
<1> QED  BY <1>1, <1>2, <1>3, <1>4, <1>5, ViewTypes DEF PageInit, PageTypeOK

\* The commands under way.
LEMMA UpTyped ==
    ASSUME PageInv, [PageNext]_pageVars
    PROVE  up' \in Seq([action : Commands, placement : PlacementType])
<1> DEFINE S == [action : Commands, placement : PlacementType]
<1>0. up \in Seq(S)
    BY DEF PageInv, PageTypeOK
<1>1. ASSUME NEW action \in Commands, NEW p \in PlacementType
      PROVE  Command(action, p) \in S
    BY DEF Command
<1>2. CASE ~oob /\ MyCommand
    <2>1. up' = Tail(up) /\ up # <<>>
        BY <1>2, CommandSteps
    <2> HIDE DEF S
    <2> QED  BY <1>0, <2>1 DEF S
<1>3. ASSUME NEW c \in S, up' = Append(up, c)
      PROVE  up' \in Seq(S)
    <2> HIDE DEF S
    <2> QED  BY <1>0, <1>3
<1>4. Overlay(pending) \in PlacementType
    BY PlacementTypes DEF PageInv, SentInv
<1>5. CASE SyncPlacement
    <2>1. up' = up \/ (/\ up' = Append(up, Command("place", Overlay(pending')))
                       /\ Overlay(pending') \in PlacementType)
        BY <1>5, PlacementTypes DEF SyncPlacement, SendUp
    <2> QED  BY <1>0, <1>1, <1>3, <2>1 DEF Commands
<1>6. CASE Submit
    BY <1>1, <1>3, <1>4, <1>6 DEF Submit, SendUp, Commands
<1>7. CASE PassTurn \/ Poll
    BY <1>1, <1>3, <1>7, PlacementTypes DEF PassTurn, Poll, SendUp, Commands
<1>8. CASE Swap
    <2>1. CASE up' = up
        BY <1>0, <2>1
    <2>2. CASE up' # up
        <3>1. PICK chosen \in SUBSET (1 .. TilesMax) :
                \E order \in SetToSeqs(chosen \cap DOMAIN view.hand) :
                    SendUp("change", [coordinates |-> <<>>,
                                      tiles |-> [k \in DOMAIN order |-> view.hand[order[k]]]])
            BY <1>8, <2>2 DEF Swap, Clickable
        <3>2. PICK order \in SetToSeqs(chosen \cap DOMAIN view.hand) :
                    SendUp("change", [coordinates |-> <<>>,
                                      tiles |-> [k \in DOMAIN order |-> view.hand[order[k]]]])
            BY <3>1
        <3>3. view.hand \in Seq(Letters)
            BY DEF PageInv, PageTypeOK, Views
        <3>4. [k \in DOMAIN order |-> view.hand[order[k]]] \in Seq(Letters)
            BY <3>3, ChosenAreLetters
        <3>5. [coordinates |-> <<>>, tiles |-> [k \in DOMAIN order |-> view.hand[order[k]]]]
                \in PlacementType
            BY <3>4 DEF PlacementType
        <3> QED  BY <1>1, <1>3, <3>2, <3>5 DEF SendUp, Commands
    <2> QED  BY <2>1, <2>2
<1>9. CASE UNCHANGED up
    BY <1>0, <1>9
<1>10. CASE ~oob /\ (StartGame \/ TheirCommand)
    BY <1>9, <1>10, OtherRoomSteps
<1>11. CASE \E l \in Loops : LoopStep(l)
    BY <1>9, <1>11, LoopsKeep
<1>12. CASE ReceiveMessage
    BY <1>9, <1>12 DEF ReceiveMessage
<1> QED
    BY <1>2, <1>5, <1>6, <1>7, <1>8, <1>9, <1>10, <1>11, <1>12, PageKinds
    DEF PageStep, Player, ClickCell, Recall, pageVars

\* What a command has sent to this page.
LEMMA MyPushes ==
    ASSUME MyCommand
    PROVE  \/ Inform("mine") \/ UNCHANGED <<making, down>>
           \/ Tell("notStarted") \/ Tell("notYourMove") \/ Tell("rejected")
BY DEF MyCommand, ReceiveCommand, Act, MoveEnds, MoveRefused, MoveUnseen

LEMMA TheirPushes ==
    ASSUME TheirCommand
    PROVE  Inform("theirs") \/ UNCHANGED <<making, down>>
BY DEF TheirCommand, OpponentChanges, OpponentActs, MoveEnds, MoveUnseen

\* The messages being built and under way.
LEMMA DownTyped ==
    ASSUME PageInv, [PageNext]_pageVars
    PROVE  /\ making' \in [Loops -> [at : MakingStates, msg : Messages]]
           /\ down' \in Seq(Messages)
<1> DEFINE M == [at : MakingStates, msg : Messages]
<1>0. making \in [Loops -> M] /\ down \in Seq(Messages)
    BY DEF PageInv, PageTypeOK
<1>1. Nothing \in M /\ Due \in M
    BY ViewTypes DEF Nothing, Due, MakingStates, MessageKinds
<1>2. ASSUME NEW l \in Loops, NEW m \in M, making' = [making EXCEPT ![l] = m]
      PROVE  making' \in [Loops -> M]
    <2> HIDE DEF M
    <2> QED  BY <1>0, <1>2
<1>3. ASSUME NEW m \in Messages, down' = Append(down, m)
      PROVE  down' \in Seq(Messages)
    BY <1>0, <1>3
<1>4. CASE UNCHANGED <<making, down>>
    BY <1>0, <1>4
<1>5. ASSUME NEW l \in Loops, Inform(l)
      PROVE  making' \in [Loops -> M] /\ down' \in Seq(Messages)
    BY <1>0, <1>1, <1>2, <1>5 DEF Inform
<1>6. ASSUME NEW kind \in MessageKinds, Tell(kind)
      PROVE  making' \in [Loops -> M] /\ down' \in Seq(Messages)
    BY <1>0, <1>3, <1>6, ViewTypes DEF Tell
<1>7. CASE MyCommand
    <2>1. "mine" \in Loops /\ {"notStarted", "notYourMove", "rejected"} \subseteq MessageKinds
        BY DEF Loops, MessageKinds
    <2> QED  BY <1>4, <1>5, <1>6, <1>7, <2>1, MyPushes
<1>8. CASE TheirCommand
    BY <1>4, <1>5, <1>8, TheirPushes DEF Loops
<1>9. ASSUME NEW l \in Loops, ReadPublic(l)
      PROVE  making' \in [Loops -> M] /\ down' \in Seq(Messages)
    <2>1. board \in Boards
        BY DEF PageInv, PageTypeOK, TypeOK
    <2>2. /\ [at |-> "public", msg |-> Message("state", [NoView EXCEPT !.board = board])] \in M
          /\ [at |-> "ready", msg |-> Message("lobby", NoView)] \in M
        BY <2>1, ViewTypes DEF MakingStates, MessageKinds
    <2>3. \E m \in M : making' = [making EXCEPT ![l] = m]
        BY <1>9, <2>2 DEF ReadPublic
    <2> QED  BY <1>0, <1>2, <1>9, <2>3 DEF ReadPublic
<1>10. ASSUME ~oob, NEW l \in Loops, ReadPrivate(l)
       PROVE  making' \in [Loops -> M] /\ down' \in Seq(Messages)
    <2>1. MySeat \in DOMAIN players
        BY <1>10, GameFacts DEF ReadPrivate, PageInv, SeatsInv
    <2>2. hands[MySeat] \in SUBSET (Tiles \ NulTiles)
        BY <2>1, SeatFacts DEF PageInv
    <2>3. score \in Nat \cup {-1} /\ MyMove \in BOOLEAN
        BY DEF PageInv, PageTypeOK, TypeOK, MyMove, ToMove
    <2>4. PICK shown \in HandsShown(hands[MySeat]) :
            making' = [making EXCEPT ![l] =
                [at |-> "ready",
                 msg |-> Message("state",
                            [making[l].msg.view EXCEPT !.hand = shown, !.mine = MyMove,
                                !.score = IF MyMove THEN score ELSE -1])]]
        BY <1>0, <1>10 DEF ReadPrivate
    <2>5. shown \in Seq(Letters)
        BY <2>2, HandsAreLetters
    <2> DEFINE v == [making[l].msg.view EXCEPT !.hand = shown, !.mine = MyMove,
                                               !.score = IF MyMove THEN score ELSE -1]
               m == [at |-> "ready", msg |-> Message("state", v)]
    <2>6. making[l].msg.view \in Views
        BY <1>0 DEF Messages
    <2>7. v \in Views
        BY <2>3, <2>5, <2>6 DEF Views
    <2>8. making' = [making EXCEPT ![l] = m]
        BY <2>4
    <2> HIDE DEF v
    <2>9. m \in M
        BY <2>7, ViewTypes DEF MakingStates, MessageKinds
    <2> QED  BY <1>0, <1>2, <1>10, <2>8, <2>9 DEF ReadPrivate
<1>11. ASSUME NEW l \in Loops, Push(l)
       PROVE  making' \in [Loops -> M] /\ down' \in Seq(Messages)
    <2>1. making[l].msg \in Messages
        BY <1>0
    <2> QED  BY <1>1, <1>2, <1>3, <1>11, <2>1 DEF Push
<1>12. CASE ReceiveMessage
    <2>1. down # <<>> /\ down' = Tail(down) /\ making' = making
        BY <1>12 DEF ReceiveMessage, roomSide
    <2> QED  BY <1>0, <2>1
<1>13. CASE StartGame \/ Player \/ Poll \/ UNCHANGED pageVars
    BY <1>4, <1>13 DEF StartGame, Player, ClickCell, Submit, Recall, PassTurn, Swap, Poll,
        roomSide, pageVars
<1>14. CASE \E l \in Loops : CheckIfUsersMove(l)
    BY <1>4, <1>14 DEF CheckIfUsersMove
<1> QED
    BY <1>7, <1>8, <1>9, <1>10, <1>11, <1>12, <1>13, <1>14, PageKinds
    DEF PageStep, LoopStep, BuildState

\* A sequence without one of its members.
LEMMA RemoveAtTyped ==
    ASSUME NEW S, NEW s \in Seq(S), NEW i \in DOMAIN s
    PROVE  RemoveAt(s, i) \in Seq(S)
<1>1. i \in 1 .. Len(s) /\ Len(s) \in Nat
    OBVIOUS
<1>2. SubSeq(s, 1, i - 1) \in Seq(S)
    BY <1>1
<1>3. SubSeq(s, i + 1, Len(s)) \in Seq(S)
    BY <1>1
<1> QED  BY <1>2, <1>3 DEF RemoveAt

LEMMA ClickTyped ==
    ASSUME PageTypeOK, NEW cell \in Cells, ClickCell(cell)
    PROVE  pending' \in Seq(PendingTiles) /\ enabled' \subseteq {"submit", "recall", "pass", "swap"}
<1>0. /\ pending \in Seq(PendingTiles) /\ view.hand \in Seq(Letters)
      /\ enabled \subseteq {"submit", "recall", "pass", "swap"}
    BY DEF PageTypeOK, Views
<1>1. ASSUME NEW i \in DOMAIN pending, pending' = RemoveAt(pending, i)
      PROVE  pending' \in Seq(PendingTiles)
    BY <1>0, <1>1, RemoveAtTyped
<1>2. ASSUME NEW i \in Clickable,
             pending' = Append(pending,
                    [cell |-> cell, letter |-> Shown(view.hand, i), index |-> i])
      PROVE  pending' \in Seq(PendingTiles)
    <2>1. i \in Nat
        BY DEF Clickable
    <2>2. Shown(view.hand, i) \in Letters \cup {Missing}
        BY <1>0 DEF Shown
    <2>3. [cell |-> cell, letter |-> Shown(view.hand, i), index |-> i] \in PendingTiles
        BY <2>1, <2>2 DEF PendingTiles
    <2> QED  BY <1>0, <1>2, <2>3
<1>3. pending' \in Seq(PendingTiles)
    BY <1>1, <1>2 DEF ClickCell
<1>4. enabled' \subseteq {"submit", "recall", "pass", "swap"}
    BY <1>0 DEF ClickCell, SyncPlacement
<1> QED  BY <1>3, <1>4

LEMMA PageTyped ==
    ASSUME PageInv, [PageNext]_pageVars
    PROVE  /\ ongoing' \in BOOLEAN /\ view' \in Views
           /\ started' \in BOOLEAN /\ myTurn' \in BOOLEAN
           /\ pending' \in Seq(PendingTiles)
           /\ enabled' \subseteq {"submit", "recall", "pass", "swap"}
<1>0. PageTypeOK
    BY DEF PageInv
<1>1. CASE UNCHANGED <<ongoing, page>>
    BY <1>0, <1>1 DEF PageTypeOK, page
<1>2. CASE ~oob /\ (StartGame \/ TheirCommand)
    <2>1. ongoing' = TRUE /\ UNCHANGED page
        BY <1>2, OtherRoomSteps
    <2> QED  BY <1>0, <2>1 DEF PageTypeOK, page
<1>3. CASE ~oob /\ MyCommand
    BY <1>1, <1>3, CommandSteps
<1>4. CASE \E l \in Loops : LoopStep(l)
    BY <1>1, <1>4, LoopsKeep
<1>5. CASE ReceiveMessage
    <2>1. Head(down).view \in Views
        <3>1. down \in Seq(Messages) /\ down # <<>>
            BY <1>0, <1>5 DEF PageTypeOK, ReceiveMessage
        <3>2. Head(down) \in Messages
            BY <3>1
        <3> QED  BY <3>2 DEF Messages
    <2>2. CASE OnState
        <3>1. view' \in Views /\ view'.mine \in BOOLEAN
            BY <2>1, <2>2 DEF OnState, Views
        <3>2. pending' \in Seq(PendingTiles)
            BY <1>0, <2>2 DEF OnState, PageTypeOK
        <3>3. enabled' \subseteq {"submit", "recall", "pass", "swap"}
            BY <2>2 DEF OnState, Buttons
        <3> QED  BY <1>0, <1>5, <2>2, <3>1, <3>2, <3>3
            DEF OnState, ReceiveMessage, PageTypeOK, roomSide
    <2>3. CASE OnLobby \/ OnError
        BY <1>0, <1>5, <2>3 DEF OnLobby, OnError, ReceiveMessage, PageTypeOK, roomSide
    <2> QED  BY <1>5, <2>2, <2>3 DEF ReceiveMessage
<1>6. ASSUME NEW c \in Cells, ClickCell(c)
      PROVE  /\ pending' \in Seq(PendingTiles)
             /\ enabled' \subseteq {"submit", "recall", "pass", "swap"}
             /\ UNCHANGED <<ongoing, view, started, myTurn>>
    BY <1>0, <1>6, ClickTyped DEF ClickCell, roomSide
<1>7. CASE Submit \/ Poll
    BY <1>1, <1>7 DEF Submit, Poll, roomSide
<1>8. CASE Recall \/ PassTurn \/ Swap
    <2>1. /\ pending' \in Seq(PendingTiles)
          /\ enabled' \subseteq {"submit", "recall", "pass", "swap"}
        <3>1. pending' = pending \/ pending' = <<>>
            BY <1>8 DEF Recall, PassTurn, Swap
        <3>2. \/ enabled' = enabled
              \/ enabled' = enabled \ {"recall", "submit"}
              \/ enabled' = Buttons(view, myTurn, pending)
            BY <1>8 DEF Recall, PassTurn, Swap, SyncPlacement
        <3>3. Buttons(view, myTurn, pending) \subseteq {"submit", "recall", "pass", "swap"}
            BY DEF Buttons
        <3>4. enabled' \subseteq {"submit", "recall", "pass", "swap"}
            BY <1>0, <3>2, <3>3 DEF PageTypeOK
        <3>5. <<>> \in Seq(PendingTiles) /\ pending \in Seq(PendingTiles)
            BY <1>0 DEF PageTypeOK
        <3> QED  BY <3>1, <3>4, <3>5
    <2>2. UNCHANGED <<ongoing, view, started, myTurn>>
        BY <1>8 DEF Recall, PassTurn, Swap, roomSide
    <2> QED  BY <1>0, <2>1, <2>2 DEF PageTypeOK
<1>9. CASE \E c \in Cells : ClickCell(c)
    BY <1>0, <1>6, <1>9 DEF PageTypeOK
<1> QED
    BY <1>1, <1>2, <1>3, <1>4, <1>5, <1>7, <1>8, <1>9, PageKinds
    DEF PageStep, Player, pageVars, roomSide

\* Who is past the check, and the history of the room's placement.
LEMMA ClearedTyped ==
    ASSUME PageInv, [PageNext]_pageVars
    PROVE  cleared' \subseteq Loops /\ strayed' \in BOOLEAN
<1>0. cleared \subseteq Loops /\ strayed \in BOOLEAN
    BY DEF PageInv, PageTypeOK
<1>1. CASE UNCHANGED <<cleared, strayed>>
    BY <1>0, <1>1
<1>2. CASE MyCommand \/ TheirCommand
    <2>1. cleared' \subseteq cleared
        BY <1>2 DEF MyCommand, TheirCommand, ReceiveCommand, Act, OpponentChanges, OpponentActs
    <2>2. \/ strayed' \in {strayed, FALSE}
          \/ strayed' = ~MyMove
          \/ strayed' = ~ToMove("theirs")
        BY <1>2 DEF MyCommand, TheirCommand, ReceiveCommand, Act, OpponentChanges,
            OpponentActs, MoveEnds, MoveRefused, MoveUnseen
    <2> QED  BY <1>0, <2>1, <2>2 DEF MyMove, ToMove
<1>3. CASE \E l \in Loops : LoopStep(l)
    BY <1>0, <1>3 DEF LoopStep, CheckIfUsersMove, BuildState, ReadPublic, ReadPrivate, Push
<1> QED
    BY <1>1, <1>2, <1>3, PageKinds, PageStepsKeep DEF StartGame, pageVars, roomSide

LEMMA PageTypeStep == PageInv /\ [PageNext]_pageVars => PageTypeOK'
<1> SUFFICES ASSUME PageInv, [PageNext]_pageVars
             PROVE  PageTypeOK'
    OBVIOUS
<1>1. TypeOK'
    BY EngineStep DEF Inv
<1> QED  BY <1>1, UpTyped, DownTyped, PageTyped, ClearedTyped DEF PageTypeOK

-----------------------------------------------------------------------------
(***************************************************************************)
(* The theorems.                                                           *)
(***************************************************************************)
LEMMA PageInitInv == PageInit => PageInv
<1> SUFFICES ASSUME PageInit
             PROVE  PageInv
    OBVIOUS
<1>1. SeatsInv
    BY DEF PageInit, Init, SeatsInv, Nothing
<1>2. up = <<Command("state", NoPlacement)>> /\ up[1].action = "state"
    BY DEF PageInit, Command
<1>3. SentInv /\ ClearedInv
    BY <1>2, EmptyOverlay DEF PageInit, SentInv, ClearedInv
<1>4. ShownInv
    BY <1>2 DEF PageInit, ShownInv
<1> QED  BY <1>1, <1>3, <1>4, PageInitTyped DEF PageInv

LEMMA PageNextInv == PageInv /\ [PageNext]_pageVars => PageInv'
BY EngineStep, PageTypeStep, SeatsStep, ClearedStep, SentStep, ShownStep DEF PageInv

\* The page and the room it talks to go together, with any number of commands and
\* messages under way.
THEOREM PageInvariance == PageSpec => []PageInv
BY PageInitInv, PageNextInv, PTL DEF PageSpec

\* The page sends what the room can read and keeps what it can show, also when its
\* hand is not the one it was.
THEOREM PageTypeCorrect == PageSpec => []PageTypeOK
<1>1. PageInv => PageTypeOK
    BY DEF PageInv
<1> QED  BY <1>1, PageInvariance, PTL

\* What a submit writes is what the player saw when he pressed the button, when it is
\* carried out in his turn and no strayed placement has replaced his.
THEOREM SubmitsAlwaysWhatIsShown == PageSpec => SubmitsWhatIsShown
<1> DEFINE Asked == /\ cleared' = cleared \ {"mine"} /\ cleared' # cleared
                    /\ MyMove /\ ~strayed
                    /\ board' # board
           Good == Asked => board' = With(board, Head(up).placement)
<1>1. PageInv /\ [PageNext]_pageVars => [Good]_pageVars
    <2> SUFFICES ASSUME PageInv, [PageNext]_pageVars, Asked
                 PROVE  board' = With(board, Head(up).placement)
        OBVIOUS
    <2>1. CASE ~oob /\ MyCommand
        <3>1. /\ up # <<>> /\ up[1].action = "submit" /\ score # -1
              /\ board' = With(board, new_tiles)
            BY <2>1, CommandSteps
        <3>2. up \in Seq([action : Commands, placement : PlacementType])
            BY DEF PageInv, PageTypeOK
        <3>3. 1 \in DOMAIN up /\ Head(up) = up[1]
            BY <3>1, <3>2
        <3>4. Settled(up, 1, Ready, new_tiles, up[1].placement)
            BY <3>1, <3>3 DEF PageInv, ShownInv
        <3>5. new_tiles = up[1].placement
            BY <3>1, <3>4 DEF Settled, Ready
        <3> QED  BY <3>1, <3>3, <3>5
    \* The other read loop leaves the player's alone.
    <2>2. CASE TheirCommand
        <3>1. cleared' = cleared \/ cleared' = cleared \ {"theirs"}
            BY <2>2 DEF TheirCommand, OpponentChanges, OpponentActs
        <3>2. "mine" \in cleared /\ "mine" \notin cleared'
            OBVIOUS
        <3> QED  BY <3>1, <3>2
    <2>3. CASE StartGame \/ UNCHANGED cleared
        BY <2>3 DEF StartGame
    <2>4. CASE \E l \in Loops : LoopStep(l)
        BY <2>3, <2>4, LoopsKeep DEF vars
    <2> QED
        BY <2>1, <2>2, <2>3, <2>4, PageStepsKeep, PageKinds DEF pageVars, roomSide
<1> QED  BY <1>1, PageInvariance, PTL DEF PageSpec, SubmitsWhatIsShown

-----------------------------------------------------------------------------
(***************************************************************************)
(* What the page shows.  Every state on its way was read off the board at  *)
(* some moment, and what lay on the board then still does.                 *)
(***************************************************************************)
IsReal(v, b) == \A c \in Cells : v.board[c] # NoLetter => b[c] = v.board[c]

RealInv ==
    /\ PendingIsLegal
    /\ IsReal(view, board)
    /\ \A k \in DOMAIN down : IsReal(down[k].view, board)
    /\ \A l \in Loops : IsReal(making[l].msg.view, board)

\* A state without a board shows nothing that is not there.
LEMMA NoViewIsReal ==
    ASSUME NEW b
    PROVE  IsReal(NoView, b)
BY DEF IsReal, NoView, EmptyBoard

\* A step of the page or the room is one of the engine, or leaves the board alone
\* and what is pending as it was or dropped.
LEMMA EngineKinds ==
    ASSUME PageInv, [PageNext]_pageVars
    PROVE  \/ [Next]_vars
           \/ EndTurn /\ board' = board
           \/ UNCHANGED <<board, new_tiles, score>>
<1>1. CASE ~oob /\ StartGame
    BY <1>1, PageAssumption DEF StartGame, Next, PageAssumption
<1>2. CASE ~oob /\ TheirCommand
    BY <1>2, OpponentStep
<1>3. CASE ~oob /\ MyCommand
    BY <1>3, CommandStep DEF Change, ChangeRefused, OutOfBounds, tableVars, pendingVars
<1>4. CASE UNCHANGED vars
    BY <1>4 DEF vars
<1>5. CASE \E l \in Loops : LoopStep(l)
    BY <1>4, <1>5, LoopsKeep
<1> QED
    BY <1>1, <1>2, <1>3, <1>4, <1>5, PageStepsKeep, PageKinds DEF pageVars

\* So letters stay on the board here too.
LEMMA PageKeepsBoard ==
    ASSUME PageInv, PendingIsLegal, [PageNext]_pageVars
    PROVE  /\ PendingIsLegal'
           /\ \A c \in Cells : board[c] # NoLetter => board'[c] = board[c]
<1>1. Inv
    BY DEF PageInv
<1>2. CASE [Next]_vars
    BY <1>1, <1>2, NextPending, StepKeepsBoard
<1>3. CASE EndTurn /\ board' = board
    BY <1>3 DEF EndTurn, PendingIsLegal
<1>4. CASE UNCHANGED <<board, new_tiles, score>>
    BY <1>4 DEF PendingIsLegal
<1> QED  BY <1>2, <1>3, <1>4, EngineKinds

\* What was read off the board before is still there after a step.
LEMMA StaysReal ==
    ASSUME NEW v, IsReal(v, board),
           \A c \in Cells : board[c] # NoLetter => board'[c] = board[c]
    PROVE  IsReal(v, board')
BY DEF IsReal

\* What is on its way to the page, and what it shows, after a step.
LEMMA RealStep == PageInv /\ RealInv /\ [PageNext]_pageVars => RealInv'
<1> SUFFICES ASSUME PageInv, RealInv, [PageNext]_pageVars
             PROVE  RealInv'
    OBVIOUS
<1>0. /\ down \in Seq(Messages) /\ view \in Views
      /\ making \in [Loops -> [at : MakingStates, msg : Messages]]
      /\ board \in Boards
    BY DEF PageInv, PageTypeOK, TypeOK
<1>1. /\ PendingIsLegal'
      /\ \A c \in Cells : board[c] # NoLetter => board'[c] = board[c]
    BY PageKeepsBoard DEF RealInv
<1>2. /\ IsReal(view, board')
      /\ \A k \in DOMAIN down : IsReal(down[k].view, board')
      /\ \A l \in Loops : IsReal(making[l].msg.view, board')
    BY <1>1, StaysReal DEF RealInv
<1>3. IsReal(NoView, board')
    BY NoViewIsReal
<1>4. ASSUME NEW m \in Messages, IsReal(m.view, board'), down' = Append(down, m)
      PROVE  \A k \in DOMAIN down' : IsReal(down'[k].view, board')
    <2> SUFFICES ASSUME NEW k \in DOMAIN down'
                 PROVE  IsReal(down'[k].view, board')
        OBVIOUS
    <2>1. CASE k \in DOMAIN down
        <3>1. down'[k] = down[k]
            BY <1>0, <1>4, <2>1
        <3> QED  BY <1>2, <2>1, <3>1
    <2>2. CASE k \notin DOMAIN down
        <3>1. down'[k] = m
            BY <1>0, <1>4, <2>2
        <3> QED  BY <1>4, <3>1
    <2> QED  BY <2>1, <2>2
<1>5. ASSUME NEW l \in Loops, NEW m, IsReal(m.msg.view, board'),
             making' = [making EXCEPT ![l] = m]
      PROVE  \A k \in Loops : IsReal(making'[k].msg.view, board')
    BY <1>0, <1>2, <1>5
<1>6. Nothing.msg.view = NoView /\ Due.msg.view = NoView
    BY DEF Nothing, Due, Message
<1>7. /\ \A kind : Message(kind, NoView).view = NoView
      /\ \A kind \in MessageKinds : Message(kind, NoView) \in Messages
    BY ViewTypes DEF Message
<1>8. CASE UNCHANGED <<making, down, view>>
    BY <1>1, <1>2, <1>8 DEF RealInv
<1>9. ASSUME NEW l \in Loops, Inform(l), UNCHANGED view
      PROVE  RealInv'
    BY <1>1, <1>2, <1>3, <1>5, <1>6, <1>9 DEF Inform, RealInv
<1>10. ASSUME NEW kind \in MessageKinds, Tell(kind), UNCHANGED view
       PROVE  RealInv'
    BY <1>1, <1>2, <1>3, <1>4, <1>7, <1>10 DEF Tell, RealInv
<1>11. CASE MyCommand
    <2>1. "mine" \in Loops /\ {"notStarted", "notYourMove", "rejected"} \subseteq MessageKinds
        BY DEF Loops, MessageKinds
    <2>2. UNCHANGED view
        BY <1>11 DEF MyCommand, ReceiveCommand, Act, page
    <2> QED  BY <1>8, <1>9, <1>10, <1>11, <2>1, <2>2, MyPushes
<1>12. CASE TheirCommand
    <2>1. UNCHANGED view
        BY <1>12 DEF TheirCommand, OpponentChanges, OpponentActs, page
    <2> QED  BY <1>8, <1>9, <1>12, <2>1, TheirPushes DEF Loops
<1>13. ASSUME NEW l \in Loops, ReadPublic(l)
       PROVE  RealInv'
    <2>1. board' = board /\ UNCHANGED <<down, view>>
        BY <1>13 DEF ReadPublic, vars, page
    <2>2. IsReal([NoView EXCEPT !.board = board], board)
        BY DEF IsReal, NoView
    <2>3. PICK m : making' = [making EXCEPT ![l] = m] /\ IsReal(m.msg.view, board')
        <3>1. CASE ongoing
            <4> DEFINE m == [at |-> "public",
                             msg |-> Message("state", [NoView EXCEPT !.board = board])]
            <4>1. making' = [making EXCEPT ![l] = m]
                BY <1>13, <3>1 DEF ReadPublic
            <4>2. m.msg.view = [NoView EXCEPT !.board = board]
                BY DEF Message
            <4> HIDE DEF m
            <4> QED  BY <2>1, <2>2, <4>1, <4>2
        <3>2. CASE ~ongoing
            <4> DEFINE m == [at |-> "ready", msg |-> Message("lobby", NoView)]
            <4>1. making' = [making EXCEPT ![l] = m]
                BY <1>13, <3>2 DEF ReadPublic
            <4>2. m.msg.view = NoView
                BY DEF Message
            <4> HIDE DEF m
            <4> QED  BY <1>3, <4>1, <4>2
        <3> QED  BY <3>1, <3>2
    <2> QED  BY <1>1, <1>2, <1>5, <2>1, <2>3 DEF RealInv
<1>14. ASSUME NEW l \in Loops, ReadPrivate(l)
       PROVE  RealInv'
    <2>1. board' = board /\ UNCHANGED <<down, view>>
        BY <1>14 DEF ReadPrivate, vars, page
    <2>2. PICK shown :
            making' = [making EXCEPT ![l] =
                [at |-> "ready",
                 msg |-> Message("state",
                            [making[l].msg.view EXCEPT !.hand = shown, !.mine = MyMove,
                                !.score = IF MyMove THEN score ELSE -1])]]
        BY <1>0, <1>14 DEF ReadPrivate
    <2> DEFINE v == [making[l].msg.view EXCEPT !.hand = shown, !.mine = MyMove,
                                               !.score = IF MyMove THEN score ELSE -1]
               m == [at |-> "ready", msg |-> Message("state", v)]
    <2>3. making' = [making EXCEPT ![l] = m]
        BY <2>2
    <2>4. making[l].msg.view \in Views
        BY <1>0 DEF Messages
    <2>5. v.board = making[l].msg.view.board
        BY <2>4 DEF Views
    <2> HIDE DEF v
    <2>6. m.msg.view = v
        BY DEF Message
    <2> HIDE DEF m
    <2>7. IsReal(m.msg.view, board')
        BY <1>2, <2>5, <2>6 DEF IsReal
    <2> QED  BY <1>1, <1>2, <1>5, <2>1, <2>3, <2>7 DEF RealInv
<1>15. ASSUME NEW l \in Loops, Push(l)
       PROVE  RealInv'
    <2>1. /\ down' = Append(down, making[l].msg)
          /\ making' = [making EXCEPT ![l] = Nothing]
          /\ UNCHANGED view
        BY <1>15 DEF Push, page
    <2>2. making[l].msg \in Messages
        BY <1>0
    <2>3. \A k \in DOMAIN down' : IsReal(down'[k].view, board')
        BY <1>2, <1>4, <2>1, <2>2
    <2>4. \A k \in Loops : IsReal(making'[k].msg.view, board')
        BY <1>3, <1>5, <1>6, <2>1
    <2> QED  BY <1>1, <1>2, <2>1, <2>3, <2>4 DEF RealInv
<1>16. CASE ReceiveMessage
    <2>1. down # <<>> /\ down' = Tail(down) /\ making' = making
        BY <1>16 DEF ReceiveMessage, roomSide
    <2>2. \A k \in DOMAIN down' : k + 1 \in DOMAIN down /\ down'[k] = down[k + 1]
        BY <1>0, <2>1
    <2>3. 1 \in DOMAIN down /\ Head(down) = down[1]
        BY <1>0, <2>1
    <2>4. view' = view \/ view' = Head(down).view
        BY <1>16 DEF ReceiveMessage, OnLobby, OnError, OnState
    <2>5. IsReal(view', board')
        BY <1>2, <2>3, <2>4
    <2>6. \A k \in DOMAIN down' : IsReal(down'[k].view, board')
        BY <1>2, <2>2
    <2> QED  BY <1>1, <1>2, <2>1, <2>5, <2>6 DEF RealInv
<1>17. CASE StartGame \/ Player \/ Poll \/ UNCHANGED pageVars
    BY <1>8, <1>17 DEF StartGame, Player, ClickCell, Submit, Recall, PassTurn, Swap, Poll,
        roomSide, page, pageVars
<1>18. CASE \E l \in Loops : CheckIfUsersMove(l)
    BY <1>8, <1>18 DEF CheckIfUsersMove, page
<1> QED
    BY <1>11, <1>12, <1>13, <1>14, <1>15, <1>16, <1>17, <1>18, PageKinds
    DEF PageStep, LoopStep, BuildState

\* The page never shows a letter that is not on the board: not one the opponent has
\* only placed, and not one either of them has been refused, however states mix and
\* overtake each other on their way.
THEOREM ShowsOnlyRealLetters == PageSpec => []ShowsRealLetters
<1>1. PageInit => RealInv
    <2> SUFFICES ASSUME PageInit
                 PROVE  RealInv
        OBVIOUS
    <2>1. PendingIsLegal
        BY InitPending DEF PageInit
    <2>2. view = NoView /\ DOMAIN down = {}
        BY DEF PageInit
    <2>3. \A l \in Loops : making[l].msg.view = NoView
        BY DEF PageInit, Nothing, Message
    <2> QED  BY <2>1, <2>2, <2>3, NoViewIsReal DEF RealInv
<1>2. RealInv => ShowsRealLetters
    BY DEF RealInv, IsReal, ShowsRealLetters
<1> QED  BY <1>1, <1>2, RealStep, PageInvariance, PTL DEF PageSpec

-----------------------------------------------------------------------------
\* A page, an opponent and the starts of both make a behaviour of the engine, where
\* the engine's clients may ask to exchange any letters: what is proved of
\* ScrabbleGame holds of the game a page talks to, whatever the page sends of hands
\* it does not have any more, twice, or in the opponent's turn.
THEOREM PageDrivesEngine ==
    ASSUME Requests = Seq(Letters)
    PROVE  PageSpec =>
               /\ Spec
               /\ [](/\ PendingIsLegal /\ DrawStaysInBag /\ HandsAreBounded
                     /\ NoTileIsTwice)
               /\ BoardIsPermanent
               /\ PointsAreForTiles
               /\ PlaysTurnGame
<1>1. PageInit => Init
    BY DEF PageInit
<1>2. ASSUME PageInv, ~oob, MyCommand
      PROVE  [Next]_vars
    <2> DEFINE command == Head(up)
               Sent == [action : Commands, placement : PlacementType]
    <2>1. up # <<>> /\ up \in Seq(Sent) /\ ongoing \in BOOLEAN
        BY <1>2, CommandSteps DEF PageInv, PageTypeOK
    <2>2. command = up[1] /\ 1 \in DOMAIN up /\ command \in Sent
        <3> HIDE DEF Sent
        <3> QED  BY <2>1
    <2>3. CASE /\ ongoing
               /\ \/ Change(MySeat, command.placement.tiles)
                  \/ ChangeRefused(MySeat, command.placement.tiles)
                  \/ ChangeOutOfBounds(MySeat, command.placement.tiles)
        <3>1. players # <<>> /\ MySeat \in DOMAIN players
            BY <1>2, <2>3, GameFacts DEF PageInv
        <3>2. command.placement.tiles \in Requests
            BY <2>2 DEF PlacementType
        <3> QED  BY <1>2, <2>3, <3>1, <3>2 DEF Next, Move
    <2>4. CASE Act
        <3>1. players # <<>>
            BY <1>2, <2>4, GameFacts DEF PageInv, ClearedInv, Act
        <3>2. command.action = "place" => command.placement \in Placements
            BY <1>2, <2>2 DEF PageInv, SentInv
        <3> QED  BY <1>2, <2>4, <3>1, <3>2 DEF Act, Next, Move
    <2> QED  BY <1>2, <2>3, <2>4 DEF MyCommand, ReceiveCommand
<1>3. PageInv /\ [PageNext]_pageVars => [Next]_vars
    <2> SUFFICES ASSUME PageInv, [PageNext]_pageVars
                 PROVE  [Next]_vars
        OBVIOUS
    <2>1. CASE ~oob /\ StartGame
        BY <2>1, PageAssumption DEF StartGame, Next, PageAssumption
    <2>2. CASE ~oob /\ TheirCommand
        BY <2>2, OpponentStep
    <2>3. CASE ~oob /\ MyCommand
        BY <1>2, <2>3
    <2>4. CASE UNCHANGED vars
        BY <2>4
    <2>5. CASE \E l \in Loops : LoopStep(l)
        BY <2>4, <2>5, LoopsKeep
    <2> QED  BY <2>1, <2>2, <2>3, <2>4, <2>5, PageStepsKeep, PageKinds DEF pageVars
<1>4. PageSpec => Spec
    BY <1>1, <1>3, PageInvariance, PTL DEF PageSpec, Spec
<1> QED
    BY <1>4, PendingStaysLegal, DrawsStayInBag, HandsStayBounded, TilesStayApart,
       BoardStaysPermanent, PointsStayForTiles, EnginePlaysTurnGame, PTL
=============================================================================
