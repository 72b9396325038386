# Scrabble server: specifications, model checks and proofs

TLA+ for the game server of this repository (C++ on the userver framework, SQLite,
websockets): what its rules engine, word finder, rooms, message delivery, game list,
accounts and game page do, which properties hold, where the code and its own comments
disagree, and machine-checked proofs for each of them. Paths are those of the repository
(`game/` stands for `src/game/`, and so on).

## 1. The system

| Part | State | Operations | Works with |
|---|---|---|---|
| Rules engine: `ScrabbleGame`, `GameState`, `Randomizer` (`game/ScrabbleGame.cpp`) | players and seats, hands, scores, `current_player`, bag, random counter, board, the pending placement and its score | `set_players`, `TryPlaceTiles`, `SubmitWord`, `Change`, `Pass` | called by `GameRoom`, no lock of its own |
| Word finder (same file) | none | `GetNewWords_`, `horizontal_check_`, `vertical_check_`, `calculate_score_` | `TilesCheck_`; dictionary passed in as `word_checker` |
| `GameRoom` (`session/GameRoom.cpp`) | `players_`, `sessions_`, `ongoing_`, `open_`, `mutex_` (a `SharedMutex`), the engine | `attach_session`, `set_players`, `start`, `receive_message`, `send_new_states`, `wait_for_message`, `close_session` | HTTP handlers, one read and one send loop per websocket |
| `PlayerSession` (`session/PlayerSession.cpp`) | message queue, `closed_`, mutex and condition variable | `send_raw_message`, `pop_wait`, `Close` | `GameRoom` |
| Websocket handler (`api/websocket.cpp`) | per connection: a read loop and a concurrent send loop | `init_user_id_`, `Handle`, `send_loop_`, `read_loop_` | `GameRoom`, `GameStorage`, database |
| `GameStorage` (`session/GameStorage.cpp`) | map from game id to room | `new_room`, `delete_room`, `get_game_room` | HTTP and websocket handlers |
| `GameHandler` (`api/http.cpp`) and the tables `games`, `game_users` (`sqlite/users_1.sql`) | rows | create, join, start, end, list | database, `GameStorage`, `GameRoom` |
| Registration, login, tokens (`api/http.cpp`) | `users`, `user_credentials`, `auth_tokens` | `register_new_user_`, `login_checker_`, `get_token_for_client_`, `define_user_id_from_token_` | database; every other handler, for the id of its user |
| Web client (`frontend/js`) | last state, pending tiles, exchange selection, buttons | messages of each kind, clicks, buttons, a timer that polls | HTTP, websocket |

Four threads run the coroutines (`static_config.yaml`), so handlers really
overlap. What makes the system hard:

* the engine remembers a checked placement between two messages, and every
  other operation must either keep it true or drop it;
* random draws use a counter that is kept apart from the bag it indexes;
* a start is two calls, a join two writes, a create four, without a common
  lock or transaction;
* the turn is checked before the engine is called, by several read loops;
* send loops wait for messages while they hold the room lock in shared mode;
* rows survive the process and rooms do not;
* a registration finds the id of its user through the connection it writes on,
  a login writes a token for a user it has read before;
* the page shows a state that is two reads old, and its submit carries no tiles: what
  is written is what the last placement it sent left pending in the room.

What makes each part correct: engine - letters are conserved, the board is
permanent, points are earned by the mover and only for tiles placed, hands are
bounded, draws stay in the bag; word finder - every word formed is checked and
counted once; room - seats follow the members, somebody is to move, only the
player to move moves the turn; sessions - messages reach a live connection, no
loop is left behind by a disconnect, join and start are not starved; lobby -
rows and rooms agree, nobody is in a room twice; accounts - nobody is registered by
half, a name and a token lead to one user; page - a submission writes what the player
saw, and the page comes to show the game as it is.

## 2. Modules

```
Board <- WordFinder <--- ScrabbleRules <------- ScrabbleRulesProofs
  ^                         |                     |
  |                         v                     v
  +--- TurnGame <~~~~ ScrabbleGame <----- ScrabbleGameProofs <-- LetterProofs
                        ^       ^                 ^                  ^
                        |       |                 |                  |
                    GameRoom  GamePage <--- GamePageProofs      GameRoomProofs --> GameRoom

RoomSessions <- RoomSessionsProofs    GameLobby <- GameLobbyProofs

Membership <~~~~ Accounts <- AccountsProofs
```

An arrow points at the module that is extended; `<~~~~` is a refinement: ScrabbleGame
implements TurnGame, Accounts implements Membership. ScrabbleGame also extends Board.

* **Board** - cells, placements as clients send them, and the coordinate checks
  of `TilesCheck_`. Coordinates are vectors of any length, letters model values.
* **WordFinder** - the walk of `GetNewWords_` and the score as operators, and
  next to them a declarative reference: the segments of a board that are
  occupied and cannot be extended (`WordsOn`).
* **ScrabbleGame** - the engine, one action per operation. Tiles have an
  identity and the bag is a set: a draw takes the tile at a random index and
  closes the gap with the last one, so any tile may be next. `TryPlaceTiles`,
  `SubmitWord`, `Pass` and `SetPlayers` are the methods; `Change` has the
  successful exchange and `ChangeRefused` the early return in the loop. The
  `...OutOfBounds` actions are the same calls when `DrawTile_` gets the index -1:
  the operation is dropped, `oob` is set and nothing is modelled after it,
  because what the program then does is undefined. `current_player` is zero
  based as in the code, sequences are one based (`Mover`).
* **TurnGame** - what a watcher of the public state is promised: seats are only
  added, cells fill up once, only the player to move earns points and each such
  move hands the turn on. Its variables are those of `GameRoom::public_state_`.
* **ScrabbleRules** - the engine with the code's word finder as its scoring
  function: `RulesAssumption` says that the constant `PlacementScore` is
  `PlacementScoreOf` wherever the code asks for it.
* **GameRoom** - the engine inside a room. One read loop per connection, with
  the turn check and the call of the engine as two steps; HTTP starts with
  `set_players()` and `start()` as two steps; `attach_session` may come at any
  time. `Malformed` is an exception in the handling of a message. What clients
  ask for is chosen once for a room (`actions`): anything, or anything but
  exchanges, because one property holds of the rooms without them only.
* **RoomSessions** - locks and delivery. Each connection has a send loop (check
  `open_`, take the lock shared, pop, release, check again, send) and a read
  loop; joins and starts are writers of the lock. Messages are counted. The
  userver `SharedMutex` is external: readers wait while a writer waits or owns. What
  clients do, and which joins and starts come, is chosen once for a room (`room`).
* **GameLobby** - the HTTP game handler, the two tables and the map of rooms;
  every statement and every map operation is a step of a request, and the
  process may be stopped between any two. Foreign keys are taken to be enforced
  and keys to be unique, as the schema says. A null room brings the process down.

* **Accounts** - registration and login; each statement is a step, so requests overlap
  between any two, a statement may throw, and the process may be stopped. `db` is what is
  committed, `work` the same as the one connection that writes sees it, `rowid` its
  `last_insert_rowid()`: SQLite is external, modelled from how the handlers use it. A
  token is brought by a later request (`BringToken`, `Identify`), after which `Act` stands
  for what GameLobby and GameRoom do for that user.
* **Membership** - what registration and login promise of each other: one becomes a member
  in one step that takes a name and an address nobody has, is never removed, and tokens
  are drawn once and given to members only. Its variables are what is committed and what
  clients were told; that a registration is three statements that overlap with others,
  fail, and are cut short is hidden.
* **GamePage** - a player's page (`frontend/js/game_room.js`), the engine behind its room,
  and an opponent. As in GameRoom a read loop asks whose move it is (`CheckIfUsersMove`)
  and calls the engine in a later step (`Act`, `OpponentActs`); an exchange asks nobody
  (`ReceiveCommand`, `OpponentChanges`) and may come in between. The history variable
  `strayed` remembers a placement that came too late, in a turn that had passed to the
  other player since it was checked. What the player sends (`up`) and what the page is
  sent (`down`) are queues. A state is built in two reads and queued in a third step, by
  the read loop of whoever moved (`making`), so states mix two moments and overtake each
  other. The page has its last state, the overlay of placed tiles (`pending`), the buttons
  that are enabled. A position selected for an exchange or to be placed is chosen when it
  is used: a state may have come between the clicks, and the hand be another or a shorter
  one (`Missing`).

GameRoom takes from GameLobby that a user is attached at most once
(`NobodyJoinsTwice`), GameLobby from Accounts that a request knows its user
(`TokensIdentify`), and RoomSessions leaves the engine to GameRoom: its moves end in
`send_new_states`. The contents of the messages it counts are in GamePage.

Operators named `Faulty...` are plausible mistakes in the definition that
follows them. No specification uses them; put in its place, each makes one
property fail, which is how the properties are known to say something.

## 3. Model checking

`tlc -config X.cfg M` for each row; all bounds are in the `.cfg` and the MC module.

| Run (`.cfg`) | Instance | Checks |
|---|---|---|
| engine (`MCScrabbleGame`) | 3 cells, 2 letters, 2 players, hands of 2, a bag of 4 tiles and the unfilled slot; 8 placements (legal, joined, doubled, off board, malformed, unequal lengths, empty), 5 exchanges | `TypeOK`, `PendingIsLegal`, `DrawStaysInBag`, `HandsAreBounded`, `NoTileIsTwice`, `NoLetterVanishes`, `BoardIsPermanent`, `PointsAreForTiles`, refinement `PlaysTurnGame` |
| engine_draws (`MCScrabbleGameDraws`) | the same | fails: `DrawsKeepContract` |
| words (`MCScrabbleRules`) | 3 x 2 cells, every placement of one tile, of two in line, and of a row; 5 words | `SubmittedWordsAreInDictionary`, `PendingScoreIsWordTotal` |
| words_gap | 4 x 1 cells | fails: `EveryWordInDictionary` |
| room (`MCGameRoom`) | 3 users for a game of two, 2 connections, 2 overlapping starts, 3 tiles and hands of one (so exchanges succeed), rooms with and without exchanges | `RoomTypeOK`, `SeatsFollowRoster`, `SomeoneToMove`, `ClearedIsToMove`, and `RoomDrivesEngine`: the room implements `ScrabbleGame` |
| room_exchange | 2 users | fails: `TurnMovesByHolder` |
| sessions (`MCRoomSessions`) | host with two tabs, guest; a game in which they ask, move and leave, and a lobby they poll while a join and a start come and connections break | `TypeOK`, `EmptyNeverSent`, `SentUnlessSendThrows`, `QuietDisconnectStopsLoops`, `MessagesAreSent`, `RequestsAreServed` |
| sessions_close | a join while members leave | fails: `DisconnectStopsLoops` |
| lobby (`MCGameLobby`) | 2 users, 3 overlapping requests, 2 games, 1 stop | `LobbyTypeOK`, `NobodyJoinsTwice`, `RoomsHaveRows`, `RowsHaveRooms`, `RoomAgreesWithRows`, `GamesEndByHost` |
| lobby_null | 2 overlapping requests | fails: `NoRoomIsMissed` |
| accounts (`MCAccounts`) | 2 overlapping requests, 2 names, 2 addresses, 2 passwords, 2 users, 2 tokens, 1 stop | `AccountsTypeOK`, `AccountsAreWhole`, `WelcomedCanLogIn`, `TokensIdentify`, `ConnectionIsGivenBack`, refinement `KeepsMembers` |
| page (`MCGamePage`) | 2 cells, 2 letters, 3 tiles, hands of 1, a tile on either cell is a word and two are none, an overlay may lack its letter, one command and one message under way | `PageTypeOK`, `ShowsRealLetters`, `SubmitsWhatIsShown`, `PageCatchesUp` |

**Why these bounds.** Five bag slots and hands of two are the least at which a hand can
be filled twice, an exchange can fail after its first letter, and the counter can run
out while tiles are left. Three cells give a placement that joins another. Six cells
with all in-line placements give words extended at both ends, crossings, and a gap that
is filled or not. In the room a third user makes joins after the last start possible,
and two start requests overlap. A queue of one or two messages distinguishes empty, one
and more, and clients stop sending at `QueueMax` (a bound of the model, the code has
none). Two game ids allow a game to be replaced, three requests allow two to race with a
third. Two registrations with two names and addresses are same name, same address, both
and neither; a registration that overlaps with a login writes on one connection with it,
and two tokens are one for each user or two for one. On the page two cells, two letters
and one tile in hand are enough for an overlay that is placed, taken back and placed
elsewhere with another tile, a refused one, an opponent who fills the cell meanwhile,
and a hand that changes under a selection, so that an exchange is refused. `GamesMax`
and `RestartsMax` bound how often a game is created and the process stopped. Symmetry is
used for tiles, users and requests only where no liveness is checked. On the page a
submission of a letter its player does not hold leaves his hand full, so the game goes
on, and with it the run reaches the two cases that `SubmitsWhatIsShown` leaves out and
the one that `PageCatchesUp` does: with any of these conditions dropped it finds them.
One command is under way at a time (`UpMax`), so a submit is never pressed while the
place before it is on its way; the theorem `SubmitsAlwaysWhatIsShown` is for any number
of them. One branch of the room is not taken in this run, a move asked for before the
game has started: the page offers none. Two more bounds of GamePage are in its actions:
one poll is under way at a time (`Poll`), and what the player composes is among
`Placements` (`SyncPlacement`).

**Deadlock checking** is off in the engine, the room and the page because nothing
follows a draw outside the bag, in the sessions because clients may all have left, and
in the lobby because nothing follows a crash. It is on in the runs about words and
accounts.

**Fairness.** RoomSessions: a coroutine that can run is run, so each loop's steps and a
writer that can get or give back the lock are weakly fair. Clients need not do anything,
but a page that is left open asks for the state again and again
(`frontend/js/game_room.js:151-155`) until its connection breaks under a send: the act
`"poll"`, without which an idle lobby would keep a join waiting forever. GamePage: both
read loops, the page's event loop and its timer are weakly fair, the players are not.
`PageCatchesUp` presupposes that the game stands still from some time on and that nothing
but polls is under way: while the opponent moves, what is shown is old as soon as it is
shown. The other modules state no fairness and no liveness.

## 4. What the failing runs show

Each fails because of what the code does; the line it disagrees with is quoted in
`PROJECT.json`.

* **engine_draws** - exchanges return tiles to the bag and not to the counter; at
  0 the counter answers -1, which is used as an index (`ScrabbleGame.cpp:99-101`). The
  comment on `DrawTile_` is broken in a second way: `FillBag_` leaves slot 127 of 131 at 0
  (`ScrabbleGame.cpp:65-69`), and 0 is what it answers for an empty bag, so whoever
  draws that slot keeps a short hand until the next fill while the bag has tiles.
* **words_gap** - tiles need not be contiguous, and the word along their line is
  looked up at the first tile only (`ScrabbleGame.cpp:321-350`).
* **room_exchange** - `action_change_` does not ask whose move it is and `Change`
  ends with `Pass()` (`GameRoom.cpp:231-241`).
* **sessions_close** - the room lock is held while waiting for messages; once a
  join or start waits for it, `close_session` waits behind, and all wait for each
  other. A move does the same through `send_new_states`: the mover's read loop
  stops reading, so its own send loop is woken by nothing.
* **lobby_null** - the answer of `get_game_room` is used unchecked
  (`http.cpp:502, 579, 630, 662`, `websocket.cpp:72-74`): join a game that has just been
  ended, or press create twice.

Other differences met while modelling, visible in the modules and not checked by a run of
their own: a refused exchange keeps the letters it has already moved (`ChangeRefused`); a
member who joins after `set_players()` has no seat in a game that `start()` then lets go
on (`SeatsFollowRoster` says he comes after all seats); `start()` sets `ongoing_` again in
a room that a disconnect closed, whose send loops have ended; an exception in a read loop
cancels the send loop, which then sends an empty frame (`Garbage`, `PopWait`, `Send`); a
message is popped before it is sent, and lost when `chat.Send` throws, though another tab
of its member waits on the same queue (`Send`); after a restart rows have no rooms
although the schema speaks of live state in Redis (`RowsHaveRooms` says which games have
one); `end_game_` closes no session although `websocket.cpp:118-119` says the end of a
game does; letters that are not in the hand may be placed (`Taken` skips them); the NUL
slot above is lost once drawn, so the bag gets shorter by one without a hand getting
longer; two connections of one player may both pass the turn check before either moves, so
`ClearedIsToMove` asks for one connection per user; anybody may start a game
(`http.cpp:634`).

Of accounts: a login by address is documented (`http_handlers.hpp:110-115`) but only the
name is queried (`http.cpp:268-279`), so it never succeeds (`AskLogin`, `SelectUser`);
`NicknameExists` and `UserExists` are declared and never answered, a name that is taken
is an exception and an internal failure; `expires_at` and `revoked_at` are written and
never asked (`Identify`), so a token is good for ever; when the answer to a registration
is lost, its retry is told of a failure; `register.js` keeps the answer `100` as the
user's name.

Of the page: an exchange out of turn (room_exchange) can fall between the turn check of a
move and the move. If it ends the turn of a player whose submit has been checked, and the
opponent places and that is done before the submit is, the submit writes the opponent's
tiles; if it ends the turn of an opponent whose placement has been checked, that placement
replaces the player's in the player's turn, and his next submit writes it, with nothing on
his page to tell (`SubmitsWhatIsShown`, `ShowsTheGame`, `strayed`). Positions selected for
an exchange are turned into letters of the last state (`game_room.js:468`), also when that
state came after the selection, and if none of them is there any more an empty exchange is
sent, which changes nothing and ends the turn (`Swap`, `Change`); a pass is not bound to a
turn, so a second click, or an old one, may end the player's next turn (`PassTurn`); an
answer `lobby` in the middle of an overlay keeps it although the room has none
(`OnLobby`).

## 5. Proofs

`tlapm` on the eight modules named `...Proofs`. Constants are arbitrary up to the named
assumptions, which TLC evaluates on every instance: `BoardAssumption` and `GameAssumption`
(finitely many tiles; the joker and the letters differ from NUL; clients send sequences of
letters and of sequences of integers), `ScoreAssumption` (a legal placement is worth a
natural number, or -1), `RoomAssumption`, `RosterAssumption` (the engine may be started
with every list of members a room can come to have), `WordAssumption` (a dictionary of
words over the letters, natural points), `RulesAssumption` (the engine asks WordFinder),
`SessionAssumption`, `LobbyAssumption`, `AccountsAssumption` (names and addresses differ)
and `PageAssumption`; `SessionAssumption` has finitely many connections. Theorems whose
name ends in `WithoutExchanges`, `ContractKept`, `HoldersMoveTheTurn` and
`PageDrivesEngine` say in their `ASSUME` for which constants they hold. The proofs go by
one lemma per action, or per action and conjunct; the last step of each theorem is
temporal.

**Engine** (`ScrabbleGameProofs`). `Invariance` is `Spec => []Inv`, where `Inv` is

* `TypeOK`, which is not inductive alone: that the counter stays a natural number
  needs that a draw takes no more tiles than it counts, and that the turn stays
  inside the seats needs `% Len(players)`;
* `DrawStaysInBag`. Every draw takes the same number from the bag and from the
  counter, and an exchange draws from the bag and the tiles given back, which are
  no fewer than the bag;
* `HandsAreBounded`. A hand is filled up to `TilesMax`, and every operation that
  fills it takes tiles out of it first, or none.

`TypeCorrect`, `DrawsStayInBag` and `HandsStayBounded` are its parts.
`PendingStaysLegal`: a step leaves board and placement alone, replaces the
placement by one that is checked on the spot, or drops it. `BoardStaysPermanent`
and `PointsStayForTiles` are action properties that follow from `Inv` and
`PendingIsLegal`: a legal placement covers free cells only, and at least one.
`EnginePlaysTurnGame`: every step is one of `TurnGame` or leaves its variables alone.
`TilesStayApart`: bag and hands share no tile, because a hand is filled with tiles that
the same step takes out of the bag.

Three theorems say how far the run engine_draws reaches. The counter of draws is the size
of the bag in every state where nobody exchanges tiles (`DrawsStayInsideWithoutExchanges`), so
exchanges are the only way to a draw outside the bag; and then a submission leaves a full
hand, an empty bag, or has met a slot that was never filled (`DrawsKeptWithoutExchanges`).
With neither, `DrawsKeepContract` holds (`ContractKept`): the two causes named in section 4
are all there are.

**Letters** (`LetterProofs`). `NoLetterEverVanishes`: a set of tiles that loses NUL
slots only shows every letter as often as before (`CountGrows`), and this is what
starts and exchanges do to the tiles held in bag and hands. A submission takes at
most as many tiles of a letter out of the hand as the placement has
(`CountShrinks`), and a legal placement puts each of its letters on a cell of its
own that was empty (`WithAddsLetters`, a bijection from the tiles with a letter to the
new cells with it). `LettersStayExact` is the other half: as long as players put down only
letters they hold, bag, hands and board together have exactly the letters of the first
bag, so that `TryPlaceTiles`, which does not ask, is the only thing that makes letters.

**Rooms** (`GameRoomProofs`). `RoomInv` adds to `Inv` the type of the room and

* `RosterInv` - the members are a list the engine can be started with;
* `StartedInv` - once the game is ongoing, a start is half done, or a read loop has
  a message in hand, the engine has players: what moves of the engine presuppose;
* `SeatsFollowRoster` and `ClearedIsToMove`, which are inductive with the rest.

`RoomImplementsEngine` (every step of a room is a step of its engine or leaves it
alone) carries the engine's theorems over: `RoomKeepsEngineProperties`. From
`ClearedIsToMove` follows `HoldersMoveTheTurn`: `TurnMovesByHolder`, which the run
room_exchange refutes, holds where clients exchange no tiles and nobody has two
connections, so these are the only ways past the turn check. The other theorems state the
room's invariants.

**Sessions** (`RoomSessionsProofs`). `SessionsAreTyped` says that no queue is popped when
it is empty, whatever clients send. `EmptyIsNeverSent` presupposes that they send nothing
whose parsing throws and that no connection breaks (`WellBehaved`; otherwise it is false,
section 4): then whoever closes a session or cancels a send loop has cleared `open_`
before (`ClosedInv`), so a loop woken for nothing finds the room closed (`EmptyInv`).
`MessagesAreSentUnlessSendThrows` counts the messages for a member in the queue and in the
hands of loops (`OnTheWay`): a pop moves one from the queue to a loop that had none
(`HandInv`), also when the wait was ended by a cancellation, and while the room is open
only `chat.Send` takes one away. It sends it, or throws, in a cancelled task or on a
broken connection (`MayThrow`): the theorem does not say that such a message is sent,
because it is not, but that this is the one way to lose it and that the loop that lost it
is at its end.

**Lobby** (`GameLobbyProofs`). `LobbyInv` has, besides types and the three
invariants it is about,

* `KnownIds` - ids beyond the counter are not in use, so a new game meets nothing old;
* `RoomsInUse` - what a request has read of a room stays true until it acts on it,
  and what it has deleted stays deleted;
* `NewRooms` - a room about to be stored is in one request's hands only, and if its
  row has been deleted meanwhile, the one who deleted it has yet to look for the room;
* `OneOwner` - row, room and requests agree on the host of an id, without which the
  host could join his own game;
* `Joined`, `Joining`, `RowsJoin` - members have rows, rows have members or a join
  between its two writes, and the key of `game_users` lets one such join in at a time;
* `BornInv` - rooms, and requests that are about to store one, are of games created
  since the process came up (`born`, a history variable), so that after a stop a row of
  before is never taken for one that has its room.

`HostsEndTheirGames` is an action property that follows from `OneOwner`: the id that a
request has read earlier, and deletes by, is still its user's, because ids are never
given twice.

**Words** (`ScrabbleRulesProofs`). The walk of `GetNewWords_` and the reference `WordsOn`
meet in runs: a walk reads the run of occupied cells around its tile (`RunIsFound`), and
the runs of at least two cells are the words of the board (`WordsAreStretches`), so a
walk at any cell of a word reads the word (`RowIsRead`, `ColumnIsRead`). Two words of
one axis have no cell in common, so when no gap is left the first tile is in the same
word along the line as all the others, and the walks find every word that has a new tile
(`WalksFindTheWords`). `PendingStaysKnown` is the invariant that carries the answer of
the dictionary from the placement to its submission, `SubmittedWordsAreKnown` the
conclusion. `GaplessGamesKeepDictionary` says that the gap is all there is: when no
submission of a game leaves one, `EveryWordInDictionary`, which the run words_gap
refutes, holds of it.

`PendingScoreStaysTotal` says that the points of a checked placement are the sum over the
words it is part of. What a recursive sum is for every input would be shown by induction
over data, which needs a theorem the provers cannot instantiate; the proof argues with a
smallest counterexample instead (`SomeSmallest`): of the subsets over which an equation
about sums fails a smallest one is left with an element less, for which the equation
holds. So a sum depends neither on the order in which it is taken (`SumByAny`) nor on the
names of what is added (`SumRenamed`), and as each walk reads one word and each word is
read by one walk (`WalkReadsItsWord`, `WalksFindTheWords`), what the walks add up is
what the words are worth (`WalksAddUp`).

**Accounts** (`AccountsProofs`). `AccountsInv` adds to the types

* `TablesInv` - ids and names are keys, and every user has credentials, of the committed
  tables; the connection that writes has the keys too;
* `WriterInv` - the connection is in a transaction exactly when one request is, and
  what it sees is what is committed and the rows this request has written so far, under
  the id that `last_insert_rowid()` answers. Without it nothing says whose user the
  credentials are for;
* `RequestsInv` - what a request has learnt (that its user exists, that its token is his)
  is still so at each later step, because committed rows stay;
* `TokensInv`, `ClientsInv` - tokens are drawn once; what clients were told is so.

`AccountsKeepMembers` is the refinement of `Membership`: the commit of a registration maps
to its one step, because `WriterInv` knows the two rows that become visible and that
their name and address were free; every other statement, exception and stop of a
registration maps to a stutter.

**Page** (`GamePageProofs`). `SubmitsAlwaysWhatIsShown` needs to know, for a submit under
way and for one that could be pressed now, what the room will hold by the time it is
served (`Settled`): the last placement sent before it, or nothing that can be submitted
after a pass, or what the room holds already. `ShownInv` says so for every submit in the
queue and for the button, as long as no placement has strayed; it is kept because the
engine drops the placement whenever the turn moves (which also ends `strayed`), and
because a placement of the opponent in the player's turn has strayed. `ClearedInv` keeps
what a read loop needs between check and call: its command is still the first and one of
those that are checked, and the game is started; that it is still the player's turn it
does not say, which is why the property asks. `SeatsInv` (the room is started with
these two players) and `SentInv` (what is under way is among `Placements`) support it.
`ShowsOnlyRealLetters`: every board under way, being built or shown is a part of the board
as it is (`RealInv`), which the board's permanence preserves whatever overtakes what.
`PageDrivesEngine`: what a page and its opponent send makes a behaviour of the engine, if
the engine's clients may ask to exchange any letters; the engine's properties follow.

**Only model-checked**, because out of the prover's reach: liveness, that is
`QuietDisconnectStopsLoops`, `MessagesAreSent` and `RequestsAreServed` of RoomSessions
and `PageCatchesUp` of GamePage. Every invariant and every action property of the passing
runs is a theorem.

## 6. Not modelled

Calls of the engine, of the member list and of the room map that overlap in time
(data races: one call is one step here); JSON and UTF-8 conversion, and the checks of
how a name, an address or a password is spelled (`Nicks`, `Emails` are what they
accept); board prices, which the code does not use; CORS; the stubs `GameViewBuilder`
and `Player`; `api/sqlite.cpp`, whose table does not exist; the prototypes under
`src/test`; of the web client the list of games, the forms and the HTTP helper, which
keep no state of a game; dictionary script, test client, docker files and diagrams.

Some things are modelled in one module and left out of another: the page's connection does
not break (RoomSessions has that), and its opponent has one tab. Two tabs of one player
are in GameRoom, where they make `ClearedIsToMove` false and no run is about them. The
condition variable of a queue is userver's: a waiting send loop is modelled as one that may
go on when the queue has a message, so a wake-up that goes astray is out of the model's
sight. A broken connection is one that `chat.Send` and `TryRecv` may throw on, at any
time; a token is good for ever because
nothing in the code ends it. The server gives the engine a dictionary that accepts every
word (`http.cpp:516`); the runs and theorems about words use a real one, as the
constructor's documentation intends.

## 7. Plan

1. Done: Board, WordFinder, TurnGame, ScrabbleGame, ScrabbleRules, GameRoom,
   RoomSessions, GameLobby, Accounts with Membership, GamePage, and the proofs of each.
2. Next modules: the page over a connection that breaks and is opened again, or of a
   player who has it open twice.
3. Next proofs: the safety properties of such a page; an abstract list of games that
   GameLobby implements, as Accounts implements Membership.
