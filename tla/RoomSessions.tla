---------------------------- MODULE RoomSessions ----------------------------
(***************************************************************************)
(* How the messages of a room reach its clients, and how its connections   *)
(* end: the send loop and the read loop that Handle runs for every         *)
(* websocket (src/src/api/websocket.cpp), the PlayerSession queues between *)
(* them (src/src/session/PlayerSession.cpp), and the lock and the flag of  *)
(* GameRoom (src/src/session/GameRoom.cpp) all of them share.              *)
(*                                                                         *)
(* The send loop waits for a message INSIDE wait_for_message, that is with *)
(* the room's SharedMutex held in shared mode.  Requests that join or start*)
(* the game take it exclusively.                                           *)
(*                                                                         *)
(* Messages are counted, not told apart.  What the engine does for a move  *)
(* is in GameRoom; here a move ends in send_new_states.                    *)
(***************************************************************************)
EXTENDS Integers, FiniteSets

CONSTANTS Users,       \* members of the room, who have a session each
          Conns,       \* websocket connections
          UserOf,      \* the member a connection belongs to
          Writers,     \* attach_session and set_players calls, one of each
          Rooms,       \* what clients do and which of the calls come, room by room
          QueueMax     \* bound: clients send nothing while a queue is this long

\* What a client may do: ask for the state now and then, or again and again as the
\* page does, make moves, close the connection, send what cannot be parsed, lose the
\* connection without closing it.
Acts == {"state", "poll", "move", "close", "garbage", "break"}

ASSUME SessionAssumption ==
    /\ IsFiniteSet(Conns)
    /\ UserOf \in [Conns -> Users]
    /\ Rooms \subseteq [acts : [Conns -> SUBSET Acts], writers : SUBSET Writers]
    /\ QueueMax \in Nat \ {0}

VARIABLES open,       \* GameRoom::open_
          queue,      \* length of PlayerSession::send_queue_
          closed,     \* PlayerSession::closed_
          shared,     \* connections whose send loop holds the room lock
          waiting,    \* writers that wait for the room lock
          owner,      \* the writer that has it, in a set
          finished,   \* writers that are done
          send,       \* where the send loop of a connection stands
          carries,    \* whether the string it has popped is a message
          read,       \* where the read loop of a connection stands
          cancelled,  \* Handle has left and cancels the send loop
          room        \* which room this is; never changes

lockVars == <<shared, waiting, owner, finished>>
vars == <<open, queue, closed, lockVars, send, carries, read, cancelled, room>>

-----------------------------------------------------------------------------
\* engine::SharedMutex: a reader does not enter while a writer waits.
CanShare == owner = {} /\ waiting = {}

CanOwn == owner = {} /\ shared = {}

SendStates == {"none", "check", "lock", "pop", "recheck", "send", "done"}
ReadStates == {"none", "poll", "broadcast", "close", "done"}

Init ==
    /\ open = TRUE
    /\ queue = [u \in Users |-> 0]
    /\ closed = [u \in Users |-> FALSE]
    /\ shared = {}
    /\ waiting = {}
    /\ owner = {}
    /\ finished = {}
    /\ send = [c \in Conns |-> "none"]
    /\ carries = [c \in Conns |-> FALSE]
    /\ read = [c \in Conns |-> "none"]
    /\ cancelled = [c \in Conns |-> FALSE]
    /\ room \in Rooms

\* Handle: a member connects, both loops begin.
Connect(c) ==
    /\ read[c] = "none"
    /\ send' = [send EXCEPT ![c] = "check"]
    /\ read' = [read EXCEPT ![c] = "poll"]
    /\ UNCHANGED <<open, queue, closed, lockVars, carries, cancelled, room>>

-----------------------------------------------------------------------------
\* send_loop_: while (game->session_open())
CheckOpen(c) ==
    /\ send[c] = "check"
    /\ send' = [send EXCEPT ![c] = IF open THEN "lock" ELSE "done"]
    /\ UNCHANGED <<open, queue, closed, lockVars, carries, read, cancelled, room>>

\* wait_for_message: shared_lock.
LockShared(c) ==
    /\ send[c] = "lock"
    /\ CanShare
    /\ shared' = shared \cup {c}
    /\ send' = [send EXCEPT ![c] = "pop"]
    /\ UNCHANGED <<open, queue, closed, waiting, owner, finished, carries, read, cancelled, room>>

\* The wait does not look at the queue, or pops a queue that may be empty.
FaultyPopWaitDeaf(c) ==
    /\ send[c] = "pop"
    /\ closed[UserOf[c]] \/ cancelled[c]
    /\ shared' = shared \ {c}
    /\ send' = [send EXCEPT ![c] = "recheck"]
    /\ UNCHANGED <<open, queue, closed, waiting, owner, finished, carries, read, cancelled, room>>

FaultyPopWaitBlind(c) ==
    /\ send[c] = "pop"
    /\ closed[UserOf[c]] \/ queue[UserOf[c]] > 0 \/ cancelled[c]
    /\ carries' = [carries EXCEPT ![c] = TRUE]
    /\ queue' = [queue EXCEPT ![UserOf[c]] = @ - 1]
    /\ shared' = shared \ {c}
    /\ send' = [send EXCEPT ![c] = "recheck"]
    /\ UNCHANGED <<open, closed, waiting, owner, finished, read, cancelled, room>>

\* A task that is cancelled throws away what it has popped.
FaultyPopWaitDrops(c) ==
    LET u == UserOf[c]
        message == ~closed[u] /\ queue[u] > 0
    IN  /\ send[c] = "pop"
        /\ closed[u] \/ queue[u] > 0 \/ cancelled[c]
        /\ carries' = [carries EXCEPT ![c] = message /\ ~cancelled[c]]
        /\ queue' = [queue EXCEPT ![u] = IF message THEN @ - 1 ELSE @]
        /\ shared' = shared \ {c}
        /\ send' = [send EXCEPT ![c] = "recheck"]
        /\ UNCHANGED <<open, closed, waiting, owner, finished, read, cancelled, room>>

\* pop_wait, and the lock is released on return.  The wait ends when the session
\* is closed, when there is a message, or early when the task is cancelled; a
\* closed session gives no message even if it has some.
PopWait(c) ==
    LET u == UserOf[c]
        message == ~closed[u] /\ queue[u] > 0
    IN  /\ send[c] = "pop"
        /\ closed[u] \/ queue[u] > 0 \/ cancelled[c]
        /\ carries' = [carries EXCEPT ![c] = message]
        /\ queue' = [queue EXCEPT ![u] = IF message THEN @ - 1 ELSE @]
        /\ shared' = shared \ {c}
        /\ send' = [send EXCEPT ![c] = "recheck"]
        /\ UNCHANGED <<open, closed, waiting, owner, finished, read, cancelled, room>>

\* if (!game->session_open()) break;
RecheckOpen(c) ==
    /\ send[c] = "recheck"
    /\ send' = [send EXCEPT ![c] = IF open THEN "send" ELSE "done"]
    /\ UNCHANGED <<open, queue, closed, lockVars, carries, read, cancelled, room>>

\* In a cancelled task, or on a connection that is broken, chat.Send may throw.
MayThrow(c) == cancelled[c] \/ "break" \in room.acts[c]

\* chat.Send: the message is sent; or chat.Send throws, the message is lost and the
\* loop ends, while the read loop of the connection may run on.
Send(c) ==
    /\ send[c] = "send"
    /\ \/ send' = [send EXCEPT ![c] = "check"]
       \/ MayThrow(c) /\ send' = [send EXCEPT ![c] = "done"]
    /\ carries' = [carries EXCEPT ![c] = FALSE]
    /\ UNCHANGED <<open, queue, closed, lockVars, read, cancelled, room>>

SendLoop(c) ==
    CheckOpen(c) \/ LockShared(c) \/ PopWait(c) \/ RecheckOpen(c) \/ Send(c)

-----------------------------------------------------------------------------
\* A request that is not answered.
FaultyAskState(c) ==
    /\ {"state", "poll"} \cap room.acts[c] # {}
    /\ read[c] = "poll"
    /\ UNCHANGED vars

\* The client sends something the read loop answers in the client's own queue,
\* without the room lock: a state request, or a move that is declined.
AskState(c) ==
    /\ {"state", "poll"} \cap room.acts[c] # {}
    /\ read[c] = "poll"
    /\ queue[UserOf[c]] < QueueMax
    /\ queue' = [queue EXCEPT ![UserOf[c]] = @ + 1]
    /\ UNCHANGED <<open, closed, lockVars, send, carries, read, cancelled, room>>

\* The client makes a move that is accepted.
MakeMove(c) ==
    /\ "move" \in room.acts[c]
    /\ read[c] = "poll"
    /\ \A u \in Users : queue[u] < QueueMax
    /\ read' = [read EXCEPT ![c] = "broadcast"]
    /\ UNCHANGED <<open, queue, closed, lockVars, send, carries, cancelled, room>>

\* send_new_states: with the lock shared, a message to every session.
SendNewStates(c) ==
    /\ read[c] = "broadcast"
    /\ CanShare
    /\ queue' = [u \in Users |-> queue[u] + 1]
    /\ read' = [read EXCEPT ![c] = "poll"]
    /\ UNCHANGED <<open, closed, lockVars, send, carries, cancelled, room>>

\* open_ is not cleared before the sessions are closed.
FaultyBeginClose(c) ==
    /\ "close" \in room.acts[c]
    /\ read[c] = "poll"
    /\ read' = [read EXCEPT ![c] = "close"]
    /\ UNCHANGED <<open, queue, closed, lockVars, send, carries, cancelled, room>>

\* The client closes its connection: the first half of close_session, which
\* clears open_ before it asks for the lock.
BeginClose(c) ==
    /\ "close" \in room.acts[c]
    /\ read[c] = "poll"
    /\ open' = FALSE
    /\ read' = [read EXCEPT ![c] = "close"]
    /\ UNCHANGED <<queue, closed, lockVars, send, carries, cancelled, room>>

\* Only the leaving member's session is closed.
FaultyCloseSessions(c) ==
    /\ read[c] = "close"
    /\ CanShare
    /\ closed' = [closed EXCEPT ![UserOf[c]] = TRUE]
    /\ read' = [read EXCEPT ![c] = "done"]
    /\ cancelled' = [cancelled EXCEPT ![c] = TRUE]
    /\ UNCHANGED <<open, queue, lockVars, send, carries, room>>

\* The second half: with the lock shared, every session is closed.  The read
\* loop returns, and Handle cancels the send loop on its way out.
CloseSessions(c) ==
    /\ read[c] = "close"
    /\ CanShare
    /\ closed' = [u \in Users |-> TRUE]
    /\ read' = [read EXCEPT ![c] = "done"]
    /\ cancelled' = [cancelled EXCEPT ![c] = TRUE]
    /\ UNCHANGED <<open, queue, lockVars, send, carries, room>>

\* The client sends what is not JSON or has no action and parsing throws out of the
\* read loop, or TryRecv does when the connection is broken: close_session is not
\* called, the send loop is cancelled.
Garbage(c) ==
    /\ {"garbage", "break"} \cap room.acts[c] # {}
    /\ read[c] = "poll"
    /\ read' = [read EXCEPT ![c] = "done"]
    /\ cancelled' = [cancelled EXCEPT ![c] = TRUE]
    /\ UNCHANGED <<open, queue, closed, lockVars, send, carries, room>>

ReadLoop(c) == SendNewStates(c) \/ CloseSessions(c)

Client(c) == AskState(c) \/ MakeMove(c) \/ BeginClose(c) \/ Garbage(c)

-----------------------------------------------------------------------------
\* attach_session or set_players: the lock is asked for, got and given back.
Request(w) ==
    /\ w \in room.writers \ (waiting \cup owner \cup finished)
    /\ waiting' = waiting \cup {w}
    /\ UNCHANGED <<open, queue, closed, shared, owner, finished, send, carries,
                   read, cancelled, room>>

Own(w) ==
    /\ w \in waiting
    /\ CanOwn
    /\ waiting' = waiting \ {w}
    /\ owner' = {w}
    /\ UNCHANGED <<open, queue, closed, shared, finished, send, carries, read, cancelled, room>>

Release(w) ==
    /\ w \in owner
    /\ owner' = {}
    /\ finished' = finished \cup {w}
    /\ UNCHANGED <<open, queue, closed, shared, waiting, send, carries, read, cancelled, room>>

-----------------------------------------------------------------------------
Next ==
    \/ \E c \in Conns : Connect(c) \/ SendLoop(c) \/ ReadLoop(c) \/ Client(c)
    \/ \E w \in Writers : Request(w) \/ Own(w) \/ Release(w)

\* Every coroutine that can run is run, and a page that is left open polls the state
\* every 2.5 seconds (frontend/js/game_room.js:151-155) until its connection breaks
\* under a send; otherwise a client need not do anything.
Fairness ==
    /\ \A c \in Conns : WF_vars(SendLoop(c)) /\ WF_vars(ReadLoop(c))
    /\ \A c \in Conns : WF_vars("poll" \in room.acts[c] /\ send[c] # "done" /\ AskState(c))
    /\ \A w \in Writers : WF_vars(Own(w)) /\ WF_vars(Release(w))

Spec == Init /\ [][Next]_vars /\ Fairness

-----------------------------------------------------------------------------
TypeOK ==
    /\ open \in BOOLEAN
    /\ queue \in [Users -> Nat]
    /\ closed \in [Users -> BOOLEAN]
    /\ shared \subseteq Conns
    /\ waiting \subseteq Writers
    /\ owner \subseteq Writers
    /\ finished \subseteq Writers
    /\ send \in [Conns -> SendStates]
    /\ carries \in [Conns -> BOOLEAN]
    /\ read \in [Conns -> ReadStates]
    /\ cancelled \in [Conns -> BOOLEAN]
    /\ room \in Rooms

Stopped(c) == send[c] \in {"none", "done"}

\* A send loop that was woken with nothing to send stops instead of sending:
\* open_ has been cleared before the sessions are closed, so the loop sees it
\* (GameRoom.cpp:262-265, websocket.cpp:122-123).  In rooms whose clients send only
\* what can be parsed, on connections that do not break: an exception in a read loop
\* clears nothing.
EmptyNeverSent ==
    (\A c \in Conns : {"garbage", "break"} \cap room.acts[c] = {}) =>
        \A c \in Conns : send[c] = "send" => carries[c]

\* The messages for a member that are in the queue or in the hands of a loop.
OnTheWay(u) ==
    queue[u] +
        Cardinality({c \in Conns : UserOf[c] = u /\ carries[c] /\ send[c] # "done"})

\* Until the room is closed, the loops of a member's tabs take his messages one at a
\* time, and whichever loop pops one sends it: also the loop whose wait has ended
\* because its task is cancelled (PlayerSession.cpp:12-22, websocket.cpp:120-137).  The
\* one exception is a chat.Send that throws in such a task or on a broken connection:
\* then the message is lost, though another tab be alive, and its loop ends, so that a
\* connection takes one message with it at most.
SentUnlessSendThrows ==
    [][\A u \in Users :
        \/ OnTheWay(u)' >= OnTheWay(u)
        \/ ~open
        \/ /\ OnTheWay(u)' = OnTheWay(u) - 1
           /\ \E c \in Conns :
                /\ UserOf[c] = u /\ carries[c] /\ send[c] = "send"
                /\ send'[c] = "check" \/ (MayThrow(c) /\ send'[c] = "done")]_vars

\* A disconnect ends every send loop of the room (GameRoom.cpp:262-265).
DisconnectStopsLoops ==
    (\E c \in Conns : read[c] = "close") ~> \A d \in Conns : Stopped(d)

\* It does so in a room that nobody joins or starts meanwhile, whichever member of
\* it leaves, at whatever point the loops of the others are and with messages on
\* their way.
QuietDisconnectStopsLoops == room.writers = {} => DisconnectStopsLoops

\* A message queued for a member with a running send loop is sent by one of the
\* member's loops, unless the room is closed first; so it is in a room that nobody
\* joins or starts meanwhile, however many tabs wait on one queue.
MessagesAreSent ==
    room.writers = {} =>
        \A c \in Conns :
            LET u == UserOf[c]
            IN  queue[u] > 0 /\ ~Stopped(c) ~>
                    ~open \/ \E d \in Conns : UserOf[d] = u /\ send[d] = "send"

\* A join or start request of an open room gets the lock, although every
\* connected member's send loop holds it while it has nothing to send: in a room
\* whose members all have the page open.
RequestsAreServed ==
    (\A c \in Conns : "poll" \in room.acts[c]) =>
        \A w \in Writers : w \in waiting ~> ~open \/ w \in finished
=============================================================================
