------------------------- MODULE RoomSessionsProofs -------------------------
(***************************************************************************)
(* Theorems about RoomSessions, for every number of members, connections   *)
(* and requests: queues are never popped empty, a send loop that is woken  *)
(* for nothing sends nothing, and what has been popped is sent unless      *)
(* chat.Send throws.                                                       *)
(***************************************************************************)
EXTENDS RoomSessions, FiniteSetTheorems, TLAPS

\* Clients of this room send only what the read loop can parse, on connections that do
\* not break.
WellBehaved == \A c \in Conns : {"garbage", "break"} \cap room.acts[c] = {}

\* Who is told to stop, a closed session or a cancelled task, is told so after
\* open_ has been cleared.
ClosedInv ==
    /\ \A u \in Users : closed[u] => ~open
    /\ \A c \in Conns : cancelled[c] => ~open
    /\ \A c \in Conns : read[c] = "close" => ~open

\* A loop that has popped nothing finds the room closed when it looks again.
EmptyInv == \A c \in Conns : send[c] = "recheck" /\ ~carries[c] => ~open

SessionInv == TypeOK /\ (WellBehaved => ClosedInv /\ EmptyInv) /\ EmptyNeverSent

-----------------------------------------------------------------------------
LEMMA SessionInit == Init => SessionInv
BY SessionAssumption
DEF Init, SessionInv, TypeOK, ClosedInv, EmptyInv, EmptyNeverSent, SendStates, ReadStates,
    SessionAssumption

\* Every variable keeps its type, whatever the clients send.
LEMMA SessionTypeStep ==
    ASSUME TypeOK, [Next]_vars
    PROVE  TypeOK'
<1> USE SessionAssumption DEF SessionAssumption, TypeOK, SendStates, ReadStates
<1>1. ASSUME NEW c \in Conns, Connect(c)
      PROVE  TypeOK'
    BY <1>1 DEF Connect, lockVars
<1>2. ASSUME NEW c \in Conns, CheckOpen(c) \/ LockShared(c) \/ RecheckOpen(c) \/ Send(c)
      PROVE  TypeOK'
    <2>1. CASE CheckOpen(c)
        BY <2>1 DEF CheckOpen, lockVars
    <2>2. CASE LockShared(c)
        BY <2>2 DEF LockShared
    <2>3. CASE RecheckOpen(c)
        BY <2>3 DEF RecheckOpen, lockVars
    <2>4. CASE Send(c)
        BY <2>4 DEF Send, lockVars
    <2> QED  BY <1>2, <2>1, <2>2, <2>3, <2>4
<1>3. ASSUME NEW c \in Conns, PopWait(c)
      PROVE  TypeOK'
    <2> DEFINE u == UserOf[c]
               message == ~closed[u] /\ queue[u] > 0
    <2>1. u \in Users /\ queue[u] \in Nat
        OBVIOUS
    <2>2. (IF message THEN queue[u] - 1 ELSE queue[u]) \in Nat
        BY <2>1
    <2>3. queue' = [queue EXCEPT ![u] = IF message THEN @ - 1 ELSE @]
        BY <1>3 DEF PopWait
    <2>4. queue' \in [Users -> Nat]
        BY <2>1, <2>2, <2>3
    <2>5. carries' \in [Conns -> BOOLEAN]
        BY <1>3 DEF PopWait
    <2> QED  BY <1>3, <2>4, <2>5 DEF PopWait
<1>4. ASSUME NEW c \in Conns, SendNewStates(c) \/ CloseSessions(c)
      PROVE  TypeOK'
    <2>1. CASE SendNewStates(c)
        BY <2>1 DEF SendNewStates, lockVars
    <2>2. CASE CloseSessions(c)
        BY <2>2 DEF CloseSessions, lockVars
    <2> QED  BY <1>4, <2>1, <2>2
<1>5. ASSUME NEW c \in Conns, Client(c)
      PROVE  TypeOK'
    <2>1. CASE AskState(c)
        BY <2>1 DEF AskState, lockVars
    <2>2. CASE MakeMove(c)
        BY <2>2 DEF MakeMove, lockVars
    <2>3. CASE BeginClose(c)
        BY <2>3 DEF BeginClose, lockVars
    <2>4. CASE Garbage(c)
        BY <2>4 DEF Garbage, lockVars
    <2> QED  BY <1>5, <2>1, <2>2, <2>3, <2>4 DEF Client
<1>6. ASSUME NEW w \in Writers, Request(w) \/ Own(w) \/ Release(w)
      PROVE  TypeOK'
    BY <1>6 DEF Request, Own, Release
<1>7. CASE UNCHANGED vars
    BY <1>7 DEF vars, lockVars
<1> QED
    BY <1>1, <1>2, <1>3, <1>4, <1>5, <1>6, <1>7 DEF Next, SendLoop, ReadLoop

\* No step makes a room another.
LEMMA RoomStays ==
    ASSUME [Next]_vars
    PROVE  room' = room
BY DEF Next, vars, Connect, SendLoop, CheckOpen, LockShared, PopWait, RecheckOpen, Send,
       ReadLoop, SendNewStates, CloseSessions, Client, AskState, MakeMove, BeginClose,
       Garbage, Request, Own, Release

\* The rest is kept when nothing throws out of a read loop.
LEMMA SessionStep ==
    ASSUME SessionInv, [Next]_vars
    PROVE  SessionInv'
<1> SUFFICES ASSUME WellBehaved
             PROVE  SessionInv'
    BY SessionTypeStep, RoomStays DEF SessionInv, EmptyNeverSent, WellBehaved
<1>1. TypeOK /\ TypeOK'
    BY SessionTypeStep DEF SessionInv
<1> USE RoomStays DEF WellBehaved
<1>2. UserOf \in [Conns -> Users]
    BY SessionAssumption DEF SessionAssumption
<1> USE DEF SessionInv, ClosedInv, EmptyInv, EmptyNeverSent
<1>3. ASSUME NEW c \in Conns, Connect(c)
      PROVE  SessionInv'
    BY <1>1, <1>3 DEF Connect, TypeOK
<1>4. ASSUME NEW c \in Conns, SendLoop(c)
      PROVE  SessionInv'
    <2>1. CASE CheckOpen(c)
        BY <1>1, <2>1 DEF CheckOpen, TypeOK
    <2>2. CASE LockShared(c)
        BY <1>1, <2>2 DEF LockShared, TypeOK
    <2>3. CASE PopWait(c)
        <3> DEFINE u == UserOf[c]
        <3>1. u \in Users
            BY <1>2
        <3>2. /\ carries' = [carries EXCEPT ![c] = ~closed[u] /\ queue[u] > 0]
              /\ closed[u] \/ queue[u] > 0 \/ cancelled[c]
              /\ send' = [send EXCEPT ![c] = "recheck"]
              /\ UNCHANGED <<open, closed, cancelled, read>>
            BY <2>3 DEF PopWait
        <3>3. ~carries'[c] => ~open
            BY <1>1, <3>1, <3>2 DEF TypeOK
        <3>4. send'[c] = "recheck"
            BY <1>1, <3>2 DEF TypeOK
        <3>5. \A d \in Conns \ {c} : send'[d] = send[d] /\ carries'[d] = carries[d]
            BY <1>1, <3>2 DEF TypeOK
        <3> QED  BY <1>1, <3>2, <3>3, <3>4, <3>5
    <2>4. CASE RecheckOpen(c)
        BY <1>1, <2>4 DEF RecheckOpen, TypeOK
    <2>5. CASE Send(c)
        BY <1>1, <2>5 DEF Send, MayThrow, TypeOK
    <2> QED  BY <1>4, <2>1, <2>2, <2>3, <2>4, <2>5 DEF SendLoop
<1>5. ASSUME NEW c \in Conns, ReadLoop(c)
      PROVE  SessionInv'
    BY <1>1, <1>5 DEF ReadLoop, SendNewStates, CloseSessions, TypeOK
<1>6. ASSUME NEW c \in Conns, Client(c)
      PROVE  SessionInv'
    <2>1. ~Garbage(c)
        BY DEF Garbage
    <2> QED  BY <1>1, <1>6, <2>1 DEF Client, AskState, MakeMove, BeginClose, TypeOK
<1>7. ASSUME NEW w \in Writers, Request(w) \/ Own(w) \/ Release(w)
      PROVE  SessionInv'
    BY <1>1, <1>7 DEF Request, Own, Release
<1>8. CASE UNCHANGED vars
    BY <1>1, <1>8 DEF vars
<1> QED  BY <1>3, <1>4, <1>5, <1>6, <1>7, <1>8 DEF Next

\* No queue is popped when it is empty (its length would become negative), with
\* several tabs of one member waiting on one queue and whatever clients send.
THEOREM SessionsAreTyped == Spec => []TypeOK
<1>1. Init => TypeOK
    BY SessionInit DEF SessionInv
<1> QED  BY <1>1, SessionTypeStep, PTL DEF Spec

\* When clients send only what can be parsed and no connection breaks, no send loop ever sends the empty
\* string of a wait that was ended by a close: any number of tabs, members and
\* overlapping disconnects included.
THEOREM EmptyIsNeverSent == Spec => []EmptyNeverSent
<1>1. SessionInv /\ [Next]_vars => SessionInv'
    BY SessionStep
<1>2. SessionInv => EmptyNeverSent
    BY DEF SessionInv
<1> QED  BY <1>1, <1>2, SessionInit, PTL DEF Spec

-----------------------------------------------------------------------------
(***************************************************************************)
(* Messages between the queue and the socket.                              *)
(***************************************************************************)
\* A loop has a message in its hands only between popping it and sending it; a
\* connection that is not there yet has no loop.
HandInv ==
    /\ \A c \in Conns : carries[c] => send[c] \in {"recheck", "send", "done"}
    /\ \A c \in Conns : read[c] = "none" => send[c] = "none"

\* The loops that have a message for a member in their hands.
Carriers(u) == {c \in Conns : UserOf[c] = u /\ carries[c] /\ send[c] # "done"}

LEMMA CarriersCounted ==
    ASSUME NEW u
    PROVE  /\ IsFiniteSet(Carriers(u)) /\ Cardinality(Carriers(u)) \in Nat
           /\ IsFiniteSet(Carriers(u)') /\ Cardinality(Carriers(u)') \in Nat
           /\ OnTheWay(u) = queue[u] + Cardinality(Carriers(u))
           /\ OnTheWay(u)' = queue'[u] + Cardinality(Carriers(u)')
<1>1. Carriers(u) \subseteq Conns /\ Carriers(u)' \subseteq Conns
    BY DEF Carriers
<1>2. IsFiniteSet(Carriers(u)) /\ IsFiniteSet(Carriers(u)')
    BY <1>1, FS_Subset, SessionAssumption DEF SessionAssumption
<1> QED  BY <1>2, FS_CardinalityType DEF OnTheWay, Carriers

LEMMA HandStep ==
    ASSUME TypeOK, HandInv, [Next]_vars
    PROVE  HandInv'
<1> USE DEF HandInv, TypeOK
<1>1. ASSUME NEW c \in Conns, Connect(c)
      PROVE  HandInv'
    BY <1>1 DEF Connect
<1>2. ASSUME NEW c \in Conns, CheckOpen(c) \/ LockShared(c) \/ RecheckOpen(c) \/ Send(c)
      PROVE  HandInv'
    BY <1>2 DEF CheckOpen, LockShared, RecheckOpen, Send
<1>3. ASSUME NEW c \in Conns, PopWait(c)
      PROVE  HandInv'
    BY <1>3 DEF PopWait
<1>4. ASSUME NEW c \in Conns, ReadLoop(c) \/ Client(c)
      PROVE  HandInv'
    BY <1>4 DEF ReadLoop, SendNewStates, CloseSessions, Client, AskState, MakeMove,
                BeginClose, Garbage
<1>5. ASSUME NEW w \in Writers, Request(w) \/ Own(w) \/ Release(w)
      PROVE  HandInv'
    BY <1>5 DEF Request, Own, Release
<1>6. CASE UNCHANGED vars
    BY <1>6 DEF vars
<1> QED  BY <1>1, <1>2, <1>3, <1>4, <1>5, <1>6 DEF Next, SendLoop

\* Where the loops keep what they have and the queue does not get shorter, nothing
\* gets less.
LEMMA KeepsOnTheWay ==
    ASSUME TypeOK, TypeOK', NEW u \in Users, Carriers(u)' = Carriers(u),
           queue'[u] >= queue[u]
    PROVE  OnTheWay(u)' >= OnTheWay(u)
<1>1. queue[u] \in Nat /\ queue'[u] \in Nat
    BY DEF TypeOK
<1> QED  BY <1>1, CarriersCounted

\* What is popped goes from the queue into the hands of the loop that pops it.
LEMMA PopKeepsOnTheWay ==
    ASSUME TypeOK, TypeOK', HandInv, NEW c \in Conns, PopWait(c), NEW u \in Users
    PROVE  OnTheWay(u)' >= OnTheWay(u)
<1> DEFINE message == ~closed[UserOf[c]] /\ queue[UserOf[c]] > 0
<1>1. /\ UserOf[c] \in Users
      /\ send[c] = "pop" /\ ~carries[c]
      /\ send' = [send EXCEPT ![c] = "recheck"]
      /\ carries' = [carries EXCEPT ![c] = message]
      /\ queue' = [queue EXCEPT ![UserOf[c]] = IF message THEN @ - 1 ELSE @]
    BY SessionAssumption DEF SessionAssumption, PopWait, HandInv
<1>2. c \notin Carriers(u)
    BY <1>1 DEF Carriers
<1>3. queue[u] \in Nat /\ queue'[u] \in Nat
    BY DEF TypeOK
<1>4. CASE UserOf[c] = u /\ message
    <2>1. Carriers(u)' = Carriers(u) \cup {c}
        <3>1. carries' = [carries EXCEPT ![c] = TRUE]
            BY <1>1, <1>4
        <3>2. carries'[c] /\ send'[c] = "recheck"
            BY <1>1, <3>1 DEF TypeOK
        <3>3. \A d \in Conns \ {c} : send'[d] = send[d] /\ carries'[d] = carries[d]
            BY <1>1, <3>1 DEF TypeOK
        <3> QED  BY <1>4, <3>2, <3>3 DEF Carriers
    <2>2. Cardinality(Carriers(u)') = Cardinality(Carriers(u)) + 1
        BY <1>2, <2>1, FS_AddElement, CarriersCounted
    <2>3. queue'[u] = queue[u] - 1
        BY <1>1, <1>4 DEF TypeOK
    <2> QED  BY <1>3, <2>2, <2>3, CarriersCounted
<1>5. CASE ~(UserOf[c] = u /\ message)
    <2>1. Carriers(u)' = Carriers(u)
        BY <1>1, <1>5 DEF Carriers, TypeOK
    <2>2. queue'[u] = queue[u]
        BY <1>1, <1>5 DEF TypeOK
    <2> QED  BY <1>3, <2>1, <2>2, KeepsOnTheWay
<1> QED  BY <1>4, <1>5

\* A send loop sends what it has, once, or loses it when chat.Send throws.
LEMMA SendTakesOne ==
    ASSUME TypeOK, TypeOK', NEW c \in Conns, Send(c), NEW u \in Users
    PROVE  \/ OnTheWay(u)' >= OnTheWay(u)
           \/ /\ OnTheWay(u)' = OnTheWay(u) - 1
              /\ UserOf[c] = u /\ carries[c] /\ send[c] = "send"
              /\ send'[c] = "check" \/ (MayThrow(c) /\ send'[c] = "done")
<1>1. /\ send[c] = "send" /\ queue' = queue
      /\ send'[c] = "check" \/ (MayThrow(c) /\ send'[c] = "done")
      /\ \A d \in Conns \ {c} : send'[d] = send[d]
      /\ carries' = [carries EXCEPT ![c] = FALSE]
    BY DEF Send, MayThrow, TypeOK
<1>2. queue[u] \in Nat
    BY DEF TypeOK
<1>3. CASE UserOf[c] = u /\ carries[c]
    <2>1. c \in Carriers(u) /\ Carriers(u)' = Carriers(u) \ {c}
        BY <1>1, <1>3 DEF Carriers, TypeOK
    <2>2. Cardinality(Carriers(u)') = Cardinality(Carriers(u)) - 1
        BY <2>1, FS_RemoveElement, CarriersCounted
    <2> QED  BY <1>1, <1>2, <1>3, <2>2, CarriersCounted
<1>4. CASE ~(UserOf[c] = u /\ carries[c])
    <2>1. Carriers(u)' = Carriers(u)
        BY <1>1, <1>4 DEF Carriers, TypeOK
    <2> QED  BY <1>1, <1>2, <2>1, KeepsOnTheWay
<1> QED  BY <1>3, <1>4

\* While a room is open, what is queued for a member is sent, one message at a time,
\* unless chat.Send throws in a cancelled task or on a broken connection; with any
\* number of tabs that pop one queue, and moves and requests that fill it.
THEOREM MessagesAreSentUnlessSendThrows == Spec => SentUnlessSendThrows
<1> DEFINE Left(u) ==
               \/ OnTheWay(u)' >= OnTheWay(u)
               \/ ~open
               \/ /\ OnTheWay(u)' = OnTheWay(u) - 1
                  /\ \E c \in Conns :
                       /\ UserOf[c] = u /\ carries[c] /\ send[c] = "send"
                       /\ send'[c] = "check" \/ (MayThrow(c) /\ send'[c] = "done")
<1>1. Init => HandInv
    BY DEF Init, HandInv
<1>2. ASSUME TypeOK, HandInv, [Next]_vars, NEW u \in Users
      PROVE  Left(u)
    <2>1. TypeOK'
        BY <1>2, SessionTypeStep
    <2>2. UserOf \in [Conns -> Users] /\ queue[u] \in Nat
        BY <1>2, SessionAssumption DEF SessionAssumption, TypeOK
    <2>3. ASSUME UNCHANGED carries, queue'[u] >= queue[u],
                 \A c \in Conns : carries[c] => (send'[c] = "done" <=> send[c] = "done")
          PROVE  Left(u)
        <3>1. Carriers(u)' = Carriers(u)
            BY <2>3 DEF Carriers
        <3> QED  BY <1>2, <2>1, <2>3, <3>1, KeepsOnTheWay
    <2>4. ASSUME NEW c \in Conns, Connect(c)
          PROVE  Left(u)
        <3>1. ~carries[c]
            BY <1>2, <2>4 DEF Connect, HandInv
        <3> QED  BY <1>2, <2>2, <2>3, <2>4, <3>1 DEF Connect, TypeOK
    <2>5. ASSUME NEW c \in Conns, CheckOpen(c) \/ LockShared(c) \/ (open /\ RecheckOpen(c))
          PROVE  Left(u)
        <3>1. CASE open /\ RecheckOpen(c)
            BY <1>2, <2>2, <2>3, <3>1 DEF RecheckOpen, TypeOK
        <3>2. CASE CheckOpen(c) \/ LockShared(c)
            <4>1. ~carries[c]
                BY <1>2, <3>2 DEF CheckOpen, LockShared, HandInv
            <4> QED  BY <1>2, <2>2, <2>3, <3>2, <4>1 DEF CheckOpen, LockShared, TypeOK
        <3> QED  BY <2>5, <3>1, <3>2
    <2>6. ASSUME NEW c \in Conns, PopWait(c)
          PROVE  Left(u)
        BY <1>2, <2>1, <2>6, PopKeepsOnTheWay
    <2>7. ASSUME NEW c \in Conns, Send(c)
          PROVE  Left(u)
        BY <1>2, <2>1, <2>7, SendTakesOne
    <2>8. ASSUME NEW c \in Conns, ReadLoop(c) \/ Client(c)
          PROVE  Left(u)
        <3>1. queue'[u] >= queue[u]
            BY <1>2, <2>2, <2>8
            DEF ReadLoop, SendNewStates, CloseSessions, Client, AskState, MakeMove,
                BeginClose, Garbage, TypeOK
        <3>2. UNCHANGED <<carries, send>>
            BY <2>8
            DEF ReadLoop, SendNewStates, CloseSessions, Client, AskState, MakeMove,
                BeginClose, Garbage
        <3> QED  BY <2>3, <3>1, <3>2
    <2>9. CASE UNCHANGED <<carries, send, queue>>
        BY <2>2, <2>3, <2>9
    <2> QED
        BY <1>2, <2>4, <2>5, <2>6, <2>7, <2>8, <2>9
        DEF Next, SendLoop, Request, Own, Release, vars
<1>3. TypeOK /\ HandInv /\ [Next]_vars => [\A u \in Users : Left(u)]_vars
    BY <1>2
<1>4. TypeOK /\ HandInv /\ [Next]_vars => HandInv'
    BY HandStep
<1> QED
    BY <1>1, <1>3, <1>4, SessionsAreTyped, PTL DEF Spec, SentUnlessSendThrows
=============================================================================
