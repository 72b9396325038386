\* A host with two tabs and a guest: a game they ask, move and leave in, and a lobby
\* they poll while others join and start.
SPECIFICATION Spec
CONSTANTS
  host = host
  guest = guest
  h1 = h1
  h2 = h2
  g1 = g1
  Users = {host, guest}
  Conns = {h1, h2, g1}
  UserOf <- MCUserOf
  Writers = {"join", "start"}
  Rooms <- PlayingOrLobby
  QueueMax = 1
CHECK_DEADLOCK FALSE
INVARIANTS
  TypeOK
  EmptyNeverSent
PROPERTIES
  SentUnlessSendThrows
  QuietDisconnectStopsLoops
  MessagesAreSent
  RequestsAreServed
