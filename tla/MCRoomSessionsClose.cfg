\* A member leaves while a request waits for the room lock.
SPECIFICATION Spec
CONSTANTS
  host = host
  guest = guest
  h1 = h1
  h2 = h2
  g1 = g1
  Users = {host, guest}
  Conns = {h1, g1}
  UserOf <- MCUserOf
  Writers = {"join"}
  Rooms <- OnlyLeaving
  QueueMax = 1
CHECK_DEADLOCK FALSE
PROPERTIES
  DisconnectStopsLoops
