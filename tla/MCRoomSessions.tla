--------------------------- MODULE MCRoomSessions ---------------------------
(***************************************************************************)
(* Small instances of RoomSessions: a host with two tabs, and a guest.     *)
(***************************************************************************)
EXTENDS RoomSessions

CONSTANTS host, guest,   \* members
          h1, h2, g1     \* their connections

MCUserOf == [c \in Conns |-> IF c = g1 THEN guest ELSE host]

\* Nobody joins or starts; one of the host's tabs asks, the guest moves, and all
\* may leave.
Playing ==
    [acts    |-> [c \in Conns |->
                    CASE c = h1 -> {"state", "close"}
                      [] c = h2 -> {"close"}
                      [] c = g1 -> {"move", "close"}],
     writers |-> {}]

\* Members poll while others join and start; a tab of the host may lose its
\* connection, and the guest may send what cannot be parsed.
Lobby ==
    [acts    |-> [c \in Conns |->
                    CASE c = h1 -> {"poll"}
                      [] c = h2 -> {"poll", "break"}
                      [] c = g1 -> {"poll", "garbage"}],
     writers |-> Writers]

\* A member leaves while somebody joins; the host has one tab.
Leaving ==
    [acts |-> [c \in Conns |-> {"state", "close"}], writers |-> {"join"}]

PlayingOrLobby == {Playing, Lobby}

OnlyLeaving == {Leaving}
=============================================================================
