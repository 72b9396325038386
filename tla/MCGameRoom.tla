----------------------------- MODULE MCGameRoom -----------------------------
(***************************************************************************)
(* Small instances of GameRoom: a board of one or two cells, one letter,  *)
(* hands of one tile; up to three users for a game of two.                 *)
(***************************************************************************)
EXTENDS GameRoom, TLC

CONSTANTS host, guest, third,   \* users
          h1, g1,               \* connections of the host and of the guest
          a,                    \* the letter
          t1, t2, t3            \* tiles

MCLetterOf == [t \in Tiles |-> a]

Put(cs, ls) == [coordinates |-> cs, tiles |-> ls]

\* One placement on each cell, and one that is refused.
MCPlacements ==
    {Put(<<<<0, 0>>>>, <<a>>), Put(<<<<1, 0>>>>, <<a>>), Put(<<<<2, 0>>>>, <<a>>)}

MCRequests == {<<a>>}

MCPlacementScore(b, p) == 1

\* All the lists of members a room of the host can have.
MCRosters ==
    {r \in {<<host>>, <<host, guest>>, <<host, third>>,
            <<host, guest, third>>, <<host, third, guest>>} :
        {r[i] : i \in DOMAIN r} \subseteq Users}

Symmetry == Permutations(Tiles)

OneEach == [c \in {h1, g1} |-> IF c = g1 THEN guest ELSE host]
=============================================================================
