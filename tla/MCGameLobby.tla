----------------------------- MODULE MCGameLobby -----------------------------
(***************************************************************************)
(* Small instances of GameLobby: two users, two or three requests at once,*)
(* two games.                                                              *)
(***************************************************************************)
EXTENDS GameLobby, TLC

CONSTANTS host, guest,   \* users
          w1, w2, w3     \* requests

Symmetry == Permutations(Users) \cup Permutations(Workers)
=============================================================================
