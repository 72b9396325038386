----------------------------- MODULE MCAccounts -----------------------------
(***************************************************************************)
(* Two names, two addresses and two passwords, two requests at once.       *)
(***************************************************************************)
EXTENDS Accounts, TLC

CONSTANTS ann, bob,       \* names
          mailA, mailB,   \* addresses
          p, q,           \* passwords
          w1, w2          \* requests

Symmetry ==
    Permutations(Nicks) \cup Permutations(Emails) \cup
    Permutations(Passwords) \cup Permutations(Workers)
=============================================================================
