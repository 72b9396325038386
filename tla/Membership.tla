----------------------------- MODULE Membership -----------------------------
(***************************************************************************)
(* What registration and login promise to who plays: one becomes a member  *)
(* in one step, with a name and an address nobody else has, and stays one; *)
(* who is told that he is a member is one; a token is made out to one      *)
(* member for good, and given to who named that member and his password.   *)
(*                                                                         *)
(* Requests, statements, transactions, failures and restarts are not part  *)
(* of this specification; Accounts is shown to implement it.               *)
(***************************************************************************)
EXTENDS Naturals

CONSTANTS Nicks, Emails, Passwords

VARIABLES members,    \* who is registered
          tokens,     \* the tokens made out so far, and to whom
          welcomed,   \* who has been told that he is a member
          held        \* the tokens that have been given, and to whom

vars == <<members, tokens, welcomed, held>>

Members == [id : Nat, username : Nicks, email : Emails, passwd : Passwords]

Init ==
    /\ members = {}
    /\ tokens = {}
    /\ welcomed = {}
    /\ held = {}

\* Somebody becomes a member under an id, a name and an address that are nobody's.
Join ==
    /\ \E m \in members' :
        /\ m \in Members
        /\ members' = members \cup {m}
        /\ \A other \in members :
            /\ other.id # m.id
            /\ other.username # m.username
            /\ other.email # m.email
    /\ UNCHANGED <<tokens, welcomed, held>>

\* A member is told that he is one.
Welcome(m) ==
    /\ welcomed' = welcomed \cup {[nick |-> m.username, passwd |-> m.passwd]}
    /\ UNCHANGED <<members, tokens, held>>

\* A token nobody has is made out to a member.
Issue(m) ==
    /\ \E t \in tokens' :
        /\ t.user = m.id
        /\ tokens' = tokens \cup {t}
        /\ \A other \in tokens : other.jti # t.jti
    /\ UNCHANGED <<members, welcomed, held>>

\* A token that is made out to a member is given to who knows his name and password.
Give(m, t) ==
    /\ t.user = m.id
    /\ held' = held \cup {[jti |-> t.jti, login |-> m.username, passwd |-> m.passwd]}
    /\ UNCHANGED <<members, tokens, welcomed>>

Next ==
    \/ Join
    \/ \E m \in members : Welcome(m) \/ Issue(m) \/ \E t \in tokens : Give(m, t)

Spec == Init /\ [][Next]_vars
=============================================================================
