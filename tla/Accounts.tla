------------------------------ MODULE Accounts ------------------------------
(***************************************************************************)
(* Who plays: registration and login (RegistrationHandler and LoginHandler,*)
(* src/src/api/http.cpp), the tables users, user_credentials and           *)
(* auth_tokens (src/sqlite/users_1.sql), and how a token that a later      *)
(* request brings names its user again.                                    *)
(*                                                                         *)
(* A registration is one transaction of two inserts, and a login is a      *)
(* query and an insert; every statement is a step, requests interleave,    *)
(* any statement may throw and the process may be stopped between any two. *)
(* What clients have been told outlives the process.                       *)
(*                                                                         *)
(* SQLite is external.  There is one connection that writes; it belongs to *)
(* a transaction until this is committed or rolled back.  Queries go to    *)
(* other connections, which see what is committed.  last_insert_rowid() is *)
(* that of the connection, whatever the table.                             *)
(*                                                                         *)
(* A hash stands for its password: VerifyPassword says whether they match. *)
(* The SHA-256 of a token stands for the token, which is never drawn twice.*)
(***************************************************************************)
EXTENDS Integers, FiniteSets

CONSTANTS Nicks,        \* what nick_check_ accepts
          Emails,       \* what email_check_ accepts
          Passwords,
          Workers,      \* requests that may overlap
          UsersMax,     \* bound: users ever registered
          TokensMax,    \* bound: tokens ever issued
          RestartsMax   \* bound: times the process is stopped

ASSUME AccountsAssumption ==
    /\ UsersMax \in Nat \ {0}
    /\ TokensMax \in Nat \ {0}
    /\ RestartsMax \in Nat
    /\ Nicks \cap Emails = {}

VARIABLES db,        \* users and user_credentials as committed, and the last id
          work,      \* the same as the connection that writes sees them
          writer,    \* the request whose transaction has that connection, in a set
          rowid,     \* last_insert_rowid() of that connection
          tokens,    \* table auth_tokens
          issued,    \* tokens drawn so far
          request,   \* what each worker is doing
          welcomed,  \* registrations that were answered with success
          held,      \* tokens clients have been given, and for which login
          restarts   \* times the process has been stopped

connection == <<db, work, writer, rowid>>
clients == <<welcomed, held>>
vars == <<connection, tokens, issued, request, clients, restarts>>

-----------------------------------------------------------------------------
UserIds == 1 .. UsersMax
TokenIds == 1 .. TokensMax

Registering == {"begin", "insertUser", "insertCredentials", "commit", "welcome"}
LoggingIn == {"select", "insertToken", "handOver"}
Steps == {"idle", "identify", "act"} \cup Registering \cup LoggingIn

\* The steps inside a transaction.
InTransaction == {"insertUser", "insertCredentials", "commit"}

Nobody == "nobody"

Idle == [at |-> "idle", login |-> Nobody, email |-> Nobody, passwd |-> Nobody,
         user |-> 0, token |-> 0]

AtStep(w, at) == request[w].at = at

Goto(w, at) == request' = [request EXCEPT ![w].at = at]

Answer(w) == request' = [request EXCEPT ![w] = Idle]

\* LoginQueryNick: users joined with their credentials.
Matches(d, nick, passwd) ==
    {u \in d.users : u.username = nick /\ [user |-> u.id, passwd |-> passwd] \in d.credentials}

Init ==
    /\ db = [users |-> {}, credentials |-> {}, last |-> 0]
    /\ work = db
    /\ writer = {}
    /\ rowid = 0
    /\ tokens = {}
    /\ issued = 0
    /\ request = [w \in Workers |-> Idle]
    /\ welcomed = {}
    /\ held = {}
    /\ restarts = 0

-----------------------------------------------------------------------------
\* RegistrationHandler::HandleRequest, for what passes both checks.
AskRegistration(w, nick, email, passwd) ==
    /\ AtStep(w, "idle")
    /\ request' = [request EXCEPT ![w] =
            [Idle EXCEPT !.at = "begin", !.login = nick, !.email = email, !.passwd = passwd]]
    /\ UNCHANGED <<connection, tokens, issued, clients, restarts>>

\* Operators named Faulty... are plausible mistakes in the definition that
\* follows them; the specification does not use them.  Here the connection is
\* not kept for one transaction.
FaultyBegin(w) ==
    /\ AtStep(w, "begin")
    /\ writer' = writer \cup {w}
    /\ Goto(w, "insertUser")
    /\ UNCHANGED <<db, work, rowid, tokens, issued, clients, restarts>>

\* register_new_user_: the transaction gets the connection.
Begin(w) ==
    /\ AtStep(w, "begin")
    /\ writer = {}
    /\ writer' = {w}
    /\ Goto(w, "insertUser")
    /\ UNCHANGED <<db, work, rowid, tokens, issued, clients, restarts>>

\* The transaction is over and was not committed: by Rollback, or by the
\* destructor when an exception leaves register_new_user_.
Rollback ==
    /\ work' = db
    /\ writer' = {}

\* A name that is taken is answered before the transaction is over.
FaultyInsertUserLeaves(w) ==
    LET r == request[w]
        row == [id |-> work.last + 1, username |-> r.login, email |-> r.email]
    IN  /\ AtStep(w, "insertUser")
        /\ IF \E u \in work.users : u.username = r.login \/ u.email = r.email
           THEN /\ Answer(w)
                /\ UNCHANGED <<work, writer, rowid>>
           ELSE /\ work.last < UsersMax
                /\ work' = [work EXCEPT !.users = @ \cup {row}, !.last = row.id]
                /\ rowid' = row.id
                /\ Goto(w, "insertCredentials")
                /\ UNCHANGED writer
        /\ UNCHANGED <<db, tokens, issued, clients, restarts>>

\* An address may be used again.
FaultyInsertUserOneKey(w) ==
    LET r == request[w]
        row == [id |-> work.last + 1, username |-> r.login, email |-> r.email]
    IN  /\ AtStep(w, "insertUser")
        /\ IF \E u \in work.users : u.username = r.login
           THEN /\ Rollback
                /\ Answer(w)
                /\ UNCHANGED rowid
           ELSE /\ work.last < UsersMax
                /\ work' = [work EXCEPT !.users = @ \cup {row}, !.last = row.id]
                /\ rowid' = row.id
                /\ Goto(w, "insertCredentials")
                /\ UNCHANGED writer
        /\ UNCHANGED <<db, tokens, issued, clients, restarts>>

\* The two inserts without a transaction.
FaultyInsertUserCommits(w) ==
    LET r == request[w]
        row == [id |-> work.last + 1, username |-> r.login, email |-> r.email]
    IN  /\ AtStep(w, "insertUser")
        /\ work.last < UsersMax
        /\ ~\E u \in work.users : u.username = r.login \/ u.email = r.email
        /\ work' = [work EXCEPT !.users = @ \cup {row}, !.last = row.id]
        /\ db' = work'
        /\ rowid' = row.id
        /\ Goto(w, "insertCredentials")
        /\ UNCHANGED <<writer, tokens, issued, clients, restarts>>

\* INSERT INTO users; username and email are UNIQUE, so a second row with
\* either is an exception.
InsertUser(w) ==
    LET r == request[w]
        row == [id |-> work.last + 1, username |-> r.login, email |-> r.email]
    IN  /\ AtStep(w, "insertUser")
        /\ IF \E u \in work.users : u.username = r.login \/ u.email = r.email
           THEN /\ Rollback
                /\ Answer(w)
                /\ UNCHANGED rowid
           ELSE /\ work.last < UsersMax
                /\ work' = [work EXCEPT !.users = @ \cup {row}, !.last = row.id]
                /\ rowid' = row.id
                /\ Goto(w, "insertCredentials")
                /\ UNCHANGED writer
        /\ UNCHANGED <<db, tokens, issued, clients, restarts>>

\* The id that registration holds for its user, which it never asked for.
FaultyInsertCredentials(w) ==
    LET row == [user |-> request[w].user, passwd |-> request[w].passwd]
    IN  /\ AtStep(w, "insertCredentials")
        /\ work' = [work EXCEPT !.credentials = @ \cup {row}]
        /\ Goto(w, "commit")
        /\ UNCHANGED <<db, writer, rowid, tokens, issued, clients, restarts>>

\* INSERT INTO user_credentials for last_insert_rowid(); user_id is the key.
InsertCredentials(w) ==
    LET row == [user |-> rowid, passwd |-> request[w].passwd]
    IN  /\ AtStep(w, "insertCredentials")
        /\ IF \E c \in work.credentials : c.user = rowid
           THEN /\ Rollback
                /\ Answer(w)
           ELSE /\ work' = [work EXCEPT !.credentials = @ \cup {row}]
                /\ Goto(w, "commit")
                /\ UNCHANGED writer
        /\ UNCHANGED <<db, rowid, tokens, issued, clients, restarts>>

Commit(w) ==
    /\ AtStep(w, "commit")
    /\ db' = work
    /\ writer' = {}
    /\ Goto(w, "welcome")
    /\ UNCHANGED <<work, rowid, tokens, issued, clients, restarts>>

\* The client is answered "100".
Welcome(w) ==
    /\ AtStep(w, "welcome")
    /\ welcomed' = welcomed \cup {[nick |-> request[w].login, passwd |-> request[w].passwd]}
    /\ Answer(w)
    /\ UNCHANGED <<connection, tokens, issued, held, restarts>>

-----------------------------------------------------------------------------
\* LoginHandler::HandleRequest; people also give their address.
AskLogin(w, login, passwd) ==
    /\ AtStep(w, "idle")
    /\ request' = [request EXCEPT ![w] =
            [Idle EXCEPT !.at = "select", !.login = login, !.passwd = passwd]]
    /\ UNCHANGED <<connection, tokens, issued, clients, restarts>>

\* The query is given the connection of a transaction.
FaultySelectUser(w) ==
    LET found == Matches(work, request[w].login, request[w].passwd)
    IN  /\ AtStep(w, "select")
        /\ IF found = {}
           THEN Answer(w)
           ELSE \E u \in found :
                request' = [request EXCEPT ![w].at = "insertToken", ![w].user = u.id]
        /\ UNCHANGED <<connection, tokens, issued, clients, restarts>>

\* login_checker_: nobody of that name, another password, or the user's id.
SelectUser(w) ==
    LET found == Matches(db, request[w].login, request[w].passwd)
    IN  /\ AtStep(w, "select")
        /\ IF found = {}
           THEN Answer(w)
           ELSE \E u \in found :
                request' = [request EXCEPT ![w].at = "insertToken", ![w].user = u.id]
        /\ UNCHANGED <<connection, tokens, issued, clients, restarts>>

\* get_token_for_client_: a statement of its own on the connection that writes.
InsertToken(w) ==
    /\ AtStep(w, "insertToken")
    /\ writer = {}
    /\ issued < TokensMax
    /\ issued' = issued + 1
    /\ tokens' = tokens \cup {[jti |-> issued', user |-> request[w].user]}
    /\ rowid' = issued'
    /\ request' = [request EXCEPT ![w].at = "handOver", ![w].token = issued']
    /\ UNCHANGED <<db, work, writer, clients, restarts>>

\* The client is answered the token.
HandOver(w) ==
    LET r == request[w]
    IN  /\ AtStep(w, "handOver")
        /\ held' = held \cup {[jti |-> r.token, login |-> r.login, passwd |-> r.passwd]}
        /\ Answer(w)
        /\ UNCHANGED <<connection, tokens, issued, welcomed, restarts>>

-----------------------------------------------------------------------------
\* A game request or a websocket brings a token.
BringToken(w, h) ==
    /\ AtStep(w, "idle")
    /\ request' = [request EXCEPT ![w] =
            [Idle EXCEPT !.at = "identify", !.login = h.login, !.token = h.jti]]
    /\ UNCHANGED <<connection, tokens, issued, clients, restarts>>

\* define_user_id_from_token_, init_user_id_: the row of the token, of which
\* neither expires_at nor revoked_at is asked.
Identify(w) ==
    LET rows == {t \in tokens : t.jti = request[w].token}
    IN  /\ AtStep(w, "identify")
        /\ IF rows = {}
           THEN Answer(w)
           ELSE \E t \in rows :
                request' = [request EXCEPT ![w].at = "act", ![w].user = t.user]
        /\ UNCHANGED <<connection, tokens, issued, clients, restarts>>

\* The request is served for that user: what it does is in GameLobby and GameRoom.
Act(w) ==
    /\ AtStep(w, "act")
    /\ Answer(w)
    /\ UNCHANGED <<connection, tokens, issued, clients, restarts>>

-----------------------------------------------------------------------------
\* A statement throws (the disk is full, memory is short): the request is
\* answered an error, a transaction it has open is rolled back.
Throw(w) ==
    /\ request[w].at \in {"begin", "select", "insertToken", "identify"} \cup InTransaction
    /\ IF w \in writer THEN Rollback ELSE UNCHANGED <<work, writer>>
    /\ Answer(w)
    /\ UNCHANGED <<db, rowid, tokens, issued, clients, restarts>>

\* The process is stopped and comes up with what was committed.
Restart ==
    /\ restarts < RestartsMax
    /\ restarts' = restarts + 1
    /\ Rollback
    /\ rowid' = 0
    /\ request' = [w \in Workers |-> Idle]
    /\ UNCHANGED <<db, tokens, issued, clients>>

Register(w) ==
    Begin(w) \/ InsertUser(w) \/ InsertCredentials(w) \/ Commit(w) \/ Welcome(w)
Login(w) == SelectUser(w) \/ InsertToken(w) \/ HandOver(w)
UseToken(w) == Identify(w) \/ Act(w)

Serve(w) == Register(w) \/ Login(w) \/ UseToken(w) \/ Throw(w)

Next ==
    \/ \E w \in Workers :
        \/ \E n \in Nicks, e \in Emails, p \in Passwords : AskRegistration(w, n, e, p)
        \/ \E login \in Nicks \cup Emails, p \in Passwords : AskLogin(w, login, p)
        \/ \E h \in held : BringToken(w, h)
        \/ Serve(w)
    \/ Restart

Spec == Init /\ [][Next]_vars

-----------------------------------------------------------------------------
Tables ==
    [users : SUBSET [id : UserIds, username : Nicks, email : Emails],
     credentials : SUBSET [user : UserIds, passwd : Passwords],
     last : 0 .. UsersMax]

Requests ==
    [at : Steps, login : Nicks \cup Emails \cup {Nobody}, email : Emails \cup {Nobody},
     passwd : Passwords \cup {Nobody}, user : UserIds \cup {0}, token : TokenIds \cup {0}]

AccountsTypeOK ==
    /\ db \in Tables
    /\ work \in Tables
    /\ writer \subseteq Workers
    /\ rowid \in Nat
    /\ tokens \subseteq [jti : TokenIds, user : UserIds]
    /\ issued \in 0 .. TokensMax
    /\ request \in [Workers -> Requests]
    /\ welcomed \subseteq [nick : Nicks, passwd : Passwords]
    /\ held \subseteq [jti : TokenIds, login : Nicks, passwd : Passwords]
    /\ restarts \in 0 .. RestartsMax

\* Nobody is registered by half: every user has one row of credentials and every
\* row of credentials a user, although they are written by two statements, either
\* may throw, and the process may be stopped between them (http.cpp:76-88).
AccountsAreWhole ==
    /\ \A u \in db.users : \E c \in db.credentials : c.user = u.id
    /\ \A c \in db.credentials : \E u \in db.users : c.user = u.id
    /\ \A c, d \in db.credentials : c.user = d.user => c = d

\* Whoever was told that he is registered can log in with the name and the
\* password he gave, and the name leads to nobody else, whatever registrations
\* of the same name or address overlapped and whatever was written on the same
\* connection, whose last_insert_rowid() names the user (http.cpp:47-50, 84-86).
WelcomedCanLogIn ==
    \A r \in welcomed :
        \E u \in db.users :
            /\ Matches(db, r.nick, r.passwd) = {u}
            /\ \A v \in db.users : v.username = r.nick => v = u

\* A request that brings a token acts for the user whose name and password were
\* given for it: what the login read is still so when the token is written and
\* whenever it is used, restarts included (http.cpp:287, 296-299, 448-457).
TokensIdentify ==
    /\ \A h \in held :
        \E u \in Matches(db, h.login, h.passwd) :
            {t.user : t \in {s \in tokens : s.jti = h.jti}} = {u.id}
    /\ \A w \in Workers : AtStep(w, "act") =>
        \E u \in db.users : u.id = request[w].user /\ u.username = request[w].login

\* The connection that writes, which every registration and login needs, belongs
\* to one request at most, and to one whose transaction is not over: a request
\* that is answered, also because a name is taken or a statement threw, has given
\* it back (http.cpp:76-88).
ConnectionIsGivenBack ==
    /\ \A w \in writer : request[w].at \in InTransaction
    /\ \A v, w \in writer : v = w

-----------------------------------------------------------------------------
\* Who is registered: a row of each table, committed.
RegistrationsIn(d) ==
    {[id |-> x[1].id, username |-> x[1].username, email |-> x[1].email, passwd |-> x[2].passwd] :
        x \in {row \in d.users \X d.credentials : row[1].id = row[2].user}}

\* What is promised to who plays.
Promised == INSTANCE Membership WITH members <- RegistrationsIn(db)

\* Registration and login keep the promise: seen from outside, becoming a member
\* is one step that takes a name and an address at once and cannot be lost, although
\* it is two inserts and a commit that other requests, exceptions and restarts come
\* between, and nobody is answered before it or is given a token of somebody else
\* (http.cpp:47-50, 76-90, 283-299).
KeepsMembers == Promised!Spec
=============================================================================
