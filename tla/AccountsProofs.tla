--------------------------- MODULE AccountsProofs ---------------------------
(***************************************************************************)
(* Theorems about Accounts, for any number of names, overlapping requests, *)
(* users, tokens and restarts: nobody is registered by half, what clients  *)
(* have been told stays so, and a token names its user.                    *)
(*                                                                         *)
(* The invariant says how far from db the connection that writes is at     *)
(* every step of a transaction, and what each request has learnt already.  *)
(* What a request has learnt stays true because committed rows stay.       *)
(***************************************************************************)
EXTENDS Accounts, TLAPS

-----------------------------------------------------------------------------
\* The tables keep their keys: ids are handed out in order, a name, an address and
\* a row of credentials are somebody's own.
Keyed(d) ==
    /\ \A u \in d.users : u.id =< d.last
    /\ \A u, v \in d.users :
        u.id = v.id \/ u.username = v.username \/ u.email = v.email => u = v
    /\ \A c \in d.credentials : \E u \in d.users : c.user = u.id
    /\ \A b, c \in d.credentials : b.user = c.user => b = c

\* Every user has credentials.
Whole(d) == \A u \in d.users : \E c \in d.credentials : c.user = u.id

TablesInv == Keyed(db) /\ Keyed(work) /\ Whole(db)

\* The rows the transaction of a request writes.
UserRow(w) == [id |-> rowid, username |-> request[w].login, email |-> request[w].email]
CredentialsRow(w) == [user |-> rowid, passwd |-> request[w].passwd]

\* What the connection that writes sees, besides what is committed.
Written(w) ==
    /\ AtStep(w, "insertUser") => work = db
    /\ AtStep(w, "insertCredentials") =>
        /\ db.last < rowid
        /\ work = [users |-> db.users \cup {UserRow(w)},
                   credentials |-> db.credentials, last |-> rowid]
    /\ AtStep(w, "commit") =>
        /\ db.last < rowid
        /\ work = [users |-> db.users \cup {UserRow(w)},
                   credentials |-> db.credentials \cup {CredentialsRow(w)}, last |-> rowid]

WriterInv ==
    /\ \A w \in Workers : w \in writer <=> request[w].at \in InTransaction
    /\ \A v, w \in writer : v = w
    /\ writer = {} => work = db
    /\ \A w \in Workers : Written(w)

-----------------------------------------------------------------------------
\* Somebody is registered with a name and a password, and has an id.
Registered(nick, passwd) ==
    \E u \in db.users :
        u.username = nick /\ [user |-> u.id, passwd |-> passwd] \in db.credentials

IsUser(id, nick, passwd) ==
    \E u \in db.users :
        /\ u.id = id
        /\ u.username = nick
        /\ [user |-> u.id, passwd |-> passwd] \in db.credentials

\* A token belongs to the user of that name.
TokenOf(jti, nick) ==
    \E u \in db.users : u.username = nick /\ [jti |-> jti, user |-> u.id] \in tokens

\* What a request brings, and what it has learnt.
Brings(w) ==
    /\ request[w].at \in Registering =>
        request[w].login \in Nicks /\ request[w].email \in Emails
    /\ request[w].at \in Registering \cup LoggingIn => request[w].passwd \in Passwords

Learnt(w) ==
    LET r == request[w]
    IN  /\ r.at = "welcome" => Registered(r.login, r.passwd)
        /\ r.at \in {"insertToken", "handOver"} => IsUser(r.user, r.login, r.passwd)
        /\ r.at = "handOver" => [jti |-> r.token, user |-> r.user] \in tokens
        /\ r.at = "identify" => TokenOf(r.token, r.login)
        /\ r.at = "act" => \E u \in db.users : u.id = r.user /\ u.username = r.login

RequestsInv == \A w \in Workers : Brings(w) /\ Learnt(w)

TokensInv ==
    /\ \A t \in tokens : t.jti =< issued
    /\ \A s, t \in tokens : s.jti = t.jti => s = t

ClientsInv ==
    /\ \A r \in welcomed : Registered(r.nick, r.passwd)
    /\ \A h \in held :
        /\ Registered(h.login, h.passwd)
        /\ TokenOf(h.jti, h.login)

AccountsInv ==
    /\ AccountsTypeOK
    /\ TablesInv
    /\ WriterInv
    /\ RequestsInv
    /\ TokensInv
    /\ ClientsInv

-----------------------------------------------------------------------------
(***************************************************************************)
(* Types.                                                                  *)
(***************************************************************************)
\* An idle request is one.
LEMMA IdleTyped == Idle \in Requests /\ Idle.at = "idle"
BY DEF Idle, Requests, Steps

\* A record of a request, changed to one of a request.
LEMMA RequestTyped ==
    ASSUME NEW w \in Workers, NEW r \in Requests, request \in [Workers -> Requests],
           request' = [request EXCEPT ![w] = r]
    PROVE  request' \in [Workers -> Requests]
OBVIOUS

\* Going on to another step.
LEMMA GotoTyped ==
    ASSUME NEW w \in Workers, NEW at \in Steps, request \in [Workers -> Requests], Goto(w, at)
    PROVE  request' \in [Workers -> Requests]
<1> DEFINE r == [request[w] EXCEPT !.at = at]
<1>1. r \in Requests
    BY DEF Requests
<1>2. request' = [request EXCEPT ![w] = r]
    BY DEF Goto
<1> HIDE DEF r
<1> QED  BY <1>1, <1>2

LEMMA AnswerTyped ==
    ASSUME NEW w \in Workers, request \in [Workers -> Requests], Answer(w)
    PROVE  request' \in [Workers -> Requests]
BY IdleTyped DEF Answer

LEMMA InitTyped == Init => AccountsTypeOK
<1> SUFFICES ASSUME Init
             PROVE  AccountsTypeOK
    OBVIOUS
<1>1. db \in Tables /\ work \in Tables
    BY AccountsAssumption DEF Init, Tables, AccountsAssumption
<1>2. request \in [Workers -> Requests]
    BY IdleTyped DEF Init
<1>3. restarts \in 0 .. RestartsMax /\ issued \in 0 .. TokensMax
    BY AccountsAssumption DEF Init, AccountsAssumption
<1> QED  BY <1>1, <1>2, <1>3 DEF Init, AccountsTypeOK

\* The steps that go on to another step without other changes of the tables.
LEMMA RequestStepsTyped ==
    ASSUME AccountsTypeOK, NEW w \in Workers,
           \/ \E n \in Nicks, e \in Emails, p \in Passwords : AskRegistration(w, n, e, p)
           \/ \E login \in Nicks \cup Emails, p \in Passwords : AskLogin(w, login, p)
           \/ \E h \in held : BringToken(w, h)
           \/ SelectUser(w) \/ Identify(w) \/ Act(w)
    PROVE  AccountsTypeOK'
<1>0. request \in [Workers -> Requests]
    BY DEF AccountsTypeOK
<1>1. ASSUME NEW n \in Nicks, NEW e \in Emails, NEW p \in Passwords,
             AskRegistration(w, n, e, p)
      PROVE  AccountsTypeOK'
    <2> DEFINE r == [Idle EXCEPT !.at = "begin", !.login = n, !.email = e, !.passwd = p]
    <2>1. r \in Requests
        BY DEF Idle, Requests, Steps, Registering
    <2>2. request' = [request EXCEPT ![w] = r]
        BY <1>1 DEF AskRegistration
    <2> HIDE DEF r
    <2>3. request' \in [Workers -> Requests]
        BY <1>0, <2>1, <2>2
    <2> QED  BY <1>1, <2>3 DEF AskRegistration, AccountsTypeOK, connection, clients
<1>2. ASSUME NEW login \in Nicks \cup Emails, NEW p \in Passwords, AskLogin(w, login, p)
      PROVE  AccountsTypeOK'
    <2> DEFINE r == [Idle EXCEPT !.at = "select", !.login = login, !.passwd = p]
    <2>1. r \in Requests
        BY DEF Idle, Requests, Steps, LoggingIn
    <2>2. request' = [request EXCEPT ![w] = r]
        BY <1>2 DEF AskLogin
    <2> HIDE DEF r
    <2>3. request' \in [Workers -> Requests]
        BY <1>0, <2>1, <2>2
    <2> QED  BY <1>2, <2>3 DEF AskLogin, AccountsTypeOK, connection, clients
<1>3. ASSUME NEW h \in held, BringToken(w, h)
      PROVE  AccountsTypeOK'
    <2> DEFINE r == [Idle EXCEPT !.at = "identify", !.login = h.login, !.token = h.jti]
    <2>1. r \in Requests
        BY DEF AccountsTypeOK, Idle, Requests, Steps
    <2>2. request' = [request EXCEPT ![w] = r]
        BY <1>3 DEF BringToken
    <2> HIDE DEF r
    <2>3. request' \in [Workers -> Requests]
        BY <1>0, <2>1, <2>2
    <2> QED  BY <1>3, <2>3 DEF BringToken, AccountsTypeOK, connection, clients
<1>4. ASSUME SelectUser(w) \/ Identify(w) \/ Act(w)
      PROVE  AccountsTypeOK'
    <2>1. ASSUME NEW at \in Steps, NEW id \in UserIds,
                 request' = [request EXCEPT ![w].at = at, ![w].user = id]
          PROVE  request' \in [Workers -> Requests]
        <3> DEFINE r == [request[w] EXCEPT !.at = at, !.user = id]
        <3>1. r \in Requests
            BY <1>0 DEF Requests
        <3>2. request' = [request EXCEPT ![w] = r]
            BY <1>0, <2>1
        <3> HIDE DEF r
        <3> QED  BY <1>0, <3>1, <3>2
    <2>2. \/ Answer(w)
          \/ \E at \in Steps, id \in UserIds :
                request' = [request EXCEPT ![w].at = at, ![w].user = id]
        <3>1. CASE SelectUser(w)
            <4>1. "insertToken" \in Steps
                BY DEF Steps, LoggingIn
            <4>2. \A u \in Matches(db, request[w].login, request[w].passwd) : u.id \in UserIds
                BY DEF Matches, AccountsTypeOK, Tables
            <4> QED  BY <3>1, <4>1, <4>2 DEF SelectUser
        <3>2. CASE Identify(w)
            <4>1. "act" \in Steps
                BY DEF Steps
            <4>2. \A t \in tokens : t.user \in UserIds
                BY DEF AccountsTypeOK
            <4> QED  BY <3>2, <4>1, <4>2 DEF Identify
        <3>3. CASE Act(w)
            BY <3>3 DEF Act
        <3> QED  BY <1>4, <3>1, <3>2, <3>3
    <2>3. request' \in [Workers -> Requests]
        BY <1>0, <2>1, <2>2, AnswerTyped
    <2>4. UNCHANGED <<connection, tokens, issued, clients, restarts>>
        BY <1>4 DEF SelectUser, Identify, Act
    <2> QED  BY <2>3, <2>4 DEF AccountsTypeOK, connection, clients
<1> QED  BY <1>1, <1>2, <1>3, <1>4

LEMMA RegistrationTyped ==
    ASSUME AccountsTypeOK, RequestsInv, WriterInv, NEW w \in Workers, Register(w)
    PROVE  AccountsTypeOK'
<1>0. request \in [Workers -> Requests]
    BY DEF AccountsTypeOK
<1>1. {"insertUser", "insertCredentials", "commit", "welcome"} \subseteq Steps
    BY DEF Steps, Registering
<1>2. Brings(w)
    BY DEF RequestsInv
<1>3. CASE Begin(w)
    <2>1. request' \in [Workers -> Requests]
        BY <1>0, <1>1, <1>3, GotoTyped DEF Begin
    <2> QED  BY <1>3, <2>1 DEF Begin, AccountsTypeOK, clients
<1>4. CASE InsertUser(w)
    <2>1. request' \in [Workers -> Requests]
        BY <1>0, <1>1, <1>4, GotoTyped, AnswerTyped DEF InsertUser
    <2>2. work' \in Tables
        <3> DEFINE row == [id |-> work.last + 1, username |-> request[w].login,
                           email |-> request[w].email]
        <3>1. CASE work' = db
            BY <3>1 DEF AccountsTypeOK
        <3>2. ASSUME work.last < UsersMax,
                     work' = [work EXCEPT !.users = @ \cup {row}, !.last = row.id]
              PROVE  work' \in Tables
            <4>1. work.last + 1 \in UserIds /\ work.last + 1 \in 0 .. UsersMax
                BY <3>2, AccountsAssumption DEF AccountsTypeOK, Tables, UserIds, AccountsAssumption
            <4>2. row \in [id : UserIds, username : Nicks, email : Emails]
                BY <1>2, <1>4, <4>1 DEF Brings, InsertUser, AtStep, Registering
            <4>3. work.users \cup {row} \in SUBSET [id : UserIds, username : Nicks, email : Emails]
                BY <4>2 DEF AccountsTypeOK, Tables
            <4> HIDE DEF row
            <4>4. row.id = work.last + 1
                BY DEF row
            <4> QED  BY <3>2, <4>1, <4>3, <4>4 DEF AccountsTypeOK, Tables
        <3> QED  BY <1>4, <3>1, <3>2 DEF InsertUser, Rollback
    <2>3. writer' \subseteq Workers /\ rowid' \in Nat
        BY <1>4, AccountsAssumption
        DEF InsertUser, Rollback, AccountsTypeOK, Tables, AccountsAssumption
    <2> QED  BY <1>4, <2>1, <2>2, <2>3 DEF InsertUser, AccountsTypeOK, clients
<1>5. CASE InsertCredentials(w)
    <2>1. request' \in [Workers -> Requests]
        BY <1>0, <1>1, <1>5, GotoTyped, AnswerTyped DEF InsertCredentials
    <2>2. work' \in Tables
        <3>1. CASE work' = db
            BY <3>1 DEF AccountsTypeOK
        <3>2. CASE work' = [work EXCEPT !.credentials = @ \cup
                                {[user |-> rowid, passwd |-> request[w].passwd]}]
            <4>1. request[w].passwd \in Passwords
                BY <1>2, <1>5 DEF Brings, InsertCredentials, AtStep, Registering
            <4>2. rowid \in UserIds
                <5>1. Written(w)
                    BY DEF WriterInv
                <5>2. UserRow(w) \in work.users
                    BY <1>5, <5>1 DEF Written, InsertCredentials
                <5>3. UserRow(w).id \in UserIds
                    BY <5>2 DEF AccountsTypeOK, Tables
                <5> QED  BY <5>3 DEF UserRow
            <4> QED  BY <3>2, <4>1, <4>2 DEF AccountsTypeOK, Tables
        <3> QED  BY <1>5, <3>1, <3>2 DEF InsertCredentials, Rollback
    <2>3. writer' \subseteq Workers
        BY <1>5 DEF InsertCredentials, Rollback, AccountsTypeOK
    <2> QED  BY <1>5, <2>1, <2>2, <2>3 DEF InsertCredentials, AccountsTypeOK, clients
<1>6. CASE Commit(w)
    <2>1. request' \in [Workers -> Requests]
        BY <1>0, <1>1, <1>6, GotoTyped DEF Commit
    <2> QED  BY <1>6, <2>1 DEF Commit, AccountsTypeOK, clients
<1>7. CASE Welcome(w)
    <2>1. request' \in [Workers -> Requests]
        BY <1>0, <1>7, AnswerTyped DEF Welcome
    <2>2. request[w].login \in Nicks /\ request[w].passwd \in Passwords
        BY <1>2, <1>7 DEF Brings, Welcome, AtStep, Registering
    <2>3. welcomed' \subseteq [nick : Nicks, passwd : Passwords]
        BY <1>7, <2>2 DEF Welcome, AccountsTypeOK
    <2> QED  BY <1>7, <2>1, <2>3 DEF Welcome, AccountsTypeOK, connection
<1> QED  BY <1>3, <1>4, <1>5, <1>6, <1>7 DEF Register

LEMMA LoginTyped ==
    ASSUME AccountsTypeOK, RequestsInv, NEW w \in Workers, InsertToken(w) \/ HandOver(w)
    PROVE  AccountsTypeOK'
<1>0. request \in [Workers -> Requests]
    BY DEF AccountsTypeOK
<1>1. Brings(w) /\ Learnt(w)
    BY DEF RequestsInv
<1>2. request[w].user \in UserIds /\ request[w].login \in Nicks
    <2>1. IsUser(request[w].user, request[w].login, request[w].passwd)
        BY <1>1 DEF Learnt, InsertToken, HandOver, AtStep
    <2> QED  BY <2>1 DEF IsUser, AccountsTypeOK, Tables
<1>3. CASE InsertToken(w)
    <2>1. issued' \in TokenIds /\ issued' \in 0 .. TokensMax /\ issued' \in Nat
        BY <1>3, AccountsAssumption DEF InsertToken, AccountsTypeOK, TokenIds, AccountsAssumption
    <2>2. request' \in [Workers -> Requests]
        <3> DEFINE r == [request[w] EXCEPT !.at = "handOver", !.token = issued']
        <3>1. r \in Requests
            BY <1>0, <2>1 DEF Requests, Steps, LoggingIn
        <3>2. request' = [request EXCEPT ![w] = r]
            BY <1>0, <1>3 DEF InsertToken
        <3> HIDE DEF r
        <3> QED  BY <1>0, <3>1, <3>2
    <2>3. tokens' \subseteq [jti : TokenIds, user : UserIds]
        BY <1>2, <1>3, <2>1 DEF InsertToken, AccountsTypeOK
    <2>4. rowid' \in Nat
        BY <1>3, <2>1 DEF InsertToken
    <2> QED  BY <1>3, <2>1, <2>2, <2>3, <2>4 DEF InsertToken, AccountsTypeOK, clients
<1>4. CASE HandOver(w)
    <2>1. request' \in [Workers -> Requests]
        BY <1>0, <1>4, AnswerTyped DEF HandOver
    <2>2. request[w].token \in TokenIds /\ request[w].passwd \in Passwords
        BY <1>1, <1>4
        DEF Brings, Learnt, HandOver, AtStep, LoggingIn, AccountsTypeOK
    <2>3. held' \subseteq [jti : TokenIds, login : Nicks, passwd : Passwords]
        BY <1>2, <1>4, <2>2 DEF HandOver, AccountsTypeOK
    <2> QED  BY <1>4, <2>1, <2>3 DEF HandOver, AccountsTypeOK, connection
<1> QED  BY <1>3, <1>4

LEMMA ThrowTyped ==
    ASSUME AccountsTypeOK, NEW w \in Workers, Throw(w)
    PROVE  AccountsTypeOK'
<1>1. request' \in [Workers -> Requests]
    BY AnswerTyped DEF Throw, AccountsTypeOK
<1>2. work' \in Tables /\ writer' \subseteq Workers
    BY DEF Throw, Rollback, AccountsTypeOK
<1> QED  BY <1>1, <1>2 DEF Throw, AccountsTypeOK, clients

LEMMA RestartTyped ==
    ASSUME AccountsTypeOK, Restart
    PROVE  AccountsTypeOK'
<1>1. request' \in [Workers -> Requests]
    BY IdleTyped DEF Restart
<1>2. restarts' \in 0 .. RestartsMax
    BY AccountsAssumption DEF Restart, AccountsTypeOK, AccountsAssumption
<1> QED  BY <1>1, <1>2 DEF Restart, Rollback, AccountsTypeOK, clients

LEMMA TypeStep == AccountsInv /\ [Next]_vars => AccountsTypeOK'
<1> SUFFICES ASSUME AccountsInv, [Next]_vars
             PROVE  AccountsTypeOK'
    OBVIOUS
<1>1. CASE UNCHANGED vars
    BY <1>1 DEF AccountsInv, AccountsTypeOK, vars, connection, clients
<1>2. CASE Next
    BY <1>2, RequestStepsTyped, RegistrationTyped, LoginTyped, ThrowTyped, RestartTyped
    DEF AccountsInv, Next, Serve, Login, UseToken
<1> QED  BY <1>1, <1>2

-----------------------------------------------------------------------------
(***************************************************************************)
(* The connection that writes.                                             *)
(***************************************************************************)
\* A step of one request leaves the others where they are.
LEMMA OthersStay ==
    ASSUME AccountsTypeOK, NEW w \in Workers, NEW x \in Workers \ {w},
           \/ \E n \in Nicks, e \in Emails, p \in Passwords : AskRegistration(w, n, e, p)
           \/ \E login \in Nicks \cup Emails, p \in Passwords : AskLogin(w, login, p)
           \/ \E h \in held : BringToken(w, h)
           \/ Serve(w)
    PROVE  request'[x] = request[x]
<1>1. CASE \/ \E n \in Nicks, e \in Emails, p \in Passwords : AskRegistration(w, n, e, p)
           \/ \E login \in Nicks \cup Emails, p \in Passwords : AskLogin(w, login, p)
           \/ \E h \in held : BringToken(w, h)
    BY <1>1 DEF AskRegistration, AskLogin, BringToken, AccountsTypeOK
<1>2. CASE Register(w)
    BY <1>2 DEF Register, Begin, InsertUser, InsertCredentials, Commit, Welcome,
        Goto, Answer, AccountsTypeOK
<1>3. CASE Login(w)
    BY <1>3 DEF Login, SelectUser, InsertToken, HandOver, Answer, AccountsTypeOK
<1>4. CASE UseToken(w) \/ Throw(w)
    BY <1>4 DEF UseToken, Identify, Act, Throw, Answer, AccountsTypeOK
<1> QED  BY <1>1, <1>2, <1>3, <1>4 DEF Serve

LEMMA GotoEffect ==
    ASSUME AccountsTypeOK, NEW w \in Workers, NEW at, Goto(w, at)
    PROVE  /\ request'[w].at = at
           /\ request'[w].login = request[w].login
           /\ request'[w].email = request[w].email
           /\ request'[w].passwd = request[w].passwd
           /\ request'[w].user = request[w].user
           /\ request'[w].token = request[w].token
BY DEF AccountsTypeOK, Requests, Goto

LEMMA AnswerEffect ==
    ASSUME AccountsTypeOK, NEW w \in Workers, Answer(w)
    PROVE  request'[w] = Idle /\ request'[w].at = "idle"
BY IdleTyped DEF AccountsTypeOK, Answer

\* Steps outside a transaction.
Quiet(w) ==
    /\ request[w].at \notin InTransaction
    /\ request'[w].at \notin InTransaction
    /\ UNCHANGED <<db, work, writer>>
    /\ rowid' = rowid \/ writer = {}

LEMMA QuietSteps ==
    ASSUME AccountsInv, NEW w \in Workers,
           \/ \E n \in Nicks, e \in Emails, p \in Passwords : AskRegistration(w, n, e, p)
           \/ \E login \in Nicks \cup Emails, p \in Passwords : AskLogin(w, login, p)
           \/ \E h \in held : BringToken(w, h)
           \/ Welcome(w) \/ Login(w) \/ UseToken(w)
           \/ Throw(w) /\ w \notin writer
    PROVE  Quiet(w)
<1>0. AccountsTypeOK
    BY DEF AccountsInv
<1>1. CASE \/ \E n \in Nicks, e \in Emails, p \in Passwords : AskRegistration(w, n, e, p)
           \/ \E login \in Nicks \cup Emails, p \in Passwords : AskLogin(w, login, p)
           \/ \E h \in held : BringToken(w, h)
    BY <1>0, <1>1 DEF AskRegistration, AskLogin, BringToken, AccountsTypeOK, AtStep,
        Quiet, InTransaction, Idle, connection
<1>2. CASE Welcome(w) \/ HandOver(w) \/ Act(w)
    BY <1>0, <1>2, AnswerEffect DEF Welcome, HandOver, Act, AtStep, Quiet, InTransaction, connection
<1>3. CASE SelectUser(w) \/ Identify(w)
    <2>1. \/ Answer(w)
          \/ request'[w].at \in {"insertToken", "act"}
        BY <1>0, <1>3 DEF SelectUser, Identify, AccountsTypeOK, Requests
    <2>2. request[w].at \in {"select", "identify"} /\ UNCHANGED connection
        BY <1>3 DEF SelectUser, Identify, AtStep
    <2> QED  BY <1>0, <2>1, <2>2, AnswerEffect DEF Quiet, InTransaction, connection
<1>4. CASE InsertToken(w)
    <2>1. request'[w].at = "handOver"
        BY <1>0, <1>4 DEF InsertToken, AccountsTypeOK, Requests
    <2> QED  BY <1>4, <2>1 DEF InsertToken, AtStep, Quiet, InTransaction
<1>5. CASE Throw(w) /\ w \notin writer
    <2>1. request[w].at \notin InTransaction
        BY <1>5 DEF AccountsInv, WriterInv
    <2> QED  BY <1>0, <1>5, <2>1, AnswerEffect DEF Throw, Quiet, InTransaction
<1> QED  BY <1>1, <1>2, <1>3, <1>4, <1>5 DEF Login, UseToken

\* Such a step leaves the transaction of another request as it is.
LEMMA QuietKeepsWriter ==
    ASSUME AccountsInv, NEW w \in Workers, Quiet(w),
           \A x \in Workers \ {w} : request'[x] = request[x]
    PROVE  WriterInv'
<1>0. WriterInv
    BY DEF AccountsInv
<1>1. ASSUME NEW x \in Workers
      PROVE  x \in writer' <=> request'[x].at \in InTransaction
    BY <1>0 DEF WriterInv, Quiet
<1>2. \A x, y \in writer' : x = y
    BY <1>0 DEF WriterInv, Quiet
<1>3. writer' = {} => work' = db'
    BY <1>0 DEF WriterInv, Quiet
<1>4. ASSUME NEW x \in Workers
      PROVE  Written(x)'
    <2>1. CASE x = w \/ request'[x].at \notin InTransaction
        BY <2>1 DEF Quiet, Written, AtStep, InTransaction
    <2>2. CASE x # w /\ request'[x].at \in InTransaction
        <3>1. x \in writer /\ request'[x] = request[x] /\ UNCHANGED <<db, work, rowid>>
            BY <1>0, <2>2 DEF WriterInv, Quiet
        <3>2. Written(x)
            BY <1>0 DEF WriterInv
        <3> QED  BY <3>1, <3>2 DEF Written, AtStep, UserRow, CredentialsRow
    <2> QED  BY <2>1, <2>2
<1> QED  BY <1>1, <1>2, <1>3, <1>4 DEF WriterInv

\* The steps of a transaction are those of the request that has the connection;
\* nobody has it when one begins.
LEMMA OnlyWriter ==
    ASSUME AccountsInv, NEW w \in Workers,
           Begin(w) \/ InsertUser(w) \/ InsertCredentials(w) \/ Commit(w)
             \/ (Throw(w) /\ w \in writer)
    PROVE  \A x \in Workers \ {w} : request[x].at \notin InTransaction /\ x \notin writer
<1>1. CASE Begin(w)
    BY <1>1 DEF Begin, AccountsInv, WriterInv
<1>2. CASE InsertUser(w) \/ InsertCredentials(w) \/ Commit(w) \/ (Throw(w) /\ w \in writer)
    <2>1. w \in writer
        BY <1>2 DEF InsertUser, InsertCredentials, Commit, AtStep, AccountsInv, WriterInv,
            InTransaction
    <2> QED  BY <2>1 DEF AccountsInv, WriterInv
<1> QED  BY <1>1, <1>2

LEMMA TransactionKeepsWriter ==
    ASSUME AccountsInv, NEW w \in Workers,
           Begin(w) \/ InsertUser(w) \/ InsertCredentials(w) \/ Commit(w)
             \/ (Throw(w) /\ w \in writer)
    PROVE  WriterInv'
<1>0. AccountsTypeOK /\ WriterInv /\ Written(w)
    BY DEF AccountsInv, WriterInv
<1>1. \A x \in Workers \ {w} : request'[x] = request[x]
    BY <1>0, OthersStay DEF Serve, Register
<1>2. \A x \in Workers \ {w} : request'[x].at \notin InTransaction /\ x \notin writer
    BY <1>1, OnlyWriter
\* It is enough to look at the request that makes the step.
<1>3. SUFFICES /\ writer' \subseteq {w}
               /\ w \in writer' <=> request'[w].at \in InTransaction
               /\ writer' = {} => work' = db'
               /\ Written(w)'
    <2>1. \A x \in Workers \ {w} : Written(x)'
        BY <1>2 DEF Written, AtStep, InTransaction
    <2> QED  BY <1>2, <2>1 DEF WriterInv
<1>4. writer \subseteq {w}
    BY <1>0, <1>2 DEF AccountsTypeOK
<1>5. CASE Begin(w)
    <2>1. request'[w].at = "insertUser" /\ work = db
        BY <1>0, <1>5, GotoEffect DEF Begin, WriterInv
    <2> QED  BY <1>5, <2>1 DEF Begin, Written, AtStep, InTransaction
<1>6. CASE Answer(w) /\ Rollback /\ UNCHANGED db
    <2>1. request'[w].at = "idle"
        BY <1>0, <1>6, AnswerEffect
    <2> QED  BY <1>6, <2>1 DEF Rollback, Written, AtStep, InTransaction
<1>7. CASE InsertUser(w) /\ ~(Answer(w) /\ Rollback)
    <2>1. Goto(w, "insertCredentials") /\ UNCHANGED <<db, writer>> /\ w \in writer
        BY <1>0, <1>7 DEF InsertUser, AtStep, WriterInv, InTransaction
    <2>2. work = db
        BY <1>0, <1>7 DEF InsertUser, Written
    <2>3. /\ request'[w].at = "insertCredentials"
          /\ request'[w].login = request[w].login
          /\ request'[w].email = request[w].email
        BY <1>0, <2>1, GotoEffect
    <2>4. /\ rowid' = db.last + 1
          /\ work' = [work EXCEPT
                        !.users = @ \cup {[id |-> work.last + 1, username |-> request[w].login,
                                           email |-> request[w].email]},
                        !.last = work.last + 1]
        BY <1>7, <2>2 DEF InsertUser
    <2>5. db.last < rowid'
        BY <1>0, <2>4 DEF AccountsTypeOK, Tables
    <2>6. work' = [users |-> db'.users \cup {UserRow(w)'},
                   credentials |-> db'.credentials, last |-> rowid']
        BY <1>0, <2>1, <2>2, <2>3, <2>4 DEF AccountsTypeOK, Tables, UserRow
    <2> QED  BY <1>4, <2>1, <2>3, <2>5, <2>6 DEF Written, AtStep, InTransaction
<1>8. CASE InsertCredentials(w) /\ ~(Answer(w) /\ Rollback)
    <2>1. /\ Goto(w, "commit") /\ UNCHANGED <<db, writer, rowid>> /\ w \in writer
          /\ work' = [work EXCEPT !.credentials = @ \cup {CredentialsRow(w)}]
        BY <1>0, <1>8 DEF InsertCredentials, AtStep, WriterInv, InTransaction, CredentialsRow
    <2>2. /\ db.last < rowid
          /\ work = [users |-> db.users \cup {UserRow(w)},
                     credentials |-> db.credentials, last |-> rowid]
        BY <1>0, <1>8 DEF InsertCredentials, Written
    <2>3. /\ request'[w].at = "commit"
          /\ UserRow(w)' = UserRow(w)
          /\ CredentialsRow(w)' = CredentialsRow(w)
        BY <1>0, <2>1, GotoEffect DEF UserRow, CredentialsRow
    <2>4. work' = [users |-> db'.users \cup {UserRow(w)'},
                   credentials |-> db'.credentials \cup {CredentialsRow(w)'}, last |-> rowid']
        BY <2>1, <2>2, <2>3
    <2> QED  BY <1>4, <2>1, <2>2, <2>3, <2>4 DEF Written, AtStep, InTransaction
<1>9. CASE Commit(w)
    <2>1. request'[w].at = "welcome"
        BY <1>0, <1>9, GotoEffect DEF Commit
    <2> QED  BY <1>9, <2>1 DEF Commit, Written, AtStep, InTransaction
<1> QED  BY <1>5, <1>6, <1>7, <1>8, <1>9 DEF InsertUser, InsertCredentials, Throw

LEMMA WriterStep == AccountsInv /\ [Next]_vars => WriterInv'
<1> SUFFICES ASSUME AccountsInv, [Next]_vars
             PROVE  WriterInv'
    OBVIOUS
<1>0. AccountsTypeOK /\ WriterInv
    BY DEF AccountsInv
<1>1. CASE UNCHANGED vars
    BY <1>0, <1>1 DEF vars, connection, WriterInv, Written, AtStep, UserRow, CredentialsRow
<1>2. ASSUME NEW w \in Workers,
           \/ \E n \in Nicks, e \in Emails, p \in Passwords : AskRegistration(w, n, e, p)
           \/ \E login \in Nicks \cup Emails, p \in Passwords : AskLogin(w, login, p)
           \/ \E h \in held : BringToken(w, h)
           \/ Serve(w)
      PROVE  WriterInv'
    <2>1. \A x \in Workers \ {w} : request'[x] = request[x]
        BY <1>0, <1>2, OthersStay
    <2>2. Quiet(w) => WriterInv'
        BY <2>1, QuietKeepsWriter
    <2> QED  BY <1>2, <2>2, QuietSteps, TransactionKeepsWriter DEF Serve, Register
<1>3. CASE Restart
    <2>1. writer' = {} /\ work' = db' /\ \A w \in Workers : request'[w].at = "idle"
        BY <1>3, IdleTyped DEF Restart, Rollback
    <2> QED  BY <2>1 DEF WriterInv, Written, AtStep, InTransaction
<1> QED  BY <1>1, <1>2, <1>3 DEF Next

-----------------------------------------------------------------------------
(***************************************************************************)
(* The tables.                                                             *)
(***************************************************************************)
\* db changes when a transaction is committed, the tokens when one is issued.
LEMMA WhoWrites ==
    ASSUME [Next]_vars
    PROVE  /\ UNCHANGED db \/ \E w \in Workers : Commit(w)
           /\ UNCHANGED tokens \/ \E w \in Workers : InsertToken(w)
           /\ \/ UNCHANGED work
              \/ work' = db /\ UNCHANGED db
              \/ \E w \in Workers : InsertUser(w) \/ InsertCredentials(w)
BY DEF Next, vars, connection, AskRegistration, AskLogin, BringToken, Serve, Register, Login,
    UseToken, Begin, InsertUser, InsertCredentials, Commit, Welcome, SelectUser, InsertToken,
    HandOver, Identify, Act, Throw, Restart, Rollback

\* Committed rows and tokens stay.
LEMMA RowsStay ==
    ASSUME AccountsInv, [Next]_vars
    PROVE  /\ db.users \subseteq db'.users
           /\ db.credentials \subseteq db'.credentials
           /\ tokens \subseteq tokens'
<1>1. ASSUME NEW w \in Workers, Commit(w)
      PROVE  db.users \subseteq db'.users /\ db.credentials \subseteq db'.credentials
    <2>1. Written(w)
        BY DEF AccountsInv, WriterInv
    <2> QED  BY <1>1, <2>1 DEF Commit, Written
<1>2. ASSUME NEW w \in Workers, InsertToken(w)
      PROVE  tokens \subseteq tokens'
    BY <1>2 DEF InsertToken
<1> QED  BY <1>1, <1>2, WhoWrites

\* A new user has a new id, which is the last one, and a name and an address nobody
\* has.
LEMMA UserKeepsKeys ==
    ASSUME NEW d \in Tables, Keyed(d), NEW id \in Nat, d.last < id,
           NEW name, NEW email,
           \A u \in d.users : u.username # name /\ u.email # email,
           NEW e, e.users = d.users \cup {[id |-> id, username |-> name, email |-> email]},
           e.credentials = d.credentials, e.last = id
    PROVE  Keyed(e)
<1> DEFINE row == [id |-> id, username |-> name, email |-> email]
<1>0. d.last \in Nat /\ \A u \in d.users : u.id \in Nat
    BY DEF Tables, UserIds
<1>1. \A u \in d.users : u.id =< d.last /\ u.id < id
    BY <1>0 DEF Keyed
<1>2. \A u \in e.users : u.id =< e.last
    BY <1>0, <1>1
<1>3. \A u, v \in e.users :
        u.id = v.id \/ u.username = v.username \/ u.email = v.email => u = v
    <2> SUFFICES ASSUME NEW u \in e.users, NEW v \in e.users,
                        u.id = v.id \/ u.username = v.username \/ u.email = v.email
                 PROVE  u = v
        OBVIOUS
    <2>1. CASE u \in d.users /\ v \in d.users
        BY <2>1 DEF Keyed
    <2>2. CASE u = row /\ v = row
        BY <2>2
    <2>3. CASE u \in d.users /\ v = row
        <3>1. /\ u.id < id /\ u.id \in Nat /\ v.id = id
              /\ v.username = name /\ u.username # name
              /\ v.email = email /\ u.email # email
            BY <1>0, <1>1, <2>3
        <3> QED  BY <3>1
    <2>4. CASE v \in d.users /\ u = row
        <3>1. /\ v.id < id /\ v.id \in Nat /\ u.id = id
              /\ u.username = name /\ v.username # name
              /\ u.email = email /\ v.email # email
            BY <1>0, <1>1, <2>4
        <3> QED  BY <3>1
    <2> QED  BY <2>1, <2>2, <2>3, <2>4
<1>4. \A c \in e.credentials : \E u \in e.users : c.user = u.id
    BY DEF Keyed
<1>5. \A b, c \in e.credentials : b.user = c.user => b = c
    BY DEF Keyed
<1> QED  BY <1>2, <1>3, <1>4, <1>5 DEF Keyed

\* Credentials for a user who has none.
LEMMA CredentialsKeepKeys ==
    ASSUME NEW d, Keyed(d), NEW id, NEW passwd,
           \E u \in d.users : u.id = id, \A c \in d.credentials : c.user # id,
           NEW e, e.users = d.users, e.last = d.last,
           e.credentials = d.credentials \cup {[user |-> id, passwd |-> passwd]}
    PROVE  Keyed(e)
<1> DEFINE row == [user |-> id, passwd |-> passwd]
<1>1. \A b, c \in e.credentials : b.user = c.user => b = c
    <2>1. \A b \in d.credentials : b.user # row.user
        OBVIOUS
    <2> HIDE DEF row
    <2> QED  BY <2>1 DEF Keyed, row
<1>2. \A c \in e.credentials : \E u \in e.users : c.user = u.id
    BY DEF Keyed
<1> QED  BY <1>1, <1>2 DEF Keyed

LEMMA TablesStep == AccountsInv /\ [Next]_vars => TablesInv'
<1> SUFFICES ASSUME AccountsInv, [Next]_vars
             PROVE  TablesInv'
    OBVIOUS
<1>0. AccountsTypeOK /\ TablesInv /\ \A w \in Workers : Written(w)
    BY DEF AccountsInv, WriterInv
<1>1. Keyed(work)'
    <2>1. CASE UNCHANGED work \/ (work' = db /\ UNCHANGED db)
        BY <1>0, <2>1 DEF TablesInv
    <2>2. ASSUME NEW w \in Workers, InsertUser(w), ~(Answer(w) /\ Rollback)
          PROVE  Keyed(work')
        <3>1. /\ work' = [work EXCEPT
                        !.users = @ \cup {[id |-> work.last + 1, username |-> request[w].login,
                                           email |-> request[w].email]},
                        !.last = work.last + 1]
              /\ \A u \in work.users :
                    u.username # request[w].login /\ u.email # request[w].email
            BY <2>2 DEF InsertUser
        <3>2. /\ work \in Tables /\ work.last \in Nat
              /\ Keyed(work)
            BY <1>0 DEF AccountsTypeOK, Tables, TablesInv
        <3>3. /\ work'.users = work.users \cup {[id |-> work.last + 1,
                        username |-> request[w].login, email |-> request[w].email]}
              /\ work'.credentials = work.credentials
              /\ work'.last = work.last + 1
            BY <3>1, <3>2 DEF Tables
        <3>4. work.last + 1 \in Nat /\ work.last < work.last + 1
            BY <3>2
        <3> QED  BY <3>1, <3>2, <3>3, <3>4, UserKeepsKeys
    <2>3. ASSUME NEW w \in Workers, InsertCredentials(w), ~(Answer(w) /\ Rollback)
          PROVE  Keyed(work')
        <3>1. /\ work' = [work EXCEPT !.credentials = @ \cup
                            {[user |-> rowid, passwd |-> request[w].passwd]}]
              /\ \A c \in work.credentials : c.user # rowid
            BY <2>3 DEF InsertCredentials
        <3>2. /\ work'.users = work.users /\ work'.last = work.last
              /\ work'.credentials = work.credentials \cup
                    {[user |-> rowid, passwd |-> request[w].passwd]}
            BY <1>0, <3>1 DEF AccountsTypeOK, Tables
        <3>3. \E u \in work.users : u.id = rowid
            <4>1. UserRow(w) \in work.users
                BY <1>0, <2>3 DEF Written, InsertCredentials
            <4> QED  BY <4>1 DEF UserRow
        <3>4. Keyed(work)
            BY <1>0 DEF TablesInv
        <3> QED  BY <3>1, <3>2, <3>3, <3>4, CredentialsKeepKeys
    <2>4. ASSUME NEW w \in Workers, InsertUser(w) \/ InsertCredentials(w), Rollback
          PROVE  Keyed(work')
        BY <1>0, <2>4 DEF TablesInv, Rollback
    <2> QED  BY <2>1, <2>2, <2>3, <2>4, WhoWrites
<1>2. ASSUME NEW w \in Workers, Commit(w)
      PROVE  (Keyed(db) /\ Whole(db))'
    <2>1. db' = work
        BY <1>2 DEF Commit
    <2>2. work = [users |-> db.users \cup {UserRow(w)},
                  credentials |-> db.credentials \cup {CredentialsRow(w)}, last |-> rowid]
        BY <1>0, <1>2 DEF Written, Commit
    <2>3. CredentialsRow(w).user = UserRow(w).id
        BY DEF CredentialsRow, UserRow
    <2>4. Whole(work)
        BY <1>0, <2>2, <2>3 DEF TablesInv, Whole
    <2> QED  BY <1>0, <2>1, <2>4 DEF TablesInv
<1>3. (Keyed(db) /\ Whole(db))'
    BY <1>0, <1>2, WhoWrites DEF TablesInv
<1> QED  BY <1>1, <1>3 DEF TablesInv

-----------------------------------------------------------------------------
(***************************************************************************)
(* Tokens, and what requests and clients know.                             *)
(***************************************************************************)
LEMMA TokensStep == AccountsInv /\ [Next]_vars => TokensInv'
<1> SUFFICES ASSUME AccountsInv, [Next]_vars
             PROVE  TokensInv'
    OBVIOUS
<1>0. AccountsTypeOK /\ TokensInv
    BY DEF AccountsInv
<1>1. issued \in Nat /\ \A t \in tokens : t.jti \in Nat
    BY <1>0, AccountsAssumption DEF AccountsTypeOK, TokenIds, AccountsAssumption
<1>2. CASE UNCHANGED <<tokens, issued>>
    BY <1>0, <1>2 DEF TokensInv
<1>3. ASSUME NEW w \in Workers, InsertToken(w)
      PROVE  TokensInv'
    <2> DEFINE row == [jti |-> issued', user |-> request[w].user]
    <2>1. issued' = issued + 1 /\ tokens' = tokens \cup {row}
        BY <1>3 DEF InsertToken
    <2>2. \A t \in tokens : t.jti < row.jti
        BY <1>0, <1>1, <2>1 DEF TokensInv
    <2>3. \A t \in tokens' : t.jti =< issued'
        BY <1>0, <1>1, <2>1 DEF TokensInv
    <2>4. row.jti \in Nat
        BY <1>1, <2>1
    <2> HIDE DEF row
    <2>5. \A s, t \in tokens' : s.jti = t.jti => s = t
        BY <1>0, <1>1, <2>1, <2>2, <2>4 DEF TokensInv
    <2> QED  BY <2>3, <2>5 DEF TokensInv
<1>4. UNCHANGED <<tokens, issued>> \/ \E w \in Workers : InsertToken(w)
    BY DEF Next, vars, AskRegistration, AskLogin, BringToken, Serve, Register, Login,
        UseToken, Begin, InsertUser, InsertCredentials, Commit, Welcome, SelectUser,
        HandOver, Identify, Act, Throw, Restart
<1> QED  BY <1>2, <1>3, <1>4

\* A request that makes no step knows what it knew.
LEMMA OthersKnow ==
    ASSUME AccountsInv, [Next]_vars, NEW x \in Workers, request'[x] = request[x]
    PROVE  (Brings(x) /\ Learnt(x))'
<1>1. Brings(x) /\ Learnt(x)
    BY DEF AccountsInv, RequestsInv
<1>2. Brings(x)'
    BY <1>1 DEF Brings
<1>3. tokens \subseteq tokens'
    BY RowsStay
<1>4. /\ Registered(request[x].login, request[x].passwd)
            => Registered(request[x].login, request[x].passwd)'
      /\ IsUser(request[x].user, request[x].login, request[x].passwd)
            => IsUser(request[x].user, request[x].login, request[x].passwd)'
      /\ TokenOf(request[x].token, request[x].login)
            => TokenOf(request[x].token, request[x].login)'
    BY RowsStay DEF Registered, IsUser, TokenOf
<1>5. Learnt(x)'
    BY <1>1, <1>3, <1>4, RowsStay DEF Learnt
<1> QED  BY <1>2, <1>5

\* A request that is answered knows nothing.
LEMMA IdleKnows ==
    ASSUME NEW x \in Workers, request'[x].at = "idle"
    PROVE  (Brings(x) /\ Learnt(x))'
BY DEF Brings, Learnt, Registering, LoggingIn

LEMMA LoginKnows ==
    ASSUME AccountsInv, NEW w \in Workers, SelectUser(w) \/ InsertToken(w), [Next]_vars
    PROVE  (Brings(w) /\ Learnt(w))'
<1>0. AccountsTypeOK /\ Brings(w) /\ Learnt(w)
    BY DEF AccountsInv, RequestsInv
<1>1. CASE SelectUser(w) /\ ~Answer(w)
    <2>1. PICK u \in Matches(db, request[w].login, request[w].passwd) :
                request' = [request EXCEPT ![w].at = "insertToken", ![w].user = u.id]
        BY <1>1 DEF SelectUser
    <2>2. /\ request'[w].at = "insertToken" /\ request'[w].user = u.id
          /\ request'[w].login = request[w].login /\ request'[w].passwd = request[w].passwd
        BY <1>0, <2>1 DEF AccountsTypeOK, Requests
    <2>3. IsUser(u.id, request[w].login, request[w].passwd)'
        BY <1>1, <2>1, <2>2 DEF Matches, IsUser, SelectUser, connection
    <2>4. Learnt(w)'
        BY <2>2, <2>3 DEF Learnt
    <2>5. request[w].passwd \in Passwords
        BY <1>0, <1>1 DEF Brings, SelectUser, AtStep, LoggingIn
    <2>6. Brings(w)'
        BY <2>2, <2>5 DEF Brings, Registering
    <2> QED  BY <2>4, <2>6
<1>2. CASE SelectUser(w) /\ Answer(w)
    BY <1>0, <1>2, AnswerEffect, IdleKnows
<1>3. CASE InsertToken(w)
    <2>1. /\ request'[w].at = "handOver" /\ request'[w].token = issued'
          /\ request'[w].user = request[w].user
          /\ request'[w].login = request[w].login /\ request'[w].passwd = request[w].passwd
        BY <1>0, <1>3 DEF InsertToken, AccountsTypeOK, Requests
    <2>2. IsUser(request[w].user, request[w].login, request[w].passwd)'
        BY <1>0, <1>3, <2>1 DEF Learnt, IsUser, InsertToken, AtStep
    <2>3. [jti |-> issued', user |-> request[w].user] \in tokens'
        BY <1>3 DEF InsertToken
    <2>4. Learnt(w)'
        BY <2>1, <2>2, <2>3 DEF Learnt
    <2>5. request[w].passwd \in Passwords
        BY <1>0, <1>3 DEF Brings, InsertToken, AtStep, LoggingIn
    <2>6. Brings(w)'
        BY <2>1, <2>5 DEF Brings, Registering
    <2> QED  BY <2>4, <2>6
<1> QED  BY <1>1, <1>2, <1>3

LEMMA RegistrationKnows ==
    ASSUME AccountsInv, NEW w \in Workers, Register(w), [Next]_vars
    PROVE  (Brings(w) /\ Learnt(w))'
<1>0. AccountsTypeOK /\ Brings(w) /\ Learnt(w) /\ Written(w)
    BY DEF AccountsInv, RequestsInv, WriterInv
<1>1. CASE Answer(w)
    BY <1>0, <1>1, AnswerEffect, IdleKnows
<1>2. ASSUME NEW at \in {"insertUser", "insertCredentials", "commit"}, Goto(w, at),
             request[w].at \in Registering
      PROVE  (Brings(w) /\ Learnt(w))'
    <2>1. /\ request'[w].at = at
          /\ request'[w].login = request[w].login
          /\ request'[w].email = request[w].email
          /\ request'[w].passwd = request[w].passwd
        BY <1>0, <1>2, GotoEffect
    <2>2. Brings(w)'
        BY <1>0, <1>2, <2>1 DEF Brings
    <2> QED  BY <2>1, <2>2 DEF Learnt
<1>3. CASE Begin(w) \/ InsertUser(w) \/ InsertCredentials(w)
    BY <1>1, <1>2, <1>3 DEF Begin, InsertUser, InsertCredentials, AtStep, Registering
<1>4. CASE Commit(w)
    <2>1. /\ request'[w].at = "welcome"
          /\ request'[w].login = request[w].login
          /\ request'[w].email = request[w].email
          /\ request'[w].passwd = request[w].passwd
        BY <1>0, <1>4, GotoEffect DEF Commit
    <2>2. Brings(w)'
        BY <1>0, <1>4, <2>1 DEF Brings, Commit, AtStep, Registering
    <2>3. UserRow(w) \in db'.users /\ CredentialsRow(w) \in db'.credentials
        BY <1>0, <1>4 DEF Commit, Written
    <2>4. Registered(request[w].login, request[w].passwd)'
        <3>1. /\ UserRow(w).username = request[w].login
              /\ CredentialsRow(w) = [user |-> UserRow(w).id, passwd |-> request[w].passwd]
            BY DEF UserRow, CredentialsRow
        <3>2. \E u \in db'.users :
                u.username = request[w].login
                /\ [user |-> u.id, passwd |-> request[w].passwd] \in db'.credentials
            BY <2>3, <3>1
        <3> QED  BY <2>1, <3>2 DEF Registered
    <2>5. Learnt(w)'
        BY <2>1, <2>4 DEF Learnt
    <2> QED  BY <2>2, <2>5
<1>5. CASE Welcome(w)
    BY <1>1, <1>5 DEF Welcome
<1> QED  BY <1>3, <1>4, <1>5 DEF Register

LEMMA AskingKnows ==
    ASSUME AccountsInv, NEW w \in Workers, [Next]_vars,
           \/ \E n \in Nicks, e \in Emails, p \in Passwords : AskRegistration(w, n, e, p)
           \/ \E login \in Nicks \cup Emails, p \in Passwords : AskLogin(w, login, p)
           \/ \E h \in held : BringToken(w, h)
           \/ Identify(w)
    PROVE  (Brings(w) /\ Learnt(w))'
<1>0. AccountsTypeOK /\ Learnt(w)
    BY DEF AccountsInv, RequestsInv
<1>1. ASSUME NEW n \in Nicks, NEW e \in Emails, NEW p \in Passwords,
             AskRegistration(w, n, e, p)
      PROVE  (Brings(w) /\ Learnt(w))'
    <2>1. /\ request'[w].at = "begin" /\ request'[w].login = n
          /\ request'[w].email = e /\ request'[w].passwd = p
        BY <1>0, <1>1 DEF AskRegistration, AccountsTypeOK, Idle
    <2> QED  BY <2>1 DEF Brings, Learnt
<1>2. ASSUME NEW login \in Nicks \cup Emails, NEW p \in Passwords, AskLogin(w, login, p)
      PROVE  (Brings(w) /\ Learnt(w))'
    <2>1. request'[w].at = "select" /\ request'[w].passwd = p
        BY <1>0, <1>2 DEF AskLogin, AccountsTypeOK, Idle
    <2> QED  BY <2>1 DEF Brings, Learnt, Registering
<1>3. ASSUME NEW h \in held, BringToken(w, h)
      PROVE  (Brings(w) /\ Learnt(w))'
    <2>1. /\ request'[w].at = "identify"
          /\ request'[w].login = h.login /\ request'[w].token = h.jti
        BY <1>0, <1>3 DEF BringToken, AccountsTypeOK, Idle
    <2>2. TokenOf(h.jti, h.login)
        BY DEF AccountsInv, ClientsInv
    <2>3. TokenOf(request[w].token, request[w].login)'
        <3>1. UNCHANGED <<db, tokens>>
            BY <1>3 DEF BringToken, connection
        <3> QED  BY <2>1, <2>2, <3>1 DEF TokenOf
    <2> QED  BY <2>1, <2>3 DEF Brings, Learnt, Registering, LoggingIn
<1>4. CASE Identify(w)
    <2>1. CASE Answer(w)
        BY <1>0, <2>1, AnswerEffect, IdleKnows
    <2>2. CASE ~Answer(w)
        <3>1. PICK t \in tokens :
                /\ t.jti = request[w].token
                /\ request' = [request EXCEPT ![w].at = "act", ![w].user = t.user]
            BY <1>4, <2>2 DEF Identify
        <3>2. PICK u \in db.users :
                /\ u.username = request[w].login
                /\ [jti |-> request[w].token, user |-> u.id] \in tokens
            BY <1>0, <1>4 DEF Identify, AtStep, Learnt, TokenOf
        <3>3. t = [jti |-> request[w].token, user |-> u.id]
            BY <3>1, <3>2 DEF AccountsInv, TokensInv
        <3>4. /\ request'[w].at = "act" /\ request'[w].user = u.id
              /\ request'[w].login = request[w].login
            BY <1>0, <3>1, <3>3 DEF AccountsTypeOK, Requests
        <3>5. Learnt(w)'
            BY <1>4, <3>2, <3>4 DEF Learnt, Identify, connection
        <3> QED  BY <3>4, <3>5 DEF Brings, Registering, LoggingIn
    <2> QED  BY <2>1, <2>2
<1> QED  BY <1>1, <1>2, <1>3, <1>4

LEMMA RequestsStep == AccountsInv /\ [Next]_vars => RequestsInv'
<1> SUFFICES ASSUME AccountsInv, [Next]_vars, NEW x \in Workers
             PROVE  (Brings(x) /\ Learnt(x))'
    BY DEF RequestsInv
<1>0. AccountsTypeOK
    BY DEF AccountsInv
<1>1. CASE UNCHANGED vars
    BY <1>1, OthersKnow DEF vars
<1>2. CASE Restart
    BY <1>2, IdleKnows, IdleTyped DEF Restart
<1>3. ASSUME NEW w \in Workers,
           \/ \E n \in Nicks, e \in Emails, p \in Passwords : AskRegistration(w, n, e, p)
           \/ \E login \in Nicks \cup Emails, p \in Passwords : AskLogin(w, login, p)
           \/ \E h \in held : BringToken(w, h)
           \/ Serve(w)
      PROVE  (Brings(x) /\ Learnt(x))'
    <2>1. CASE x # w
        BY <1>0, <1>3, <2>1, OthersStay, OthersKnow
    <2>2. CASE HandOver(w) \/ Act(w) \/ Throw(w)
        <3>1. Answer(w)
            BY <2>2 DEF HandOver, Act, Throw
        <3> QED  BY <1>0, <2>1, <3>1, AnswerEffect, IdleKnows
    <2>3. (SelectUser(w) \/ InsertToken(w)) => (Brings(w) /\ Learnt(w))'
        BY LoginKnows
    <2>4. Register(w) => (Brings(w) /\ Learnt(w))'
        BY RegistrationKnows
    <2> QED  BY <1>3, <2>1, <2>2, <2>3, <2>4, AskingKnows DEF Serve, Login, UseToken
<1> QED  BY <1>1, <1>2, <1>3 DEF Next

LEMMA ClientsStep == AccountsInv /\ [Next]_vars => ClientsInv'
<1> SUFFICES ASSUME AccountsInv, [Next]_vars
             PROVE  ClientsInv'
    OBVIOUS
<1>1. \A r \in welcomed : Registered(r.nick, r.passwd)
    BY DEF AccountsInv, ClientsInv
<1>2. \A h \in held : Registered(h.login, h.passwd) /\ TokenOf(h.jti, h.login)
    BY DEF AccountsInv, ClientsInv
<1>3. CASE UNCHANGED clients
    BY <1>1, <1>2, <1>3, RowsStay DEF ClientsInv, Registered, TokenOf, clients
<1>4. ASSUME NEW w \in Workers, Welcome(w)
      PROVE  ClientsInv'
    <2>1. Registered(request[w].login, request[w].passwd)
        BY <1>4 DEF AccountsInv, RequestsInv, Learnt, Welcome, AtStep
    <2>2. \A r \in welcomed' : Registered(r.nick, r.passwd)
        BY <1>1, <1>4, <2>1 DEF Welcome
    <2> QED  BY <1>2, <1>4, <2>2 DEF ClientsInv, Registered, TokenOf, Welcome, connection
<1>5. ASSUME NEW w \in Workers, HandOver(w)
      PROVE  ClientsInv'
    <2>1. /\ IsUser(request[w].user, request[w].login, request[w].passwd)
          /\ [jti |-> request[w].token, user |-> request[w].user] \in tokens
        BY <1>5 DEF AccountsInv, RequestsInv, Learnt, HandOver, AtStep
    <2>2. /\ Registered(request[w].login, request[w].passwd)
          /\ TokenOf(request[w].token, request[w].login)
        BY <2>1 DEF IsUser, Registered, TokenOf
    <2>3. \A h \in held' : Registered(h.login, h.passwd) /\ TokenOf(h.jti, h.login)
        BY <1>2, <1>5, <2>2 DEF HandOver
    <2> QED  BY <1>1, <1>5, <2>3 DEF ClientsInv, Registered, TokenOf, HandOver, connection
<1>6. UNCHANGED clients \/ \E w \in Workers : Welcome(w) \/ HandOver(w)
    BY DEF Next, vars, clients, AskRegistration, AskLogin, BringToken, Serve, Register, Login,
        UseToken, Begin, InsertUser, InsertCredentials, Commit, SelectUser, InsertToken,
        Identify, Act, Throw, Restart
<1> QED  BY <1>3, <1>4, <1>5, <1>6

-----------------------------------------------------------------------------
(***************************************************************************)
(* The theorems.                                                           *)
(***************************************************************************)
LEMMA InitInv == Init => AccountsInv
<1> SUFFICES ASSUME Init
             PROVE  AccountsInv
    OBVIOUS
<1>1. TablesInv
    BY DEF Init, TablesInv, Keyed, Whole
<1>2. WriterInv
    BY IdleTyped DEF Init, WriterInv, Written, AtStep, InTransaction
<1>3. RequestsInv
    BY IdleTyped DEF Init, RequestsInv, Brings, Learnt, Registering, LoggingIn
<1>4. TokensInv /\ ClientsInv
    BY DEF Init, TokensInv, ClientsInv
<1> QED  BY <1>1, <1>2, <1>3, <1>4, InitTyped DEF AccountsInv

\* The tables, the transaction in progress and what requests and clients know go
\* together, however registrations, logins, failures and restarts interleave.
THEOREM AccountsInvariance == Spec => []AccountsInv
<1>1. AccountsInv /\ [Next]_vars => AccountsInv'
    BY TypeStep, TablesStep, WriterStep, RequestsStep, TokensStep, ClientsStep DEF AccountsInv
<1> QED  BY <1>1, InitInv, PTL DEF Spec

\* Requests are where their handlers can be and the tables hold rows of their types:
\* no row of credentials is written for an id that is nobody's.
THEOREM AccountsTypeCorrect == Spec => []AccountsTypeOK
<1>1. AccountsInv => AccountsTypeOK
    BY DEF AccountsInv
<1> QED  BY <1>1, AccountsInvariance, PTL

\* The transaction keeps users and their credentials together, whatever throws and
\* wherever the process is stopped.
THEOREM AccountsStayWhole == Spec => []AccountsAreWhole
<1>1. AccountsInv => AccountsAreWhole
    BY DEF AccountsInv, TablesInv, Keyed, Whole, AccountsAreWhole
<1> QED  BY <1>1, AccountsInvariance, PTL

\* Whoever was answered that he is registered can log in, and only he by that name.
THEOREM WelcomedStayRegistered == Spec => []WelcomedCanLogIn
<1>1. AccountsInv => WelcomedCanLogIn
    <2> SUFFICES ASSUME AccountsInv, NEW r \in welcomed
                 PROVE  \E u \in db.users :
                            /\ Matches(db, r.nick, r.passwd) = {u}
                            /\ \A v \in db.users : v.username = r.nick => v = u
        BY DEF WelcomedCanLogIn
    <2>1. PICK u \in db.users :
            u.username = r.nick /\ [user |-> u.id, passwd |-> r.passwd] \in db.credentials
        BY DEF AccountsInv, ClientsInv, Registered
    <2>2. \A v \in db.users : v.username = r.nick => v = u
        BY <2>1 DEF AccountsInv, TablesInv, Keyed
    <2>3. Matches(db, r.nick, r.passwd) = {u}
        BY <2>1, <2>2 DEF Matches
    <2> QED  BY <2>2, <2>3
<1> QED  BY <1>1, AccountsInvariance, PTL

\* A token names the user whose name and password were given for it, and a request
\* that brings it acts for that user.
THEOREM TokensAlwaysIdentify == Spec => []TokensIdentify
<1>1. AccountsInv => TokensIdentify
    <2> SUFFICES ASSUME AccountsInv
                 PROVE  TokensIdentify
        OBVIOUS
    <2>1. ASSUME NEW h \in held
          PROVE  \E u \in Matches(db, h.login, h.passwd) :
                    {t.user : t \in {s \in tokens : s.jti = h.jti}} = {u.id}
        <3>1. PICK u \in db.users :
                u.username = h.login /\ [user |-> u.id, passwd |-> h.passwd] \in db.credentials
            BY DEF AccountsInv, ClientsInv, Registered
        <3>2. PICK v \in db.users :
                v.username = h.login /\ [jti |-> h.jti, user |-> v.id] \in tokens
            BY DEF AccountsInv, ClientsInv, TokenOf
        <3>3. u = v
            BY <3>1, <3>2 DEF AccountsInv, TablesInv, Keyed
        <3>4. \A s \in tokens : s.jti = h.jti => s = [jti |-> h.jti, user |-> u.id]
            BY <3>2, <3>3 DEF AccountsInv, TokensInv
        <3>5. {t.user : t \in {s \in tokens : s.jti = h.jti}} = {u.id}
            BY <3>2, <3>3, <3>4
        <3> QED  BY <3>1, <3>5 DEF Matches
    <2>2. ASSUME NEW w \in Workers, AtStep(w, "act")
          PROVE  \E u \in db.users :
                    u.id = request[w].user /\ u.username = request[w].login
        BY <2>2 DEF AccountsInv, RequestsInv, Learnt, AtStep
    <2> QED  BY <2>1, <2>2 DEF TokensIdentify
<1> QED  BY <1>1, AccountsInvariance, PTL

\* No request is over and keeps the connection that writes.
THEOREM ConnectionAlwaysGivenBack == Spec => []ConnectionIsGivenBack
<1>1. AccountsInv => ConnectionIsGivenBack
    BY DEF AccountsInv, AccountsTypeOK, WriterInv, ConnectionIsGivenBack
<1> QED  BY <1>1, AccountsInvariance, PTL

-----------------------------------------------------------------------------
(***************************************************************************)
(* Membership.  A registration takes effect when it is committed, a login  *)
(* when its token is inserted; everything else changes nothing that is     *)
(* promised, or tells a client what is so already.                         *)
(***************************************************************************)
Entry(u, c) == [id |-> u.id, username |-> u.username, email |-> u.email, passwd |-> c.passwd]

\* Who is registered, by the rows of the tables.
LEMMA Entries ==
    ASSUME NEW d
    PROVE  /\ \A m \in RegistrationsIn(d) : \E u \in d.users, c \in d.credentials :
                    u.id = c.user /\ m = Entry(u, c)
           /\ \A u \in d.users, c \in d.credentials :
                    u.id = c.user => Entry(u, c) \in RegistrationsIn(d)
<1>1. ASSUME NEW m \in RegistrationsIn(d)
      PROVE  \E u \in d.users, c \in d.credentials : u.id = c.user /\ m = Entry(u, c)
    <2>1. PICK x \in d.users \X d.credentials : x[1].id = x[2].user /\ m = Entry(x[1], x[2])
        BY DEF RegistrationsIn, Entry
    <2> QED  BY <2>1
<1>2. ASSUME NEW u \in d.users, NEW c \in d.credentials, u.id = c.user
      PROVE  Entry(u, c) \in RegistrationsIn(d)
    <2> DEFINE x == <<u, c>>
    <2>1. x \in {row \in d.users \X d.credentials : row[1].id = row[2].user}
        BY <1>2
    <2>2. x[1] = u /\ x[2] = c
        OBVIOUS
    <2> HIDE DEF x
    <2>3. Entry(x[1], x[2]) \in RegistrationsIn(d)
        BY <2>1 DEF RegistrationsIn, Entry
    <2> QED  BY <2>2, <2>3
<1> QED  BY <1>1, <1>2

\* Committing a registration is joining.
LEMMA CommitJoins ==
    ASSUME AccountsInv, NEW w \in Workers, Commit(w)
    PROVE  Promised!Join
<1> DEFINE new == UserRow(w)
           own == CredentialsRow(w)
           m == Entry(new, own)
<1>1. /\ db.last < rowid /\ db.last \in Nat /\ rowid \in Nat
      /\ work = [users |-> db.users \cup {new},
                 credentials |-> db.credentials \cup {own}, last |-> rowid]
      /\ db' = work
    BY DEF AccountsInv, AccountsTypeOK, Tables, WriterInv, Written, Commit
<1>2. /\ db'.users = db.users \cup {new}
      /\ db'.credentials = db.credentials \cup {own}
    BY <1>1
<1>3. /\ new.id = rowid /\ own.user = rowid
      /\ new.username = request[w].login /\ new.email = request[w].email
      /\ own.passwd = request[w].passwd
    BY DEF UserRow, CredentialsRow
<1>4. \A u \in db.users : u.id \in Nat /\ u.id < rowid
    BY <1>1 DEF AccountsInv, TablesInv, Keyed, AccountsTypeOK, Tables, UserIds
<1>5. \A c \in db.credentials : c.user # rowid
    BY <1>1, <1>4 DEF AccountsInv, TablesInv, Keyed
<1> HIDE DEF new, own
<1>6. RegistrationsIn(db') = RegistrationsIn(db) \cup {m}
    <2>1. ASSUME NEW e \in RegistrationsIn(db')
          PROVE  e \in RegistrationsIn(db) \cup {m}
        <3>1. PICK u \in db'.users, c \in db'.credentials : u.id = c.user /\ e = Entry(u, c)
            BY Entries
        <3>2. CASE u = new
            BY <1>2, <1>3, <1>5, <3>1, <3>2
        <3>3. CASE u \in db.users
            <4>1. c \in db.credentials
                BY <1>1, <1>2, <1>3, <1>4, <3>1, <3>3
            <4> QED  BY <3>1, <3>3, <4>1, Entries
        <3> QED  BY <1>2, <3>2, <3>3
    <2>2. ASSUME NEW e \in RegistrationsIn(db)
          PROVE  e \in RegistrationsIn(db')
        <3>1. PICK u \in db.users, c \in db.credentials : u.id = c.user /\ e = Entry(u, c)
            BY Entries
        <3>2. \A v \in db'.users, d \in db'.credentials :
                v.id = d.user => Entry(v, d) \in RegistrationsIn(db')
            BY Entries
        <3> QED  BY <1>2, <3>1, <3>2
    <2>3. m \in RegistrationsIn(db')
        <3>1. \A v \in db'.users, d \in db'.credentials :
                v.id = d.user => Entry(v, d) \in RegistrationsIn(db')
            BY Entries
        <3> QED  BY <1>2, <1>3, <3>1
    <2> QED  BY <2>1, <2>2, <2>3
<1>7. m \in Promised!Members
    <2>1. /\ request[w].login \in Nicks /\ request[w].email \in Emails
          /\ request[w].passwd \in Passwords
        BY DEF AccountsInv, RequestsInv, Brings, Commit, AtStep, Registering
    <2> QED  BY <1>1, <1>3, <2>1 DEF Promised!Members, Entry
<1>8. ASSUME NEW e \in RegistrationsIn(db)
      PROVE  e.id # m.id /\ e.username # m.username /\ e.email # m.email
    <2>1. PICK u \in db.users, c \in db.credentials : u.id = c.user /\ e = Entry(u, c)
        BY Entries
    <2>2. e.id = u.id /\ e.username = u.username /\ e.email = u.email
        BY <2>1 DEF Entry
    <2>3. m.id = new.id /\ m.username = new.username /\ m.email = new.email
        BY DEF Entry
    <2>4. u \in work.users /\ new \in work.users /\ u # new
        BY <1>1, <1>3, <1>4
    <2>5. u.id # new.id /\ u.username # new.username /\ u.email # new.email
        BY <2>4 DEF AccountsInv, TablesInv, Keyed
    <2> QED  BY <2>2, <2>3, <2>5
<1>9. UNCHANGED <<tokens, welcomed, held>>
    BY DEF Commit, clients
<1> HIDE DEF m
<1> QED  BY <1>6, <1>7, <1>8, <1>9 DEF Promised!Join

\* A request that has learnt who its user is knows a member.
LEMMA KnownIsMember ==
    ASSUME NEW nick, NEW passwd, NEW u \in db.users, u.username = nick,
           [user |-> u.id, passwd |-> passwd] \in db.credentials
    PROVE  \E m \in RegistrationsIn(db) : m.id = u.id /\ m.username = nick /\ m.passwd = passwd
<1> DEFINE c == [user |-> u.id, passwd |-> passwd]
<1>1. c \in db.credentials /\ u.id = c.user /\ c.passwd = passwd
    OBVIOUS
<1> HIDE DEF c
<1>2. Entry(u, c) \in RegistrationsIn(db)
    BY <1>1, Entries
<1> QED  BY <1>1, <1>2 DEF Entry

\* The answer to a registration welcomes a member.
LEMMA WelcomeTells ==
    ASSUME AccountsInv, NEW w \in Workers, Welcome(w)
    PROVE  \E m \in RegistrationsIn(db) : Promised!Welcome(m)
<1>1. Registered(request[w].login, request[w].passwd)
    BY DEF AccountsInv, RequestsInv, Learnt, Welcome, AtStep
<1>2. PICK m \in RegistrationsIn(db) :
        m.username = request[w].login /\ m.passwd = request[w].passwd
    BY <1>1, KnownIsMember DEF Registered
<1>3. UNCHANGED <<db, tokens, held>>
    BY DEF Welcome, connection
<1>4. UNCHANGED RegistrationsIn(db)
    BY <1>3 DEF RegistrationsIn
<1>5. welcomed' = welcomed \cup {[nick |-> m.username, passwd |-> m.passwd]}
    BY <1>2 DEF Welcome
<1> QED  BY <1>3, <1>4, <1>5 DEF Promised!Welcome

\* The insert of a token makes it out to the member who logs in.
LEMMA InsertTokenIssues ==
    ASSUME AccountsInv, NEW w \in Workers, InsertToken(w)
    PROVE  \E m \in RegistrationsIn(db) : Promised!Issue(m)
<1> DEFINE t == [jti |-> issued', user |-> request[w].user]
<1>1. IsUser(request[w].user, request[w].login, request[w].passwd)
    BY DEF AccountsInv, RequestsInv, Learnt, InsertToken, AtStep
<1>2. PICK m \in RegistrationsIn(db) : m.id = request[w].user
    BY <1>1, KnownIsMember DEF IsUser
<1>3. tokens' = tokens \cup {t} /\ t \in tokens' /\ t.user = m.id
    BY <1>2 DEF InsertToken
<1>4. \A other \in tokens : other.jti # t.jti
    <2>1. issued \in Nat /\ issued' = issued + 1
        BY DEF AccountsInv, AccountsTypeOK, InsertToken
    <2>2. \A other \in tokens : other.jti \in Nat /\ other.jti =< issued
        BY DEF AccountsInv, AccountsTypeOK, TokensInv, TokenIds
    <2> QED  BY <2>1, <2>2
<1>5. UNCHANGED <<db, welcomed, held>>
    BY DEF InsertToken, clients
<1>6. UNCHANGED RegistrationsIn(db)
    BY <1>5 DEF RegistrationsIn
<1> HIDE DEF t
<1> QED  BY <1>3, <1>4, <1>5, <1>6 DEF Promised!Issue

\* The answer to a login gives the token of the member whose password was named.
LEMMA HandOverGives ==
    ASSUME AccountsInv, NEW w \in Workers, HandOver(w)
    PROVE  \E m \in RegistrationsIn(db), t \in tokens : Promised!Give(m, t)
<1> DEFINE r == request[w]
           t == [jti |-> r.token, user |-> r.user]
<1>1. IsUser(r.user, r.login, r.passwd) /\ t \in tokens
    BY DEF AccountsInv, RequestsInv, Learnt, HandOver, AtStep
<1>2. PICK m \in RegistrationsIn(db) : m.id = r.user /\ m.username = r.login /\ m.passwd = r.passwd
    BY <1>1, KnownIsMember DEF IsUser
<1>3. t.user = m.id /\ t.jti = r.token
    BY <1>2
<1>4. held' = held \cup {[jti |-> t.jti, login |-> m.username, passwd |-> m.passwd]}
    BY <1>2 DEF HandOver
<1>5. UNCHANGED <<db, tokens, welcomed>>
    BY DEF HandOver, connection
<1>6. UNCHANGED RegistrationsIn(db)
    BY <1>5 DEF RegistrationsIn
<1> HIDE DEF t
<1> QED  BY <1>1, <1>3, <1>4, <1>5, <1>6 DEF Promised!Give

\* Every other step leaves what is promised alone.
LEMMA OtherStepsPromiseNothing ==
    ASSUME [Next]_vars
    PROVE  \/ UNCHANGED <<db, tokens, welcomed, held>>
           \/ \E w \in Workers : Commit(w) \/ Welcome(w) \/ InsertToken(w) \/ HandOver(w)
BY DEF Next, vars, connection, clients, AskRegistration, AskLogin, BringToken, Serve, Register,
    Login, UseToken, Begin, InsertUser, InsertCredentials, Commit, Welcome, SelectUser,
    InsertToken, HandOver, Identify, Act, Throw, Restart

\* Registration and login, made of statements that other requests, exceptions and
\* restarts come between, implement a register in which one becomes a member in one
\* step: nobody is a member by half, is told so too early, shares a name or an
\* address or is forgotten, and a token is given for the member it is made out to.
THEOREM AccountsKeepMembers == Spec => KeepsMembers
<1>1. Init => Promised!Init
    <2> SUFFICES ASSUME Init
                 PROVE  Promised!Init
        OBVIOUS
    <2>1. db.users = {}
        BY DEF Init
    <2>2. RegistrationsIn(db) = {}
        BY <2>1, Entries
    <2> QED  BY <2>2 DEF Init, Promised!Init
<1>2. AccountsInv /\ [Next]_vars => [Promised!Next]_(Promised!vars)
    <2> SUFFICES ASSUME AccountsInv, [Next]_vars
                 PROVE  Promised!Next \/ UNCHANGED Promised!vars
        OBVIOUS
    <2>1. CASE UNCHANGED <<db, tokens, welcomed, held>>
        <3>1. UNCHANGED RegistrationsIn(db)
            BY <2>1 DEF RegistrationsIn
        <3> QED  BY <2>1, <3>1 DEF Promised!vars
    <2>2. ASSUME NEW w \in Workers, Commit(w)
          PROVE  Promised!Next
        BY <2>2, CommitJoins DEF Promised!Next
    <2>3. ASSUME NEW w \in Workers, Welcome(w)
          PROVE  Promised!Next
        BY <2>3, WelcomeTells DEF Promised!Next
    <2>4. ASSUME NEW w \in Workers, InsertToken(w)
          PROVE  Promised!Next
        BY <2>4, InsertTokenIssues DEF Promised!Next
    <2>5. ASSUME NEW w \in Workers, HandOver(w)
          PROVE  Promised!Next
        BY <2>5, HandOverGives DEF Promised!Next
    <2> QED  BY <2>1, <2>2, <2>3, <2>4, <2>5, OtherStepsPromiseNothing
<1> QED  BY <1>1, <1>2, AccountsInvariance, PTL DEF Spec, KeepsMembers, Promised!Spec
=============================================================================
