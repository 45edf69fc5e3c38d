----------------------------- MODULE Sessions -----------------------------
(***************************************************************************)
(* Who gets in: accounts in PostgreSQL (table user), their sessions in     *)
(* Redis, and the requests that touch both. The two stores share no        *)
(* transaction, so every handler is a sequence of steps that the other     *)
(* handlers, a session's expiry or a crash of the API can come between.    *)
(*                                                                         *)
(* Passwords are left out: whoever logs in knows them.                     *)
(***************************************************************************)
EXTENDS Naturals, FiniteSets

CONSTANTS
    User,       \* primary keys of user; a sequence never reuses one
    Email,      \* of users, and of companies
    Session,    \* session ids: uuid4
    LoginReq, RegReq, CallReq, OffReq,  \* requests in flight, by handler
    Null

ASSUME SessionsAssumption ==
    Null \notin User /\ Null \notin Email /\ Null \notin Session

VARIABLES
    firms,      \* table company: the e-mails of its committed rows
    account,    \* table user
    session,    \* the st:sess: keys
    login,      \* login requests that have checked the password
    reg,        \* register requests
    call,       \* requests that carry a session cookie
    off         \* delete_employee requests

vars == <<firms, account, session, login, reg, call, off>>

Account == [st : {"unused", "pending", "row", "gone"}, email : Email \cup {Null},
            employee : BOOLEAN, is_active : BOOLEAN,
            listed : SUBSET Session]   \* ghost: its sessions when it was removed

SessionKey == [st : {"unused", "live", "dead"}, user : User \cup {Null},
               given : BOOLEAN,             \* the client has the cookie
               email : Email \cup {Null}]   \* ghost: who asked for it

Login == [pc : {"idle", "mint"}, user : User \cup {Null}]

Reg == [pc : {"idle", "checked", "firm", "user", "minted"}, firm : Email \cup {Null},
        email : Email \cup {Null}, user : User \cup {Null},
        session : Session \cup {Null}]

Call == [pc : {"idle", "cookie", "user", "in"}, session : Session \cup {Null},
         user : User \cup {Null},
         ended : SUBSET Session,    \* ghost: sessions over when it came in
         barred : SUBSET User]      \* ghost: users barred ever since it came in

Off == [pc : {"idle", "scan", "rows"}, user : User \cup {Null}, todo : SUBSET Session,
        listed : SUBSET Session]    \* ghost

NoAccount == [st |-> "unused", email |-> Null, employee |-> FALSE,
              is_active |-> TRUE, listed |-> {}]
NoKey == [st |-> "unused", user |-> Null, given |-> FALSE, email |-> Null]
IdleLogin == [pc |-> "idle", user |-> Null]
IdleReg == [pc |-> "idle", firm |-> Null, email |-> Null, user |-> Null, session |-> Null]
IdleCall == [pc |-> "idle", session |-> Null, user |-> Null, ended |-> {}, barred |-> {}]
IdleOff == [pc |-> "idle", user |-> Null, todo |-> {}, listed |-> {}]

TypeOK ==
    /\ firms \subseteq Email
    /\ account \in [User -> Account]
    /\ session \in [Session -> SessionKey]
    /\ login \in [LoginReq -> Login]
    /\ reg \in [RegReq -> Reg]
    /\ call \in [CallReq -> Call]
    /\ off \in [OffReq -> Off]

Init ==
    /\ firms = {}
    /\ account = [u \in User |-> NoAccount]
    /\ session = [s \in Session |-> NoKey]
    /\ login = [r \in LoginReq |-> IdleLogin]
    /\ reg = [r \in RegReq |-> IdleReg]
    /\ call = [r \in CallReq |-> IdleCall]
    /\ off = [r \in OffReq |-> IdleOff]

----------------------------------------------------------------------------
Rows == {u \in User : account[u].st = "row"}

Live == {s \in Session : session[s].st = "live"}

UserWith(email) == {u \in Rows : account[u].email = email}

\* What get_current_user requires of the row.
Admissible(u) == account[u].st = "row" /\ account[u].is_active

Inserted(email, isEmployee, st) ==
    [st |-> st, email |-> email, employee |-> isEmployee, is_active |-> TRUE, listed |-> {}]

\* create_session: SET of a fresh uuid.
Mint(s, u, email, given) ==
    /\ session[s].st = "unused"
    /\ session' = [session EXCEPT ![s] =
          [st |-> "live", user |-> u, given |-> given, email |-> email]]

\* Bound: a request that may mint is sure of an unused uuid.
RoomForKey ==
    Cardinality({s \in Session : session[s].st = "unused"}) >
        Cardinality({r \in LoginReq : login[r].pc # "idle"})
      + Cardinality({r \in RegReq : reg[r].pc \in {"checked", "firm", "user"}})

RoomForUser ==
    Cardinality({u \in User : account[u].st = "unused"}) >
        Cardinality({r \in RegReq : reg[r].pc \in {"checked", "firm"}})

\* The session's 30 days are over, or Redis lost it.
Expire(s) ==
    /\ session[s].st = "live"
    /\ session' = [session EXCEPT ![s].st = "dead"]
    /\ UNCHANGED <<firms, account, login, reg, call, off>>

(***************************************************************************)
(* POST /auth/login                                                        *)
(***************************************************************************)
\* Variant: scalar_one_or_none() may be None and is not tested.
LoginCheck_NoUser(r, email) ==
    /\ login[r].pc = "idle"
    /\ RoomForKey
    /\ login' = [login EXCEPT ![r] = [pc |-> "mint", user |->
          IF UserWith(email) = {} THEN email ELSE CHOOSE u \in UserWith(email) : TRUE]]
    /\ UNCHANGED <<firms, account, session, reg, call, off>>

LoginCheck(r, email) ==
    /\ login[r].pc = "idle"
    /\ RoomForKey
    /\ \E u \in UserWith(email) :
          /\ account[u].is_active
          /\ login' = [login EXCEPT ![r] = [pc |-> "mint", user |-> u]]
    /\ UNCHANGED <<firms, account, session, reg, call, off>>

LoginMint(r) ==
    /\ login[r].pc = "mint"
    /\ \E s \in Session : Mint(s, login[r].user, account[login[r].user].email, TRUE)
    /\ login' = [login EXCEPT ![r] = IdleLogin]
    /\ UNCHANGED <<firms, account, reg, call, off>>

\* 500: Redis cannot be reached.
LoginFails(r) ==
    /\ login[r].pc = "mint"
    /\ login' = [login EXCEPT ![r] = IdleLogin]
    /\ UNCHANGED <<firms, account, session, reg, call, off>>

LoginStep(r) == LoginMint(r) \/ LoginFails(r)

(***************************************************************************)
(* POST /auth/register. Two SELECTs, INSERT company, INSERT user, SET in   *)
(* Redis, COMMIT. An INSERT of an e-mail that an open transaction holds    *)
(* waits for that transaction; one that is in the table already fails.     *)
(***************************************************************************)
RegisterCheck(r, firm, email) ==
    /\ reg[r].pc = "idle"
    /\ firm \notin firms /\ UserWith(email) = {}
    /\ RoomForKey /\ RoomForUser
    /\ reg' = [reg EXCEPT ![r] = [IdleReg EXCEPT !.pc = "checked",
                                                  !.firm = firm, !.email = email]]
    /\ UNCHANGED <<firms, account, session, login, call, off>>

FirmLocked(r) ==
    \E q \in RegReq \ {r} : /\ reg[q].pc \in {"firm", "user", "minted"}
                            /\ reg[q].firm = reg[r].firm

EmailLocked(email) ==
    \E u \in User : account[u].st = "pending" /\ account[u].email = email

RegisterCompany(r) ==
    /\ reg[r].pc = "checked"
    /\ ~FirmLocked(r)
    /\ reg[r].firm \notin firms
    /\ reg' = [reg EXCEPT ![r].pc = "firm"]
    /\ UNCHANGED <<firms, account, session, login, call, off>>

RegisterUser(r) ==
    /\ reg[r].pc = "firm"
    /\ ~EmailLocked(reg[r].email) /\ UserWith(reg[r].email) = {}
    /\ \E u \in User :
          /\ account[u].st = "unused"
          /\ account' = [account EXCEPT ![u] = Inserted(reg[r].email, FALSE, "pending")]
          /\ reg' = [reg EXCEPT ![r] = [@ EXCEPT !.pc = "user", !.user = u]]
    /\ UNCHANGED <<firms, session, login, call, off>>

RegisterMint(r) ==
    /\ reg[r].pc = "user"
    /\ \E s \in Session :
          /\ Mint(s, reg[r].user, reg[r].email, FALSE)
          /\ reg' = [reg EXCEPT ![r] = [@ EXCEPT !.pc = "minted", !.session = s]]
    /\ UNCHANGED <<firms, account, login, call, off>>

RegisterCommit(r) ==
    /\ reg[r].pc = "minted"
    /\ firms' = firms \cup {reg[r].firm}
    /\ account' = [account EXCEPT ![reg[r].user].st = "row"]
    /\ session' = [session EXCEPT ![reg[r].session].given = TRUE]
    /\ reg' = [reg EXCEPT ![r] = IdleReg]
    /\ UNCHANGED <<login, call, off>>

\* Variant: the ids that are rolled back are given out again.
RolledBack_ReusesIds(regs) ==
    [u \in User |-> IF \E r \in regs : reg[r].user = u THEN NoAccount ELSE account[u]]

\* What a rollback leaves of the rows that a set of requests inserted: nothing
\* but a hole in the sequence of ids.
RolledBack(regs) ==
    [u \in User |-> IF \E r \in regs : reg[r].user = u
                    THEN [NoAccount EXCEPT !.st = "gone"] ELSE account[u]]

\* Variant: the INSERT of a taken e-mail waits.
RegisterFails_NotForEmail(r) ==
    /\ \/ reg[r].pc = "checked" /\ ~FirmLocked(r) /\ reg[r].firm \in firms
       \/ reg[r].pc \in {"user", "minted"}
    /\ account' = RolledBack({r})
    /\ reg' = [reg EXCEPT ![r] = IdleReg]
    /\ UNCHANGED <<firms, session, login, call, off>>

\* 500: a unique index, or PostgreSQL or Redis cannot be reached. A key that was
\* minted stays.
RegisterFails(r) ==
    /\ \/ reg[r].pc = "checked" /\ ~FirmLocked(r) /\ reg[r].firm \in firms
       \/ reg[r].pc = "firm" /\ ~EmailLocked(reg[r].email) /\ UserWith(reg[r].email) # {}
       \/ reg[r].pc \in {"user", "minted"}
    /\ account' = RolledBack({r})
    /\ reg' = [reg EXCEPT ![r] = IdleReg]
    /\ UNCHANGED <<firms, session, login, call, off>>

RegisterStep(r) ==
    \/ RegisterCompany(r) \/ RegisterUser(r) \/ RegisterMint(r)
    \/ RegisterCommit(r) \/ RegisterFails(r)

(***************************************************************************)
(* POST /employees, and PATCH /employees/{id} of is_active. Their SELECTs  *)
(* decide nothing that the commit does not decide again.                   *)
(***************************************************************************)
CreateEmployee(email) ==
    /\ RoomForUser
    /\ UserWith(email) = {} /\ ~EmailLocked(email)
    /\ \E u \in User :
          /\ account[u].st = "unused"
          /\ account' = [account EXCEPT ![u] = Inserted(email, TRUE, "row")]
    /\ UNCHANGED <<firms, session, login, reg, call, off>>

SetActive(u, b) ==
    /\ u \in Rows /\ account[u].employee /\ account[u].is_active # b
    /\ account' = [account EXCEPT ![u].is_active = b]
    /\ call' = [r \in CallReq |->
          [call[r] EXCEPT !.barred = IF b THEN @ \ {u} ELSE @]]
    /\ UNCHANGED <<firms, session, login, reg, off>>

(***************************************************************************)
(* A request with a session cookie: get_current_user, then the handler.    *)
(***************************************************************************)
CallArrives(r, s) ==
    /\ call[r].pc = "idle"
    /\ session[s].given
    /\ call' = [call EXCEPT ![r] =
          [pc |-> "cookie", session |-> s, user |-> Null, ended |-> Session \ Live,
           barred |-> {u \in User : ~Admissible(u)}]]
    /\ UNCHANGED <<firms, account, session, login, reg, off>>

\* Variant: the user id comes from a cache that no deletion reaches.
CallGetsUserId_Cached(r) ==
    /\ call[r].pc = "cookie"
    /\ call' = [call EXCEPT ![r] = [@ EXCEPT !.pc = "user",
                                              !.user = session[call[r].session].user]]
    /\ UNCHANGED <<firms, account, session, login, reg, off>>

CallGetsUserId(r) ==
    /\ call[r].pc = "cookie"
    /\ session[call[r].session].st = "live"
    /\ call' = [call EXCEPT ![r] = [@ EXCEPT !.pc = "user",
                                              !.user = session[call[r].session].user]]
    /\ UNCHANGED <<firms, account, session, login, reg, off>>

\* Variant: is_active is checked at login only.
CallLoadsUser_Inactive(r) ==
    /\ call[r].pc = "user"
    /\ account[call[r].user].st = "row"
    /\ call' = [call EXCEPT ![r].pc = "in"]
    /\ UNCHANGED <<firms, account, session, login, reg, off>>

CallLoadsUser(r) ==
    /\ call[r].pc = "user"
    /\ Admissible(call[r].user)
    /\ call' = [call EXCEPT ![r].pc = "in"]
    /\ UNCHANGED <<firms, account, session, login, reg, off>>

\* 401
CallRefused(r) ==
    /\ \/ call[r].pc = "cookie" /\ session[call[r].session].st # "live"
       \/ call[r].pc = "user" /\ ~Admissible(call[r].user)
    /\ call' = [call EXCEPT ![r] = IdleCall]
    /\ UNCHANGED <<firms, account, session, login, reg, off>>

CallAnswers(r) ==
    /\ call[r].pc = "in"
    /\ call' = [call EXCEPT ![r] = IdleCall]
    /\ UNCHANGED <<firms, account, session, login, reg, off>>

\* POST /auth/logout: the key goes if it still names this user.
Logout(r) ==
    /\ call[r].pc = "in"
    /\ session' = [session EXCEPT ![call[r].session].st =
          IF session[call[r].session].user = call[r].user THEN "dead" ELSE @]
    /\ call' = [call EXCEPT ![r] = IdleCall]
    /\ UNCHANGED <<firms, account, login, reg, off>>

CallStep(r) ==
    \/ CallGetsUserId(r) \/ CallLoadsUser(r) \/ CallRefused(r)
    \/ CallAnswers(r) \/ Logout(r)

(***************************************************************************)
(* DELETE /employees/{id}: the sessions go first, then the rows, in one    *)
(* transaction that a foreign key may roll back.                           *)
(***************************************************************************)
OffStart(r, u) ==
    /\ off[r].pc = "idle"
    /\ u \in Rows /\ account[u].employee
    /\ off' = [off EXCEPT ![r] =
          [pc |-> "scan", user |-> u, todo |-> Live,
           listed |-> {s \in Live : session[s].user = u}]]
    /\ UNCHANGED <<firms, account, session, login, reg, call>>

\* SCAN returns every key that is there from its start to its end, and may
\* return keys that came later. Each is read and, if it is the user's, deleted.
OffVisit(r) ==
    /\ off[r].pc = "scan"
    /\ \E s \in off[r].todo \cup {t \in Live : session[t].user = off[r].user} :
          /\ session' = [session EXCEPT ![s].st =
                IF @ = "live" /\ session[s].user = off[r].user THEN "dead" ELSE @]
          /\ off' = [off EXCEPT ![r].todo = @ \ {s}]
    /\ UNCHANGED <<firms, account, login, reg, call>>

\* Variant: the first page of the SCAN is taken for all of it.
OffScanned_FirstPage(r) ==
    /\ off[r].pc = "scan"
    /\ off' = [off EXCEPT ![r].pc = "rows"]
    /\ UNCHANGED <<firms, account, session, login, reg, call>>

OffScanned(r) ==
    /\ off[r].pc = "scan" /\ off[r].todo = {}
    /\ off' = [off EXCEPT ![r].pc = "rows"]
    /\ UNCHANGED <<firms, account, session, login, reg, call>>

\* A second deletion of the same employee finds no rows, and commits.
OffCommit(r) ==
    /\ off[r].pc = "rows"
    /\ account' = [account EXCEPT ![off[r].user] =
          IF @.st = "row" THEN [@ EXCEPT !.st = "gone", !.listed = off[r].listed] ELSE @]
    /\ off' = [off EXCEPT ![r] = IdleOff]
    /\ UNCHANGED <<firms, session, login, reg, call>>

\* 500: Redis, PostgreSQL or a foreign key.
OffFails(r) ==
    /\ off[r].pc # "idle"
    /\ off' = [off EXCEPT ![r] = IdleOff]
    /\ UNCHANGED <<firms, account, session, login, reg, call>>

OffGoesOn(r) == OffVisit(r) \/ OffScanned(r) \/ OffCommit(r)

OffStep(r) == OffGoesOn(r) \/ OffFails(r)

\* The API process dies: transactions roll back, Redis keeps its keys.
Crash ==
    /\ account' = RolledBack({r \in RegReq : reg[r].pc # "idle"})
    /\ login' = [r \in LoginReq |-> IdleLogin]
    /\ reg' = [r \in RegReq |-> IdleReg]
    /\ call' = [r \in CallReq |-> IdleCall]
    /\ off' = [r \in OffReq |-> IdleOff]
    /\ UNCHANGED <<firms, session>>

Next ==
    \/ \E s \in Session : Expire(s)
    \/ \E r \in LoginReq : (\E email \in Email : LoginCheck(r, email)) \/ LoginStep(r)
    \/ \E r \in RegReq : \/ \E firm, email \in Email : RegisterCheck(r, firm, email)
                         \/ RegisterStep(r)
    \/ \E email \in Email : CreateEmployee(email)
    \/ \E u \in User, b \in BOOLEAN : SetActive(u, b)
    \/ \E r \in CallReq : (\E s \in Session : CallArrives(r, s)) \/ CallStep(r)
    \/ \E r \in OffReq : (\E u \in User : OffStart(r, u)) \/ OffStep(r)
    \/ Crash

\* The event loop resumes every coroutine whose answer has come. No store has to
\* fail, no client to ask.
Fairness ==
    /\ \A r \in LoginReq : WF_vars(LoginStep(r))
    /\ \A r \in RegReq : WF_vars(RegisterStep(r))
    /\ \A r \in CallReq : WF_vars(CallStep(r))
    /\ \A r \in OffReq : WF_vars(OffGoesOn(r))

Spec == Init /\ [][Next]_vars

FairSpec == Spec /\ Fairness
----------------------------------------------------------------------------
\* get_current_user looks at Redis and then at the row: a request never gets in
\* for a user who has been deleted, deactivated or rolled back ever since the
\* request arrived, whichever sessions are still in Redis.
BarredUsersStayOut ==
    \A r \in CallReq : call[r].pc = "in" => call[r].user \notin call[r].barred

\* A session that was logged out, revoked or had expired when the request
\* arrived opens nothing.
EndedSessionsStayShut ==
    \A r \in CallReq : call[r].pc \in {"user", "in"} => call[r].session \notin call[r].ended

\* register mints the session before it commits. If the commit fails the key
\* stays in Redis, but it names an id that no later account gets: a key never
\* names the account of anyone but the person who asked for it.
KeysNameTheirOwner ==
    \A s \in Live : LET u == session[s].user IN
        account[u].st = "row" => account[u].email = session[s].email

\* Of the sessions an employee had when the deletion began to look for them,
\* none is left once the employee is gone. (A login that overlaps may leave one.)
RevocationComplete ==
    \A u \in User : account[u].st = "gone" => account[u].listed \cap Live = {}

\* Registrations that wait for each other's e-mails are all answered, and so is a
\* deletion although sessions keep being opened while it scans.
RequestsEnd ==
    /\ \A r \in RegReq : reg[r].pc # "idle" ~> reg[r].pc = "idle"
    /\ \A r \in OffReq : off[r].pc # "idle" ~> off[r].pc = "idle"
============================================================================
