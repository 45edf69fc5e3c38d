--------------------------- MODULE SessionsProofs ---------------------------
(***************************************************************************)
(* Theorems about Sessions, for any number of users, sessions and requests.*)
(*                                                                         *)
(* Accounts and keys only go forward: an id is never used again, a key     *)
(* never names another user. Each kind of request is proved from that and  *)
(* from its own steps. At the end: the unique indexes, and who waits for   *)
(* them.                                                                   *)
(***************************************************************************)
EXTENDS Sessions, TLAPS, FiniteSetTheorems

\* A login that is about to mint names a user who was in the table.
LoginInv ==
    \A r \in LoginReq : login[r].pc = "mint" =>
        login[r].user \in User /\ account[login[r].user].st \in {"row", "gone"}

\* A registration has its uncommitted user to itself, from the INSERT to the end.
RegInv ==
    /\ \A r \in RegReq :
          /\ reg[r].pc # "idle" => reg[r].firm \in Email /\ reg[r].email \in Email
          /\ reg[r].pc \in {"user", "minted"} =>
                /\ reg[r].user \in User
                /\ account[reg[r].user].st = "pending"
                /\ account[reg[r].user].email = reg[r].email
          /\ reg[r].pc \notin {"user", "minted"} => reg[r].user = Null
          /\ reg[r].pc = "minted" =>
                /\ reg[r].session \in Session
                /\ session[reg[r].session].st # "unused"
                /\ session[reg[r].session].user = reg[r].user
    /\ \A q, r \in RegReq : reg[q].user = reg[r].user /\ reg[r].user # Null => q = r

\* A key names a user that exists or has existed, under the e-mail it was asked with;
\* a client only has cookies of committed users.
KeyFits(k, acc) ==
    IF k.st = "unused" THEN ~k.given
    ELSE /\ k.user \in User
         /\ acc[k.user].st # "unused"
         /\ acc[k.user].st \in {"pending", "row"} => acc[k.user].email = k.email
         /\ k.given => acc[k.user].st \in {"row", "gone"}

KeyInv == \A s \in Session : KeyFits(session[s], account)

\* What a request brought and found in Redis, and whom it still has to be kept from.
CallFits(c, sess, acc) ==
    c.pc # "idle" =>
        /\ c.session \in Session /\ sess[c.session].given
        /\ c.pc \in {"user", "in"} =>
              c.user = sess[c.session].user /\ c.session \notin c.ended
        /\ c.pc = "cookie" /\ c.session \in c.ended => sess[c.session].st = "dead"
        /\ sess[c.session].user \in c.barred =>
              /\ ~(acc[sess[c.session].user].st = "row" /\ acc[sess[c.session].user].is_active)
              /\ c.pc # "in"

CallInv == \A r \in CallReq : CallFits(call[r], session, account)

\* The keys that a deletion found are behind it or still to be visited.
OffFits(o, sess) ==
    o.pc # "idle" =>
        /\ o.user \in User
        /\ \A s \in o.listed : sess[s].st # "unused" /\ sess[s].user = o.user
        /\ \A s \in o.listed : sess[s].st = "live" => s \in o.todo
        /\ o.pc = "rows" => o.todo = {}

OffInv == \A r \in OffReq : OffFits(off[r], session)

\* Of an account that was removed, every listed key is over.
ListedInv ==
    \A u \in User : \A s \in account[u].listed :
        account[u].st = "gone" /\ session[s].st = "dead"

IInv == TypeOK /\ LoginInv /\ RegInv /\ KeyInv /\ CallInv /\ OffInv /\ ListedInv

----------------------------------------------------------------------------
\* What no step does to an account: give its id back, or change its e-mail.
AccountsGoForward ==
    \A u \in User :
        /\ account[u].st # "unused" => account'[u].st # "unused"
        /\ account[u].st \in {"row", "gone"} => account'[u].st \in {"row", "gone"}
        /\ account[u].st = "gone" => account'[u].st = "gone"
        /\ account[u].st # "unused" /\ account'[u].st \in {"pending", "row"} =>
              account'[u].email = account[u].email

\* What no step does to a key: hand it to another user, or bring it back.
KeysGoForward ==
    \A s \in Session :
        /\ session[s].st # "unused" => /\ session'[s].st # "unused"
                                       /\ session'[s].user = session[s].user
                                       /\ session'[s].email = session[s].email
                                       /\ session[s].given => session'[s].given
        /\ session[s].st = "dead" => session'[s].st = "dead"

\* Every action moves the accounts forward.
LEMMA AccountsForward ==
    ASSUME TypeOK, RegInv, [Next]_vars
    PROVE  AccountsGoForward
  <1>1. CASE UNCHANGED account
    BY <1>1 DEF AccountsGoForward
  <1>2. ASSUME NEW r \in RegReq, RegisterUser(r)
        PROVE  AccountsGoForward
    BY <1>2 DEF RegisterUser, Inserted, AccountsGoForward, TypeOK, Account
  <1>3. ASSUME NEW r \in RegReq, RegisterCommit(r)
        PROVE  AccountsGoForward
    BY <1>3 DEF RegisterCommit, AccountsGoForward, TypeOK, Account, RegInv
  <1>4. ASSUME NEW regs \in SUBSET RegReq, account' = RolledBack(regs)
        PROVE  AccountsGoForward
    BY <1>4, SessionsAssumption DEF RolledBack, NoAccount, AccountsGoForward, TypeOK, Account, RegInv
  <1>5. ASSUME NEW email \in Email, CreateEmployee(email)
        PROVE  AccountsGoForward
    BY <1>5 DEF CreateEmployee, Inserted, AccountsGoForward, TypeOK, Account
  <1>6. ASSUME NEW u \in User, NEW b \in BOOLEAN, SetActive(u, b)
        PROVE  AccountsGoForward
    BY <1>6 DEF SetActive, AccountsGoForward, TypeOK, Account
  <1>7. ASSUME NEW r \in OffReq, OffCommit(r)
        PROVE  AccountsGoForward
    BY <1>7 DEF OffCommit, AccountsGoForward, TypeOK, Account
  <1> QED
    BY <1>1, <1>2, <1>3, <1>4, <1>5, <1>6, <1>7
       DEF Next, vars, Expire, LoginCheck, LoginStep, LoginMint, LoginFails, RegisterCheck,
           RegisterStep, RegisterCompany, RegisterMint, RegisterFails, CallArrives, CallStep,
           CallGetsUserId, CallLoadsUser, CallRefused, CallAnswers, Logout, OffStart, OffStep,
           OffGoesOn, OffVisit, OffScanned, OffFails, Crash

\* A mint takes an unused key.
LEMMA MintFacts ==
    ASSUME TypeOK, NEW s \in Session, NEW u, NEW email, NEW given, Mint(s, u, email, given)
    PROVE  /\ session[s].st = "unused"
           /\ session'[s].st = "live" /\ session'[s].user = u
           /\ session'[s].given = given /\ session'[s].email = email
           /\ \A t \in Session : t # s => session'[t] = session[t]
  BY DEF Mint, TypeOK

\* Every action moves the keys forward.
LEMMA KeysForward ==
    ASSUME TypeOK, RegInv, [Next]_vars
    PROVE  KeysGoForward
  <1>1. CASE UNCHANGED session
    BY <1>1 DEF KeysGoForward
  <1>2. ASSUME NEW s \in Session, NEW u, NEW email, NEW given, Mint(s, u, email, given)
        PROVE  KeysGoForward
    BY <1>2, MintFacts DEF KeysGoForward
  <1>3. ASSUME NEW s \in Session, Expire(s)
        PROVE  KeysGoForward
    BY <1>3 DEF Expire, KeysGoForward, TypeOK, SessionKey
  <1>4. ASSUME NEW r \in RegReq, RegisterCommit(r)
        PROVE  KeysGoForward
    BY <1>4 DEF RegisterCommit, KeysGoForward, TypeOK, SessionKey
  <1>5. ASSUME NEW r \in CallReq, Logout(r)
        PROVE  KeysGoForward
    BY <1>5 DEF Logout, KeysGoForward, TypeOK, SessionKey
  <1>6. ASSUME NEW r \in OffReq, OffVisit(r)
        PROVE  KeysGoForward
    BY <1>6 DEF OffVisit, KeysGoForward, TypeOK, SessionKey
  <1> QED
    BY <1>1, <1>2, <1>3, <1>4, <1>5, <1>6
       DEF Next, vars, LoginCheck, LoginStep, LoginMint, LoginFails, RegisterCheck,
           RegisterStep, RegisterCompany, RegisterUser, RegisterMint, RegisterFails,
           CreateEmployee, SetActive, CallArrives, CallStep, CallGetsUserId, CallLoadsUser,
           CallRefused, CallAnswers, OffStart, OffStep, OffGoesOn, OffScanned, OffCommit,
           OffFails, Crash

\* Typing, by action.
LEMMA TypeStep ==
    ASSUME TypeOK, LoginInv, RegInv, CallInv, [Next]_vars
    PROVE  TypeOK'
  <1> USE DEF TypeOK
  <1>1. CASE UNCHANGED vars
    BY <1>1 DEF vars
  <1>2. ASSUME NEW s \in Session, Expire(s)
        PROVE  TypeOK'
    BY <1>2 DEF Expire, SessionKey
  <1>3. ASSUME NEW r \in LoginReq, NEW email \in Email, LoginCheck(r, email)
        PROVE  TypeOK'
    BY <1>3 DEF LoginCheck, UserWith, Rows, Login
  <1>4. ASSUME NEW r \in LoginReq, LoginMint(r)
        PROVE  TypeOK'
    BY <1>4 DEF LoginMint, LoginInv, Mint, Login, IdleLogin, SessionKey, Account
  <1>5. ASSUME NEW r \in LoginReq, LoginFails(r)
        PROVE  TypeOK'
    BY <1>5 DEF LoginFails, Login, IdleLogin
  <1>6. ASSUME NEW r \in RegReq, NEW firm \in Email, NEW email \in Email,
               RegisterCheck(r, firm, email)
        PROVE  TypeOK'
    BY <1>6 DEF RegisterCheck, Reg, IdleReg
  <1>7. ASSUME NEW r \in RegReq, RegisterCompany(r)
        PROVE  TypeOK'
    <2> DEFINE q == [reg[r] EXCEPT !.pc = "firm"]
    <2>1. reg[r] \in Reg /\ reg' = [reg EXCEPT ![r] = q]
      BY <1>7 DEF RegisterCompany
    <2>2. q \in Reg
      BY <2>1 DEF Reg
    <2> HIDE DEF q
    <2>3. reg' \in [RegReq -> Reg]
      BY <2>1, <2>2
    <2> QED BY <1>7, <2>3 DEF RegisterCompany
  <1>8. ASSUME NEW r \in RegReq, RegisterUser(r)
        PROVE  TypeOK'
    <2> PICK u \in User : /\ account' = [account EXCEPT ![u] = Inserted(reg[r].email, FALSE, "pending")]
                          /\ reg' = [reg EXCEPT ![r] = [@ EXCEPT !.pc = "user", !.user = u]]
      BY <1>8 DEF RegisterUser
    <2>1. Inserted(reg[r].email, FALSE, "pending") \in Account
      BY <1>8 DEF RegisterUser, RegInv, Inserted, Account
    <2>2. [reg[r] EXCEPT !.pc = "user", !.user = u] \in Reg
      BY DEF Reg
    <2> QED BY <1>8, <2>1, <2>2 DEF RegisterUser
  <1>9. ASSUME NEW r \in RegReq, RegisterMint(r)
        PROVE  TypeOK'
    <2> PICK s \in Session : /\ Mint(s, reg[r].user, reg[r].email, FALSE)
                             /\ reg' = [reg EXCEPT ![r] = [@ EXCEPT !.pc = "minted", !.session = s]]
      BY <1>9 DEF RegisterMint
    <2>1. session' \in [Session -> SessionKey]
      BY DEF Mint, Reg, SessionKey
    <2>2. [reg[r] EXCEPT !.pc = "minted", !.session = s] \in Reg
      BY DEF Reg
    <2> QED BY <1>9, <2>1, <2>2 DEF RegisterMint
  <1>10. ASSUME NEW r \in RegReq, RegisterCommit(r)
         PROVE  TypeOK'
    <2>1. \A u \in User : [account[u] EXCEPT !.st = "row"] \in Account
      BY DEF Account
    <2>2. \A s \in Session : [session[s] EXCEPT !.given = TRUE] \in SessionKey
      BY DEF SessionKey
    <2>3. account' \in [User -> Account] /\ session' \in [Session -> SessionKey]
      BY <1>10, <2>1, <2>2 DEF RegisterCommit, RegInv
    <2>4. IdleReg \in Reg
      BY DEF IdleReg, Reg
    <2> QED BY <1>10, <2>3, <2>4 DEF RegisterCommit, RegInv
  <1>11. ASSUME NEW r \in RegReq, RegisterFails(r)
         PROVE  TypeOK'
    BY <1>11 DEF RegisterFails, RolledBack, NoAccount, Reg, IdleReg, Account
  <1>12. ASSUME NEW email \in Email, CreateEmployee(email)
         PROVE  TypeOK'
    BY <1>12 DEF CreateEmployee, Inserted, Account
  <1>13. ASSUME NEW u \in User, NEW b \in BOOLEAN, SetActive(u, b)
         PROVE  TypeOK'
    <2>1. [account[u] EXCEPT !.is_active = b] \in Account
      BY DEF Account
    <2>2. \A r \in CallReq, x \in SUBSET User : [call[r] EXCEPT !.barred = x] \in Call
      BY DEF Call
    <2>3. \A r \in CallReq : call[r].barred \in SUBSET User
      BY DEF Call
    <2>4. \A r \in CallReq : [call[r] EXCEPT !.barred = IF b THEN @ \ {u} ELSE @] \in Call
      BY <2>2, <2>3
    <2> QED BY <1>13, <2>1, <2>4 DEF SetActive
  <1>14. ASSUME NEW r \in CallReq, NEW s \in Session, CallArrives(r, s)
         PROVE  TypeOK'
    BY <1>14 DEF CallArrives, Live, Call
  <1>15. ASSUME NEW r \in CallReq, CallGetsUserId(r)
         PROVE  TypeOK'
    <2>1. session[call[r].session].user \in User \cup {Null}
      BY <1>15 DEF CallGetsUserId, CallInv, CallFits, SessionKey
    <2>2. [call[r] EXCEPT !.pc = "user", !.user = session[call[r].session].user] \in Call
      BY <2>1 DEF Call
    <2> QED BY <1>15, <2>2 DEF CallGetsUserId
  <1>16. ASSUME NEW r \in CallReq, CallLoadsUser(r) \/ CallRefused(r) \/ CallAnswers(r)
         PROVE  TypeOK'
    BY <1>16 DEF CallLoadsUser, CallRefused, CallAnswers, Call, IdleCall
  <1>17. ASSUME NEW r \in CallReq, Logout(r)
         PROVE  TypeOK'
    <2>1. \A s \in Session : [session[s] EXCEPT !.st = "dead"] \in SessionKey
      BY DEF SessionKey
    <2>2. session' \in [Session -> SessionKey]
      <3>1. call[r].session \in Session
        BY <1>17 DEF Logout, CallInv, CallFits
      <3>2. CASE session[call[r].session].user = call[r].user
        BY <1>17, <2>1, <3>1, <3>2 DEF Logout
      <3>3. CASE session[call[r].session].user # call[r].user
        <4>1. session' = [session EXCEPT ![call[r].session].st = @]
          BY <1>17, <3>3 DEF Logout
        <4>2. [session[call[r].session] EXCEPT !.st = @] \in SessionKey
          BY <3>1 DEF SessionKey
        <4> QED BY <3>1, <4>1, <4>2
      <3> QED BY <3>2, <3>3
    <2>3. IdleCall \in Call
      BY DEF IdleCall, Call
    <2> QED BY <1>17, <2>2, <2>3 DEF Logout
  <1>18. ASSUME NEW r \in OffReq, NEW u \in User, OffStart(r, u)
         PROVE  TypeOK'
    BY <1>18 DEF OffStart, Live, Off
  <1>19. ASSUME NEW r \in OffReq, OffVisit(r)
         PROVE  TypeOK'
    <2>1. \A s \in Session, x \in {"unused", "live", "dead"} : [session[s] EXCEPT !.st = x] \in SessionKey
      BY DEF SessionKey
    <2>2. \A x \in SUBSET Session : [off[r] EXCEPT !.todo = x] \in Off
      BY DEF Off
    <2>3. off[r].todo \subseteq Session /\ \A s \in Session : session[s].st \in {"unused", "live", "dead"}
      BY DEF Off, SessionKey
    <2> PICK s \in off[r].todo \cup {t \in Live : session[t].user = off[r].user} :
          /\ session' = [session EXCEPT ![s].st =
                IF @ = "live" /\ session[s].user = off[r].user THEN "dead" ELSE @]
          /\ off' = [off EXCEPT ![r].todo = @ \ {s}]
      BY <1>19 DEF OffVisit
    <2>4. session' \in [Session -> SessionKey] /\ off' \in [OffReq -> Off]
      BY <2>1, <2>2, <2>3
    <2> QED BY <1>19, <2>4 DEF OffVisit
  <1>20. ASSUME NEW r \in OffReq, OffScanned(r) \/ OffFails(r)
         PROVE  TypeOK'
    BY <1>20 DEF OffScanned, OffFails, Off, IdleOff
  <1>21. ASSUME NEW r \in OffReq, OffCommit(r)
         PROVE  TypeOK'
    <2>1. \A u \in User, x \in SUBSET Session : [account[u] EXCEPT !.st = "gone", !.listed = x] \in Account
      BY DEF Account
    <2>2. off[r].listed \in SUBSET Session
      BY DEF Off
    <2>3. account' \in [User -> Account]
      BY <1>21, <2>1, <2>2 DEF OffCommit
    <2>4. IdleOff \in Off
      BY DEF IdleOff, Off
    <2> QED BY <1>21, <2>3, <2>4 DEF OffCommit
  <1>22. ASSUME Crash
         PROVE  TypeOK'
    BY <1>22 DEF Crash, RolledBack, NoAccount, Account, Login, IdleLogin, Reg, IdleReg, Call,
                 IdleCall, Off, IdleOff
  <1> QED
    BY <1>1, <1>2, <1>3, <1>4, <1>5, <1>6, <1>7, <1>8, <1>9, <1>10, <1>11, <1>12, <1>13, <1>14,
       <1>15, <1>16, <1>17, <1>18, <1>19, <1>20, <1>21, <1>22
       DEF Next, LoginStep, RegisterStep, CallStep, OffStep, OffGoesOn

\* Logins: users only go forward.
LEMMA LoginStepInv ==
    ASSUME TypeOK, LoginInv, RegInv, [Next]_vars
    PROVE  LoginInv'
  <1>1. AccountsGoForward
    BY AccountsForward
  <1>2. CASE UNCHANGED login
    BY <1>1, <1>2 DEF LoginInv, AccountsGoForward
  <1>3. ASSUME NEW r \in LoginReq, NEW email \in Email, LoginCheck(r, email)
        PROVE  LoginInv'
    BY <1>3 DEF LoginCheck, UserWith, Rows, LoginInv, TypeOK
  <1>4. ASSUME NEW r \in LoginReq, LoginMint(r) \/ LoginFails(r)
        PROVE  LoginInv'
    <2>1. login' = [login EXCEPT ![r] = IdleLogin] /\ UNCHANGED account
      BY <1>4 DEF LoginMint, LoginFails
    <2> QED BY <2>1 DEF IdleLogin, LoginInv, TypeOK
  <1>5. CASE Crash
    BY <1>5 DEF Crash, IdleLogin, LoginInv
  <1> QED
    BY <1>2, <1>3, <1>4, <1>5
       DEF Next, vars, Expire, LoginStep, RegisterCheck, RegisterStep, RegisterCompany,
           RegisterUser, RegisterMint, RegisterCommit, RegisterFails, CreateEmployee, SetActive,
           CallArrives, CallStep, CallGetsUserId, CallLoadsUser, CallRefused, CallAnswers, Logout,
           OffStart, OffStep, OffGoesOn, OffVisit, OffScanned, OffCommit, OffFails

\* Registrations: nobody else touches an uncommitted user.
LEMMA RegStepInv ==
    ASSUME TypeOK, RegInv, [Next]_vars
    PROVE  RegInv'
  <1>1. KeysGoForward
    BY KeysForward
  <1> USE DEF RegInv, TypeOK
  <1>2. CASE UNCHANGED <<reg, account>>
    BY <1>1, <1>2 DEF KeysGoForward
  <1>3. ASSUME NEW r \in RegReq, NEW firm \in Email, NEW email \in Email,
               RegisterCheck(r, firm, email)
        PROVE  RegInv'
    BY <1>3 DEF RegisterCheck, IdleReg
  <1>4. ASSUME NEW r \in RegReq, RegisterCompany(r)
        PROVE  RegInv'
    BY <1>4 DEF RegisterCompany, Reg
  <1>5. ASSUME NEW r \in RegReq, RegisterUser(r)
        PROVE  RegInv'
    BY <1>5 DEF RegisterUser, Inserted, Reg
  <1>6. ASSUME NEW r \in RegReq, RegisterMint(r)
        PROVE  RegInv'
    <2> PICK s \in Session : /\ Mint(s, reg[r].user, reg[r].email, FALSE)
                             /\ reg' = [reg EXCEPT ![r] = [@ EXCEPT !.pc = "minted", !.session = s]]
      BY <1>6 DEF RegisterMint
    <2>1. session'[s].st = "live" /\ session'[s].user = reg[r].user
      BY DEF Mint
    <2>2. /\ reg[r].pc = "user" /\ UNCHANGED account
          /\ reg'[r] = [reg[r] EXCEPT !.pc = "minted", !.session = s]
          /\ \A q \in RegReq : q # r => reg'[q] = reg[q]
      BY <1>6 DEF RegisterMint
    <2>3. /\ reg'[r].pc = "minted" /\ reg'[r].session = s /\ reg'[r].user = reg[r].user
          /\ reg'[r].firm = reg[r].firm /\ reg'[r].email = reg[r].email
      BY <2>2 DEF Reg
    <2>4. \A q \in RegReq : reg'[q].user = reg[q].user
      BY <2>2, <2>3
    <2> QED BY <1>1, <2>1, <2>2, <2>3, <2>4 DEF KeysGoForward
  <1>7. ASSUME NEW r \in RegReq, RegisterCommit(r)
        PROVE  RegInv'
    <2>1. reg'[r] = IdleReg /\ \A q \in RegReq : q # r => reg'[q] = reg[q]
      BY <1>7 DEF RegisterCommit
    <2>2. \A u \in User : u # reg[r].user => account'[u] = account[u]
      BY <1>7 DEF RegisterCommit
    <2>3. reg[r].user # Null
      BY <1>7, SessionsAssumption DEF RegisterCommit
    <2>4. \A q \in RegReq : q # r => reg[q].user # reg[r].user
      BY <2>3
    <2> QED BY <1>1, <2>1, <2>2, <2>4 DEF IdleReg, KeysGoForward
  <1>8. ASSUME NEW r \in RegReq, RegisterFails(r)
        PROVE  RegInv'
    <2>1. reg'[r] = IdleReg /\ \A q \in RegReq : q # r => reg'[q] = reg[q]
      BY <1>8 DEF RegisterFails
    <2>2. \A u \in User : u # reg[r].user => account'[u] = account[u]
      BY <1>8 DEF RegisterFails, RolledBack
    <2>3. \A q \in RegReq : q # r /\ reg[q].user \in User => reg[q].user # reg[r].user
      BY SessionsAssumption
    <2> QED BY <1>1, <2>1, <2>2, <2>3 DEF IdleReg, KeysGoForward
  <1>9. ASSUME NEW email \in Email, CreateEmployee(email)
        PROVE  RegInv'
    <2> PICK u \in User : /\ account[u].st = "unused"
                          /\ account' = [account EXCEPT ![u] = Inserted(email, TRUE, "row")]
      BY <1>9 DEF CreateEmployee
    <2>1. reg' = reg /\ session' = session
      BY <1>9 DEF CreateEmployee
    <2>2. \A v \in User : v # u => account'[v] = account[v]
      OBVIOUS
    <2>3. \A r \in RegReq : reg[r].pc \in {"user", "minted"} =>
            account'[reg[r].user] = account[reg[r].user]
      BY <2>2
    <2> QED BY <2>1, <2>3
  <1>10. ASSUME NEW u \in User, NEW b \in BOOLEAN, SetActive(u, b)
         PROVE  RegInv'
    BY <1>10 DEF SetActive, Rows, Account
  <1>11. ASSUME NEW r \in OffReq, OffCommit(r)
         PROVE  RegInv'
    BY <1>11 DEF OffCommit
  <1>12. CASE Crash
    BY <1>12 DEF Crash, IdleReg
  <1> QED
    BY <1>2, <1>3, <1>4, <1>5, <1>6, <1>7, <1>8, <1>9, <1>10, <1>11, <1>12
       DEF Next, vars, Expire, LoginCheck, LoginStep, LoginMint, LoginFails, RegisterStep,
           CallArrives, CallStep, CallGetsUserId, CallLoadsUser, CallRefused, CallAnswers, Logout,
           OffStart, OffStep, OffGoesOn, OffVisit, OffScanned, OffFails

\* A key that fits goes on to fit, and so does one of the same user.
LEMMA KeyGoesOnToFit ==
    ASSUME TypeOK, AccountsGoForward, NEW k, NEW j, KeyFits(k, account),
           j.st = "unused" <=> k.st = "unused",
           j.user = k.user, j.email = k.email, j.given = k.given
    PROVE  KeyFits(j, account')
  <1>1. CASE k.st = "unused"
    BY <1>1 DEF KeyFits
  <1>2. CASE k.st # "unused"
    <2> DEFINE u == k.user
    <2>1. /\ u \in User /\ account[u].st # "unused"
          /\ account[u].st \in {"pending", "row"} => account[u].email = k.email
          /\ k.given => account[u].st \in {"row", "gone"}
      BY <1>2 DEF KeyFits
    <2>2. /\ account'[u].st # "unused"
          /\ account[u].st \in {"row", "gone"} => account'[u].st \in {"row", "gone"}
          /\ account[u].st = "gone" => account'[u].st = "gone"
          /\ account'[u].st \in {"pending", "row"} => account'[u].email = account[u].email
      BY <2>1 DEF AccountsGoForward
    <2>3. account[u].st \in {"unused", "pending", "row", "gone"}
      BY <2>1 DEF TypeOK, Account
    <2>4. account'[u].st \in {"pending", "row"} => account'[u].email = k.email
      BY <2>1, <2>2, <2>3
    <2> QED BY <1>2, <2>1, <2>2, <2>4 DEF KeyFits
  <1> QED BY <1>1, <1>2

\* Keys: who mints one names a user who is there, and who gets a cookie is committed.
LEMMA KeyStepInv ==
    ASSUME TypeOK, LoginInv, RegInv, KeyInv, CallInv, [Next]_vars
    PROVE  KeyInv'
  <1>1. AccountsGoForward
    BY AccountsForward
  <1>2. SUFFICES ASSUME NEW s \in Session
                 PROVE  KeyFits(session'[s], account')
    BY DEF KeyInv, KeyFits
  <1>3. CASE session'[s] = session[s]
    BY <1>1, <1>3, KeyGoesOnToFit DEF KeyInv
  <1>4. CASE session[s].st # "unused" /\ session' = [session EXCEPT ![s].st = "dead"]
    <2>1. /\ session'[s].st = "dead" /\ session'[s].user = session[s].user
          /\ session'[s].email = session[s].email /\ session'[s].given = session[s].given
      BY <1>4 DEF TypeOK, SessionKey
    <2> QED BY <1>1, <1>4, <2>1, KeyGoesOnToFit DEF KeyInv
  <1>5. ASSUME NEW r \in LoginReq, LoginMint(r), session'[s] # session[s]
        PROVE  KeyFits(session'[s], account')
    <2>1. /\ login[r].pc = "mint" /\ UNCHANGED account
          /\ Mint(s, login[r].user, account[login[r].user].email, TRUE)
      <3> PICK t \in Session : Mint(t, login[r].user, account[login[r].user].email, TRUE)
        BY <1>5 DEF LoginMint
      <3>1. s = t
        BY <1>5 DEF Mint, TypeOK
      <3> QED BY <1>5, <3>1 DEF LoginMint
    <2>2. /\ session'[s].st = "live" /\ session'[s].user = login[r].user
          /\ session'[s].email = account[login[r].user].email
      BY <2>1 DEF Mint, TypeOK
    <2> QED BY <2>1, <2>2 DEF LoginInv, KeyFits
  <1>6. ASSUME NEW r \in RegReq, RegisterMint(r), session'[s] # session[s]
        PROVE  KeyFits(session'[s], account')
    <2>1. reg[r].pc = "user" /\ UNCHANGED account /\ Mint(s, reg[r].user, reg[r].email, FALSE)
      <3> PICK t \in Session : Mint(t, reg[r].user, reg[r].email, FALSE)
        BY <1>6 DEF RegisterMint
      <3>1. s = t
        BY <1>6 DEF Mint, TypeOK
      <3> QED BY <1>6, <3>1 DEF RegisterMint
    <2>2. /\ session'[s].st = "live" /\ session'[s].user = reg[r].user
          /\ session'[s].email = reg[r].email /\ session'[s].given = FALSE
      BY <2>1 DEF Mint, TypeOK
    <2> QED BY <2>1, <2>2 DEF RegInv, KeyFits
  <1>7. ASSUME NEW r \in RegReq, RegisterCommit(r), session'[s] # session[s]
        PROVE  KeyFits(session'[s], account')
    <2>1. /\ reg[r].pc = "minted" /\ s = reg[r].session
          /\ account' = [account EXCEPT ![reg[r].user].st = "row"]
          /\ session' = [session EXCEPT ![s].given = TRUE]
      BY <1>7 DEF RegisterCommit, TypeOK
    <2>2. /\ session[s].st # "unused" /\ session[s].user = reg[r].user /\ reg[r].user \in User
      BY <2>1 DEF RegInv
    <2>3. /\ session'[s].st = session[s].st /\ session'[s].user = reg[r].user
          /\ session'[s].email = session[s].email
      BY <2>1, <2>2 DEF TypeOK, SessionKey
    <2>4. /\ account'[reg[r].user].st = "row"
          /\ account'[reg[r].user].email = account[reg[r].user].email
          /\ account[reg[r].user].st = "pending"
      BY <2>1, <2>2 DEF TypeOK, Account, RegInv
    <2>5. account[reg[r].user].email = session[s].email
      BY <2>2, <2>4 DEF KeyInv, KeyFits
    <2> QED BY <2>2, <2>3, <2>4, <2>5 DEF KeyFits
  <1>8. ASSUME NEW t \in Session, Expire(t)
        PROVE  KeyFits(session'[s], account')
    BY <1>3, <1>4, <1>8 DEF Expire, TypeOK
  <1>9. ASSUME NEW r \in CallReq, Logout(r)
        PROVE  KeyFits(session'[s], account')
    <2>1. call[r].session \in Session /\ session[call[r].session].given
      BY <1>9 DEF Logout, CallInv, CallFits
    <2>2. session[call[r].session].st # "unused"
      BY <2>1 DEF KeyInv, KeyFits
    <2>3. CASE session[call[r].session].user = call[r].user
      BY <1>3, <1>4, <1>9, <2>1, <2>2, <2>3 DEF Logout, TypeOK
    <2>4. CASE session[call[r].session].user # call[r].user
      BY <1>3, <1>9, <2>1, <2>4 DEF Logout, TypeOK, SessionKey
    <2> QED BY <2>3, <2>4
  <1>10. ASSUME NEW r \in OffReq, OffVisit(r)
         PROVE  KeyFits(session'[s], account')
    <2> PICK t \in off[r].todo \cup {q \in Live : session[q].user = off[r].user} :
          session' = [session EXCEPT ![t].st =
                IF @ = "live" /\ session[t].user = off[r].user THEN "dead" ELSE @]
      BY <1>10 DEF OffVisit
    <2>1. t \in Session
      BY DEF TypeOK, Off, Live
    <2>2. CASE session[t].st = "live" /\ session[t].user = off[r].user
      BY <1>3, <1>4, <2>1, <2>2 DEF TypeOK
    <2>3. CASE ~(session[t].st = "live" /\ session[t].user = off[r].user)
      BY <1>3, <2>1, <2>3 DEF TypeOK, SessionKey
    <2> QED BY <2>2, <2>3
  <1> QED
    BY <1>3, <1>5, <1>6, <1>7, <1>8, <1>9, <1>10
       DEF Next, vars, LoginCheck, LoginStep, LoginFails, RegisterCheck,
           RegisterStep, RegisterCompany, RegisterUser, RegisterFails,
           CreateEmployee, SetActive, CallArrives, CallStep, CallGetsUserId, CallLoadsUser,
           CallRefused, CallAnswers, OffStart, OffStep, OffGoesOn, OffScanned, OffCommit,
           OffFails, Crash

\* Only SetActive lets a committed user in again who was kept out.
LEMMA OnlyReactivated ==
    ASSUME TypeOK, RegInv, [Next]_vars, NEW u \in User,
           account[u].st \in {"row", "gone"}, ~Admissible(u),
           account'[u].st = "row", account'[u].is_active
    PROVE  SetActive(u, TRUE)
  <1> USE DEF Admissible
  <1>1. CASE UNCHANGED account
    BY <1>1
  <1>2. ASSUME NEW r \in RegReq, RegisterUser(r)
        PROVE  FALSE
    BY <1>2 DEF RegisterUser, TypeOK
  <1>3. ASSUME NEW r \in RegReq, RegisterCommit(r)
        PROVE  FALSE
    BY <1>3 DEF RegisterCommit, TypeOK, RegInv
  <1>4. ASSUME NEW regs \in SUBSET RegReq, account' = RolledBack(regs)
        PROVE  FALSE
    BY <1>4 DEF RolledBack, NoAccount, TypeOK
  <1>5. ASSUME NEW email \in Email, CreateEmployee(email)
        PROVE  FALSE
    BY <1>5 DEF CreateEmployee, TypeOK
  <1>6. ASSUME NEW v \in User, NEW b \in BOOLEAN, SetActive(v, b)
        PROVE  SetActive(u, TRUE)
    <2>1. CASE v = u
      <3>1. account'[u].is_active = b
        BY <1>6, <2>1 DEF SetActive, TypeOK, Account
      <3>2. b = TRUE
        BY <3>1
      <3> QED BY <1>6, <2>1, <3>2
    <2>2. CASE v # u
      BY <1>6, <2>2 DEF SetActive, TypeOK
    <2> QED BY <2>1, <2>2
  <1>7. ASSUME NEW r \in OffReq, OffCommit(r)
        PROVE  FALSE
    <2>1. account'[u] = account[u] \/ account'[u].st = "gone"
      BY <1>7 DEF OffCommit, TypeOK, Account
    <2> QED BY <2>1
  <1> QED
    BY <1>1, <1>2, <1>3, <1>4, <1>5, <1>6, <1>7
       DEF Next, vars, Expire, LoginCheck, LoginStep, LoginMint, LoginFails, RegisterCheck,
           RegisterStep, RegisterCompany, RegisterMint, RegisterFails, CallArrives, CallStep,
           CallGetsUserId, CallLoadsUser, CallRefused, CallAnswers, Logout, OffStart, OffStep,
           OffGoesOn, OffVisit, OffScanned, OffFails, Crash

\* What a request found stays true while it waits.
LEMMA CallGoesOnToFit ==
    ASSUME TypeOK, RegInv, KeyInv, [Next]_vars, NEW c, CallFits(c, session, account),
           \A u \in User : u \in c.barred => ~SetActive(u, TRUE)
    PROVE  CallFits(c, session', account')
  <1>1. SUFFICES ASSUME c.pc # "idle"
                 PROVE  CallFits(c, session', account')
    BY DEF CallFits
  <1> DEFINE s == c.session
             u == session[s].user
  <1>2. s \in Session /\ session[s].given
    BY <1>1 DEF CallFits
  <1>3. session[s].st # "unused" /\ u \in User /\ account[u].st \in {"row", "gone"}
    BY <1>2 DEF KeyInv, KeyFits
  <1>4. session'[s].user = u /\ session'[s].given /\ (session[s].st = "dead" => session'[s].st = "dead")
    BY <1>2, <1>3, KeysForward DEF KeysGoForward
  <1>5. ASSUME u \in c.barred
        PROVE  ~(account'[u].st = "row" /\ account'[u].is_active) /\ c.pc # "in"
    <2>1. ~Admissible(u) /\ c.pc # "in" /\ ~SetActive(u, TRUE)
      BY <1>1, <1>3, <1>5 DEF CallFits, Admissible
    <2> QED BY <1>3, <2>1, OnlyReactivated
  <1>6. /\ c.pc \in {"user", "in"} => c.user = u /\ s \notin c.ended
        /\ c.pc = "cookie" /\ s \in c.ended => session[s].st = "dead"
    BY <1>1 DEF CallFits
  <1> HIDE DEF u
  <1>7. s = c.session
    OBVIOUS
  <1> HIDE DEF s
  <1> QED BY <1>2, <1>4, <1>5, <1>6, <1>7 DEF CallFits

\* Calls: their own steps, and the reactivation of a user.
LEMMA CallStepInv ==
    ASSUME TypeOK, RegInv, KeyInv, CallInv, [Next]_vars
    PROVE  CallInv'
  <1>1. SUFFICES ASSUME NEW r \in CallReq
                 PROVE  CallFits(call'[r], session', account')
    BY DEF CallInv, CallFits
  <1>2. CallFits(call[r], session, account)
    BY DEF CallInv
  <1>3. call[r].barred \subseteq User /\ DOMAIN call = CallReq
    BY DEF TypeOK, Call
  <1>4. ASSUME NEW v \in User, NEW b \in BOOLEAN, SetActive(v, b)
        PROVE  CallFits(call'[r], session', account')
    <2> DEFINE c == [call[r] EXCEPT !.barred = IF b THEN @ \ {v} ELSE @]
    <2>1. /\ c.pc = call[r].pc /\ c.session = call[r].session /\ c.user = call[r].user
          /\ c.ended = call[r].ended /\ c.barred = IF b THEN call[r].barred \ {v} ELSE call[r].barred
      BY DEF TypeOK, Call
    <2>2. call'[r] = c
      BY <1>4 DEF SetActive
    <2> HIDE DEF c
    <2>3. CallFits(c, session, account)
      BY <1>2, <2>1 DEF CallFits
    <2>4. ASSUME NEW u \in User, u \in c.barred, SetActive(u, TRUE)
          PROVE  FALSE
      <3>1. u \in call'[r].barred /\ call'[r] = [call[r] EXCEPT !.barred = IF TRUE THEN @ \ {u} ELSE @]
        BY <2>2, <2>4 DEF SetActive
      <3> QED BY <3>1 DEF TypeOK, Call
    <2> QED BY <2>2, <2>3, <2>4, CallGoesOnToFit
  <1>5. ASSUME \A u \in User, b \in BOOLEAN : ~SetActive(u, b), NEW c, call'[r] = c,
               CallFits(c, session, account)
        PROVE  CallFits(call'[r], session', account')
    <2>1. \A u \in User : ~SetActive(u, TRUE)
      BY <1>5
    <2> QED BY <1>5, <2>1, CallGoesOnToFit
  <1> DEFINE Keeps == CallFits(call'[r], session, account)
  <1>6. ASSUME call'[r] = call[r]
        PROVE  Keeps
    BY <1>2, <1>6
  <1>7. ASSUME call'[r] = IdleCall
        PROVE  Keeps
    BY <1>7 DEF CallFits, IdleCall
  <1>8. ASSUME NEW s \in Session, CallArrives(r, s)
        PROVE  Keeps
    <2> DEFINE c == [pc |-> "cookie", session |-> s, user |-> Null, ended |-> Session \ Live,
                     barred |-> {u \in User : ~Admissible(u)}]
    <2>1. session[s].given /\ call'[r] = c
      BY <1>3, <1>8 DEF CallArrives
    <2>2. session[s].st \in {"live", "dead"} /\ session[s].user \in User
      BY <2>1 DEF TypeOK, SessionKey, KeyInv, KeyFits
    <2>3. CallFits(c, session, account)
      BY <2>1, <2>2 DEF CallFits, Live, Admissible
    <2> QED BY <2>1, <2>3
  <1>9. ASSUME CallGetsUserId(r)
        PROVE  Keeps
    <2> DEFINE c == [call[r] EXCEPT !.pc = "user", !.user = session[call[r].session].user]
    <2>1. call[r].pc = "cookie" /\ session[call[r].session].st = "live" /\ call'[r] = c
      BY <1>3, <1>9 DEF CallGetsUserId
    <2>2. /\ c.pc = "user" /\ c.user = session[call[r].session].user
          /\ c.session = call[r].session /\ c.ended = call[r].ended /\ c.barred = call[r].barred
      BY DEF TypeOK, Call
    <2> HIDE DEF c
    <2>3. CallFits(c, session, account)
      BY <1>2, <2>1, <2>2 DEF CallFits
    <2> QED BY <2>1, <2>3
  <1>10. ASSUME CallLoadsUser(r)
         PROVE  Keeps
    <2> DEFINE c == [call[r] EXCEPT !.pc = "in"]
    <2>1. call[r].pc = "user" /\ Admissible(call[r].user) /\ call'[r] = c
      BY <1>3, <1>10 DEF CallLoadsUser
    <2>2. /\ c.pc = "in" /\ c.user = call[r].user
          /\ c.session = call[r].session /\ c.ended = call[r].ended /\ c.barred = call[r].barred
      BY DEF TypeOK, Call
    <2> HIDE DEF c
    <2>3. CallFits(c, session, account)
      BY <1>2, <2>1, <2>2 DEF CallFits, Admissible
    <2> QED BY <2>1, <2>3
  <1> HIDE DEF Keeps
  <1>11. Keeps \/ \E u \in User, b \in BOOLEAN : SetActive(u, b)
    BY <1>3, <1>6, <1>7, <1>8, <1>9, <1>10
       DEF Next, vars, Expire, LoginCheck, LoginStep, LoginMint, LoginFails, RegisterCheck,
           RegisterStep, RegisterCompany, RegisterUser, RegisterMint, RegisterCommit,
           RegisterFails, CreateEmployee, CallArrives, CallStep, CallGetsUserId, CallLoadsUser,
           CallRefused, CallAnswers, Logout, OffStart, OffStep, OffGoesOn, OffVisit, OffScanned,
           OffCommit, OffFails, Crash
  <1> QED BY <1>4, <1>5, <1>11 DEF Keeps

\* No step brings a listed key to life.
LEMMA OffGoesOnToFit ==
    ASSUME TypeOK, KeysGoForward, TypeOK', NEW o \in Off, OffFits(o, session)
    PROVE  OffFits(o, session')
  <1>1. SUFFICES ASSUME o.pc # "idle"
                 PROVE  OffFits(o, session')
    BY DEF OffFits
  <1>2. ASSUME NEW s \in o.listed
        PROVE  /\ session'[s].st # "unused" /\ session'[s].user = o.user
               /\ session'[s].st = "live" => s \in o.todo
    <2>1. s \in Session
      BY DEF Off
    <2>2. session[s].st # "unused" /\ session[s].user = o.user /\ (session[s].st = "live" => s \in o.todo)
      BY <1>1 DEF OffFits
    <2>3. session[s].st \in {"unused", "live", "dead"}
      BY <2>1 DEF TypeOK, SessionKey
    <2> QED BY <2>1, <2>2, <2>3 DEF KeysGoForward
  <1> QED BY <1>1, <1>2 DEF OffFits

\* Deletions: what they visit is over, and the rest stays to be visited.
LEMMA OffStepInv ==
    ASSUME TypeOK, TypeOK', RegInv, KeyInv, OffInv, [Next]_vars
    PROVE  OffInv'
  <1>1. SUFFICES ASSUME NEW r \in OffReq
                 PROVE  OffFits(off'[r], session')
    BY DEF OffInv, OffFits
  <1>2. OffFits(off[r], session) /\ off[r] \in Off /\ DOMAIN off = OffReq
    BY DEF OffInv, TypeOK
  <1>3. KeysGoForward
    BY KeysForward
  <1>4. CASE off'[r] = off[r]
    BY <1>2, <1>3, <1>4, OffGoesOnToFit
  <1>5. CASE off'[r] = IdleOff
    BY <1>5 DEF IdleOff, OffFits
  <1>6. ASSUME NEW u \in User, OffStart(r, u)
        PROVE  OffFits(off'[r], session')
    <2> DEFINE o == [pc |-> "scan", user |-> u, todo |-> Live,
                     listed |-> {s \in Live : session[s].user = u}]
    <2>1. off'[r] = o /\ UNCHANGED session
      BY <1>2, <1>6 DEF OffStart
    <2>2. OffFits(o, session)
      BY DEF OffFits, Live
    <2> QED BY <2>1, <2>2
  <1>7. ASSUME OffVisit(r)
        PROVE  OffFits(off'[r], session')
    <2> PICK t \in off[r].todo \cup {q \in Live : session[q].user = off[r].user} :
          /\ session' = [session EXCEPT ![t].st =
                IF @ = "live" /\ session[t].user = off[r].user THEN "dead" ELSE @]
          /\ off' = [off EXCEPT ![r].todo = @ \ {t}]
      BY <1>7 DEF OffVisit
    <2>1. OffFits(off[r], session')
      BY <1>2, <1>3, OffGoesOnToFit
    <2> DEFINE o == [off[r] EXCEPT !.todo = @ \ {t}]
    <2>2. /\ o.pc = off[r].pc /\ o.user = off[r].user /\ o.listed = off[r].listed
          /\ o.todo = off[r].todo \ {t}
      BY <1>2 DEF Off
    <2>3. off'[r] = o /\ off[r].pc = "scan"
      BY <1>2, <1>7 DEF OffVisit
    <2> HIDE DEF o
    <2>4. ASSUME t \in off[r].listed
          PROVE  session'[t].st # "live"
      <3>1. t \in Session /\ session[t].user = off[r].user
        BY <1>2, <2>3, <2>4 DEF OffFits, Off
      <3>2. session'[t].st = IF session[t].st = "live" THEN "dead" ELSE session[t].st
        BY <3>1 DEF TypeOK, SessionKey
      <3> QED BY <3>2
    <2> QED BY <2>1, <2>2, <2>3, <2>4 DEF OffFits
  <1>8. ASSUME OffScanned(r)
        PROVE  OffFits(off'[r], session')
    <2> DEFINE o == [off[r] EXCEPT !.pc = "rows"]
    <2>1. /\ o.pc = "rows" /\ o.user = off[r].user /\ o.listed = off[r].listed
          /\ o.todo = off[r].todo
      BY <1>2 DEF Off
    <2>2. off'[r] = o /\ off[r].pc = "scan" /\ off[r].todo = {} /\ UNCHANGED session
      BY <1>2, <1>8 DEF OffScanned
    <2> HIDE DEF o
    <2> QED BY <1>2, <2>1, <2>2 DEF OffFits
  <1>9. CASE UNCHANGED off \/ Crash
    BY <1>4, <1>5, <1>9 DEF Crash
  <1>10. ASSUME NEW q \in OffReq, q # r \/ OffCommit(q) \/ OffFails(q),
                (\E u \in User : OffStart(q, u)) \/ OffStep(q)
         PROVE  off'[r] = off[r] \/ off'[r] = IdleOff
    <2>1. CASE q # r
      BY <1>2, <1>10, <2>1 DEF OffStart, OffStep, OffGoesOn, OffVisit, OffScanned, OffCommit, OffFails
    <2>2. CASE OffCommit(q) \/ OffFails(q)
      BY <1>2, <2>2 DEF OffCommit, OffFails
    <2> QED BY <1>10, <2>1, <2>2
  <1>11. ASSUME NEW q \in OffReq, (\E u \in User : OffStart(q, u)) \/ OffStep(q)
         PROVE  OffFits(off'[r], session')
    BY <1>4, <1>5, <1>6, <1>7, <1>8, <1>10, <1>11 DEF OffStep, OffGoesOn
  <1> QED
    BY <1>9, <1>11
       DEF Next, vars, Expire, LoginCheck, LoginStep, LoginMint, LoginFails, RegisterCheck,
           RegisterStep, RegisterCompany, RegisterUser, RegisterMint, RegisterCommit,
           RegisterFails, CreateEmployee, SetActive, CallArrives, CallStep, CallGetsUserId,
           CallLoadsUser, CallRefused, CallAnswers, Logout

\* An employee goes when every listed key is over, and the keys stay over.
LEMMA ListedStepInv ==
    ASSUME TypeOK, RegInv, OffInv, ListedInv, [Next]_vars
    PROVE  ListedInv'
  <1>1. AccountsGoForward /\ KeysGoForward
    BY AccountsForward, KeysForward
  <1>2. SUFFICES ASSUME NEW u \in User, NEW s \in account'[u].listed
                 PROVE  account'[u].st = "gone" /\ session'[s].st = "dead"
    BY DEF ListedInv
  <1>3. CASE account'[u].listed = account[u].listed
    <2>1. s \in Session /\ account[u].st = "gone" /\ session[s].st = "dead"
      BY <1>2, <1>3 DEF ListedInv, TypeOK, Account
    <2> QED BY <1>1, <2>1 DEF AccountsGoForward, KeysGoForward
  <1>4. CASE account'[u].listed = {}
    BY <1>2, <1>4
  <1>5. ASSUME NEW r \in OffReq, OffCommit(r), account'[u].listed # account[u].listed
        PROVE  account'[u].st = "gone" /\ session'[s].st = "dead"
    <2>1. off[r].pc = "rows" /\ off[r].user = u /\ UNCHANGED session
      BY <1>5 DEF OffCommit, TypeOK
    <2>2. account'[u] = [account[u] EXCEPT !.st = "gone", !.listed = off[r].listed]
      BY <1>5, <2>1 DEF OffCommit, TypeOK
    <2>3. account'[u].st = "gone" /\ account'[u].listed = off[r].listed
      BY <2>2 DEF TypeOK, Account
    <2>4. s \in Session /\ session[s].st # "unused" /\ session[s].st # "live"
      BY <1>2, <2>1, <2>3 DEF OffInv, OffFits, TypeOK, Off
    <2> QED BY <2>1, <2>3, <2>4 DEF TypeOK, SessionKey
  <1>6. ASSUME NEW r \in RegReq, RegisterUser(r)
        PROVE  account'[u].listed \in {{}, account[u].listed}
    BY <1>6 DEF RegisterUser, Inserted, TypeOK
  <1>7. ASSUME NEW r \in RegReq, RegisterCommit(r)
        PROVE  account'[u].listed = account[u].listed
    BY <1>7 DEF RegisterCommit, TypeOK, Account
  <1>8. ASSUME NEW regs \in SUBSET RegReq, account' = RolledBack(regs)
        PROVE  account'[u].listed \in {{}, account[u].listed}
    BY <1>8 DEF RolledBack, NoAccount
  <1>9. ASSUME NEW email \in Email, CreateEmployee(email)
        PROVE  account'[u].listed \in {{}, account[u].listed}
    BY <1>9 DEF CreateEmployee, Inserted, TypeOK
  <1>10. ASSUME NEW v \in User, NEW b \in BOOLEAN, SetActive(v, b)
         PROVE  account'[u].listed = account[u].listed
    BY <1>10 DEF SetActive, TypeOK, Account
  <1> QED
    BY <1>3, <1>4, <1>5, <1>6, <1>7, <1>8, <1>9, <1>10
       DEF Next, vars, Expire, LoginCheck, LoginStep, LoginMint, LoginFails, RegisterCheck,
           RegisterStep, RegisterCompany, RegisterMint, RegisterFails, CallArrives, CallStep,
           CallGetsUserId, CallLoadsUser, CallRefused, CallAnswers, Logout, OffStart, OffStep,
           OffGoesOn, OffVisit, OffScanned, OffFails, Crash

----------------------------------------------------------------------------
\* The inductive invariant holds at first and is kept by every step.
LEMMA Inductive == Spec => []IInv
  <1>1. Init => IInv
    <2> SUFFICES ASSUME Init
                 PROVE  IInv
      OBVIOUS
    <2> USE DEF Init, NoAccount, NoKey, IdleLogin, IdleReg, IdleCall, IdleOff
    <2>1. TypeOK
      BY DEF TypeOK, Account, SessionKey, Login, Reg, Call, Off
    <2>2. LoginInv /\ RegInv
      BY DEF LoginInv, RegInv
    <2>3. KeyInv /\ CallInv
      BY DEF KeyInv, KeyFits, CallInv, CallFits
    <2>4. OffInv /\ ListedInv
      BY DEF OffInv, OffFits, ListedInv
    <2> QED BY <2>1, <2>2, <2>3, <2>4 DEF IInv
  <1>2. IInv /\ [Next]_vars => IInv'
    BY TypeStep, LoginStepInv, RegStepInv, KeyStepInv, CallStepInv, OffStepInv, ListedStepInv
       DEF IInv
  <1> QED BY <1>1, <1>2, PTL DEF Spec

\* Every variable keeps its type, however many requests there are.
THEOREM SessionsTyped == Spec => []TypeOK
  <1>1. IInv => TypeOK
    BY DEF IInv
  <1> QED BY <1>1, Inductive, PTL

\* get_current_user never lets a request in for a user who was kept out all the time since
\* the request came.
THEOREM BarredNeverGetIn == Spec => []BarredUsersStayOut
  <1>1. IInv => BarredUsersStayOut
    BY DEF IInv, CallInv, CallFits, BarredUsersStayOut
  <1> QED BY <1>1, Inductive, PTL

\* A session that was over when the request came opens nothing.
THEOREM EndedNeverOpen == Spec => []EndedSessionsStayShut
  <1>1. IInv => EndedSessionsStayShut
    BY DEF IInv, CallInv, CallFits, EndedSessionsStayShut
  <1> QED BY <1>1, Inductive, PTL

\* A key never names the account of another person than the one who asked for it, the
\* keys of registrations that were rolled back included.
THEOREM NoKeyChangesHands == Spec => []KeysNameTheirOwner
  <1>1. IInv => KeysNameTheirOwner
    BY DEF IInv, KeyInv, KeyFits, Live, KeysNameTheirOwner
  <1> QED BY <1>1, Inductive, PTL

\* Once an employee is gone, none of the sessions they had when the deletion began is left.
THEOREM RevokedForGood == Spec => []RevocationComplete
  <1>1. IInv => RevocationComplete
    BY DEF IInv, ListedInv, Live, RevocationComplete
  <1> QED BY <1>1, Inductive, PTL

\* No id is given out twice, no e-mail of an account and no user of a key ever changes.
THEOREM OnlyForward == Spec => [][AccountsGoForward /\ KeysGoForward]_vars
  <1>1. IInv /\ [Next]_vars => [AccountsGoForward /\ KeysGoForward]_vars
    BY AccountsForward, KeysForward DEF IInv
  <1> QED BY <1>1, Inductive, PTL DEF Spec

----------------------------------------------------------------------------
(***************************************************************************)
(* Registrations. The two unique indexes are guards over what others have  *)
(* inserted; that they work as indexes is a theorem, and so is that nobody *)
(* who waits for one can be waited for in a circle: all take the company   *)
(* before the user.                                                        *)
(***************************************************************************)
\* Registrations whose company is inserted, those whose user is, and those that still
\* need an id.
HasFirm(r) == reg[r].pc \in {"firm", "user", "minted"}
HasUser(r) == reg[r].pc \in {"user", "minted"}
Asking == {r \in RegReq : reg[r].pc \in {"checked", "firm"}}

Unused == {u \in User : account[u].st = "unused"}

Taken(u) == account[u].st \in {"pending", "row"}

OneAccountEach ==
    \A u, v \in User : Taken(u) /\ Taken(v) /\ account[u].email = account[v].email => u = v

OneFirmEach ==
    /\ \A q, r \in RegReq : HasFirm(q) /\ HasFirm(r) /\ reg[q].firm = reg[r].firm => q = r
    /\ \A r \in RegReq : HasFirm(r) => reg[r].firm \notin firms

UniqueInv == OneAccountEach /\ OneFirmEach

PendingInv ==
    \A u \in User : account[u].st = "pending" => \E r \in RegReq : HasUser(r) /\ reg[r].user = u

FiniteIds == IsFiniteSet(User) /\ IsFiniteSet(RegReq)

UserRoom == Cardinality(Asking) <= Cardinality(Unused)

\* What each step makes of accounts, as far as their states and e-mails go.
LEMMA AccountSteps ==
    ASSUME TypeOK, RegInv, [Next]_vars
    PROVE  \/ /\ UNCHANGED reg
              /\ \A u \in User : /\ account'[u].email = account[u].email
                                 /\ \/ account'[u].st = account[u].st
                                    \/ account[u].st = "row" /\ account'[u].st = "gone"
           \/ \E r \in RegReq :
                 \/ (\E firm, email \in Email : RegisterCheck(r, firm, email))
                 \/ RegisterStep(r)
           \/ \E email \in Email : CreateEmployee(email)
           \/ Crash
  <1>1. ASSUME NEW u \in User, NEW b \in BOOLEAN, SetActive(u, b)
        PROVE  /\ UNCHANGED reg
               /\ \A v \in User : account'[v].email = account[v].email
                                    /\ account'[v].st = account[v].st
    BY <1>1 DEF SetActive, TypeOK, Account
  <1>2. ASSUME NEW r \in OffReq, OffCommit(r)
        PROVE  /\ UNCHANGED reg
               /\ \A v \in User : /\ account'[v].email = account[v].email
                                  /\ \/ account'[v].st = account[v].st
                                     \/ account[v].st = "row" /\ account'[v].st = "gone"
    <2>1. \A v \in User : account'[v] = account[v] \/ (account[v].st = "row" /\ account'[v] =
                [account[v] EXCEPT !.st = "gone", !.listed = off[r].listed])
      BY <1>2 DEF OffCommit, TypeOK
    <2>2. ASSUME NEW v \in User,
                 account'[v] = [account[v] EXCEPT !.st = "gone", !.listed = off[r].listed]
          PROVE  account'[v].st = "gone" /\ account'[v].email = account[v].email
      BY <2>2 DEF TypeOK, Account
    <2>3. UNCHANGED reg
      BY <1>2 DEF OffCommit
    <2> QED BY <2>1, <2>2, <2>3
  <1> QED
    BY <1>1, <1>2
       DEF Next, vars, Expire, LoginCheck, LoginStep, LoginMint, LoginFails, CallArrives,
           CallStep, CallGetsUserId, CallLoadsUser, CallRefused, CallAnswers, Logout, OffStart,
           OffStep, OffGoesOn, OffVisit, OffScanned, OffFails

\* What a registration that ends in a rollback or a commit leaves.
LEMMA RollbackFacts ==
    ASSUME TypeOK, RegInv, NEW regs \in SUBSET RegReq
    PROVE  \A u \in User :
              LET a == RolledBack(regs)[u] IN
                \/ a = account[u] /\ \A r \in regs : HasUser(r) => reg[r].user # u
                \/ /\ a.st = "gone" /\ account[u].st = "pending"
                   /\ \E r \in regs : HasUser(r) /\ reg[r].user = u
  <1> SUFFICES ASSUME NEW u \in User
               PROVE  \/ /\ RolledBack(regs)[u] = account[u]
                         /\ \A r \in regs : HasUser(r) => reg[r].user # u
                      \/ /\ RolledBack(regs)[u].st = "gone" /\ account[u].st = "pending"
                         /\ \E r \in regs : HasUser(r) /\ reg[r].user = u
    OBVIOUS
  <1>1. CASE \E r \in regs : reg[r].user = u
    <2>1. PICK r \in regs : reg[r].user = u
      BY <1>1
    <2>2. HasUser(r)
      BY <2>1, SessionsAssumption DEF RegInv, HasUser
    <2>3. account[u].st = "pending"
      BY <2>1, <2>2 DEF RegInv, HasUser
    <2>4. RolledBack(regs)[u].st = "gone"
      BY <1>1 DEF RolledBack, NoAccount
    <2> QED BY <2>1, <2>2, <2>3, <2>4
  <1>2. CASE ~ \E r \in regs : reg[r].user = u
    BY <1>2 DEF RolledBack
  <1> QED BY <1>1, <1>2

\* Every step of a registration, as far as indexes and ids go.
LEMMA RegisterSteps ==
    ASSUME TypeOK, RegInv, NEW r \in RegReq
    PROVE  /\ \A firm, email \in Email : RegisterCheck(r, firm, email) =>
                 /\ UNCHANGED <<account, firms>> /\ reg'[r].pc = "checked" /\ reg[r].pc = "idle"
                 /\ \A q \in RegReq \ {r} : reg'[q] = reg[q]
           /\ RegisterCompany(r) =>
                 /\ UNCHANGED <<account, firms>> /\ reg'[r] = [reg[r] EXCEPT !.pc = "firm"]
                 /\ reg[r].pc = "checked" /\ ~FirmLocked(r) /\ reg[r].firm \notin firms
                 /\ \A q \in RegReq \ {r} : reg'[q] = reg[q]
           /\ RegisterMint(r) =>
                 /\ UNCHANGED <<account, firms>> /\ reg[r].pc = "user" /\ reg'[r].pc = "minted"
                 /\ reg'[r].firm = reg[r].firm /\ reg'[r].user = reg[r].user
                 /\ \A q \in RegReq \ {r} : reg'[q] = reg[q]
           /\ RegisterFails(r) \/ RegisterCommit(r) =>
                 /\ reg[r].pc # "idle" /\ reg'[r] = IdleReg
                 /\ \A q \in RegReq \ {r} : reg'[q] = reg[q]
  <1> USE DEF TypeOK, Reg
  <1>1. ASSUME NEW firm \in Email, NEW email \in Email, RegisterCheck(r, firm, email)
        PROVE  /\ UNCHANGED <<account, firms>> /\ reg'[r].pc = "checked" /\ reg[r].pc = "idle"
               /\ \A q \in RegReq \ {r} : reg'[q] = reg[q]
    BY <1>1 DEF RegisterCheck, IdleReg
  <1>2. ASSUME RegisterCompany(r)
        PROVE  /\ UNCHANGED <<account, firms>> /\ reg'[r] = [reg[r] EXCEPT !.pc = "firm"]
               /\ reg[r].pc = "checked" /\ ~FirmLocked(r) /\ reg[r].firm \notin firms
               /\ \A q \in RegReq \ {r} : reg'[q] = reg[q]
    BY <1>2 DEF RegisterCompany
  <1>3. ASSUME RegisterMint(r)
        PROVE  /\ UNCHANGED <<account, firms>> /\ reg[r].pc = "user" /\ reg'[r].pc = "minted"
               /\ reg'[r].firm = reg[r].firm /\ reg'[r].user = reg[r].user
               /\ \A q \in RegReq \ {r} : reg'[q] = reg[q]
    <2>1. PICK s \in Session :
             reg' = [reg EXCEPT ![r] = [reg[r] EXCEPT !.pc = "minted", !.session = s]]
      BY <1>3 DEF RegisterMint
    <2>2. UNCHANGED <<account, firms>> /\ reg[r].pc = "user"
      BY <1>3 DEF RegisterMint
    <2> QED BY <2>1, <2>2
  <1>4. ASSUME RegisterFails(r) \/ RegisterCommit(r)
        PROVE  /\ reg[r].pc # "idle" /\ reg'[r] = IdleReg
               /\ \A q \in RegReq \ {r} : reg'[q] = reg[q]
    BY <1>4 DEF RegisterFails, RegisterCommit
  <1> QED BY <1>1, <1>2, <1>3, <1>4

\* The INSERT of a user takes one unused id.
LEMMA InsertFacts ==
    ASSUME TypeOK, NEW r \in RegReq, RegisterUser(r)
    PROVE  \E u \in User :
              /\ account[u].st = "unused" /\ account'[u].st = "pending"
              /\ account'[u].email = reg[r].email
              /\ \A v \in User \ {u} : account'[v] = account[v]
              /\ reg[r].pc = "firm" /\ reg'[r].pc = "user" /\ reg'[r].user = u
              /\ reg'[r].firm = reg[r].firm /\ firms' = firms
              /\ \A q \in RegReq \ {r} : reg'[q] = reg[q]
              /\ \A v \in User : Taken(v) => account[v].email # reg[r].email
  <1>1. PICK u \in User : /\ account[u].st = "unused"
                          /\ account' = [account EXCEPT ![u] = Inserted(reg[r].email, FALSE, "pending")]
                          /\ reg' = [reg EXCEPT ![r] = [reg[r] EXCEPT !.pc = "user", !.user = u]]
    BY DEF RegisterUser
  <1>2. reg[r] \in Reg /\ reg[r].pc = "firm" /\ firms' = firms
    BY DEF RegisterUser, TypeOK
  <1>3. \A v \in User : Taken(v) => account[v].email # reg[r].email
    BY DEF RegisterUser, EmailLocked, UserWith, Rows, Taken
  <1>4. /\ reg'[r].pc = "user" /\ reg'[r].user = u /\ reg'[r].firm = reg[r].firm
        /\ \A q \in RegReq \ {r} : reg'[q] = reg[q]
    BY <1>1, <1>2 DEF TypeOK, Reg
  <1>5. /\ account'[u].st = "pending" /\ account'[u].email = reg[r].email
        /\ \A v \in User \ {u} : account'[v] = account[v]
    BY <1>1 DEF TypeOK, Inserted
  <1> QED BY <1>1, <1>2, <1>3, <1>4, <1>5

\* So does the INSERT of an employee.
LEMMA CreateFacts ==
    ASSUME TypeOK, NEW email \in Email, CreateEmployee(email)
    PROVE  \E u \in User :
              /\ account[u].st = "unused" /\ account'[u].st = "row" /\ account'[u].email = email
              /\ \A v \in User \ {u} : account'[v] = account[v]
              /\ UNCHANGED <<reg, firms>>
              /\ \A v \in User : Taken(v) => account[v].email # email
  <1>1. PICK u \in User : /\ account[u].st = "unused"
                          /\ account' = [account EXCEPT ![u] = Inserted(email, TRUE, "row")]
    BY DEF CreateEmployee
  <1>2. \A v \in User : Taken(v) => account[v].email # email
    BY DEF CreateEmployee, EmailLocked, UserWith, Rows, Taken
  <1>3. UNCHANGED <<reg, firms>>
    BY DEF CreateEmployee
  <1> QED BY <1>1, <1>2, <1>3 DEF TypeOK, Inserted

\* A commit makes the user's row visible.
LEMMA CommitFacts ==
    ASSUME TypeOK, RegInv, NEW r \in RegReq, RegisterCommit(r)
    PROVE  /\ HasUser(r) /\ HasFirm(r) /\ reg[r].user \in User /\ firms' = firms \cup {reg[r].firm}
           /\ account[reg[r].user].st = "pending" /\ account'[reg[r].user].st = "row"
           /\ \A u \in User : /\ account'[u].email = account[u].email
                              /\ u # reg[r].user => account'[u] = account[u]
  BY DEF RegisterCommit, RegInv, HasUser, HasFirm, TypeOK, Account

\* Every step keeps the indexes: an INSERT finds nobody who has the key.
LEMMA UniqueStep ==
    ASSUME TypeOK, RegInv, UniqueInv, [Next]_vars
    PROVE  UniqueInv'
  <1>0. OneAccountEach /\ OneFirmEach
    BY DEF UniqueInv
  <1>i. IdleReg.pc = "idle"
    BY DEF IdleReg
  <1>t. reg \in [RegReq -> Reg] /\ account \in [User -> Account]
    BY DEF TypeOK
  <1>f. firms' = firms \/ \E r \in RegReq : RegisterCommit(r)
    BY DEF Next, vars, Expire, LoginCheck, LoginStep, LoginMint, LoginFails, RegisterCheck,
           RegisterStep, RegisterCompany, RegisterUser, RegisterMint, RegisterFails,
           CreateEmployee, SetActive, CallArrives, CallStep, CallGetsUserId, CallLoadsUser,
           CallRefused, CallAnswers, Logout, OffStart, OffStep, OffGoesOn, OffVisit, OffScanned,
           OffCommit, OffFails, Crash
  <1>1. CASE /\ UNCHANGED reg
             /\ \A u \in User : /\ account'[u].email = account[u].email
                                /\ \/ account'[u].st = account[u].st
                                   \/ account[u].st = "row" /\ account'[u].st = "gone"
    <2>1. OneAccountEach'
      BY <1>0, <1>1 DEF OneAccountEach, OneFirmEach, Taken, HasFirm
    <2>2. ASSUME NEW r \in RegReq, RegisterCommit(r) PROVE FALSE
      BY <1>1, <2>2, <1>i, RegisterSteps
    <2> QED BY <1>0, <1>1, <1>f, <2>1, <2>2 DEF UniqueInv, OneAccountEach, OneFirmEach, Taken, HasFirm
  <1>2. ASSUME NEW r \in RegReq,
               RegisterStep(r) \/ \E firm, email \in Email : RegisterCheck(r, firm, email)
        PROVE  UniqueInv'
    <2>1. ASSUME NEW firm \in Email, NEW email \in Email, RegisterCheck(r, firm, email)
          PROVE  UniqueInv'
      <3>1. /\ UNCHANGED <<account, firms>> /\ reg'[r].pc = "checked"
            /\ \A q \in RegReq \ {r} : reg'[q] = reg[q]
        BY <2>1, RegisterSteps
      <3> QED BY <1>0, <3>1 DEF UniqueInv, OneAccountEach, OneFirmEach, Taken, HasFirm
    <2>2. CASE RegisterCompany(r)
      <3>1. /\ UNCHANGED <<account, firms>> /\ reg'[r] = [reg[r] EXCEPT !.pc = "firm"]
            /\ reg[r].pc = "checked" /\ ~FirmLocked(r) /\ reg[r].firm \notin firms
            /\ \A q \in RegReq \ {r} : reg'[q] = reg[q]
        BY <2>2, RegisterSteps
      <3>2. reg'[r].firm = reg[r].firm
        BY <3>1 DEF TypeOK, Reg
      <3>3. \A q \in RegReq \ {r} : reg[q].pc \in {"firm", "user", "minted"} =>
                                       reg[q].firm # reg[r].firm
        BY <3>1 DEF FirmLocked
      <3>4. OneAccountEach'
        BY <1>0, <3>1 DEF OneAccountEach, Taken
      <3>5. \A q \in RegReq \ {r} : HasFirm(q)' <=> HasFirm(q)
        BY <3>1 DEF HasFirm
      <3>6. \A q \in RegReq : reg'[q].firm = reg[q].firm
        BY <3>1, <3>2
      <3>7. \A q \in RegReq \ {r} : HasFirm(q) => reg[q].firm # reg[r].firm
        BY <3>3 DEF HasFirm
      <3>8. reg[r].firm \notin firms /\ firms' = firms
        BY <3>1
      <3>9. \A p, q \in RegReq : HasFirm(p)' /\ HasFirm(q)' /\ reg'[p].firm = reg'[q].firm => p = q
        BY <1>0, <3>5, <3>6, <3>7 DEF OneFirmEach
      <3>10. \A q \in RegReq : HasFirm(q)' => reg'[q].firm \notin firms'
        BY <1>0, <3>5, <3>6, <3>8 DEF OneFirmEach
      <3> QED BY <3>4, <3>9, <3>10 DEF UniqueInv, OneFirmEach
    <2>3. CASE RegisterUser(r)
      <3>1. PICK u \in User :
              /\ account'[u].st = "pending" /\ account'[u].email = reg[r].email
              /\ \A v \in User \ {u} : account'[v] = account[v]
              /\ reg[r].pc = "firm" /\ reg'[r].pc = "user"
              /\ reg'[r].firm = reg[r].firm /\ firms' = firms
              /\ \A q \in RegReq \ {r} : reg'[q] = reg[q]
              /\ \A v \in User : Taken(v) => account[v].email # reg[r].email
        BY <2>3, InsertFacts
      <3>2. OneAccountEach'
        BY <1>0, <3>1 DEF OneAccountEach, Taken
      <3>3. OneFirmEach'
        BY <1>0, <3>1 DEF OneAccountEach, OneFirmEach, Taken, HasFirm
      <3> QED BY <3>2, <3>3 DEF UniqueInv, OneAccountEach, OneFirmEach, Taken, HasFirm
    <2>4. CASE RegisterMint(r)
      <3>1. /\ UNCHANGED <<account, firms>> /\ reg[r].pc = "user" /\ reg'[r].firm = reg[r].firm
            /\ \A q \in RegReq \ {r} : reg'[q] = reg[q]
        BY <2>4, RegisterSteps
      <3> QED BY <1>0, <3>1 DEF UniqueInv, OneAccountEach, OneFirmEach, Taken, HasFirm
    <2>5. CASE RegisterCommit(r)
      <3>1. /\ HasFirm(r) /\ reg[r].user \in User /\ firms' = firms \cup {reg[r].firm}
            /\ account[reg[r].user].st = "pending"
            /\ \A u \in User : /\ account'[u].email = account[u].email
                               /\ u # reg[r].user => account'[u] = account[u]
        BY <2>5, CommitFacts
      <3>2. reg'[r] = IdleReg /\ \A q \in RegReq \ {r} : reg'[q] = reg[q]
        BY <2>5, RegisterSteps
      <3>3. \A u \in User : account'[u].st \in {"pending", "row"} => account[u].st \in {"pending", "row"}
        BY <3>1
      <3>4. OneAccountEach'
        BY <1>0, <3>1, <3>3 DEF OneAccountEach, OneFirmEach, Taken, HasFirm
      <3>5. OneFirmEach'
        BY <1>0, <1>i, <3>1, <3>2 DEF OneFirmEach, HasFirm
      <3> QED BY <3>4, <3>5 DEF UniqueInv, OneAccountEach, OneFirmEach, Taken, HasFirm
    <2>6. CASE RegisterFails(r)
      <3>1. /\ reg'[r] = IdleReg /\ \A q \in RegReq \ {r} : reg'[q] = reg[q]
            /\ account' = RolledBack({r}) /\ firms' = firms
        BY <2>6, RegisterSteps DEF RegisterFails
      <3>2. \A u \in User : account'[u] = account[u] \/ account'[u].st = "gone"
        BY <3>1, RollbackFacts
      <3> QED BY <1>0, <1>i, <3>1, <3>2 DEF UniqueInv, OneAccountEach, OneFirmEach, Taken, HasFirm
    <2> QED BY <1>2, <2>1, <2>2, <2>3, <2>4, <2>5, <2>6 DEF RegisterStep
  <1>3. ASSUME NEW email \in Email, CreateEmployee(email)
        PROVE  UniqueInv'
    <2>1. PICK u \in User :
              /\ account'[u].st = "row" /\ account'[u].email = email
              /\ \A v \in User \ {u} : account'[v] = account[v]
              /\ UNCHANGED <<reg, firms>>
              /\ \A v \in User : Taken(v) => account[v].email # email
      BY <1>3, CreateFacts
    <2>2. OneAccountEach'
      BY <1>0, <2>1 DEF OneAccountEach, Taken
    <2> QED BY <1>0, <2>1, <2>2 DEF UniqueInv, OneAccountEach, OneFirmEach, Taken, HasFirm
  <1>4. CASE Crash
    <2>1. /\ \A q \in RegReq : reg'[q] = IdleReg
          /\ account' = RolledBack({q \in RegReq : reg[q].pc # "idle"}) /\ firms' = firms
      BY <1>4 DEF Crash
    <2>2. \A u \in User : account'[u] = account[u] \/ account'[u].st = "gone"
      BY <2>1, RollbackFacts
    <2> QED BY <1>0, <1>i, <2>1, <2>2 DEF UniqueInv, OneAccountEach, OneFirmEach, Taken, HasFirm
  <1> QED BY <1>1, <1>2, <1>3, <1>4, AccountSteps

\* The unique indexes of user.email and of the company hold for any number of
\* registrations and new employees, the uncommitted ones included.
THEOREM IndexesAreUnique == Spec => []UniqueInv
  <1>1. Init => UniqueInv
    BY DEF Init, UniqueInv, OneAccountEach, OneFirmEach, Taken, HasFirm, NoAccount, IdleReg
  <1>2. IInv /\ UniqueInv /\ [Next]_vars => UniqueInv'
    BY UniqueStep DEF IInv
  <1> QED BY <1>1, <1>2, Inductive, PTL DEF Spec

\* A row that is not committed is some registration's: every step keeps it so.
LEMMA PendingStep ==
    ASSUME TypeOK, RegInv, PendingInv, [Next]_vars
    PROVE  PendingInv'
  <1>1. CASE /\ UNCHANGED reg
             /\ \A u \in User : /\ account'[u].email = account[u].email
                                /\ \/ account'[u].st = account[u].st
                                   \/ account[u].st = "row" /\ account'[u].st = "gone"
    BY <1>1 DEF PendingInv, HasUser
  <1>2. ASSUME NEW r \in RegReq,
               RegisterStep(r) \/ \E firm, email \in Email : RegisterCheck(r, firm, email)
        PROVE  PendingInv'
    <2>1. CASE (\E firm, email \in Email : RegisterCheck(r, firm, email)) \/ RegisterCompany(r)
      <3>1. /\ account' = account /\ reg[r].pc \notin {"user", "minted"}
            /\ \A q \in RegReq \ {r} : reg'[q] = reg[q]
        BY <2>1, RegisterSteps
      <3> QED BY <3>1 DEF PendingInv, HasUser
    <2>2. CASE RegisterUser(r)
      <3>1. PICK u \in User :
              /\ \A v \in User \ {u} : account'[v] = account[v]
              /\ reg[r].pc = "firm" /\ reg'[r].pc = "user" /\ reg'[r].user = u
              /\ \A q \in RegReq \ {r} : reg'[q] = reg[q]
        BY <2>2, InsertFacts
      <3> QED BY <3>1 DEF PendingInv, HasUser
    <2>3. CASE RegisterMint(r)
      <3>1. /\ account' = account /\ reg'[r].pc = "minted" /\ reg'[r].user = reg[r].user
            /\ \A q \in RegReq \ {r} : reg'[q] = reg[q]
        BY <2>3, RegisterSteps
      <3> QED BY <3>1 DEF PendingInv, HasUser
    <2>4. CASE RegisterCommit(r)
      <3>1. /\ account'[reg[r].user].st = "row"
            /\ \A u \in User : u # reg[r].user => account'[u] = account[u]
        BY <2>4, CommitFacts
      <3>2. \A q \in RegReq \ {r} : reg'[q] = reg[q]
        BY <2>4, RegisterSteps
      <3> QED BY <3>1, <3>2 DEF PendingInv, HasUser
    <2>5. CASE RegisterFails(r)
      <3>1. /\ account' = RolledBack({r})
            /\ \A q \in RegReq \ {r} : reg'[q] = reg[q]
        BY <2>5, RegisterSteps DEF RegisterFails
      <3>2. \A u \in User : \/ account'[u] = account[u] /\ (HasUser(r) => reg[r].user # u)
                            \/ account'[u].st = "gone"
        BY <3>1, RollbackFacts
      <3>3. ASSUME NEW u \in User, account'[u].st = "pending"
            PROVE  \E q \in RegReq \ {r} : HasUser(q) /\ reg[q].user = u
        <4>1. account'[u] = account[u] /\ (HasUser(r) => reg[r].user # u)
          BY <3>2, <3>3
        <4> QED BY <3>3, <4>1 DEF PendingInv
      <3>4. \A q \in RegReq \ {r} : HasUser(q) => HasUser(q)' /\ reg'[q].user = reg[q].user
        BY <3>1 DEF HasUser
      <3> QED BY <3>3, <3>4 DEF PendingInv
    <2> QED BY <1>2, <2>1, <2>2, <2>3, <2>4, <2>5 DEF RegisterStep
  <1>3. ASSUME NEW email \in Email, CreateEmployee(email)
        PROVE  PendingInv'
    <2>1. PICK u \in User : /\ account'[u].st = "row" /\ reg' = reg
                            /\ \A v \in User \ {u} : account'[v] = account[v]
      BY <1>3, CreateFacts
    <2> QED BY <2>1 DEF PendingInv, HasUser
  <1>4. CASE Crash
    <2> DEFINE open == {q \in RegReq : reg[q].pc # "idle"}
    <2>1. account' = RolledBack(open)
      BY <1>4 DEF Crash
    <2>2. \A u \in User : \/ account'[u] = account[u] /\ (\A r \in open : HasUser(r) => reg[r].user # u)
                          \/ account'[u].st = "gone"
      BY <2>1, RollbackFacts
    <2>3. \A u \in User : account'[u].st # "pending"
      BY <2>2 DEF PendingInv, HasUser
    <2> QED BY <2>3 DEF PendingInv
  <1> QED BY <1>1, <1>2, <1>3, <1>4, AccountSteps

\* Every step leaves an id for every registration that still needs one.
LEMMA RoomStep ==
    ASSUME TypeOK, RegInv, FiniteIds, UserRoom, [Next]_vars
    PROVE  UserRoom'
  <1>f. /\ IsFiniteSet(Unused) /\ IsFiniteSet(Asking)
        /\ Cardinality(Unused) \in Nat /\ Cardinality(Asking) \in Nat
    BY FS_Subset, FS_CardinalityType DEF FiniteIds, Unused, Asking
  <1>s. ASSUME Unused' = Unused, Asking' \subseteq Asking
        PROVE  UserRoom'
    <2>1. Cardinality(Asking') \in Nat /\ Cardinality(Asking') <= Cardinality(Asking)
      BY <1>f, <1>s, FS_Subset, FS_CardinalityType
    <2> DEFINE a == Cardinality(Asking)
               b == Cardinality(Unused)
               c == Cardinality(Asking')
    <2>2. a \in Nat /\ b \in Nat /\ c \in Nat /\ c <= a /\ a <= b
      BY <1>f, <2>1 DEF UserRoom
    <2>3. c <= b
      <3> HIDE DEF a, b, c
      <3> QED BY <2>2
    <2> QED BY <1>s, <2>3 DEF UserRoom
  <1>1. CASE /\ UNCHANGED reg
             /\ \A u \in User : /\ account'[u].email = account[u].email
                                /\ \/ account'[u].st = account[u].st
                                   \/ account[u].st = "row" /\ account'[u].st = "gone"
    BY <1>1, <1>s DEF Unused, Asking
  <1>2. ASSUME NEW r \in RegReq,
               RegisterStep(r) \/ \E firm, email \in Email : RegisterCheck(r, firm, email)
        PROVE  UserRoom'
    <2>1. ASSUME NEW firm \in Email, NEW email \in Email, RegisterCheck(r, firm, email)
          PROVE  UserRoom'
      <3>1. /\ account' = account /\ reg'[r].pc = "checked" /\ reg[r].pc = "idle"
            /\ \A q \in RegReq \ {r} : reg'[q] = reg[q]
        BY <2>1, RegisterSteps
      <3>2. Unused' = Unused /\ Asking' = Asking \cup {r} /\ r \notin Asking
        BY <3>1 DEF Unused, Asking
      <3>3. Cardinality(Unused) > Cardinality(Asking)
        BY <2>1 DEF RegisterCheck, RoomForUser, Unused, Asking
      <3>4. Cardinality(Asking') = Cardinality(Asking) + 1
        BY <1>f, <3>2, FS_AddElement
      <3> QED BY <1>f, <3>2, <3>3, <3>4 DEF UserRoom
    <2>2. CASE RegisterCompany(r)
      <3>1. /\ account' = account /\ reg[r].pc = "checked"
            /\ \A q \in RegReq \ {r} : reg'[q] = reg[q]
        BY <2>2, RegisterSteps
      <3>2. Unused' = Unused /\ Asking' \subseteq Asking
        BY <3>1 DEF Unused, Asking
      <3> QED BY <3>2, <1>s
    <2>3. CASE RegisterUser(r)
      <3>1. PICK u \in User :
              /\ account[u].st = "unused" /\ account'[u].st = "pending"
              /\ \A v \in User \ {u} : account'[v] = account[v]
              /\ reg[r].pc = "firm" /\ reg'[r].pc = "user"
              /\ \A q \in RegReq \ {r} : reg'[q] = reg[q]
        BY <2>3, InsertFacts
      <3>2. Unused' = Unused \ {u} /\ u \in Unused
        BY <3>1 DEF Unused
      <3>3. Asking' = Asking \ {r} /\ r \in Asking
        BY <3>1 DEF Asking
      <3>4. /\ Cardinality(Unused') = Cardinality(Unused) - 1
            /\ Cardinality(Asking') = Cardinality(Asking) - 1
        BY <1>f, <3>2, <3>3, FS_RemoveElement
      <3> QED BY <1>f, <3>4 DEF UserRoom
    <2>4. CASE RegisterMint(r)
      <3>1. /\ account' = account /\ reg'[r].pc = "minted"
            /\ \A q \in RegReq \ {r} : reg'[q] = reg[q]
        BY <2>4, RegisterSteps
      <3>2. Unused' = Unused /\ Asking' \subseteq Asking
        BY <3>1 DEF Unused, Asking
      <3> QED BY <3>2, <1>s
    <2>5. CASE RegisterCommit(r)
      <3>1. /\ reg'[r] = IdleReg
            /\ \A q \in RegReq \ {r} : reg'[q] = reg[q]
        BY <2>5, RegisterSteps
      <3>2. Asking' \subseteq Asking
        BY <3>1 DEF Asking, IdleReg
      <3>3. Unused' = Unused
        BY <2>5, CommitFacts DEF Unused
      <3> QED BY <3>2, <3>3, <1>s
    <2>6. CASE RegisterFails(r)
      <3>1. /\ reg'[r] = IdleReg /\ account' = RolledBack({r})
            /\ \A q \in RegReq \ {r} : reg'[q] = reg[q]
        BY <2>6, RegisterSteps DEF RegisterFails
      <3>2. Asking' \subseteq Asking
        BY <3>1 DEF Asking, IdleReg
      <3>3. \A u \in User : \/ account'[u] = account[u]
                            \/ account'[u].st = "gone" /\ account[u].st = "pending"
        BY <3>1, RollbackFacts
      <3>4. Unused' = Unused
        BY <3>3 DEF Unused
      <3> QED BY <3>2, <3>4, <1>s
    <2> QED BY <1>2, <2>1, <2>2, <2>3, <2>4, <2>5, <2>6 DEF RegisterStep
  <1>3. ASSUME NEW email \in Email, CreateEmployee(email)
        PROVE  UserRoom'
    <2>1. PICK u \in User : /\ account[u].st = "unused" /\ account'[u].st = "row" /\ reg' = reg
                            /\ \A v \in User \ {u} : account'[v] = account[v]
      BY <1>3, CreateFacts
    <2>2. Unused' = Unused \ {u} /\ u \in Unused
      BY <2>1 DEF Unused
    <2>3. Asking' = Asking
      BY <2>1 DEF Asking
    <2>4. Cardinality(Unused') = Cardinality(Unused) - 1
      BY <1>f, <2>2, FS_RemoveElement
    <2>5. Cardinality(Unused) > Cardinality(Asking)
      BY <1>3 DEF CreateEmployee, RoomForUser, Unused, Asking
    <2> QED BY <1>f, <2>3, <2>4, <2>5 DEF UserRoom
  <1>4. CASE Crash
    <2>1. /\ \A q \in RegReq : reg'[q] = IdleReg
          /\ account' = RolledBack({q \in RegReq : reg[q].pc # "idle"})
      BY <1>4 DEF Crash
    <2>2. Asking' \subseteq Asking
      BY <2>1 DEF Asking, IdleReg
    <2>3. \A u \in User : \/ account'[u] = account[u]
                          \/ account'[u].st = "gone" /\ account[u].st = "pending"
      BY <2>1, RollbackFacts
    <2>4. Unused' = Unused
      BY <2>3 DEF Unused
    <2> QED BY <2>2, <2>4, <1>s
  <1> QED BY <1>1, <1>2, <1>3, <1>4, AccountSteps

\* The guards of RegisterStep: the ids and uuids that the bounds keep, and the indexes.
RegGoesOn(r) ==
    \/ reg[r].pc = "checked" /\ ~FirmLocked(r)
    \/ reg[r].pc = "firm" /\ ~EmailLocked(reg[r].email)
    \/ HasUser(r)

RegWaitsFor(r, q) ==
    \/ reg[r].pc = "checked" /\ q # r /\ HasFirm(q) /\ reg[q].firm = reg[r].firm
    \/ /\ reg[r].pc = "firm"
       /\ HasUser(q) /\ reg[q].user \in User /\ account[reg[q].user].email = reg[r].email

\* A registration that waits for an index waits for one that goes on, or for one that
\* waits for one that goes on; and one that may insert a user has an id for it.
RegistrationsGoOn ==
    \A r \in RegReq :
       /\ reg[r].pc # "idle" =>
             \/ RegGoesOn(r)
             \/ \E q \in RegReq : /\ RegWaitsFor(r, q)
                                  /\ \/ RegGoesOn(q)
                                     \/ \E p \in RegReq : RegWaitsFor(q, p) /\ RegGoesOn(p)
       /\ reg[r].pc = "firm" => Unused # {}

\* No registration waits in a circle: the company comes before the user.
LEMMA NoCircle ==
    ASSUME TypeOK, RegInv, PendingInv
    PROVE  \A r \in RegReq : reg[r].pc # "idle" =>
             \/ RegGoesOn(r)
             \/ \E q \in RegReq : /\ RegWaitsFor(r, q)
                                  /\ \/ RegGoesOn(q)
                                     \/ \E p \in RegReq : RegWaitsFor(q, p) /\ RegGoesOn(p)
  <1>1. ASSUME NEW r \in RegReq, reg[r].pc = "firm", ~RegGoesOn(r)
        PROVE  \E q \in RegReq : RegWaitsFor(r, q) /\ RegGoesOn(q)
    <2>1. PICK u \in User : account[u].st = "pending" /\ account[u].email = reg[r].email
      BY <1>1 DEF RegGoesOn, EmailLocked
    <2>2. PICK q \in RegReq : HasUser(q) /\ reg[q].user = u
      BY <2>1 DEF PendingInv
    <2> QED BY <1>1, <2>1, <2>2 DEF RegWaitsFor, RegGoesOn
  <1>2. ASSUME NEW r \in RegReq, reg[r].pc = "checked", ~RegGoesOn(r)
        PROVE  \E q \in RegReq : RegWaitsFor(r, q) /\ reg[q].pc \in {"firm", "user", "minted"}
    BY <1>2 DEF RegGoesOn, FirmLocked, RegWaitsFor, HasFirm
  <1>3. \A r \in RegReq : reg[r].pc \in {"idle", "checked", "firm", "user", "minted"}
    BY DEF TypeOK, Reg
  <1>4. \A r \in RegReq : reg[r].pc \in {"user", "minted"} => RegGoesOn(r)
    BY DEF RegGoesOn, HasUser
  <1> QED BY <1>1, <1>2, <1>3, <1>4

\* Registrations that wait for each other's company or user never deadlock, and the
\* sequence never runs out under one that has checked the bounds.
THEOREM RegistrationsNeverStuck == FiniteIds => (Spec => []RegistrationsGoOn)
  <1> SUFFICES ASSUME FiniteIds
               PROVE  Spec => []RegistrationsGoOn
    OBVIOUS
  <1>1. Init => PendingInv
    BY DEF Init, PendingInv, NoAccount
  <1>2. Init => UserRoom
    <2> SUFFICES ASSUME Init
                 PROVE  UserRoom
      OBVIOUS
    <2>1. Asking = {}
      BY DEF Init, Asking, IdleReg
    <2>2. Cardinality(Asking) = 0 /\ Cardinality(Unused) \in Nat
      BY <2>1, FS_EmptySet, FS_Subset, FS_CardinalityType DEF FiniteIds, Unused
    <2> QED BY <2>2 DEF UserRoom
  <1>3. IInv /\ PendingInv /\ [Next]_vars => PendingInv'
    BY PendingStep DEF IInv
  <1>4. IInv /\ UserRoom /\ [Next]_vars => UserRoom'
    BY RoomStep DEF IInv
  <1>5. IInv /\ PendingInv /\ UserRoom => RegistrationsGoOn
    <2> SUFFICES ASSUME IInv, PendingInv, UserRoom
                 PROVE  RegistrationsGoOn
      OBVIOUS
    <2>1. ASSUME NEW r \in RegReq, reg[r].pc = "firm", Unused = {}
          PROVE  FALSE
      <3>1. Cardinality(Unused) = 0
        BY <2>1, FS_EmptySet
      <3>2. IsFiniteSet(Asking) /\ Cardinality(Asking) \in Nat
        BY FS_Subset, FS_CardinalityType DEF FiniteIds, Asking
      <3>3. Cardinality(Asking) = 0
        BY <3>1, <3>2 DEF UserRoom
      <3>4. Asking = {}
        BY <3>2, <3>3, FS_EmptySet
      <3> QED BY <2>1, <3>4 DEF Asking
    <2> QED BY <2>1, NoCircle DEF IInv, RegistrationsGoOn
  <1> QED BY <1>1, <1>2, <1>3, <1>4, <1>5, Inductive, PTL DEF Spec
=============================================================================
