---------------------------- MODULE TimeClock ----------------------------
(***************************************************************************)
(* The QR punch clock: QR codes (api/routers/qr.py) and the time entries   *)
(* they open and close (qr.py and api/routers/time_entries.py).            *)
(*                                                                         *)
(* Every HTTP request is a coroutine with its own database transaction.    *)
(* PostgreSQL runs them at READ COMMITTED: each SELECT sees what is        *)
(* committed when it runs, the ORM keeps what it loaded, and its writes go *)
(* out when the handler commits. A handler is therefore a program counter  *)
(* and what it has loaded so far; one action is one statement, and the     *)
(* final flush-and-commit is one action.                                   *)
(***************************************************************************)
EXTENDS Naturals, FiniteSets

CONSTANTS
    Company, Employee,
    EmployerOf,       \* the company_id of an employee's user: no handler changes it
    Code,             \* primary keys of qr_session, one token each
    Entry,            \* primary keys of time_entry; a sequence never reuses one
    ScanReq, GenReq, EditReq,   \* requests in flight, by handler
    Null,             \* SQL NULL
    Keep,             \* a field that a PATCH body does not set
    Bodies,           \* the PATCH bodies that admins send
    Serial,           \* TRUE: a client waits for an answer before it asks again
    MaxTime,          \* bound of the clock
    QrTtl             \* QR_TTL_MINUTES

Time == 0..MaxTime

Body == [check_in : Time \cup {Null, Keep}, check_out : Time \cup {Null, Keep}]

ASSUME TimeClockAssumption ==
    /\ EmployerOf \in [Employee -> Company]
    /\ MaxTime \in Nat /\ QrTtl \in Nat \ {0}
    /\ Null \notin Time /\ Keep \notin Time /\ Null # Keep
    /\ Null \notin Employee /\ Null \notin Company
    /\ Null \notin Code /\ Null \notin Entry
    /\ Bodies \subseteq Body
    /\ Serial \in BOOLEAN

VARIABLES
    now,        \* datetime.now(UTC)
    staff,      \* the employees whose profile row exists
    code,       \* table qr_session
    entry,      \* table time_entry
    scan,       \* scan_qr requests
    gen,        \* generate_qr requests
    edit        \* update_time_entry requests

vars == <<now, staff, code, entry, scan, gen, edit>>
clients == <<scan, gen, edit>>

(***************************************************************************)
(* Rows and requests. Fields marked ghost are history: no guard reads them.*)
(***************************************************************************)
CodeRow == [stored : BOOLEAN, company : Company \cup {Null}, is_active : BOOLEAN,
            expires_at : Nat,
            known : SUBSET Code]    \* ghost: codes its generator could see

EntryRow == [st : {"free", "row", "gone"}, emp : Employee \cup {Null},
             check_in : Time, check_out : Time \cup {Null},
             edited : BOOLEAN,         \* ghost: a PATCH wrote this row
             known : SUBSET Entry]     \* ghost: entries its scan could see

ScanState == [pc : {"idle", "code", "profile", "open", "write"},
              emp : Employee \cup {Null}, code : Code \cup {Null},
              target : Entry \cup {Null}, readAt : Time,
              spent : SUBSET Code,     \* ghost: codes already dead at the start
              shut : SUBSET Entry,     \* ghost: entries already closed at the start
              known : SUBSET Entry]    \* ghost

GenState == [pc : {"idle", "write"}, company : Company \cup {Null},
             olds : SUBSET Code, readAt : Time,
             known : SUBSET Code]     \* ghost

EditState == [pc : {"idle", "loaded"}, target : Entry \cup {Null},
              body : Body, check_in : Time, check_out : Time \cup {Null}]

NoCode == [stored |-> FALSE, company |-> Null, is_active |-> FALSE,
           expires_at |-> 0, known |-> {}]
NoEntry == [st |-> "free", emp |-> Null, check_in |-> 0, check_out |-> Null,
            edited |-> FALSE, known |-> {}]
GoneEntry == [NoEntry EXCEPT !.st = "gone"]
IdleScan == [pc |-> "idle", emp |-> Null, code |-> Null, target |-> Null,
             readAt |-> 0, spent |-> {}, shut |-> {}, known |-> {}]
IdleGen == [pc |-> "idle", company |-> Null, olds |-> {}, readAt |-> 0, known |-> {}]
IdleEdit == [pc |-> "idle", target |-> Null,
             body |-> [check_in |-> Keep, check_out |-> Keep],
             check_in |-> 0, check_out |-> Null]

TypeOK ==
    /\ now \in Time
    /\ staff \subseteq Employee
    /\ code \in [Code -> CodeRow]
    /\ entry \in [Entry -> EntryRow]
    /\ scan \in [ScanReq -> ScanState]
    /\ gen \in [GenReq -> GenState]
    /\ edit \in [EditReq -> EditState]
    /\ \A r \in ScanReq : scan[r].pc # "idle" => scan[r].emp \in Employee
                                               /\ scan[r].code \in Code
    /\ \A r \in GenReq : gen[r].pc # "idle" => gen[r].company \in Company
    /\ \A r \in EditReq : edit[r].pc # "idle" => edit[r].target \in Entry

Init ==
    /\ now = 0
    /\ staff = Employee
    /\ code = [t \in Code |-> NoCode]
    /\ entry = [n \in Entry |-> NoEntry]
    /\ scan = [r \in ScanReq |-> IdleScan]
    /\ gen = [r \in GenReq |-> IdleGen]
    /\ edit = [r \in EditReq |-> IdleEdit]

(***************************************************************************)
(* Queries                                                                 *)
(***************************************************************************)
ActiveCodes(c) == {t \in Code : code[t].is_active /\ code[t].company = c}

StoredCodes(c) == {t \in Code : code[t].stored /\ code[t].company = c}

\* The rows GET /qr/active asks for, one of which at most it can serve.
LiveCodes(c) == {t \in ActiveCodes(c) : code[t].expires_at > now}

\* Variant: the expiry is not in the WHERE.
UsableCode_NoExpiry(t, e) == t \in ActiveCodes(EmployerOf[e])

\* The WHERE of scan_qr's first SELECT.
UsableCode(t, e) == t \in LiveCodes(EmployerOf[e])

EntriesOf(e) == {n \in Entry : entry[n].st = "row" /\ entry[n].emp = e}

OpenEntries(e) == {n \in EntriesOf(e) : entry[n].check_out = Null}

\* Codes no scan may use any more: superseded or expired.
SpentCodes == {t \in Code : /\ code[t].stored
                            /\ ~code[t].is_active \/ code[t].expires_at <= now}

ClosedEntries(e) == EntriesOf(e) \ OpenEntries(e)

Tick ==
    /\ now < MaxTime
    /\ now' = now + 1
    /\ UNCHANGED <<staff, code, entry, clients>>

----------------------------------------------------------------------------
(***************************************************************************)
(* POST /qr/scan                                                           *)
(***************************************************************************)

\* Bound: every scan in flight is sure of a row to insert.
RoomForEntry ==
    Cardinality({n \in Entry : entry[n].st = "free"})
        > Cardinality({r \in ScanReq : scan[r].pc # "idle"})

\* require_employee has loaded the user of e; the token is that of t.
StartScan(r, e, t) ==
    /\ scan[r].pc = "idle"
    /\ e \in staff
    /\ Serial => \A q \in ScanReq : scan[q].pc # "idle" => scan[q].emp # e
    /\ RoomForEntry
    /\ scan' = [scan EXCEPT ![r] = [IdleScan EXCEPT
          !.pc = "code", !.emp = e, !.code = t,
          !.spent = SpentCodes, !.shut = ClosedEntries(e)]]
    /\ UNCHANGED <<now, staff, code, entry, gen, edit>>

ScanCheckCode(r) ==
    /\ scan[r].pc = "code"
    /\ UsableCode(scan[r].code, scan[r].emp)
    /\ scan' = [scan EXCEPT ![r].pc = "profile"]
    /\ UNCHANGED <<now, staff, code, entry, gen, edit>>

ScanLoadProfile(r) ==
    /\ scan[r].pc = "profile"
    /\ scan[r].emp \in staff
    /\ scan' = [scan EXCEPT ![r].pc = "open"]
    /\ UNCHANGED <<now, staff, code, entry, gen, edit>>

\* Variant: only the entries checked in today count as open.
ScanReadOpen_Today(r) ==
    /\ scan[r].pc = "open"
    /\ \E n \in Entry \cup {Null} :
          /\ {m \in OpenEntries(scan[r].emp) : entry[m].check_in = now} = {n} \ {Null}
          /\ scan' = [scan EXCEPT ![r] =
                [@ EXCEPT !.pc = "write", !.target = n, !.readAt = now,
                          !.known = EntriesOf(scan[r].emp)]]
    /\ UNCHANGED <<now, staff, code, entry, gen, edit>>

\* Variant: any entry of the employee is taken, open or not.
ScanReadOpen_AnyEntry(r) ==
    /\ scan[r].pc = "open"
    /\ \E n \in Entry \cup {Null} :
          /\ IF EntriesOf(scan[r].emp) = {} THEN n = Null
                                            ELSE n \in EntriesOf(scan[r].emp)
          /\ scan' = [scan EXCEPT ![r] =
                [@ EXCEPT !.pc = "write", !.target = n, !.readAt = now,
                          !.known = EntriesOf(scan[r].emp)]]
    /\ UNCHANGED <<now, staff, code, entry, gen, edit>>

\* scalar_one_or_none(): the open entry, None, or an exception when several
\* rows come back. The clock is read after the SELECT.
ScanReadOpen(r) ==
    /\ scan[r].pc = "open"
    /\ \E n \in Entry \cup {Null} :
          /\ OpenEntries(scan[r].emp) = {n} \ {Null}
          /\ scan' = [scan EXCEPT ![r] =
                [@ EXCEPT !.pc = "write", !.target = n, !.readAt = now,
                          !.known = EntriesOf(scan[r].emp)]]
    /\ UNCHANGED <<now, staff, code, entry, gen, edit>>

\* INSERT and COMMIT. Nothing but the foreign key is checked again. The stamp
\* was taken some time between the SELECT and now.
ScanCheckIn(r) ==
    /\ scan[r].pc = "write" /\ scan[r].target = Null
    /\ scan[r].emp \in staff
    /\ \E n \in Entry, stamp \in scan[r].readAt..now :
          /\ entry[n].st = "free"
          /\ entry' = [entry EXCEPT ![n] =
                [st |-> "row", emp |-> scan[r].emp, check_in |-> stamp,
                 check_out |-> Null, edited |-> FALSE, known |-> scan[r].known]]
    /\ scan' = [scan EXCEPT ![r] = IdleScan]
    /\ UNCHANGED <<now, staff, code, gen, edit>>

\* Variant: the clock is read before the SELECT.
ScanCheckOut_EarlyClock(r) ==
    /\ scan[r].pc = "write" /\ scan[r].target # Null
    /\ entry[scan[r].target].st = "row"
    /\ \E stamp \in 0..now :
          /\ stamp + 1 >= scan[r].readAt
          /\ entry' = [entry EXCEPT ![scan[r].target].check_out = stamp]
    /\ scan' = [scan EXCEPT ![r] = IdleScan]
    /\ UNCHANGED <<now, staff, code, gen, edit>>

\* UPDATE time_entry SET check_out WHERE id, and COMMIT.
ScanCheckOut(r) ==
    /\ scan[r].pc = "write" /\ scan[r].target # Null
    /\ entry[scan[r].target].st = "row"
    /\ \E stamp \in scan[r].readAt..now :
          entry' = [entry EXCEPT ![scan[r].target].check_out = stamp]
    /\ scan' = [scan EXCEPT ![r] = IdleScan]
    /\ UNCHANGED <<now, staff, code, gen, edit>>

\* The answers that change nothing: 400 for the code, 404 for the profile, 500
\* for several open entries, for a foreign key and for an UPDATE of no row.
ScanFails(r) ==
    /\ \/ scan[r].pc = "code" /\ ~UsableCode(scan[r].code, scan[r].emp)
       \/ scan[r].pc = "profile" /\ scan[r].emp \notin staff
       \/ scan[r].pc = "open" /\ Cardinality(OpenEntries(scan[r].emp)) > 1
       \/ scan[r].pc = "write" /\ scan[r].target = Null /\ scan[r].emp \notin staff
       \/ scan[r].pc = "write" /\ scan[r].target # Null
                               /\ entry[scan[r].target].st # "row"
    /\ scan' = [scan EXCEPT ![r] = IdleScan]
    /\ UNCHANGED <<now, staff, code, entry, gen, edit>>

ScanStep(r) ==
    \/ ScanCheckCode(r) \/ ScanLoadProfile(r) \/ ScanReadOpen(r)
    \/ ScanCheckIn(r) \/ ScanCheckOut(r) \/ ScanFails(r)

(***************************************************************************)
(* POST /qr/generate. The handler's first SELECT is discarded; the second  *)
(* decides which codes it deactivates.                                     *)
(***************************************************************************)
RoomForCode ==
    Cardinality({t \in Code : ~code[t].stored})
        > Cardinality({r \in GenReq : gen[r].pc # "idle"})

StartGenerate(r, c) ==
    /\ gen[r].pc = "idle"
    /\ Serial => \A q \in GenReq : gen[q].pc # "idle" => gen[q].company # c
    /\ RoomForCode
    /\ gen' = [gen EXCEPT ![r] = [pc |-> "write", company |-> c,
                                  olds |-> ActiveCodes(c), readAt |-> now,
                                  known |-> StoredCodes(c)]]
    /\ UNCHANGED <<now, staff, code, entry, scan, edit>>

\* Variant: the older codes stay active.
GenerateCommit_KeepsOlds(r) ==
    /\ gen[r].pc = "write"
    /\ \E t \in Code, stamp \in gen[r].readAt..now :
          /\ ~code[t].stored
          /\ code' = [code EXCEPT ![t] =
                [stored |-> TRUE, company |-> gen[r].company, is_active |-> TRUE,
                 expires_at |-> stamp + QrTtl, known |-> gen[r].known]]
    /\ gen' = [gen EXCEPT ![r] = IdleGen]
    /\ UNCHANGED <<now, staff, entry, scan, edit>>

\* Both writes go out at the commit: is_active = FALSE on the codes loaded, and
\* the new row.
GenerateCommit(r) ==
    /\ gen[r].pc = "write"
    /\ \E t \in Code, stamp \in gen[r].readAt..now :
          /\ ~code[t].stored
          /\ code' = [u \in Code |->
                IF u = t
                THEN [stored |-> TRUE, company |-> gen[r].company, is_active |-> TRUE,
                      expires_at |-> stamp + QrTtl, known |-> gen[r].known]
                ELSE [code[u] EXCEPT !.is_active = @ /\ u \notin gen[r].olds]]
    /\ gen' = [gen EXCEPT ![r] = IdleGen]
    /\ UNCHANGED <<now, staff, entry, scan, edit>>

(***************************************************************************)
(* PATCH and DELETE /time-entries/{id}; DELETE /employees/{id} as far as   *)
(* the clock is concerned: its transaction takes the profile and the       *)
(* entries at once, or a foreign key rolls all of it back.                 *)
(***************************************************************************)
StartEdit(r, n, b) ==
    /\ edit[r].pc = "idle"
    /\ entry[n].st = "row"
    /\ edit' = [edit EXCEPT ![r] =
          [pc |-> "loaded", target |-> n, body |-> b,
           check_in |-> entry[n].check_in, check_out |-> entry[n].check_out]]
    /\ UNCHANGED <<now, staff, code, entry, scan, gen>>

\* The ORM's UPDATE names the columns whose value is not the one it loaded.
Patched(given, loaded, stored) ==
    IF given \in {Keep, loaded} THEN stored ELSE given

\* Variant: no NOT NULL on check_in.
EditCommit_NullCheckIn(r) ==
    /\ edit[r].pc = "loaded"
    /\ entry[edit[r].target].st = "row"
    /\ LET row == entry[edit[r].target] IN
       entry' = [entry EXCEPT ![edit[r].target] = [row EXCEPT
          !.check_in = Patched(edit[r].body.check_in, edit[r].check_in, row.check_in),
          !.check_out = Patched(edit[r].body.check_out, edit[r].check_out, row.check_out),
          !.edited = TRUE]]
    /\ edit' = [edit EXCEPT ![r] = IdleEdit]
    /\ UNCHANGED <<now, staff, code, scan, gen>>

EditCommit(r) ==
    /\ edit[r].pc = "loaded"
    /\ edit[r].body.check_in # Null
    /\ entry[edit[r].target].st = "row"
    /\ LET row == entry[edit[r].target] IN
       entry' = [entry EXCEPT ![edit[r].target] = [row EXCEPT
          !.check_in = Patched(edit[r].body.check_in, edit[r].check_in, row.check_in),
          !.check_out = Patched(edit[r].body.check_out, edit[r].check_out, row.check_out),
          !.edited = TRUE]]
    /\ edit' = [edit EXCEPT ![r] = IdleEdit]
    /\ UNCHANGED <<now, staff, code, scan, gen>>

\* NOT NULL on check_in, or the row went away after the SELECT: 500. (A PATCH
\* that names no changed column answers 200 or 500 then, and writes nothing.)
EditFails(r) ==
    /\ edit[r].pc = "loaded"
    /\ edit[r].body.check_in = Null \/ entry[edit[r].target].st # "row"
    /\ edit' = [edit EXCEPT ![r] = IdleEdit]
    /\ UNCHANGED <<now, staff, code, entry, scan, gen>>

EditStep(r) == EditCommit(r) \/ EditFails(r)

DeleteEntry(n) ==
    /\ entry[n].st = "row"
    /\ entry' = [entry EXCEPT ![n] = GoneEntry]
    /\ UNCHANGED <<now, staff, code, clients>>

DeleteEmployee(e) ==
    /\ e \in staff
    /\ staff' = staff \ {e}
    /\ entry' = [n \in Entry |-> IF n \in EntriesOf(e) THEN GoneEntry ELSE entry[n]]
    /\ UNCHANGED <<now, code, clients>>

Next ==
    \/ Tick
    \/ \E r \in ScanReq : \/ \E e \in Employee, t \in Code : StartScan(r, e, t)
                          \/ ScanStep(r)
    \/ \E r \in GenReq : \/ \E c \in Company : StartGenerate(r, c)
                         \/ GenerateCommit(r)
    \/ \E r \in EditReq : \/ \E n \in Entry, b \in Bodies : StartEdit(r, n, b)
                          \/ EditStep(r)
    \/ \E n \in Entry : DeleteEntry(n)
    \/ \E e \in Employee : DeleteEmployee(e)

Spec == Init /\ [][Next]_vars
----------------------------------------------------------------------------
(***************************************************************************)
(* Properties that hold however many requests are in flight                *)
(***************************************************************************)

\* generate_qr deactivates the codes it finds: a code that the generator of a
\* later one could see is never active next to it. (Two generators that run
\* together do not see each other's code.)
SupersededCodeIsDead ==
    \A t, u \in Code :
        code[t].stored /\ u \in code[t].known => ~code[u].is_active

\* scan_qr opens an entry only when it sees none open: an entry that the opener
\* of another one could see is closed, unless an admin has edited it since. Two
\* open entries are thus always the work of overlapping scans or of a PATCH.
OpenEntriesOverlap ==
    \A n, m \in Entry :
        /\ entry[n].st = "row" /\ m \in entry[n].known
        /\ entry[m].st = "row" /\ ~entry[m].edited
        => entry[m].check_out # Null

\* scan_qr reads the clock after the SELECT of the open entry, so that it never
\* closes an entry before its check-in, however long it is held up.
StampsInOrder ==
    \A n \in Entry :
        /\ entry[n].st = "row" /\ ~entry[n].edited /\ entry[n].check_out # Null
        => entry[n].check_in <= entry[n].check_out

\* A scan that goes on to write has shown a code of its employee's company that
\* was neither superseded nor expired when the request came in.
PunchesUseLiveCodes ==
    \A r \in ScanReq :
        scan[r].pc \in {"profile", "open", "write"} =>
            /\ scan[r].code \notin scan[r].spent
            /\ code[scan[r].code].company = EmployerOf[scan[r].emp]

\* scan_qr closes, by id alone, the entry that an earlier statement of it has read.
\* It may overwrite the times of an entry that another scan closed meanwhile, but never
\* those of one that was closed when the request came in, unless an admin has edited it:
\* worked hours are lost to overlapping scans only.
OnlyOverlapsOverwrite ==
    [][\A r \in ScanReq :
         scan[r].pc = "write" /\ scan'[r].pc = "idle" =>
            \A n \in scan[r].shut : ~entry[n].edited => entry'[n] = entry[n]]_vars

(***************************************************************************)
(* Properties of clients that wait for their answers                       *)
(***************************************************************************)

\* What scalar_one_or_none() takes for granted in scan_qr.
AtMostOneOpenEntry ==
    \A e \in Employee : Cardinality(OpenEntries(e)) <= 1

\* What scalar_one_or_none() takes for granted in get_active_qr.
AtMostOneLiveCode ==
    \A c \in Company : Cardinality(LiveCodes(c)) <= 1

\* Once a scan has closed an entry, only an admin's PATCH changes its times.
ClosedEntriesAreFinal ==
    [][\A n \in Entry :
         /\ entry[n].st = "row" /\ entry[n].check_out # Null
         /\ entry'[n].st = "row" /\ ~entry'[n].edited
         => entry'[n] = entry[n]]_vars

TheOne(S) == IF S = {} THEN Null ELSE CHOOSE x \in S : TRUE

Clock == INSTANCE PunchClock WITH
    open    <- [e \in Employee |-> TheOne(OpenEntries(e))],
    used    <- {n \in Entry : entry[n].st # "free"},
    current <- [c \in Company |-> TheOne(ActiveCodes(c))],
    issued  <- {t \in Code : code[t].stored}

\* Seen through its tables, the clock is the abstract one: employees go in and
\* out on entries opened once, and each code replaces the one before it.
ImplementsClock == Clock!ClockSpec
============================================================================
