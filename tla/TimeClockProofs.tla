-------------------------- MODULE TimeClockProofs --------------------------
(***************************************************************************)
(* What holds of the time clock for every set of companies, employees and  *)
(* requests, every PATCH body and every interleaving.                      *)
(***************************************************************************)
EXTENDS TimeClock, TLAPS, FiniteSetTheorems

\* The clock starts at a time.
LEMMA ZeroIsTime == 0 \in Time
BY TimeClockAssumption DEF Time

\* The constant rows and the idle requests have the types of their tables.
LEMMA Rows ==
    /\ NoCode \in CodeRow
    /\ NoEntry \in EntryRow
    /\ GoneEntry \in EntryRow
    /\ IdleScan \in ScanState /\ IdleScan.pc = "idle"
    /\ IdleGen \in GenState /\ IdleGen.pc = "idle"
    /\ IdleEdit \in EditState /\ IdleEdit.pc = "idle"
<1>1. NoCode \in CodeRow
    BY DEF NoCode, CodeRow
<1>2. NoEntry \in EntryRow
    BY ZeroIsTime DEF NoEntry, EntryRow
<1>3. GoneEntry \in EntryRow
    BY ZeroIsTime DEF GoneEntry, NoEntry, EntryRow
<1>4. IdleScan \in ScanState /\ IdleScan.pc = "idle"
    BY ZeroIsTime DEF IdleScan, ScanState
<1>5. IdleGen \in GenState /\ IdleGen.pc = "idle"
    BY ZeroIsTime DEF IdleGen, GenState
<1>6. IdleEdit \in EditState /\ IdleEdit.pc = "idle"
    BY ZeroIsTime DEF IdleEdit, EditState, Body
<1> QED BY <1>1, <1>2, <1>3, <1>4, <1>5, <1>6

\* A stamp taken between two readings of the clock is a time.
LEMMA Stamps ==
    ASSUME NEW a \in Time, NEW b \in Time, NEW s \in a..b
    PROVE  s \in Time /\ a <= s /\ s <= b
BY TimeClockAssumption DEF Time

(***************************************************************************)
(* Type correctness                                                        *)
(***************************************************************************)
LEMMA TypeInit == Init => TypeOK
BY Rows, ZeroIsTime DEF Init, TypeOK, IdleScan, IdleGen, IdleEdit

\* Every step keeps the types.
LEMMA TypeNext == TypeOK /\ [Next]_vars => TypeOK'
<1> SUFFICES ASSUME TypeOK, [Next]_vars PROVE TypeOK'
    OBVIOUS
<1> USE DEF TypeOK
<1>1. CASE Tick
    BY <1>1, TimeClockAssumption DEF Tick, Time, clients
<1>2. ASSUME NEW r \in ScanReq, NEW e \in Employee, NEW t \in Code, StartScan(r, e, t)
      PROVE  TypeOK'
    <2>1. [IdleScan EXCEPT !.pc = "code", !.emp = e, !.code = t, !.spent = SpentCodes,
                           !.shut = ClosedEntries(e)] \in ScanState
        BY ZeroIsTime DEF IdleScan, ScanState, SpentCodes, ClosedEntries, EntriesOf
    <2> QED BY <1>2, <2>1 DEF StartScan, IdleScan
<1>3. ASSUME NEW r \in ScanReq, ScanStep(r) PROVE TypeOK'
    <2>1. CASE ScanCheckCode(r)
        <3>1. [scan[r] EXCEPT !.pc = "profile"] \in ScanState
            BY DEF ScanState
        <3>2. UNCHANGED <<now, staff, code, entry, gen, edit>>
            BY <2>1 DEF ScanCheckCode
        <3>3. scan' = [scan EXCEPT ![r] = [scan[r] EXCEPT !.pc = "profile"]]
            BY <2>1 DEF ScanCheckCode
        <3>4. scan[r].pc # "idle" /\ scan[r] \in ScanState
            BY <2>1 DEF ScanCheckCode
        <3>5. scan'[r].emp = scan[r].emp /\ scan'[r].code = scan[r].code
            BY <3>3, <3>4 DEF ScanState
        <3> QED BY <3>1, <3>2, <3>3, <3>4, <3>5
    <2>2. CASE ScanLoadProfile(r)
        <3>1. [scan[r] EXCEPT !.pc = "open"] \in ScanState
            BY DEF ScanState
        <3>2. UNCHANGED <<now, staff, code, entry, gen, edit>>
            BY <2>2 DEF ScanLoadProfile
        <3>3. scan' = [scan EXCEPT ![r] = [scan[r] EXCEPT !.pc = "open"]]
            BY <2>2 DEF ScanLoadProfile
        <3>4. scan[r].pc # "idle" /\ scan[r] \in ScanState
            BY <2>2 DEF ScanLoadProfile
        <3>5. scan'[r].emp = scan[r].emp /\ scan'[r].code = scan[r].code
            BY <3>3, <3>4 DEF ScanState
        <3> QED BY <3>1, <3>2, <3>3, <3>4, <3>5
    <2>3. CASE ScanReadOpen(r)
        <3>1. PICK n \in Entry \cup {Null} :
                 scan' = [scan EXCEPT ![r] =
                    [scan[r] EXCEPT !.pc = "write", !.target = n, !.readAt = now,
                                    !.known = EntriesOf(scan[r].emp)]]
            BY <2>3 DEF ScanReadOpen
        <3>2. EntriesOf(scan[r].emp) \in SUBSET Entry
            BY DEF EntriesOf
        <3>3. ASSUME NEW s \in ScanState, NEW known \in SUBSET Entry
              PROVE  [s EXCEPT !.pc = "write", !.target = n, !.readAt = now, !.known = known]
                        \in ScanState
            BY DEF ScanState
        <3>4. [scan[r] EXCEPT !.pc = "write", !.target = n, !.readAt = now,
                              !.known = EntriesOf(scan[r].emp)] \in ScanState
            BY <3>2, <3>3
        <3>5. UNCHANGED <<now, staff, code, entry, gen, edit>>
            BY <2>3 DEF ScanReadOpen
        <3>6. scan[r].pc # "idle" /\ scan[r] \in ScanState
            BY <2>3 DEF ScanReadOpen
        <3>7. scan'[r].emp = scan[r].emp /\ scan'[r].code = scan[r].code
            BY <3>1, <3>6 DEF ScanState
        <3> QED BY <3>1, <3>4, <3>5, <3>6, <3>7
    <2>4. CASE ScanCheckIn(r)
        <3>1. PICK n \in Entry, stamp \in scan[r].readAt..now :
                 entry' = [entry EXCEPT ![n] =
                    [st |-> "row", emp |-> scan[r].emp, check_in |-> stamp,
                     check_out |-> Null, edited |-> FALSE, known |-> scan[r].known]]
            BY <2>4 DEF ScanCheckIn
        <3>2. stamp \in Time
            BY Stamps DEF ScanState
        <3>3. [st |-> "row", emp |-> scan[r].emp, check_in |-> stamp,
               check_out |-> Null, edited |-> FALSE, known |-> scan[r].known] \in EntryRow
            BY <3>2 DEF EntryRow, ScanState
        <3> QED BY <2>4, <3>1, <3>3, Rows DEF ScanCheckIn
    <2>5. CASE ScanCheckOut(r)
        <3>1. PICK stamp \in scan[r].readAt..now :
                 entry' = [entry EXCEPT ![scan[r].target].check_out = stamp]
            BY <2>5 DEF ScanCheckOut
        <3>2. stamp \in Time
            BY Stamps DEF ScanState
        <3>3. scan[r].target \in Entry
            BY <2>5 DEF ScanCheckOut, ScanState
        <3> DEFINE row == [entry[scan[r].target] EXCEPT !.check_out = stamp]
        <3>4. entry' \in [Entry -> EntryRow]
            <4>1. entry' = [entry EXCEPT ![scan[r].target] = row]
                BY <3>1, <3>3
            <4>2. row \in EntryRow
                BY <3>2, <3>3 DEF EntryRow
            <4> HIDE DEF row
            <4> QED BY <4>1, <4>2
        <3> QED BY <2>5, <3>4, Rows DEF ScanCheckOut
    <2>6. CASE ScanFails(r)
        BY <2>6, Rows DEF ScanFails
    <2> QED BY <1>3, <2>1, <2>2, <2>3, <2>4, <2>5, <2>6 DEF ScanStep
<1>4. ASSUME NEW r \in GenReq, NEW c \in Company, StartGenerate(r, c) PROVE TypeOK'
    <2>1. [pc |-> "write", company |-> c, olds |-> ActiveCodes(c), readAt |-> now,
           known |-> StoredCodes(c)] \in GenState
        BY DEF GenState, ActiveCodes, StoredCodes
    <2> QED BY <1>4, <2>1 DEF StartGenerate
<1>5. ASSUME NEW r \in GenReq, GenerateCommit(r) PROVE TypeOK'
    <2>1. PICK t \in Code, stamp \in gen[r].readAt..now :
             code' = [u \in Code |->
                IF u = t
                THEN [stored |-> TRUE, company |-> gen[r].company, is_active |-> TRUE,
                      expires_at |-> stamp + QrTtl, known |-> gen[r].known]
                ELSE [code[u] EXCEPT !.is_active = @ /\ u \notin gen[r].olds]]
        BY <1>5 DEF GenerateCommit
    <2>2. stamp + QrTtl \in Nat
        BY Stamps, TimeClockAssumption DEF GenState, Time
    <2>3. [stored |-> TRUE, company |-> gen[r].company, is_active |-> TRUE,
           expires_at |-> stamp + QrTtl, known |-> gen[r].known] \in CodeRow
        BY <2>2 DEF CodeRow, GenState
    <2>4. ASSUME NEW u \in Code
          PROVE  [code[u] EXCEPT !.is_active = @ /\ u \notin gen[r].olds] \in CodeRow
        <3>1. code[u] \in CodeRow
            OBVIOUS
        <3>2. (code[u].is_active /\ u \notin gen[r].olds) \in BOOLEAN
            OBVIOUS
        <3> QED BY <3>1, <3>2 DEF CodeRow
    <2>5. code' \in [Code -> CodeRow]
        BY <2>1, <2>3, <2>4
    <2> QED BY <1>5, <2>5, Rows DEF GenerateCommit
<1>6. ASSUME NEW r \in EditReq, NEW n \in Entry, NEW b \in Bodies, StartEdit(r, n, b)
      PROVE  TypeOK'
    <2>1. [pc |-> "loaded", target |-> n, body |-> b, check_in |-> entry[n].check_in,
           check_out |-> entry[n].check_out] \in EditState
        BY TimeClockAssumption DEF EditState, EntryRow
    <2> QED BY <1>6, <2>1 DEF StartEdit
<1>7. ASSUME NEW r \in EditReq, EditStep(r) PROVE TypeOK'
    <2>1. CASE EditCommit(r)
        <3> DEFINE n == edit[r].target
                   in == Patched(edit[r].body.check_in, edit[r].check_in, entry[n].check_in)
                   out == Patched(edit[r].body.check_out, edit[r].check_out, entry[n].check_out)
        <3>1. n \in Entry
            BY <2>1 DEF EditCommit
        <3>2. entry[n] \in EntryRow /\ edit[r] \in EditState
            BY <3>1
        <3>3. in \in Time
            <4>1. edit[r].body.check_in \in Time \cup {Keep}
                BY <2>1, <3>2 DEF EditCommit, EditState, Body
            <4> QED BY <3>2, <4>1 DEF EntryRow, Patched
        <3>4. out \in Time \cup {Null}
            <4>1. edit[r].body.check_out \in (Time \cup {Null}) \cup {Keep}
                BY <3>2 DEF EditState, Body
            <4> QED BY <3>2, <4>1 DEF EntryRow, Patched
        <3>5. [entry[n] EXCEPT !.check_in = in, !.check_out = out, !.edited = TRUE] \in EntryRow
            <4> HIDE DEF in, out
            <4> QED BY <3>2, <3>3, <3>4 DEF EntryRow
        <3>6. entry' = [entry EXCEPT ![n] =
                 [entry[n] EXCEPT !.check_in = in, !.check_out = out, !.edited = TRUE]]
            BY <2>1 DEF EditCommit
        <3>7. entry' \in [Entry -> EntryRow]
            BY <3>1, <3>5, <3>6
        <3> QED BY <2>1, <3>7, Rows DEF EditCommit
    <2>2. CASE EditFails(r)
        BY <2>2, Rows DEF EditFails
    <2> QED BY <1>7, <2>1, <2>2 DEF EditStep
<1>8. ASSUME NEW n \in Entry, DeleteEntry(n) PROVE TypeOK'
    BY <1>8, Rows DEF DeleteEntry, clients
<1>9. ASSUME NEW e \in Employee, DeleteEmployee(e) PROVE TypeOK'
    BY <1>9, Rows DEF DeleteEmployee, clients
<1>10. CASE UNCHANGED vars
    BY <1>10 DEF vars
<1> QED
    BY <1>1, <1>2, <1>3, <1>4, <1>5, <1>6, <1>7, <1>8, <1>9, <1>10 DEF Next

\* Every reachable state is well typed, whatever the PATCH bodies hold.
THEOREM TypeCorrect == Spec => []TypeOK
BY TypeInit, TypeNext, PTL DEF Spec

(***************************************************************************)
(* QR codes. SupersededCodeIsDead is not inductive: a generator that has   *)
(* read but not yet written holds the codes it is about to deactivate. The *)
(* invariant adds that it holds all the active ones among those it knows,  *)
(* and that only stored rows are active or known, so that a new row is in  *)
(* nobody's past.                                                          *)
(***************************************************************************)
CodesInv ==
    \A u \in Code : /\ code[u].is_active => code[u].stored
                    /\ code[u].stored =>
                         \A t \in code[u].known : code[t].stored /\ ~code[t].is_active

GeneratorsInv ==
    \A r \in GenReq : gen[r].pc = "write" =>
        \A t \in gen[r].known : code[t].stored /\ (code[t].is_active => t \in gen[r].olds)

\* What a committed generator does to each row of qr_session.
LEMMA GenerateEffect ==
    ASSUME TypeOK, NEW r \in GenReq, GenerateCommit(r)
    PROVE  \E t \in Code :
              /\ ~code[t].stored
              /\ code'[t].stored /\ code'[t].is_active
              /\ code'[t].known = gen[r].known
              /\ code'[t].company = gen[r].company
              /\ \A u \in Code \ {t} :
                    /\ code'[u].stored = code[u].stored
                    /\ code'[u].company = code[u].company
                    /\ code'[u].expires_at = code[u].expires_at
                    /\ code'[u].known = code[u].known
                    /\ code'[u].is_active = (code[u].is_active /\ u \notin gen[r].olds)
<1>1. PICK t \in Code, stamp \in gen[r].readAt..now :
         /\ ~code[t].stored
         /\ code' = [u \in Code |->
                IF u = t
                THEN [stored |-> TRUE, company |-> gen[r].company, is_active |-> TRUE,
                      expires_at |-> stamp + QrTtl, known |-> gen[r].known]
                ELSE [code[u] EXCEPT !.is_active = @ /\ u \notin gen[r].olds]]
    BY DEF GenerateCommit
<1>2. /\ code'[t].stored /\ code'[t].is_active /\ code'[t].known = gen[r].known
      /\ code'[t].company = gen[r].company
    BY <1>1
<1>3. ASSUME NEW u \in Code \ {t}
      PROVE  /\ code'[u].stored = code[u].stored
             /\ code'[u].company = code[u].company
             /\ code'[u].expires_at = code[u].expires_at
             /\ code'[u].known = code[u].known
             /\ code'[u].is_active = (code[u].is_active /\ u \notin gen[r].olds)
    <2>1. code[u] \in CodeRow
        BY DEF TypeOK
    <2>2. code'[u] = [code[u] EXCEPT !.is_active = code[u].is_active /\ u \notin gen[r].olds]
        BY <1>1
    <2> QED BY <2>1, <2>2 DEF CodeRow
<1> QED BY <1>1, <1>2, <1>3

\* Only the two steps of generate_qr write codes and generators.
LEMMA CodeSteps ==
    ASSUME [Next]_vars
    PROVE  \/ UNCHANGED <<code, gen>>
           \/ \E r \in GenReq, c \in Company : StartGenerate(r, c)
           \/ \E r \in GenReq : GenerateCommit(r)
BY DEF Next, vars, clients, Tick, StartScan, ScanStep, ScanCheckCode, ScanLoadProfile,
       ScanReadOpen, ScanCheckIn, ScanCheckOut, ScanFails, StartEdit, EditStep,
       EditCommit, EditFails, DeleteEntry, DeleteEmployee

\* At first no code knows another, and no generator has read.
LEMMA CodesInit == Init => CodesInv /\ GeneratorsInv
BY DEF Init, CodesInv, GeneratorsInv, NoCode, IdleGen

\* Every step keeps what codes and generators know.
LEMMA CodesNext ==
    ASSUME TypeOK, CodesInv, GeneratorsInv, [Next]_vars
    PROVE  CodesInv' /\ GeneratorsInv'
<1>1. CASE UNCHANGED <<code, gen>>
    BY <1>1 DEF CodesInv, GeneratorsInv
<1>2. ASSUME NEW r \in GenReq, NEW c \in Company, StartGenerate(r, c)
      PROVE  CodesInv' /\ GeneratorsInv'
    <2>1. code' = code
        BY <1>2 DEF StartGenerate
    <2>2. \A q \in GenReq \ {r} : gen'[q] = gen[q]
        BY <1>2 DEF StartGenerate, TypeOK
    <2>3. gen'[r].known = StoredCodes(c) /\ gen'[r].olds = ActiveCodes(c)
        BY <1>2 DEF StartGenerate, TypeOK
    <2>4. \A t \in gen'[r].known : code[t].stored /\ (code[t].is_active => t \in gen'[r].olds)
        BY <2>3 DEF StoredCodes, ActiveCodes
    <2>5. GeneratorsInv'
        BY <2>1, <2>2, <2>4 DEF GeneratorsInv
    <2> QED BY <2>1, <2>5 DEF CodesInv
<1>3. ASSUME NEW r \in GenReq, GenerateCommit(r)
      PROVE  CodesInv' /\ GeneratorsInv'
    <2>1. PICK t \in Code :
              /\ ~code[t].stored
              /\ code'[t].stored /\ code'[t].is_active
              /\ code'[t].known = gen[r].known
              /\ \A u \in Code \ {t} :
                    /\ code'[u].stored = code[u].stored
                    /\ code'[u].known = code[u].known
                    /\ code'[u].is_active = (code[u].is_active /\ u \notin gen[r].olds)
        BY <1>3, GenerateEffect
    <2>2. gen[r].pc = "write" /\ gen' = [gen EXCEPT ![r] = IdleGen]
        BY <1>3 DEF GenerateCommit
    <2>3. \A q \in GenReq : gen[q].known \subseteq Code
        BY DEF TypeOK, GenState
    <2>4. \A u \in Code : code[u].known \subseteq Code
        BY DEF TypeOK, CodeRow
    <2>5. CodesInv'
        <3>1. \A w \in gen[r].known : code[w].stored /\ (code[w].is_active => w \in gen[r].olds)
            BY <2>2 DEF GeneratorsInv
        <3>2. \A w \in gen[r].known : w \in Code \ {t} /\ code'[w].stored /\ ~code'[w].is_active
            BY <2>1, <2>3, <3>1
        <3>3. ASSUME NEW u \in Code \ {t}, code'[u].stored, NEW w \in code'[u].known
              PROVE  code'[w].stored /\ ~code'[w].is_active
            <4>1. code[u].stored /\ w \in code[u].known /\ w \in Code
                BY <2>1, <2>4, <3>3
            <4>2. code[w].stored /\ ~code[w].is_active
                BY <4>1 DEF CodesInv
            <4> QED BY <2>1, <4>1, <4>2
        <3>4. \A u \in Code : code'[u].is_active => code'[u].stored
            BY <2>1 DEF CodesInv
        <3> QED BY <2>1, <3>2, <3>3, <3>4 DEF CodesInv
    <2>6. \A q \in GenReq : gen'[q].pc = "write" => q # r /\ gen'[q] = gen[q]
        BY <2>2 DEF TypeOK, IdleGen
    <2>7. GeneratorsInv'
        <3> SUFFICES ASSUME NEW q \in GenReq, gen'[q].pc = "write", NEW u \in gen[q].known
                     PROVE  code'[u].stored /\ (code'[u].is_active => u \in gen[q].olds)
            BY <2>6 DEF GeneratorsInv
        <3>1. u \in Code /\ code[u].stored /\ (code[u].is_active => u \in gen[q].olds)
            BY <2>3, <2>6 DEF GeneratorsInv
        <3>2. u # t
            BY <2>1, <3>1
        <3> QED BY <2>1, <3>1, <3>2
    <2> QED BY <2>5, <2>7
<1> QED BY <1>1, <1>2, <1>3, CodeSteps

\* A code that a later generator could see is never active next to its
\* successor, however many generators run at once.
THEOREM SupersededCodesStayDead == Spec => []SupersededCodeIsDead
<1>1. CodesInv => SupersededCodeIsDead
    BY DEF CodesInv, SupersededCodeIsDead
<1>2. Init => TypeOK /\ CodesInv /\ GeneratorsInv
    BY TypeInit, CodesInit
<1>3. (TypeOK /\ CodesInv /\ GeneratorsInv) /\ [Next]_vars
         => (TypeOK /\ CodesInv /\ GeneratorsInv)'
    BY TypeNext, CodesNext
<1> QED BY <1>1, <1>2, <1>3, PTL DEF Spec

(***************************************************************************)
(* Punches and codes. A code that is spent stays spent: it is never made   *)
(* active again, its expiry never moves and the clock only goes forward.   *)
(***************************************************************************)
Spent(t) == code[t].stored /\ (~code[t].is_active \/ code[t].expires_at <= now)

PunchInv ==
    \A r \in ScanReq :
        /\ scan[r].pc # "idle" => \A t \in scan[r].spent : Spent(t)
        /\ scan[r].pc \in {"profile", "open", "write"} =>
              /\ scan[r].code \notin scan[r].spent
              /\ code[scan[r].code].stored
              /\ code[scan[r].code].company = EmployerOf[scan[r].emp]

\* What a step may do to a code that is stored.
LEMMA StoredCodeSteps ==
    ASSUME TypeOK, [Next]_vars, NEW t \in Code, code[t].stored
    PROVE  /\ code'[t].stored
           /\ code'[t].company = code[t].company
           /\ code'[t].expires_at = code[t].expires_at
           /\ code'[t].is_active => code[t].is_active
<1>1. CASE UNCHANGED <<code, gen>>
    BY <1>1
<1>2. ASSUME NEW r \in GenReq, NEW c \in Company, StartGenerate(r, c)
      PROVE  code' = code
    BY <1>2 DEF StartGenerate
<1>3. ASSUME NEW r \in GenReq, GenerateCommit(r)
      PROVE  /\ code'[t].stored
             /\ code'[t].company = code[t].company
             /\ code'[t].expires_at = code[t].expires_at
             /\ code'[t].is_active => code[t].is_active
    BY <1>3, GenerateEffect
<1> QED BY <1>1, <1>2, <1>3, CodeSteps

\* The clock never goes back.
LEMMA ClockForward ==
    ASSUME TypeOK, [Next]_vars
    PROVE  now \in Nat /\ now' \in Nat /\ now <= now'
<1>1. now \in Nat /\ now' \in Nat
    BY TypeNext DEF TypeOK, Time
<1>2. now' = now \/ now' = now + 1
    BY DEF Next, vars, clients, Tick, StartScan, ScanStep, ScanCheckCode, ScanLoadProfile,
           ScanReadOpen, ScanCheckIn, ScanCheckOut, ScanFails, StartGenerate,
           GenerateCommit, StartEdit, EditStep, EditCommit, EditFails, DeleteEntry,
           DeleteEmployee
<1> QED BY <1>1, <1>2

\* A code that is spent stays so: no handler activates it or moves its expiry.
LEMMA SpentStaysSpent ==
    ASSUME TypeOK, [Next]_vars, NEW t \in Code, Spent(t)
    PROVE  Spent(t)'
<1>1. code[t].expires_at \in Nat
    BY DEF TypeOK, CodeRow
<1> QED BY <1>1, StoredCodeSteps, ClockForward DEF Spent

\* The steps that touch a scan: its start, one that keeps its code, or its end.
LEMMA ScanSteps ==
    ASSUME TypeOK, [Next]_vars, NEW r \in ScanReq
    PROVE  \/ scan'[r] = scan[r]
           \/ \E e \in Employee, t \in Code : StartScan(r, e, t)
           \/ ScanCheckCode(r) \/ ScanLoadProfile(r) \/ ScanReadOpen(r)
           \/ scan'[r] = IdleScan
<1>1. ASSUME NEW q \in ScanReq, q # r,
             (\E e \in Employee, t \in Code : StartScan(q, e, t)) \/ ScanStep(q)
      PROVE  scan'[r] = scan[r]
    BY <1>1 DEF TypeOK, StartScan, ScanStep, ScanCheckCode, ScanLoadProfile, ScanReadOpen,
                ScanCheckIn, ScanCheckOut, ScanFails
<1>2. ASSUME ScanCheckIn(r) \/ ScanCheckOut(r) \/ ScanFails(r)
      PROVE  scan'[r] = IdleScan
    BY <1>2 DEF TypeOK, ScanCheckIn, ScanCheckOut, ScanFails
<1>3. ASSUME \/ Tick
             \/ \E q \in GenReq : (\E c \in Company : StartGenerate(q, c)) \/ GenerateCommit(q)
             \/ \E q \in EditReq : (\E n \in Entry, b \in Bodies : StartEdit(q, n, b))
                                     \/ EditStep(q)
             \/ \E n \in Entry : DeleteEntry(n)
             \/ \E e \in Employee : DeleteEmployee(e)
             \/ UNCHANGED vars
      PROVE  scan' = scan
    BY <1>3 DEF Tick, StartGenerate, GenerateCommit, StartEdit, EditStep, EditCommit,
                EditFails, DeleteEntry, DeleteEmployee, vars, clients
<1> QED BY <1>1, <1>2, <1>3 DEF Next, ScanStep

\* At first no scan goes on to write.
LEMMA PunchInit == Init => PunchInv
BY DEF Init, PunchInv, IdleScan

\* Every step keeps what a scan has found out about its code.
LEMMA PunchNext ==
    ASSUME TypeOK, CodesInv, PunchInv, [Next]_vars
    PROVE  PunchInv'
<1> SUFFICES ASSUME NEW r \in ScanReq
             PROVE  /\ scan'[r].pc # "idle" => \A t \in scan'[r].spent : Spent(t)'
                    /\ scan'[r].pc \in {"profile", "open", "write"} =>
                          /\ scan'[r].code \notin scan'[r].spent
                          /\ code'[scan'[r].code].stored
                          /\ code'[scan'[r].code].company = EmployerOf[scan'[r].emp]
    BY DEF PunchInv
<1>0. scan[r].spent \subseteq Code /\ (scan[r].pc # "idle" => scan[r].code \in Code)
    BY DEF TypeOK, ScanState
<1>1. scan[r].pc # "idle" => \A t \in scan[r].spent : Spent(t)'
    BY <1>0, SpentStaysSpent DEF PunchInv
<1>2. scan[r].pc \in {"profile", "open", "write"} =>
          /\ scan[r].code \notin scan[r].spent
          /\ code'[scan[r].code].stored
          /\ code'[scan[r].code].company = EmployerOf[scan[r].emp]
    BY <1>0, StoredCodeSteps DEF PunchInv
<1>3. CASE scan'[r] = scan[r]
    BY <1>1, <1>2, <1>3
<1>4. ASSUME NEW e \in Employee, NEW t \in Code, StartScan(r, e, t)
      PROVE  /\ scan'[r].pc = "code"
             /\ \A u \in scan'[r].spent : Spent(u)'
    <2>1. scan'[r].pc = "code" /\ scan'[r].spent = SpentCodes
        BY <1>4 DEF StartScan, TypeOK, IdleScan
    <2> QED BY <2>1, SpentStaysSpent DEF SpentCodes, Spent
<1>5. CASE ScanCheckCode(r)
    <2>1. /\ scan[r].pc = "code" /\ scan'[r].pc = "profile"
          /\ scan'[r].spent = scan[r].spent /\ scan'[r].code = scan[r].code
          /\ scan'[r].emp = scan[r].emp
        BY <1>5 DEF ScanCheckCode, TypeOK, ScanState
    <2>2. UsableCode(scan[r].code, scan[r].emp) /\ scan[r].code \in Code
        BY <1>0, <1>5, <2>1 DEF ScanCheckCode
    <2>3. code[scan[r].code].expires_at \in Nat /\ now \in Nat
        BY <2>2 DEF TypeOK, CodeRow, Time
    <2>4. /\ code[scan[r].code].is_active /\ ~(code[scan[r].code].expires_at <= now)
          /\ code[scan[r].code].company = EmployerOf[scan[r].emp]
        BY <2>2, <2>3 DEF UsableCode, LiveCodes, ActiveCodes
    <2>5. ~Spent(scan[r].code) /\ code[scan[r].code].stored
        BY <2>2, <2>4 DEF Spent, CodesInv
    <2>6. scan[r].code \notin scan[r].spent
        BY <2>1, <2>5 DEF PunchInv
    <2>7. /\ code'[scan[r].code].stored
          /\ code'[scan[r].code].company = code[scan[r].code].company
        BY <2>2, <2>5, StoredCodeSteps
    <2> QED BY <1>1, <2>1, <2>4, <2>6, <2>7
<1>6. CASE ScanLoadProfile(r)
    <2>1. /\ scan[r].pc = "profile"
          /\ scan'[r].spent = scan[r].spent /\ scan'[r].code = scan[r].code
          /\ scan'[r].emp = scan[r].emp
        BY <1>6 DEF ScanLoadProfile, TypeOK, ScanState
    <2> QED BY <1>1, <1>2, <2>1
<1>7. CASE ScanReadOpen(r)
    <2>1. /\ scan[r].pc = "open"
          /\ scan'[r].spent = scan[r].spent /\ scan'[r].code = scan[r].code
          /\ scan'[r].emp = scan[r].emp
        BY <1>7 DEF ScanReadOpen, TypeOK, ScanState
    <2> QED BY <1>1, <1>2, <2>1
<1>8. CASE scan'[r] = IdleScan
    BY <1>8 DEF IdleScan
<1> QED BY <1>3, <1>4, <1>5, <1>6, <1>7, <1>8, ScanSteps

\* Every punch shows a code of the employee's own company that was current when
\* the request came in, whatever generators and the clock do meanwhile.
THEOREM PunchesAreLive == Spec => []PunchesUseLiveCodes
<1>1. PunchInv => PunchesUseLiveCodes
    BY DEF PunchInv, PunchesUseLiveCodes
<1>2. Init => TypeOK /\ CodesInv /\ GeneratorsInv /\ PunchInv
    BY TypeInit, CodesInit, PunchInit
<1>3. (TypeOK /\ CodesInv /\ GeneratorsInv /\ PunchInv) /\ [Next]_vars
         => (TypeOK /\ CodesInv /\ GeneratorsInv /\ PunchInv)'
    BY TypeNext, CodesNext, PunchNext
<1> QED BY <1>1, <1>2, <1>3, PTL DEF Spec

(***************************************************************************)
(* Time entries. The properties speak of rows; the invariant adds what a   *)
(* scan between its SELECT and its commit relies on: the entries it saw    *)
(* are no fresh ids, and if it is about to insert, those that are still    *)
(* there unedited are closed; if it is about to close one, that entry was  *)
(* checked in before the scan read the clock.                              *)
(***************************************************************************)
Closed(m) == entry[m].st = "row" /\ ~entry[m].edited => entry[m].check_out # Null

Minted(m) == entry[m].st # "free"

OverlapInv ==
    /\ \A n \in Entry : entry[n].st = "row" =>
          \A m \in entry[n].known : Minted(m) /\ Closed(m)
    /\ \A r \in ScanReq : scan[r].pc = "write" =>
          \A m \in scan[r].known : Minted(m) /\ (scan[r].target = Null => Closed(m))

InOrder(n, in) == entry[n].st = "row" /\ ~entry[n].edited => entry[n].check_in <= in

StampInv ==
    /\ \A n \in Entry : InOrder(n, now)
    /\ StampsInOrder
    /\ \A r \in ScanReq : scan[r].pc = "write" =>
          /\ scan[r].readAt <= now
          /\ scan[r].target # Null =>
                /\ Minted(scan[r].target)
                /\ InOrder(scan[r].target, scan[r].readAt)

\* The steps that touch an entry: it is opened, closed by a scan, edited or gone.
LEMMA EntrySteps ==
    ASSUME TypeOK, [Next]_vars, NEW n \in Entry
    PROVE  \/ entry'[n] = entry[n]
           \/ /\ entry[n].st = "free"
              /\ \E r \in ScanReq, stamp \in Time :
                    /\ ScanCheckIn(r)
                    /\ scan[r].readAt <= stamp /\ stamp <= now
                    /\ entry'[n] = [st |-> "row", emp |-> scan[r].emp, check_in |-> stamp,
                                    check_out |-> Null, edited |-> FALSE,
                                    known |-> scan[r].known]
           \/ /\ entry[n].st = "row"
              /\ \E r \in ScanReq, stamp \in Time :
                    /\ ScanCheckOut(r) /\ scan[r].target = n
                    /\ scan[r].readAt <= stamp /\ stamp <= now
                    /\ entry'[n] = [entry[n] EXCEPT !.check_out = stamp]
           \/ /\ entry[n].st = "row"
              /\ \E r \in EditReq : EditCommit(r) /\ edit[r].target = n
              /\ entry'[n].st = "row" /\ entry'[n].edited
              /\ entry'[n].known = entry[n].known
              /\ entry'[n].emp = entry[n].emp
           \/ entry[n].st = "row" /\ entry'[n] = GoneEntry /\ scan' = scan
<1>1. ASSUME NEW r \in ScanReq, ScanCheckIn(r), entry'[n] # entry[n]
      PROVE  /\ entry[n].st = "free"
             /\ \E stamp \in Time :
                    /\ scan[r].readAt <= stamp /\ stamp <= now
                    /\ entry'[n] = [st |-> "row", emp |-> scan[r].emp, check_in |-> stamp,
                                    check_out |-> Null, edited |-> FALSE,
                                    known |-> scan[r].known]
    <2>1. PICK m \in Entry, stamp \in scan[r].readAt..now :
             /\ entry[m].st = "free"
             /\ entry' = [entry EXCEPT ![m] =
                  [st |-> "row", emp |-> scan[r].emp, check_in |-> stamp,
                   check_out |-> Null, edited |-> FALSE, known |-> scan[r].known]]
        BY <1>1 DEF ScanCheckIn
    <2>2. m = n
        BY <1>1, <2>1 DEF TypeOK
    <2>3. scan[r].readAt \in Time /\ now \in Time
        BY DEF TypeOK, ScanState
    <2>4. stamp \in Time /\ scan[r].readAt <= stamp /\ stamp <= now
        BY <2>3, Stamps
    <2> QED BY <2>1, <2>2, <2>4 DEF TypeOK
<1>2. ASSUME NEW r \in ScanReq, ScanCheckOut(r), entry'[n] # entry[n]
      PROVE  /\ entry[n].st = "row" /\ scan[r].target = n
             /\ \E stamp \in Time :
                    /\ scan[r].readAt <= stamp /\ stamp <= now
                    /\ entry'[n] = [entry[n] EXCEPT !.check_out = stamp]
    <2>1. PICK stamp \in scan[r].readAt..now :
             /\ entry[scan[r].target].st = "row"
             /\ entry' = [entry EXCEPT ![scan[r].target].check_out = stamp]
        BY <1>2 DEF ScanCheckOut
    <2>2. scan[r].target = n
        BY <1>2, <2>1 DEF TypeOK
    <2>3. scan[r].readAt \in Time /\ now \in Time
        BY DEF TypeOK, ScanState
    <2>4. stamp \in Time /\ scan[r].readAt <= stamp /\ stamp <= now
        BY <2>3, Stamps
    <2> QED BY <2>1, <2>2, <2>4 DEF TypeOK
<1>3. ASSUME NEW r \in EditReq, EditCommit(r), entry'[n] # entry[n]
      PROVE  /\ entry[n].st = "row" /\ edit[r].target = n
             /\ entry'[n].st = "row" /\ entry'[n].edited
             /\ entry'[n].known = entry[n].known
             /\ entry'[n].emp = entry[n].emp
    <2>1. edit[r].target = n
        BY <1>3 DEF EditCommit, TypeOK
    <2>2. entry[n] \in EntryRow
        BY DEF TypeOK
    <2>3. \E in, out : entry'[n] = [entry[n] EXCEPT !.check_in = in, !.check_out = out,
                                                   !.edited = TRUE]
        BY <1>3, <2>1 DEF EditCommit, TypeOK
    <2>4. entry[n].st = "row"
        BY <1>3, <2>1 DEF EditCommit
    <2> QED BY <2>1, <2>2, <2>3, <2>4 DEF EntryRow
<1>4. ASSUME NEW m \in Entry, DeleteEntry(m), entry'[n] # entry[n]
      PROVE  entry[n].st = "row" /\ entry'[n] = GoneEntry /\ scan' = scan
    BY <1>4 DEF DeleteEntry, TypeOK, clients
<1>5. ASSUME NEW e \in Employee, DeleteEmployee(e), entry'[n] # entry[n]
      PROVE  entry[n].st = "row" /\ entry'[n] = GoneEntry /\ scan' = scan
    BY <1>5 DEF DeleteEmployee, EntriesOf, TypeOK, clients
<1>6. ASSUME \/ Tick
             \/ \E r \in ScanReq : \/ \E e \in Employee, t \in Code : StartScan(r, e, t)
                                   \/ ScanCheckCode(r) \/ ScanLoadProfile(r)
                                   \/ ScanReadOpen(r) \/ ScanFails(r)
             \/ \E r \in GenReq : (\E c \in Company : StartGenerate(r, c)) \/ GenerateCommit(r)
             \/ \E r \in EditReq : (\E m \in Entry, b \in Bodies : StartEdit(r, m, b))
                                     \/ EditFails(r)
             \/ UNCHANGED vars
      PROVE  entry' = entry
    BY <1>6 DEF Tick, StartScan, ScanCheckCode, ScanLoadProfile, ScanReadOpen, ScanFails,
                StartGenerate, GenerateCommit, StartEdit, EditFails, vars
<1> QED BY <1>1, <1>2, <1>3, <1>4, <1>5, <1>6 DEF Next, ScanStep, EditStep

\* A step keeps ids minted, and leaves a minted entry closed if it was.
LEMMA ClosedStays ==
    ASSUME TypeOK, [Next]_vars, NEW m \in Entry, Minted(m)
    PROVE  /\ Minted(m)'
           /\ Closed(m) => Closed(m)'
           /\ \A t \in Nat : InOrder(m, t) => InOrder(m, t)'
<1>1. CASE entry'[m] = entry[m]
    BY <1>1 DEF Minted, Closed, InOrder
<1>2. ASSUME NEW stamp \in Time, entry'[m] = [entry[m] EXCEPT !.check_out = stamp]
      PROVE  /\ Minted(m)' /\ Closed(m)'
             /\ \A t \in Nat : InOrder(m, t) => InOrder(m, t)'
    <2>1. entry[m] \in EntryRow /\ stamp # Null
        BY TimeClockAssumption DEF TypeOK
    <2>2. /\ entry'[m].st = entry[m].st /\ entry'[m].edited = entry[m].edited
          /\ entry'[m].check_in = entry[m].check_in /\ entry'[m].check_out = stamp
        BY <1>2, <2>1 DEF EntryRow
    <2> QED BY <2>1, <2>2 DEF Minted, Closed, InOrder
<1>3. CASE entry'[m].st = "row" /\ entry'[m].edited
    BY <1>3 DEF Minted, Closed, InOrder
<1>4. CASE entry'[m] = GoneEntry
    BY <1>4 DEF GoneEntry, NoEntry, Minted, Closed, InOrder
<1> QED BY <1>1, <1>2, <1>3, <1>4, EntrySteps DEF Minted

\* At first there are no entries.
LEMMA EntriesInit == Init => OverlapInv /\ StampInv
BY DEF Init, OverlapInv, StampInv, StampsInOrder, InOrder, NoEntry, IdleScan

\* Every step keeps closed what the opener of an entry could see.
LEMMA OverlapNext ==
    ASSUME TypeOK, OverlapInv, [Next]_vars
    PROVE  OverlapInv'
<1>1. ASSUME NEW n \in Entry, entry'[n].st = "row", NEW m \in entry'[n].known
      PROVE  Minted(m)' /\ Closed(m)'
    <2>1. entry[n] \in EntryRow
        BY DEF TypeOK
    <2>2. \/ entry[n].st = "row" /\ entry'[n].known = entry[n].known
          \/ \E r \in ScanReq : ScanCheckIn(r) /\ entry'[n].known = scan[r].known
        <3>1. ASSUME NEW stamp \in Time, entry'[n] = [entry[n] EXCEPT !.check_out = stamp]
              PROVE  entry'[n].known = entry[n].known
            BY <2>1, <3>1 DEF EntryRow
        <3>2. ASSUME NEW r \in ScanReq, NEW stamp \in Time,
                     entry'[n] = [st |-> "row", emp |-> scan[r].emp, check_in |-> stamp,
                                  check_out |-> Null, edited |-> FALSE,
                                  known |-> scan[r].known]
              PROVE  entry'[n].known = scan[r].known
            BY <3>2
        <3>3. entry'[n] # GoneEntry
            BY <1>1 DEF GoneEntry, NoEntry
        <3> QED BY <1>1, <3>1, <3>2, <3>3, EntrySteps
    <2>3. CASE entry[n].st = "row" /\ entry'[n].known = entry[n].known
        <3>1. m \in Entry /\ Minted(m) /\ Closed(m)
            BY <1>1, <2>1, <2>3 DEF OverlapInv, EntryRow
        <3> QED BY <3>1, ClosedStays
    <2>4. ASSUME NEW r \in ScanReq, ScanCheckIn(r), entry'[n].known = scan[r].known
          PROVE  Minted(m)' /\ Closed(m)'
        <3>1. m \in Entry
            BY <1>1, <2>4 DEF TypeOK, ScanState
        <3>2. Minted(m) /\ Closed(m)
            BY <1>1, <2>4 DEF OverlapInv, ScanCheckIn
        <3> QED BY <3>1, <3>2, ClosedStays
    <2> QED BY <2>2, <2>3, <2>4
<1>2. ASSUME NEW r \in ScanReq, scan'[r].pc = "write", NEW m \in scan'[r].known
      PROVE  Minted(m)' /\ (scan'[r].target = Null => Closed(m)')
    <2>0. scan[r] \in ScanState
        BY DEF TypeOK
    <2>1. CASE scan'[r] = scan[r]
        <3>1. m \in Entry /\ Minted(m) /\ (scan[r].target = Null => Closed(m))
            BY <1>2, <2>0, <2>1 DEF OverlapInv, ScanState
        <3> QED BY <2>1, <3>1, ClosedStays
    <2>2. CASE ScanReadOpen(r)
        <3>1. PICK n \in Entry \cup {Null} :
                 /\ OpenEntries(scan[r].emp) = {n} \ {Null}
                 /\ scan' = [scan EXCEPT ![r] =
                       [scan[r] EXCEPT !.pc = "write", !.target = n, !.readAt = now,
                                       !.known = EntriesOf(scan[r].emp)]]
            BY <2>2 DEF ScanReadOpen
        <3>2. scan'[r].target = n /\ m \in EntriesOf(scan[r].emp)
            BY <1>2, <2>0, <3>1 DEF TypeOK, ScanState
        <3>3. m \in Entry /\ Minted(m)
            BY <3>2 DEF EntriesOf, Minted
        <3>4. n = Null => Closed(m)
            BY <3>1, <3>2 DEF OpenEntries, Closed
        <3>5. entry' = entry
            BY <2>2 DEF ScanReadOpen
        <3> QED BY <3>2, <3>3, <3>4, <3>5 DEF Minted, Closed
    <2>3. CASE \E e \in Employee, t \in Code : StartScan(r, e, t)
        BY <1>2, <2>3 DEF StartScan, TypeOK, IdleScan
    <2>4. CASE ScanCheckCode(r) \/ ScanLoadProfile(r)
        BY <1>2, <2>0, <2>4 DEF ScanCheckCode, ScanLoadProfile, TypeOK, ScanState
    <2>5. CASE scan'[r] = IdleScan
        BY <1>2, <2>5 DEF IdleScan
    <2> QED BY <2>1, <2>2, <2>3, <2>4, <2>5, ScanSteps
<1> QED BY <1>1, <1>2 DEF OverlapInv

\* Every step keeps stamps in order, and a scan's clock behind the check-in it closes.
LEMMA StampNext ==
    ASSUME TypeOK, StampInv, [Next]_vars
    PROVE  StampInv'
<1>0. now \in Nat /\ now' \in Nat /\ now <= now' /\ Time \subseteq Nat
    BY ClockForward DEF Time
<1>2. ASSUME NEW n \in Entry
      PROVE  /\ InOrder(n, now)'
             /\ entry'[n].st = "row" /\ ~entry'[n].edited /\ entry'[n].check_out # Null
                  => entry'[n].check_in <= entry'[n].check_out
    <2>1. entry[n] \in EntryRow /\ InOrder(n, now)
        BY DEF TypeOK, StampInv
    <2>2. CASE entry'[n] = entry[n]
        <3>1. entry[n].check_in \in Nat
            BY <1>0, <2>1 DEF EntryRow
        <3>2. InOrder(n, now)'
            BY <1>0, <2>1, <2>2, <3>1 DEF InOrder
        <3> QED BY <2>2, <3>2 DEF StampInv, StampsInOrder
    <2>3. ASSUME NEW r \in ScanReq, NEW stamp \in Time, stamp <= now,
                 entry'[n] = [st |-> "row", emp |-> scan[r].emp, check_in |-> stamp,
                              check_out |-> Null, edited |-> FALSE, known |-> scan[r].known]
          PROVE  /\ entry'[n].check_in <= now' /\ entry'[n].check_out = Null
        BY <1>0, <2>3
    <2>4. ASSUME NEW r \in ScanReq, NEW stamp \in Time, ScanCheckOut(r),
                 scan[r].target = n, scan[r].readAt <= stamp, stamp <= now,
                 entry[n].st = "row",
                 entry'[n] = [entry[n] EXCEPT !.check_out = stamp]
          PROVE  /\ InOrder(n, now)'
                 /\ entry'[n].st = "row" /\ ~entry'[n].edited
                      => entry'[n].check_in <= entry'[n].check_out
        <3>1. /\ entry'[n].st = entry[n].st /\ entry'[n].edited = entry[n].edited
              /\ entry'[n].check_in = entry[n].check_in /\ entry'[n].check_out = stamp
            BY <2>1, <2>4 DEF EntryRow
        <3>2. scan[r].pc = "write" /\ scan[r].target # Null /\ scan[r].readAt \in Time
            BY <2>4 DEF ScanCheckOut, TypeOK, ScanState
        <3>3. InOrder(n, scan[r].readAt)
            BY <2>4, <3>2 DEF StampInv
        <3>4. entry[n].check_in \in Nat /\ stamp \in Nat /\ scan[r].readAt \in Nat
            BY <1>0, <2>1, <2>4, <3>2 DEF EntryRow
        <3> QED BY <1>0, <2>1, <2>4, <3>1, <3>3, <3>4 DEF InOrder
    <2>5. CASE entry'[n].st = "row" /\ entry'[n].edited
        BY <2>5 DEF InOrder
    <2>6. CASE entry'[n] = GoneEntry
        BY <2>6 DEF GoneEntry, NoEntry, InOrder
    <2> QED BY <2>2, <2>3, <2>4, <2>5, <2>6, EntrySteps DEF InOrder
<1>3. ASSUME NEW r \in ScanReq, scan'[r].pc = "write"
      PROVE  (/\ scan[r].readAt <= now
              /\ scan[r].target # Null =>
                    Minted(scan[r].target) /\ InOrder(scan[r].target, scan[r].readAt))'
    <2>0. scan[r] \in ScanState
        BY DEF TypeOK
    <2>1. CASE scan'[r] = scan[r]
        <3>0. PICK n, t : n = scan[r].target /\ t = scan[r].readAt
            OBVIOUS
        <3>1. t \in Nat /\ t <= now
            BY <1>0, <1>3, <2>0, <2>1, <3>0 DEF StampInv, ScanState
        <3>2. n # Null => n \in Entry /\ Minted(n) /\ InOrder(n, t)
            BY <1>3, <2>0, <2>1, <3>0 DEF StampInv, ScanState
        <3>3. n # Null => Minted(n)' /\ InOrder(n, t)'
            BY <3>1, <3>2, ClosedStays
        <3>4. scan'[r].target = n /\ scan'[r].readAt = t /\ t <= now'
            BY <1>0, <2>1, <3>0, <3>1
        <3> QED BY <3>3, <3>4 DEF Minted, InOrder
    <2>2. CASE ScanReadOpen(r)
        <3>1. PICK n \in Entry \cup {Null} :
                 /\ OpenEntries(scan[r].emp) = {n} \ {Null}
                 /\ scan' = [scan EXCEPT ![r] =
                       [scan[r] EXCEPT !.pc = "write", !.target = n, !.readAt = now,
                                       !.known = EntriesOf(scan[r].emp)]]
            BY <2>2 DEF ScanReadOpen
        <3>2. scan'[r].target = n /\ scan'[r].readAt = now
            BY <2>0, <3>1 DEF TypeOK, ScanState
        <3>3. n # Null => n \in Entry /\ Minted(n) /\ InOrder(n, now)
            BY <3>1 DEF OpenEntries, EntriesOf, Minted, StampInv
        <3>4. entry' = entry /\ now' = now
            BY <2>2 DEF ScanReadOpen
        <3> QED BY <1>0, <3>2, <3>3, <3>4 DEF Minted, InOrder
    <2>3. CASE \E e \in Employee, t \in Code : StartScan(r, e, t)
        BY <1>3, <2>3 DEF StartScan, TypeOK, IdleScan
    <2>4. CASE ScanCheckCode(r) \/ ScanLoadProfile(r)
        BY <1>3, <2>0, <2>4 DEF ScanCheckCode, ScanLoadProfile, TypeOK, ScanState
    <2>5. CASE scan'[r] = IdleScan
        BY <1>3, <2>5 DEF IdleScan
    <2> QED BY <2>1, <2>2, <2>3, <2>4, <2>5, ScanSteps
<1> QED BY <1>2, <1>3 DEF StampInv, StampsInOrder

EntriesInv == TypeOK /\ OverlapInv /\ StampInv

\* The three invariants about entries hold together.
LEMMA EntriesInvariant == Spec => []EntriesInv
<1>1. Init => EntriesInv
    BY TypeInit, EntriesInit DEF EntriesInv
<1>2. EntriesInv /\ [Next]_vars => EntriesInv'
    BY TypeNext, OverlapNext, StampNext DEF EntriesInv
<1> QED BY <1>1, <1>2, PTL DEF Spec

\* Two open entries of an employee that no admin edited come from scans that
\* did not see each other's entry, for any number of scans in flight.
THEOREM OpenEntriesAreConcurrent == Spec => []OpenEntriesOverlap
<1>1. EntriesInv => OpenEntriesOverlap
    BY DEF EntriesInv, OverlapInv, OpenEntriesOverlap, Closed
<1> QED BY <1>1, EntriesInvariant, PTL

\* No scan closes an entry before its check-in, however long it is held up.
THEOREM StampsStayInOrder == Spec => []StampsInOrder
<1>1. EntriesInv => StampsInOrder
    BY DEF EntriesInv, StampInv
<1> QED BY <1>1, EntriesInvariant, PTL

(***************************************************************************)
(* What a scan overwrites. An entry that was closed when the scan came in  *)
(* is closed when it looks for an open one, unless an admin has reopened   *)
(* it: then the row is marked as edited for good.                          *)
(***************************************************************************)
Reopened(m) == entry[m].st = "row" => entry[m].edited

ShutInv ==
    \A r \in ScanReq : scan[r].pc # "idle" =>
        \A m \in scan[r].shut :
            /\ Minted(m) /\ Closed(m)
            /\ scan[r].pc = "write" /\ scan[r].target = m => Reopened(m)

\* A row that an admin has written stays one.
LEMMA ReopenedStays ==
    ASSUME TypeOK, [Next]_vars, NEW m \in Entry, Minted(m), Reopened(m)
    PROVE  Reopened(m)'
<1>1. CASE entry'[m] = entry[m]
    BY <1>1 DEF Reopened
<1>2. ASSUME NEW stamp \in Time, entry'[m] = [entry[m] EXCEPT !.check_out = stamp]
      PROVE  Reopened(m)'
    <2>1. entry[m] \in EntryRow
        BY DEF TypeOK
    <2>2. entry'[m].st = entry[m].st /\ entry'[m].edited = entry[m].edited
        BY <1>2, <2>1 DEF EntryRow
    <2> QED BY <2>2 DEF Reopened
<1>3. CASE entry'[m].st = "row" /\ entry'[m].edited
    BY <1>3 DEF Reopened
<1>4. CASE entry'[m] = GoneEntry
    BY <1>4 DEF GoneEntry, NoEntry, Reopened
<1> QED BY <1>1, <1>2, <1>3, <1>4, EntrySteps DEF Minted

\* Every step keeps what a scan may overwrite.
LEMMA ShutNext ==
    ASSUME TypeOK, ShutInv, [Next]_vars
    PROVE  ShutInv'
<1>1. SUFFICES ASSUME NEW r \in ScanReq, scan'[r].pc # "idle", NEW m \in scan'[r].shut
               PROVE  /\ Minted(m)' /\ Closed(m)'
                      /\ scan'[r].pc = "write" /\ scan'[r].target = m => Reopened(m)'
    BY DEF ShutInv
<1>2. scan[r] \in ScanState
    BY DEF TypeOK
<1>3. ASSUME m \in scan[r].shut, scan[r].pc # "idle"
      PROVE  m \in Entry /\ Minted(m) /\ Closed(m) /\ Minted(m)' /\ Closed(m)'
    <2>1. m \in Entry /\ Minted(m) /\ Closed(m)
        BY <1>2, <1>3 DEF ShutInv, ScanState
    <2> QED BY <2>1, ClosedStays
<1>4. CASE scan'[r] = scan[r]
    <2>1. m \in scan[r].shut /\ scan[r].pc # "idle"
        BY <1>1, <1>4
    <2>2. scan[r].pc = "write" /\ scan[r].target = m => Reopened(m)
        BY <2>1 DEF ShutInv
    <2> QED BY <1>3, <1>4, <2>1, <2>2, ReopenedStays
<1>5. CASE \E e \in Employee, t \in Code : StartScan(r, e, t)
    <2>1. PICK e \in Employee : /\ scan'[r].pc = "code" /\ scan'[r].shut = ClosedEntries(e)
                                /\ entry' = entry
        BY <1>5 DEF StartScan, TypeOK, IdleScan
    <2>2. entry[m].st = "row" /\ entry[m].check_out # Null
        BY <1>1, <2>1 DEF ClosedEntries, EntriesOf, OpenEntries
    <2> QED BY <2>1, <2>2 DEF Minted, Closed
<1>6. CASE ScanCheckCode(r) \/ ScanLoadProfile(r)
    <2>1. /\ scan[r].pc # "idle" /\ scan'[r].pc # "write"
          /\ scan'[r].shut = scan[r].shut
        BY <1>2, <1>6 DEF ScanCheckCode, ScanLoadProfile, TypeOK, ScanState
    <2> QED BY <1>1, <1>3, <2>1
<1>7. CASE ScanReadOpen(r)
    <2>1. PICK n \in Entry \cup {Null} :
             /\ OpenEntries(scan[r].emp) = {n} \ {Null}
             /\ scan' = [scan EXCEPT ![r] =
                   [scan[r] EXCEPT !.pc = "write", !.target = n, !.readAt = now,
                                   !.known = EntriesOf(scan[r].emp)]]
        BY <1>7 DEF ScanReadOpen
    <2>2. /\ scan'[r].target = n /\ scan'[r].shut = scan[r].shut
          /\ scan[r].pc # "idle" /\ entry' = entry
        BY <1>2, <1>7, <2>1 DEF ScanReadOpen, TypeOK, ScanState
    <2>3. m \in Entry /\ Closed(m) /\ Minted(m)' /\ Closed(m)'
        BY <1>1, <1>3, <2>2
    <2>4. n = m => Reopened(m)
        BY <2>1, <2>3, TimeClockAssumption DEF OpenEntries, Closed, Reopened
    <2> QED BY <2>2, <2>3, <2>4 DEF Reopened
<1>8. CASE scan'[r] = IdleScan
    BY <1>1, <1>8 DEF IdleScan
<1> QED BY <1>4, <1>5, <1>6, <1>7, <1>8, ScanSteps

\* However many scans overlap, each leaves the entries alone that were closed when it
\* came in and that no admin has edited.
THEOREM OverwritesOverlap == Spec => OnlyOverlapsOverwrite
<1> DEFINE Kept == \A r \in ScanReq :
                      scan[r].pc = "write" /\ scan'[r].pc = "idle" =>
                         \A n \in scan[r].shut : ~entry[n].edited => entry'[n] = entry[n]
<1>1. Init => TypeOK /\ ShutInv
    BY TypeInit DEF Init, ShutInv, IdleScan
<1>2. TypeOK /\ ShutInv /\ [Next]_vars => TypeOK' /\ ShutInv'
    BY TypeNext, ShutNext
<1>3. ASSUME TypeOK, ShutInv, [Next]_vars
      PROVE  [Kept]_vars
    <2>1. SUFFICES ASSUME NEW r \in ScanReq, scan[r].pc = "write", scan'[r].pc = "idle",
                          NEW n \in scan[r].shut, ~entry[n].edited
                   PROVE  entry'[n] = entry[n]
        OBVIOUS
    <2>2. n \in Entry /\ Minted(n) /\ (scan[r].target = n => Reopened(n))
        BY <1>3, <2>1 DEF ShutInv, TypeOK, ScanState
    <2>3. ASSUME NEW q \in ScanReq, ScanCheckOut(q), scan[q].target = n, entry[n].st = "row"
          PROVE  FALSE
        <3>1. q = r
            BY <2>1, <2>3 DEF ScanCheckOut
        <3> QED BY <2>1, <2>2, <2>3, <3>1 DEF Reopened
    <2>4. ASSUME NEW q \in EditReq, EditCommit(q)
          PROVE  FALSE
        BY <2>1, <2>4 DEF EditCommit
    <2>5. scan' # scan
        BY <2>1
    <2> QED BY <1>3, <2>2, <2>3, <2>4, <2>5, EntrySteps DEF Minted
<1>4. TypeOK /\ ShutInv /\ [Next]_vars => [Kept]_vars
    BY <1>3
<1> QED BY <1>1, <1>2, <1>4, PTL DEF Spec, OnlyOverlapsOverwrite

(***************************************************************************)
(* Clients that wait for their answers, and admins that never reopen an    *)
(* entry: each employee has at most one scan in flight and each company    *)
(* one generator, so that what they read is still so when they commit.     *)
(***************************************************************************)
NoReopening == \A b \in Bodies : b.check_out # Null

OneAtATime ==
    /\ \A r, q \in ScanReq : /\ r # q /\ scan[r].pc # "idle" /\ scan[q].pc # "idle"
                             => scan[r].emp # scan[q].emp
    /\ \A r, q \in GenReq : /\ r # q /\ gen[r].pc # "idle" /\ gen[q].pc # "idle"
                            => gen[r].company # gen[q].company
    /\ \A r \in EditReq : edit[r].pc # "idle" => edit[r].body \in Bodies

SingleInv ==
    /\ \A e \in Employee : \A n, m \in OpenEntries(e) : n = m
    /\ \A r \in ScanReq : scan[r].pc = "write" /\ scan[r].target = Null =>
                             OpenEntries(scan[r].emp) = {}
    /\ \A c \in Company : \A t, u \in ActiveCodes(c) : t = u
    /\ \A r \in GenReq : gen[r].pc = "write" => ActiveCodes(gen[r].company) \subseteq gen[r].olds

\* At first there is no request and nothing is open.
LEMMA SingleInit == Init => OneAtATime /\ SingleInv
BY DEF Init, OneAtATime, SingleInv, OpenEntries, EntriesOf, ActiveCodes, NoEntry, NoCode,
       IdleScan, IdleGen, IdleEdit

\* Clients that wait have one request at a time.
LEMMA OneAtATimeNext ==
    ASSUME TypeOK, OneAtATime, Serial, [Next]_vars
    PROVE  OneAtATime'
<1>1. ASSUME NEW r \in ScanReq, NEW q \in ScanReq, r # q,
             scan'[r].pc # "idle", scan'[q].pc # "idle"
      PROVE  scan'[r].emp # scan'[q].emp
    <2>1. ASSUME NEW s \in ScanReq, scan'[s].pc # "idle"
          PROVE  \/ scan[s].pc # "idle" /\ scan'[s].emp = scan[s].emp
                 \/ \E e \in Employee, t \in Code : StartScan(s, e, t)
        <3>1. scan[s] \in ScanState
            BY DEF TypeOK
        <3>2. CASE scan'[s] = scan[s]
            BY <2>1, <3>2
        <3>3. CASE ScanCheckCode(s) \/ ScanLoadProfile(s)
            BY <3>1, <3>3 DEF ScanCheckCode, ScanLoadProfile, TypeOK, ScanState
        <3>4. CASE ScanReadOpen(s)
            BY <3>1, <3>4 DEF ScanReadOpen, TypeOK, ScanState
        <3>5. CASE scan'[s] = IdleScan
            BY <2>1, <3>5 DEF IdleScan
        <3> QED BY <3>2, <3>3, <3>4, <3>5, ScanSteps
    <2>2. ASSUME NEW s \in ScanReq, NEW e \in Employee, NEW t \in Code, StartScan(s, e, t),
                 NEW p \in ScanReq, p # s, scan'[p].pc # "idle"
          PROVE  scan'[p].emp # e /\ scan'[s].emp = e
        BY <2>2 DEF StartScan, TypeOK, IdleScan
    <2>3. CASE \E e \in Employee, t \in Code : StartScan(r, e, t)
        BY <1>1, <2>2, <2>3
    <2>4. CASE \E e \in Employee, t \in Code : StartScan(q, e, t)
        BY <1>1, <2>2, <2>4
    <2>5. CASE /\ scan[r].pc # "idle" /\ scan'[r].emp = scan[r].emp
               /\ scan[q].pc # "idle" /\ scan'[q].emp = scan[q].emp
        BY <1>1, <2>5 DEF OneAtATime
    <2> QED BY <1>1, <2>1, <2>3, <2>4, <2>5
<1>2. ASSUME NEW r \in GenReq, NEW q \in GenReq, r # q,
             gen'[r].pc # "idle", gen'[q].pc # "idle"
      PROVE  gen'[r].company # gen'[q].company
    <2>1. CASE UNCHANGED <<code, gen>>
        BY <1>2, <2>1 DEF OneAtATime
    <2>2. ASSUME NEW s \in GenReq, NEW c \in Company, StartGenerate(s, c)
          PROVE  gen'[r].company # gen'[q].company
        BY <1>2, <2>2 DEF StartGenerate, TypeOK, OneAtATime
    <2>3. ASSUME NEW s \in GenReq, GenerateCommit(s)
          PROVE  gen'[r].company # gen'[q].company
        BY <1>2, <2>3 DEF GenerateCommit, TypeOK, IdleGen, OneAtATime
    <2> QED BY <2>1, <2>2, <2>3, CodeSteps
<1>3. ASSUME NEW r \in EditReq, edit'[r].pc # "idle"
      PROVE  edit'[r].body \in Bodies
    <2>1. \/ edit'[r] = edit[r]
          \/ \E n \in Entry, b \in Bodies : StartEdit(r, n, b)
          \/ edit'[r] = IdleEdit
        BY DEF Next, vars, clients, TypeOK, Tick, StartScan, ScanStep, ScanCheckCode,
               ScanLoadProfile, ScanReadOpen, ScanCheckIn, ScanCheckOut, ScanFails,
               StartGenerate, GenerateCommit, StartEdit, EditStep, EditCommit, EditFails,
               DeleteEntry, DeleteEmployee
    <2>2. CASE edit'[r] = edit[r]
        BY <1>3, <2>2 DEF OneAtATime
    <2>3. CASE \E n \in Entry, b \in Bodies : StartEdit(r, n, b)
        BY <2>3 DEF StartEdit, TypeOK
    <2>4. CASE edit'[r] = IdleEdit
        BY <1>3, <2>4 DEF IdleEdit
    <2> QED BY <2>1, <2>2, <2>3, <2>4
<1> QED BY <1>1, <1>2, <1>3 DEF OneAtATime

\* A PATCH that sets no check-out to NULL opens no entry: it writes a column only if it was asked to.
LEMMA EditNeverReopens ==
    ASSUME TypeOK, OneAtATime, NoReopening, NEW r \in EditReq, EditCommit(r)
    PROVE  LET n == edit[r].target IN
             entry'[n].check_out = Null => entry[n].check_out = Null
<1> DEFINE n == edit[r].target
           in == Patched(edit[r].body.check_in, edit[r].check_in, entry[n].check_in)
           out == Patched(edit[r].body.check_out, edit[r].check_out, entry[n].check_out)
<1>1. n \in Entry /\ entry[n] \in EntryRow /\ edit[r].body \in Bodies
    BY DEF EditCommit, TypeOK, OneAtATime
<1>2. edit[r].body.check_out # Null
    BY <1>1 DEF NoReopening
<1>3. out = entry[n].check_out \/ out # Null
    BY <1>2 DEF Patched
<1>4. entry' = [entry EXCEPT ![n] =
         [entry[n] EXCEPT !.check_in = in, !.check_out = out, !.edited = TRUE]]
    BY DEF EditCommit
<1>5. entry'[n].check_out = out
    <2> HIDE DEF in, out
    <2> QED BY <1>1, <1>4 DEF TypeOK, EntryRow
<1> QED BY <1>3, <1>5

\* An open entry was open before, or it is the row a scan has just inserted.
LEMMA OpenSteps ==
    ASSUME TypeOK, OneAtATime, NoReopening, [Next]_vars,
           NEW n \in Entry, entry'[n].st = "row", entry'[n].check_out = Null
    PROVE  \/ n \in OpenEntries(entry'[n].emp)
           \/ \E r \in ScanReq :
                 /\ ScanCheckIn(r) /\ entry'[n].emp = scan[r].emp
                 /\ \A m \in Entry \ {n} : entry'[m] = entry[m]
<1>0. entry[n] \in EntryRow /\ Null \notin Time
    BY TimeClockAssumption DEF TypeOK
<1>1. CASE entry'[n] = entry[n]
    BY <1>1 DEF OpenEntries, EntriesOf
<1>2. ASSUME NEW r \in ScanReq, NEW stamp \in Time, ScanCheckIn(r), entry[n].st = "free",
             entry'[n] = [st |-> "row", emp |-> scan[r].emp, check_in |-> stamp,
                          check_out |-> Null, edited |-> FALSE, known |-> scan[r].known]
      PROVE  /\ entry'[n].emp = scan[r].emp
             /\ \A m \in Entry \ {n} : entry'[m] = entry[m]
    BY <1>2 DEF ScanCheckIn, TypeOK
<1>3. ASSUME NEW stamp \in Time, entry'[n] = [entry[n] EXCEPT !.check_out = stamp]
      PROVE  FALSE
    BY <1>0, <1>3 DEF EntryRow
<1>4. ASSUME NEW r \in EditReq, EditCommit(r), edit[r].target = n, entry[n].st = "row",
             entry'[n].emp = entry[n].emp
      PROVE  n \in OpenEntries(entry'[n].emp)
    BY <1>4, EditNeverReopens DEF OpenEntries, EntriesOf
<1>5. entry'[n] # GoneEntry
    BY DEF GoneEntry, NoEntry
<1> QED BY <1>1, <1>2, <1>3, <1>4, <1>5, EntrySteps

\* With one request at a time, what a scan or a generator has read still holds when it writes.
LEMMA SingleNext ==
    ASSUME TypeOK, OneAtATime, SingleInv, Serial, NoReopening, [Next]_vars
    PROVE  SingleInv'
<1>1. ASSUME NEW e \in Employee, NEW n \in OpenEntries(e)', NEW m \in OpenEntries(e)'
      PROVE  n = m
    <2>1. /\ n \in Entry /\ entry'[n].st = "row" /\ entry'[n].check_out = Null
          /\ m \in Entry /\ entry'[m].st = "row" /\ entry'[m].check_out = Null
          /\ entry'[n].emp = e /\ entry'[m].emp = e
        BY DEF OpenEntries, EntriesOf
    <2>2. ASSUME NEW k \in Entry, NEW j \in Entry, j # k,
                 entry'[j].st = "row", entry'[j].check_out = Null, entry'[j].emp = e,
                 NEW r \in ScanReq, ScanCheckIn(r), scan[r].emp = e,
                 \A i \in Entry \ {k} : entry'[i] = entry[i]
          PROVE  FALSE
        <3>1. OpenEntries(e) = {}
            BY <2>2 DEF SingleInv, ScanCheckIn
        <3>2. j \in OpenEntries(e)
            BY <2>2 DEF OpenEntries, EntriesOf
        <3> QED BY <3>1, <3>2
    <2>3. CASE n \in OpenEntries(e) /\ m \in OpenEntries(e)
        BY <2>3 DEF SingleInv
    <2> QED BY <2>1, <2>2, <2>3, OpenSteps
<1>2. ASSUME NEW r \in ScanReq, scan'[r].pc = "write", scan'[r].target = Null
      PROVE  OpenEntries(scan[r].emp)' = {}
    <2>0. scan[r] \in ScanState
        BY DEF TypeOK
    <2>1. CASE scan'[r] = scan[r]
        <3> SUFFICES ASSUME NEW n \in OpenEntries(scan[r].emp)' PROVE FALSE
            OBVIOUS
        <3>1. /\ n \in Entry /\ entry'[n].st = "row" /\ entry'[n].check_out = Null
              /\ entry'[n].emp = scan[r].emp
            BY <2>1 DEF OpenEntries, EntriesOf
        <3>2. OpenEntries(scan[r].emp) = {}
            BY <1>2, <2>1 DEF SingleInv
        <3>3. PICK q \in ScanReq : ScanCheckIn(q) /\ scan[q].emp = scan[r].emp
            BY <3>1, <3>2, OpenSteps
        <3>4. q = r
            BY <1>2, <2>1, <3>3 DEF OneAtATime, ScanCheckIn
        <3>5. scan'[r] = IdleScan
            BY <3>3, <3>4 DEF ScanCheckIn, TypeOK
        <3> QED BY <1>2, <3>5 DEF IdleScan
    <2>2. CASE ScanReadOpen(r)
        <3>1. PICK n \in Entry \cup {Null} :
                 /\ OpenEntries(scan[r].emp) = {n} \ {Null}
                 /\ scan' = [scan EXCEPT ![r] =
                       [scan[r] EXCEPT !.pc = "write", !.target = n, !.readAt = now,
                                       !.known = EntriesOf(scan[r].emp)]]
            BY <2>2 DEF ScanReadOpen
        <3>2. scan'[r].target = n /\ scan'[r].emp = scan[r].emp
            BY <2>0, <3>1 DEF TypeOK, ScanState
        <3>3. OpenEntries(scan[r].emp) = {}
            BY <1>2, <3>1, <3>2
        <3>4. entry' = entry
            BY <2>2 DEF ScanReadOpen
        <3> QED BY <3>2, <3>3, <3>4 DEF OpenEntries, EntriesOf
    <2>3. CASE \E e \in Employee, t \in Code : StartScan(r, e, t)
        BY <1>2, <2>3 DEF StartScan, TypeOK, IdleScan
    <2>4. CASE ScanCheckCode(r) \/ ScanLoadProfile(r)
        BY <1>2, <2>0, <2>4 DEF ScanCheckCode, ScanLoadProfile, TypeOK, ScanState
    <2>5. CASE scan'[r] = IdleScan
        BY <1>2, <2>5 DEF IdleScan
    <2> QED BY <2>1, <2>2, <2>3, <2>4, <2>5, ScanSteps
<1>3. ASSUME NEW c \in Company
      PROVE  \A t, u \in ActiveCodes(c)' : t = u
    <2>1. CASE UNCHANGED <<code, gen>>
        BY <2>1 DEF ActiveCodes, SingleInv
    <2>2. ASSUME NEW r \in GenReq, NEW d \in Company, StartGenerate(r, d)
          PROVE  code' = code
        BY <2>2 DEF StartGenerate
    <2>3. ASSUME NEW r \in GenReq, GenerateCommit(r)
          PROVE  \A t, u \in ActiveCodes(c)' : t = u
        <3>1. PICK t \in Code :
                  /\ code'[t].company = gen[r].company
                  /\ \A u \in Code \ {t} :
                        /\ code'[u].company = code[u].company
                        /\ code'[u].is_active = (code[u].is_active /\ u \notin gen[r].olds)
            BY <2>3, GenerateEffect
        <3>2. \A u \in ActiveCodes(c)' : u # t => u \in ActiveCodes(c) /\ u \notin gen[r].olds
            BY <3>1 DEF ActiveCodes
        <3>3. ActiveCodes(gen[r].company) \subseteq gen[r].olds
            BY <2>3 DEF SingleInv, GenerateCommit
        <3>4. CASE c = gen[r].company
            BY <3>2, <3>3, <3>4
        <3>5. CASE c # gen[r].company
            <4>1. t \notin ActiveCodes(c)'
                BY <3>1, <3>5 DEF ActiveCodes
            <4> QED BY <3>2, <4>1 DEF SingleInv
        <3> QED BY <3>4, <3>5
    <2> QED BY <2>1, <2>2, <2>3, CodeSteps DEF ActiveCodes, SingleInv
<1>4. ASSUME NEW r \in GenReq, gen'[r].pc = "write"
      PROVE  (ActiveCodes(gen[r].company) \subseteq gen[r].olds)'
    <2>1. CASE UNCHANGED <<code, gen>>
        BY <1>4, <2>1 DEF ActiveCodes, SingleInv
    <2>2. ASSUME NEW q \in GenReq, NEW c \in Company, StartGenerate(q, c)
          PROVE  (ActiveCodes(gen[r].company) \subseteq gen[r].olds)'
        <3>1. code' = code
            BY <2>2 DEF StartGenerate
        <3>2. CASE q = r
            <4>1. gen'[r].company = c /\ gen'[r].olds = ActiveCodes(c)
                BY <2>2, <3>2 DEF StartGenerate, TypeOK
            <4> QED BY <3>1, <4>1 DEF ActiveCodes
        <3>3. CASE q # r
            <4>1. gen'[r] = gen[r]
                BY <2>2, <3>3 DEF StartGenerate, TypeOK
            <4> QED BY <1>4, <3>1, <4>1 DEF ActiveCodes, SingleInv
        <3> QED BY <3>2, <3>3
    <2>3. ASSUME NEW q \in GenReq, GenerateCommit(q)
          PROVE  (ActiveCodes(gen[r].company) \subseteq gen[r].olds)'
        <3>1. q # r /\ gen'[r] = gen[r]
            BY <1>4, <2>3 DEF GenerateCommit, TypeOK, IdleGen
        <3>2. gen[r].company # gen[q].company
            BY <1>4, <2>3, <3>1 DEF GenerateCommit, OneAtATime
        <3>3. PICK t \in Code :
                  /\ code'[t].company = gen[q].company
                  /\ \A u \in Code \ {t} :
                        /\ code'[u].company = code[u].company
                        /\ code'[u].is_active = (code[u].is_active /\ u \notin gen[q].olds)
            BY <2>3, GenerateEffect
        <3>4. ASSUME NEW u \in Code, code'[u].is_active, code'[u].company = gen[r].company
              PROVE  u \in ActiveCodes(gen[r].company)
            BY <3>2, <3>3, <3>4 DEF ActiveCodes
        <3>5. ActiveCodes(gen[r].company) \subseteq gen[r].olds
            BY <1>4, <3>1 DEF SingleInv
        <3> QED BY <3>1, <3>4, <3>5 DEF ActiveCodes
    <2> QED BY <2>1, <2>2, <2>3, CodeSteps
<1> QED BY <1>1, <1>2, <1>3, <1>4 DEF SingleInv

\* The codes a generator is about to deactivate are its own company's.
OldsInv ==
    \A r \in GenReq : gen[r].pc = "write" =>
        \A t \in gen[r].olds : code[t].stored /\ code[t].company = gen[r].company

\* What a generator has read are stored codes of its company.
LEMMA OldsNext ==
    ASSUME TypeOK, CodesInv, OldsInv, [Next]_vars
    PROVE  OldsInv'
<1>1. CASE UNCHANGED <<code, gen>>
    BY <1>1 DEF OldsInv
<1>2. ASSUME NEW r \in GenReq, NEW c \in Company, StartGenerate(r, c)
      PROVE  OldsInv'
    <2>1. code' = code /\ \A q \in GenReq \ {r} : gen'[q] = gen[q]
        BY <1>2 DEF StartGenerate, TypeOK
    <2>2. gen'[r].company = c /\ gen'[r].olds = ActiveCodes(c)
        BY <1>2 DEF StartGenerate, TypeOK
    <2>3. \A t \in ActiveCodes(c) : code[t].stored /\ code[t].company = c
        BY DEF ActiveCodes, CodesInv
    <2> QED BY <2>1, <2>2, <2>3 DEF OldsInv
<1>3. ASSUME NEW r \in GenReq, GenerateCommit(r)
      PROVE  OldsInv'
    <2>1. \A q \in GenReq : gen'[q].pc = "write" => gen'[q] = gen[q]
        BY <1>3 DEF GenerateCommit, TypeOK, IdleGen
    <2>2. \A q \in GenReq : gen[q].olds \subseteq Code
        BY DEF TypeOK, GenState
    <2> QED BY <2>1, <2>2, StoredCodeSteps DEF OldsInv
<1> QED BY <1>1, <1>2, <1>3, CodeSteps

SerialInv == TypeOK /\ CodesInv /\ GeneratorsInv /\ OldsInv /\ OneAtATime /\ SingleInv

\* All that holds with clients that wait.
LEMMA SerialInvariant ==
    ASSUME Serial, NoReopening
    PROVE  Spec => []SerialInv
<1>1. Init => SerialInv
    <2>1. Init => OldsInv
        BY DEF Init, OldsInv, IdleGen
    <2> QED BY <2>1, TypeInit, CodesInit, SingleInit DEF SerialInv
<1>2. SerialInv /\ [Next]_vars => SerialInv'
    BY TypeNext, CodesNext, OldsNext, OneAtATimeNext, SingleNext DEF SerialInv
<1> QED BY <1>1, <1>2, PTL DEF Spec

\* A set without two different elements has one at most.
LEMMA AtMostOneOf ==
    ASSUME NEW S, \A x, y \in S : x = y
    PROVE  Cardinality(S) <= 1
<1>1. CASE S = {}
    BY <1>1, FS_EmptySet
<1>2. ASSUME NEW x \in S PROVE Cardinality(S) <= 1
    <2>1. S = {x}
        OBVIOUS
    <2> QED BY <2>1, FS_Singleton
<1> QED BY <1>1, <1>2

(***************************************************************************)
(* Scans that follow each other. A scan between its SELECT and its commit  *)
(* holds an entry of its own employee: nobody has closed it since, unless  *)
(* an admin has edited it.                                                 *)
(***************************************************************************)
HeldInv ==
    \A r \in ScanReq : scan[r].pc = "write" /\ scan[r].target # Null =>
        /\ Minted(scan[r].target)
        /\ entry[scan[r].target].st = "row" =>
              /\ entry[scan[r].target].emp = scan[r].emp
              /\ entry[scan[r].target].edited \/ entry[scan[r].target].check_out = Null

\* The entry that a scan is to close is its employee's and open, unless somebody has edited it.
LEMMA HeldNext ==
    ASSUME TypeOK, OneAtATime, HeldInv, [Next]_vars
    PROVE  HeldInv'
<1> SUFFICES ASSUME NEW r \in ScanReq, scan'[r].pc = "write", scan'[r].target # Null
             PROVE  /\ entry'[scan'[r].target].st # "free"
                    /\ entry'[scan'[r].target].st = "row" =>
                         /\ entry'[scan'[r].target].emp = scan'[r].emp
                         /\ \/ entry'[scan'[r].target].edited
                            \/ entry'[scan'[r].target].check_out = Null
    BY DEF HeldInv, Minted
<1>1. ASSUME scan'[r] = scan[r], NEW n \in Entry, n = scan[r].target
      PROVE  /\ entry'[n].st # "free"
             /\ entry'[n].st = "row" =>
                  /\ entry'[n].emp = scan[r].emp
                  /\ entry'[n].edited \/ entry'[n].check_out = Null
    <2>1. /\ scan[r].pc = "write" /\ entry[n].st # "free"
          /\ entry[n].st = "row" => /\ entry[n].emp = scan[r].emp
                                    /\ entry[n].edited \/ entry[n].check_out = Null
        BY <1>1 DEF HeldInv, Minted
    <2>2. ASSUME NEW q \in ScanReq, ScanCheckOut(q), scan[q].target = n, entry[n].st = "row"
          PROVE  FALSE
        <3>1. scan[q].pc = "write" /\ scan[q].target # Null
            BY <2>2 DEF ScanCheckOut
        <3>2. scan[q].emp = entry[n].emp
            BY <2>2, <3>1 DEF HeldInv
        <3>3. q = r
            BY <2>1, <2>2, <3>1, <3>2 DEF OneAtATime
        <3>4. scan'[r].pc = "idle"
            BY <2>2, <3>3 DEF ScanCheckOut, TypeOK, IdleScan
        <3> QED BY <3>4
    <2>3. CASE entry'[n] = GoneEntry
        BY <2>3 DEF GoneEntry, NoEntry
    <2> QED BY <2>1, <2>2, <2>3, EntrySteps
<1>2. ASSUME ScanReadOpen(r), NEW n \in Entry, n = scan'[r].target
      PROVE  entry' = entry /\ scan'[r].emp = scan[r].emp /\ n \in OpenEntries(scan[r].emp)
    <2>1. PICK m \in Entry \cup {Null} :
             /\ OpenEntries(scan[r].emp) = {m} \ {Null}
             /\ scan' = [scan EXCEPT ![r] =
                   [scan[r] EXCEPT !.pc = "write", !.target = m, !.readAt = now,
                                   !.known = EntriesOf(scan[r].emp)]]
        BY <1>2 DEF ScanReadOpen
    <2>2. scan'[r].target = m /\ scan'[r].emp = scan[r].emp
        BY <2>1 DEF TypeOK, ScanState
    <2>3. m # Null
        BY <1>2, <2>2, TimeClockAssumption
    <2> QED BY <1>2, <2>1, <2>2, <2>3 DEF ScanReadOpen
<1>3. scan[r] \in ScanState /\ scan'[r] \in ScanState
    BY TypeNext DEF TypeOK
<1>4. scan'[r].target \in Entry
    BY <1>3 DEF ScanState
<1>5. scan'[r] = scan[r] \/ ScanReadOpen(r)
    <2>1. ASSUME ScanCheckCode(r) \/ ScanLoadProfile(r) PROVE FALSE
        BY <1>3, <2>1 DEF ScanCheckCode, ScanLoadProfile, TypeOK, ScanState
    <2>2. ASSUME NEW e \in Employee, NEW t \in Code, StartScan(r, e, t) PROVE FALSE
        BY <2>2 DEF StartScan, TypeOK, IdleScan
    <2>3. scan'[r] # IdleScan
        BY DEF IdleScan
    <2> QED BY <2>1, <2>2, <2>3, ScanSteps
<1>6. CASE scan'[r] = scan[r]
    BY <1>1, <1>4, <1>6
<1>7. CASE ScanReadOpen(r)
    BY <1>2, <1>4, <1>7 DEF OpenEntries, EntriesOf
<1> QED BY <1>5, <1>6, <1>7

\* With clients that wait for their answers a scan never moves the check-out of an
\* entry that is closed, whatever PATCHes set: only a PATCH changes such an entry.
THEOREM ClosedStaysClosed ==
    ASSUME Serial
    PROVE  Spec => ClosedEntriesAreFinal
<1> DEFINE Inv == TypeOK /\ OneAtATime /\ HeldInv
           Final == \A n \in Entry :
                      /\ entry[n].st = "row" /\ entry[n].check_out # Null
                      /\ entry'[n].st = "row" /\ ~entry'[n].edited
                      => entry'[n] = entry[n]
<1>1. Init => Inv
    BY TypeInit, SingleInit DEF Init, HeldInv, IdleScan
<1>2. Inv /\ [Next]_vars => Inv'
    BY TypeNext, OneAtATimeNext, HeldNext
<1>3. Inv /\ [Next]_vars => Final
    <2> SUFFICES ASSUME Inv, [Next]_vars, NEW n \in Entry,
                        entry[n].st = "row", entry[n].check_out # Null,
                        entry'[n].st = "row", ~entry'[n].edited
                 PROVE  entry'[n] = entry[n]
        OBVIOUS
    <2>1. ASSUME NEW r \in ScanReq, NEW stamp, ScanCheckOut(r), scan[r].target = n,
                 entry'[n] = [entry[n] EXCEPT !.check_out = stamp]
          PROVE  FALSE
        <3>1. scan[r].pc = "write" /\ scan[r].target # Null
            BY <2>1 DEF ScanCheckOut
        <3>2. entry[n].edited
            BY <2>1, <3>1 DEF HeldInv
        <3>3. entry'[n].edited = entry[n].edited
            BY <2>1 DEF TypeOK, EntryRow
        <3> QED BY <3>2, <3>3
    <2>2. entry'[n] # GoneEntry
        BY DEF GoneEntry, NoEntry
    <2> QED BY <2>1, <2>2, EntrySteps
<1> HIDE DEF Inv
<1>4. Spec => []Inv
    BY <1>1, <1>2, PTL DEF Spec
<1>5. Inv /\ [Next]_vars => [Final]_vars
    BY <1>3
<1> QED BY <1>4, <1>5, PTL DEF Spec, ClosedEntriesAreFinal

\* With clients that wait for their answers and admins who reopen nothing, the
\* SELECT of the open entry never finds two rows.
THEOREM SerialScansOpenOne ==
    ASSUME Serial, NoReopening
    PROVE  Spec => []AtMostOneOpenEntry
<1>1. SerialInv => AtMostOneOpenEntry
    BY AtMostOneOf DEF SerialInv, SingleInv, AtMostOneOpenEntry
<1> QED BY <1>1, SerialInvariant, PTL

\* Nor does the SELECT of a company's live code.
THEOREM SerialGeneratorsLeaveOne ==
    ASSUME Serial, NoReopening
    PROVE  Spec => []AtMostOneLiveCode
<1>1. SerialInv => AtMostOneLiveCode
    <2> SUFFICES ASSUME SerialInv, NEW c \in Company
                 PROVE  Cardinality(LiveCodes(c)) <= 1
        BY DEF AtMostOneLiveCode
    <2>1. \A t, u \in LiveCodes(c) : t = u
        BY DEF SerialInv, SingleInv, LiveCodes
    <2> QED BY <2>1, AtMostOneOf
<1> QED BY <1>1, SerialInvariant, PTL

(***************************************************************************)
(* The refinement. The abstract variables are read off the tables; under   *)
(* SerialInv the sets they are taken from have one element at most.        *)
(***************************************************************************)
LEMMA TheOneOf ==
    /\ TheOne({}) = Null
    /\ \A x : TheOne({x}) = x
BY DEF TheOne

openMap == [e \in Employee |-> TheOne(OpenEntries(e))]
usedMap == {n \in Entry : entry[n].st # "free"}
currentMap == [c \in Company |-> TheOne(ActiveCodes(c))]
issuedMap == {t \in Code : code[t].stored}

AbstractNext ==
    \/ \E e \in Employee : Clock!ClockIn(e) \/ Clock!ClockOut(e)
    \/ \E c \in Company : Clock!Issue(c)
    \/ UNCHANGED <<openMap, usedMap, currentMap, issuedMap>>

\* A step of one employee or company is a step of the punch clock.
LEMMA AbstractStep == AbstractNext => [Clock!ClockNext]_(Clock!pvars)
BY DEF AbstractNext, Clock!ClockNext, Clock!pvars, openMap, usedMap, currentMap, issuedMap

\* Equal open entries and equal codes: the abstract clock stutters.
LEMMA Stutters ==
    ASSUME \A e \in Employee : OpenEntries(e)' = OpenEntries(e),
           usedMap' = usedMap, code' = code
    PROVE  UNCHANGED <<openMap, usedMap, currentMap, issuedMap>>
BY DEF openMap, currentMap, issuedMap, ActiveCodes

\* A step by which one employee's open entries can only shrink is a ClockOut, or
\* a stutter when there was nothing to close.
LEMMA ShrinkIsClockOut ==
    ASSUME SingleInv, TypeOK, NEW e, code' = code, usedMap' = usedMap,
           OpenEntries(e)' \subseteq OpenEntries(e),
           \A d \in Employee \ {e} : OpenEntries(d)' = OpenEntries(d)
    PROVE  AbstractNext
<1>1. CASE e \notin Employee \/ OpenEntries(e)' = OpenEntries(e)
    <2>1. \A d \in Employee : OpenEntries(d)' = OpenEntries(d)
        BY <1>1
    <2> QED BY <2>1, Stutters DEF AbstractNext
<1>2. CASE e \in Employee /\ OpenEntries(e)' # OpenEntries(e)
    <2>1. PICK n \in OpenEntries(e) : n \notin OpenEntries(e)'
        BY <1>2
    <2>2. OpenEntries(e) = {n} /\ OpenEntries(e)' = {}
        BY <1>2, <2>1 DEF SingleInv
    <2>3. n \in Entry
        BY <2>1 DEF OpenEntries, EntriesOf
    <2>4. n # Null
        BY <2>3, TimeClockAssumption
    <2>5. openMap[e] = n
        BY <1>2, <2>2, TheOneOf DEF openMap
    <2>6. openMap' = [openMap EXCEPT ![e] = Null]
        BY <1>2, <2>2, TheOneOf DEF openMap
    <2>7. UNCHANGED <<usedMap, currentMap, issuedMap>>
        BY DEF currentMap, issuedMap, ActiveCodes
    <2>8. Clock!ClockOut(e)
        BY <2>4, <2>5, <2>6, <2>7
           DEF Clock!ClockOut, openMap, usedMap, currentMap, issuedMap
    <2> QED BY <1>2, <2>8 DEF AbstractNext
<1> QED BY <1>1, <1>2

\* A check-in opens an entry that has not been used, for an employee who has none open.
LEMMA CheckInRefines ==
    ASSUME SerialInv, NEW r \in ScanReq, ScanCheckIn(r)
    PROVE  AbstractNext
<1> USE DEF SerialInv
<1>0. PICK e : e = scan[r].emp
    OBVIOUS
<1>1. PICK n \in Entry, stamp \in scan[r].readAt..now :
         /\ entry[n].st = "free"
         /\ entry' = [entry EXCEPT ![n] =
                [st |-> "row", emp |-> scan[r].emp, check_in |-> stamp,
                 check_out |-> Null, edited |-> FALSE, known |-> scan[r].known]]
    BY DEF ScanCheckIn
<1>2. code' = code /\ e \in Employee
    BY <1>0 DEF ScanCheckIn, TypeOK
<1>3. entry'[n].st = "row" /\ entry'[n].emp = e /\ entry'[n].check_out = Null
    BY <1>0, <1>1 DEF TypeOK
<1>4. \A m \in Entry \ {n} : entry'[m] = entry[m]
    BY <1>1 DEF TypeOK
<1>5. OpenEntries(e) = {}
    BY <1>0 DEF ScanCheckIn, SingleInv
<1>6. OpenEntries(e)' = {n}
    <2>1. \A m \in OpenEntries(e)' : m \in Entry /\ (m # n => m \in OpenEntries(e))
        BY <1>4 DEF OpenEntries, EntriesOf
    <2>2. n \in OpenEntries(e)'
        BY <1>3 DEF OpenEntries, EntriesOf
    <2> QED BY <1>5, <2>1, <2>2
<1>7. \A d \in Employee \ {e} : OpenEntries(d)' = OpenEntries(d)
    BY <1>1, <1>3, <1>4 DEF OpenEntries, EntriesOf
<1>8. openMap[e] = Null
    BY <1>2, <1>5, TheOneOf DEF openMap
<1>9. openMap' = [openMap EXCEPT ![e] = n]
    BY <1>2, <1>6, <1>7, TheOneOf DEF openMap
<1>10. usedMap' = usedMap \cup {n} /\ n \in Entry \ usedMap
    BY <1>1, <1>3, <1>4 DEF usedMap
<1>11. UNCHANGED <<currentMap, issuedMap>>
    BY <1>2 DEF currentMap, issuedMap, ActiveCodes
<1>12. Clock!ClockIn(e)
    BY <1>8, <1>9, <1>10, <1>11 DEF Clock!ClockIn, openMap, usedMap, currentMap, issuedMap
<1> QED BY <1>2, <1>12 DEF AbstractNext

\* A generator's commit issues a code.
LEMMA GenerateRefines ==
    ASSUME SerialInv, NEW r \in GenReq, GenerateCommit(r)
    PROVE  AbstractNext
<1> USE DEF SerialInv
<1>0. PICK c : c = gen[r].company
    OBVIOUS
<1>1. PICK t \in Code :
         /\ ~code[t].stored
         /\ code'[t].stored /\ code'[t].is_active
         /\ code'[t].company = c
         /\ \A u \in Code \ {t} :
               /\ code'[u].stored = code[u].stored
               /\ code'[u].company = code[u].company
               /\ code'[u].is_active = (code[u].is_active /\ u \notin gen[r].olds)
    BY <1>0, GenerateEffect
<1>2. c \in Company /\ entry' = entry /\ gen[r].pc = "write"
    BY <1>0 DEF GenerateCommit, TypeOK
<1>3. ActiveCodes(c)' = {t}
    <2>1. ActiveCodes(c) \subseteq gen[r].olds
        BY <1>0, <1>2 DEF SingleInv
    <2>2. \A u \in ActiveCodes(c)' : u # t => u \in ActiveCodes(c) /\ u \notin gen[r].olds
        BY <1>1 DEF ActiveCodes
    <2>3. t \in ActiveCodes(c)'
        BY <1>1 DEF ActiveCodes
    <2> QED BY <2>1, <2>2, <2>3
<1>4. ASSUME NEW d \in Company, d # c
      PROVE  ActiveCodes(d)' = ActiveCodes(d)
    <2>1. \A u \in Code \ {t} : u \in ActiveCodes(d)' <=> u \in ActiveCodes(d)
        BY <1>0, <1>1, <1>2, <1>4 DEF ActiveCodes, OldsInv
    <2>2. t \notin ActiveCodes(d)'
        BY <1>1, <1>4 DEF ActiveCodes
    <2>3. t \notin ActiveCodes(d)
        BY <1>1 DEF ActiveCodes, CodesInv
    <2>4. ActiveCodes(d) \subseteq Code /\ ActiveCodes(d)' \subseteq Code
        BY DEF ActiveCodes
    <2> QED BY <2>1, <2>2, <2>3, <2>4
<1>5. currentMap' = [currentMap EXCEPT ![c] = t]
    BY <1>2, <1>3, <1>4, TheOneOf DEF currentMap
<1>6. issuedMap' = issuedMap \cup {t} /\ t \in Code \ issuedMap
    BY <1>1 DEF issuedMap
<1>7. UNCHANGED <<openMap, usedMap>>
    BY <1>2 DEF openMap, usedMap, OpenEntries, EntriesOf
<1>8. Clock!Issue(c)
    BY <1>5, <1>6, <1>7 DEF Clock!Issue, openMap, usedMap, currentMap, issuedMap
<1> QED BY <1>2, <1>8 DEF AbstractNext

\* Every step of the clock is a step of the punch clock, or none.
LEMMA StepRefines ==
    ASSUME SerialInv, Serial, NoReopening, [Next]_vars
    PROVE  AbstractNext
<1> USE DEF SerialInv
<1>1. ASSUME NEW r \in ScanReq, ScanCheckOut(r)
      PROVE  AbstractNext
    <2>0. PICK n, e : n = scan[r].target /\ e = entry[n].emp
        OBVIOUS
    <2>1. n \in Entry /\ entry[n] \in EntryRow /\ entry[n].st = "row" /\ code' = code
        BY <1>1, <2>0 DEF ScanCheckOut, TypeOK, ScanState
    <2>2. PICK stamp \in scan[r].readAt..now : entry' = [entry EXCEPT ![n].check_out = stamp]
        BY <1>1, <2>0 DEF ScanCheckOut
    <2>3. stamp # Null
        BY <2>2, Stamps, TimeClockAssumption DEF TypeOK, ScanState
    <2>4. /\ entry'[n].st = "row" /\ entry'[n].emp = e /\ entry'[n].check_out = stamp
          /\ \A m \in Entry \ {n} : entry'[m] = entry[m]
        BY <2>0, <2>1, <2>2 DEF TypeOK, EntryRow
    <2>5. usedMap' = usedMap
        BY <2>1, <2>4 DEF usedMap
    <2>6. /\ OpenEntries(e)' \subseteq OpenEntries(e)
          /\ \A d \in Employee \ {e} : OpenEntries(d)' = OpenEntries(d)
        <3>1. \A d : OpenEntries(d)' = OpenEntries(d) \ {n}
            BY <2>3, <2>4 DEF OpenEntries, EntriesOf
        <3>2. \A d : d # e => n \notin OpenEntries(d)
            BY <2>0 DEF OpenEntries, EntriesOf
        <3> QED BY <3>1, <3>2
    <2> QED BY <2>1, <2>5, <2>6, ShrinkIsClockOut
<1>2. ASSUME NEW r \in EditReq, EditCommit(r)
      PROVE  AbstractNext
    <2>0. PICK n, e : n = edit[r].target /\ e = entry[n].emp
        OBVIOUS
    <2>1. n \in Entry /\ entry[n].st = "row" /\ code' = code
        BY <1>2, <2>0 DEF EditCommit, TypeOK
    <2>2. entry[n] \in EntryRow
        BY <2>1 DEF TypeOK
    <2>3. /\ entry'[n].st = "row" /\ entry'[n].emp = e
          /\ \A m \in Entry \ {n} : entry'[m] = entry[m]
        <3>1. \E in, out : entry' = [entry EXCEPT ![n] =
                 [entry[n] EXCEPT !.check_in = in, !.check_out = out, !.edited = TRUE]]
            BY <1>2, <2>0 DEF EditCommit
        <3> QED BY <2>0, <2>1, <2>2, <3>1 DEF TypeOK, EntryRow
    <2>4. entry'[n].check_out = Null => entry[n].check_out = Null
        BY <1>2, <2>0, EditNeverReopens
    <2>5. usedMap' = usedMap
        BY <2>1, <2>3 DEF usedMap
    <2>6. /\ OpenEntries(e)' \subseteq OpenEntries(e)
          /\ \A d \in Employee \ {e} : OpenEntries(d)' = OpenEntries(d)
        BY <2>0, <2>1, <2>3, <2>4 DEF OpenEntries, EntriesOf
    <2> QED BY <2>1, <2>5, <2>6, ShrinkIsClockOut
<1>3. ASSUME NEW n \in Entry, DeleteEntry(n)
      PROVE  AbstractNext
    <2>0. PICK e : e = entry[n].emp
        OBVIOUS
    <2>1. /\ entry[n].st = "row" /\ entry'[n] = GoneEntry /\ code' = code
          /\ \A m \in Entry \ {n} : entry'[m] = entry[m]
        BY <1>3 DEF DeleteEntry, TypeOK
    <2>2. GoneEntry.st = "gone"
        BY DEF GoneEntry, NoEntry
    <2>3. usedMap' = usedMap
        BY <2>1, <2>2 DEF usedMap
    <2>4. /\ OpenEntries(e)' \subseteq OpenEntries(e)
          /\ \A d \in Employee \ {e} : OpenEntries(d)' = OpenEntries(d)
        BY <2>0, <2>1, <2>2 DEF OpenEntries, EntriesOf
    <2> QED BY <2>1, <2>3, <2>4, ShrinkIsClockOut
<1>4. ASSUME NEW e \in Employee, DeleteEmployee(e)
      PROVE  AbstractNext
    <2>1. /\ code' = code
          /\ \A n \in Entry : entry'[n] = IF n \in EntriesOf(e) THEN GoneEntry ELSE entry[n]
        BY <1>4 DEF DeleteEmployee
    <2>2. GoneEntry.st = "gone"
        BY DEF GoneEntry, NoEntry
    <2>3. usedMap' = usedMap
        BY <2>1, <2>2 DEF usedMap, EntriesOf
    <2>4. /\ OpenEntries(e)' \subseteq OpenEntries(e)
          /\ \A d \in Employee \ {e} : OpenEntries(d)' = OpenEntries(d)
        BY <2>1, <2>2 DEF OpenEntries, EntriesOf
    <2> QED BY <2>1, <2>3, <2>4, ShrinkIsClockOut
<1>5. ASSUME entry' = entry, code' = code
      PROVE  AbstractNext
    BY <1>5, Stutters DEF AbstractNext, OpenEntries, EntriesOf, usedMap
<1>6. ASSUME \/ Tick
             \/ \E r \in ScanReq : \/ \E e \in Employee, t \in Code : StartScan(r, e, t)
                                   \/ ScanCheckCode(r) \/ ScanLoadProfile(r)
                                   \/ ScanReadOpen(r) \/ ScanFails(r)
             \/ \E r \in GenReq, c \in Company : StartGenerate(r, c)
             \/ \E r \in EditReq : (\E m \in Entry, b \in Bodies : StartEdit(r, m, b))
                                     \/ EditFails(r)
             \/ UNCHANGED vars
      PROVE  entry' = entry /\ code' = code
    BY <1>6 DEF Tick, StartScan, ScanCheckCode, ScanLoadProfile, ScanReadOpen, ScanFails,
                StartGenerate, StartEdit, EditFails, vars
<1> QED BY <1>1, <1>2, <1>3, <1>4, <1>5, <1>6, CheckInRefines, GenerateRefines
        DEF Next, ScanStep, EditStep

\* The clock starts as a punch clock does.
LEMMA InitRefines == Init => Clock!ClockInit
<1> SUFFICES ASSUME Init PROVE Clock!ClockInit
    OBVIOUS
<1>1. \A e \in Employee : OpenEntries(e) = {}
    BY DEF Init, OpenEntries, EntriesOf, NoEntry
<1>2. \A c \in Company : ActiveCodes(c) = {}
    BY DEF Init, ActiveCodes, NoCode
<1>3. openMap = [e \in Employee |-> Null] /\ usedMap = {}
    BY <1>1, TheOneOf DEF openMap, usedMap, Init, NoEntry
<1>4. currentMap = [c \in Company |-> Null] /\ issuedMap = {}
    BY <1>2, TheOneOf DEF currentMap, issuedMap, Init, NoCode
<1> QED BY <1>3, <1>4 DEF Clock!ClockInit, openMap, usedMap, currentMap, issuedMap

\* The clock implements PunchClock for clients that wait and admins who reopen
\* nothing: employees go in and out, each entry is opened once, each code is
\* current once.
THEOREM ClockIsAPunchClock ==
    ASSUME Serial, NoReopening
    PROVE  Spec => ImplementsClock
<1>1. SerialInv /\ [Next]_vars => [Clock!ClockNext]_(Clock!pvars)
    BY StepRefines, AbstractStep
<1> QED BY <1>1, InitRefines, SerialInvariant, PTL
        DEF Spec, ImplementsClock, Clock!ClockSpec
============================================================================
