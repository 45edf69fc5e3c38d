--------------------------- MODULE PayrollProofs ---------------------------
(***************************************************************************)
(* Proofs about Payroll: each adjustment that nobody writes meanwhile is   *)
(* counted once and as what it is; the three calculations come to what the *)
(* days of a month are worth; and a what-if never leaves out a past day.   *)
(* The sums are defined by recursion over sets: that there is one, only    *)
(* one, whatever the order, is shown by a smallest counterexample.         *)
(***************************************************************************)
EXTENDS Payroll, FiniteSetTheorems, TLAPS

\* Calculations and adjustments have their fields.
Fields ==
    /\ DOMAIN pay = PayReq /\ DOMAIN adj = Adj
    /\ \A r \in PayReq : DOMAIN pay[r] = DOMAIN IdlePay
    /\ \A a \in Adj : DOMAIN adj[a] = {"st", "emp", "entry"}

\* The adjustments nobody has written that a calculation must count as of a type.
Due(p, type) ==
    {a \in p.kept : adj[a].entry.type = type /\ MonthOf(adj[a].entry.date) = p.adjsOf}

BonusesGiven(p) == p.kind = "overrides" /\ p.body.bonuses # Null
FinesGiven(p) == p.kind = "overrides" /\ p.body.fines # Null

BonusesCounted(p) == p.asBonus \cap p.kept = IF BonusesGiven(p) THEN {} ELSE Due(p, "bonus")
FinesCounted(p) == p.asFine \cap p.kept = IF FinesGiven(p) THEN {} ELSE Due(p, "fine")

\* What nobody has written is still there, and what has been read so far is what
\* must be counted, in the month that the rest will be read of too.
Counts(p) ==
    /\ p.kept \subseteq {a \in Adj : adj[a].st = "row" /\ adj[a].emp = p.emp}
    /\ p.pc \in {"sched", "adjs", "bonus"} => p.asBonus = {}
    /\ p.pc \in {"sched", "adjs", "bonus", "fine"} => p.asFine = {}
    /\ p.pc \in {"bonus", "fine"} => p.adjsOf = p.month
    /\ p.pc = "adjs" => p.kind = "list"
    /\ p.pc \in {"fine", "build", "done"} => BonusesCounted(p)
    /\ p.pc \in {"build", "done"} => FinesCounted(p)
    /\ p.pc = "sched" => p.kind \in {"salary", "overrides", "list"}

IInv == Fields /\ \A r \in PayReq : Counts(pay[r])
-----------------------------------------------------------------------------
\* The names of a calculation's fields.
LEMMA PayFields ==
    DOMAIN IdlePay = {"pc", "kind", "emp", "month", "body", "readAt", "rows", "base",
                      "bonuses", "fines", "began", "of", "adjsOf", "asBonus", "asFine",
                      "kept", "replaced"}
  BY DEF IdlePay

\* A calculation that is not under way counts nothing.
LEMMA IdleCounts == Counts(IdlePay) /\ IdlePay.pc = "idle"
  BY DEF Counts, IdlePay

\* At first there is nothing to count.
LEMMA InitIInv == Init => IInv
<1> SUFFICES ASSUME Init PROVE IInv
  OBVIOUS
<1>1. Fields
  BY DEF Init, Fields
<1>2. \A r \in PayReq : pay[r] = IdlePay
  BY DEF Init
<1> QED
  BY <1>1, <1>2, IdleCounts DEF IInv

\* A calculation that goes on, and changes nothing else, has to count only itself.
LEMMA OneGoesOn ==
    ASSUME IInv, NEW r \in PayReq, NEW p, pay' = [pay EXCEPT ![r] = p], adj' = adj,
           DOMAIN p = DOMAIN IdlePay, Counts(p)
    PROVE  IInv'
<1>1. Fields'
  BY DEF IInv, Fields
<1>2. ASSUME NEW s \in PayReq PROVE Counts(pay[s])'
  <2> DEFINE x == pay'[s]
  <2>1. Counts(x)
    BY DEF IInv, Fields
  <2> HIDE DEF x
  <2> QED
    BY <2>1 DEF Counts, BonusesCounted, FinesCounted, Due, BonusesGiven, FinesGiven, x
<1> QED
  BY <1>1, <1>2 DEF IInv

\* What a calculation holds when it takes its next step.
LEMMA Paying ==
    ASSUME IInv, NEW r \in PayReq
    PROVE  DOMAIN pay[r] = DOMAIN IdlePay /\ Counts(pay[r])
  BY DEF IInv, Fields

\* A calculation comes in: what is kept are the employee's adjustments.
LEMMA StartKeeps ==
    ASSUME IInv, NEW r \in PayReq, NEW kind \in {"salary", "overrides", "list"}, NEW e,
           NEW m, NEW body, Start(r, kind, e, m, body)
    PROVE  IInv'
<1> DEFINE rows == {a \in Adj : adj[a].st = "row" /\ adj[a].emp = e}
           q == [IdlePay EXCEPT !.pc = "sched", !.kind = kind, !.emp = e, !.month = m,
                                !.body = body, !.readAt = today, !.began = today,
                                !.kept = rows]
<1>1. pay' = [pay EXCEPT ![r] = q] /\ adj' = adj
  BY DEF Start
<1>2. /\ DOMAIN q = DOMAIN IdlePay /\ q.pc = "sched" /\ q.kind = kind /\ q.emp = e
      /\ q.kept = rows /\ q.asBonus = {} /\ q.asFine = {}
  BY DEF IdlePay
<1> HIDE DEF q
<1>3. Counts(q)
  BY <1>2 DEF Counts
<1> QED
  BY <1>1, <1>2, <1>3, OneGoesOn

\* The schedule is read: of the adjustments nothing is counted yet.
LEMMA ScheduleKeeps ==
    ASSUME IInv, NEW r \in PayReq,
           SalaryReadsSchedule(r) \/ OverridesReadSchedule(r) \/ ListReadsSchedule(r)
    PROVE  IInv'
<1> DEFINE p == pay[r]
<1>1. DOMAIN p = DOMAIN IdlePay /\ Counts(p) /\ p.pc = "sched"
  BY Paying DEF SalaryReadsSchedule, OverridesReadSchedule, ListReadsSchedule
<1>2. CASE SalaryReadsSchedule(r) \/ OverridesReadSchedule(r)
  <2>1. PICK base : Becomes(r, [p EXCEPT !.pc = "bonus", !.base = base,
                                         !.of = p.month, !.adjsOf = p.month])
    BY <1>2 DEF SalaryReadsSchedule, OverridesReadSchedule
  <2> DEFINE q == [p EXCEPT !.pc = "bonus", !.base = base, !.of = p.month,
                            !.adjsOf = p.month]
  <2>2. /\ DOMAIN q = DOMAIN IdlePay /\ q.pc = "bonus" /\ q.emp = p.emp
        /\ q.month = p.month /\ q.adjsOf = p.month /\ q.kept = p.kept
        /\ q.asBonus = p.asBonus /\ q.asFine = p.asFine
    BY <1>1, PayFields
  <2>3. pay' = [pay EXCEPT ![r] = q] /\ adj' = adj
    BY <2>1 DEF Becomes
  <2> HIDE DEF q
  <2>4. Counts(q)
    BY <1>1, <2>2 DEF Counts
  <2> QED
    BY <2>2, <2>3, <2>4, OneGoesOn
<1>3. CASE ListReadsSchedule(r)
  <2>1. PICK rows : Becomes(r, [p EXCEPT !.pc = "adjs", !.readAt = today, !.rows = rows])
    BY <1>3 DEF ListReadsSchedule
  <2> DEFINE q == [p EXCEPT !.pc = "adjs", !.readAt = today, !.rows = rows]
  <2>2. /\ DOMAIN q = DOMAIN IdlePay /\ q.pc = "adjs" /\ q.emp = p.emp
        /\ q.kind = "list" /\ q.kept = p.kept
        /\ q.asBonus = p.asBonus /\ q.asFine = p.asFine
    BY <1>1, <1>3, PayFields DEF ListReadsSchedule
  <2>3. pay' = [pay EXCEPT ![r] = q] /\ adj' = adj
    BY <2>1 DEF Becomes
  <2> HIDE DEF q
  <2>4. Counts(q)
    BY <1>1, <2>2 DEF Counts
  <2> QED
    BY <2>2, <2>3, <2>4, OneGoesOn
<1> QED
  BY <1>2, <1>3

\* Of what nobody has written, a SELECT for one type and the month finds what is
\* to be counted.
LEMMA FoundIsDue ==
    ASSUME NEW p, NEW type, p.kept \subseteq {a \in Adj : adj[a].st = "row" /\ adj[a].emp = p.emp}
    PROVE  OfType(AdjsOf(p.emp, p.adjsOf), type) \cap p.kept = Due(p, type)
  BY DEF OfType, AdjsOf, Due

\* The bonuses, unless the body gives their sum.
LEMMA BonusesKeep == ASSUME IInv, NEW r \in PayReq, ReadsBonuses(r) PROVE IInv'
<1> DEFINE p == pay[r]
<1>1. /\ DOMAIN p = DOMAIN IdlePay /\ Counts(p) /\ p.pc = "bonus"
      /\ p.asBonus = {} /\ p.asFine = {} /\ p.adjsOf = p.month
  BY Paying DEF ReadsBonuses, Counts
<1>2. CASE BonusesGiven(p)
  <2> DEFINE q == [p EXCEPT !.pc = "fine", !.bonuses = p.body.bonuses]
  <2>1. pay' = [pay EXCEPT ![r] = q] /\ adj' = adj
    BY <1>2 DEF ReadsBonuses, BonusesGiven, Becomes
  <2>2. /\ DOMAIN q = DOMAIN IdlePay /\ q.pc = "fine" /\ q.emp = p.emp /\ q.kind = p.kind
        /\ q.body = p.body /\ q.month = p.month /\ q.adjsOf = p.adjsOf /\ q.kept = p.kept
        /\ q.asBonus = p.asBonus /\ q.asFine = p.asFine
    BY <1>1, PayFields
  <2> HIDE DEF q
  <2>3. Counts(q)
    BY <1>1, <1>2, <2>2 DEF Counts, BonusesCounted, BonusesGiven
  <2> QED
    BY <2>1, <2>2, <2>3, OneGoesOn
<1>3. CASE ~BonusesGiven(p)
  <2> DEFINE S == OfType(AdjsOf(p.emp, p.month), "bonus")
             q == [p EXCEPT !.pc = "fine", !.bonuses = AdjustmentsSum(S), !.asBonus = S]
  <2>1. pay' = [pay EXCEPT ![r] = q] /\ adj' = adj
    BY <1>3 DEF ReadsBonuses, BonusesGiven, Becomes
  <2>2. /\ DOMAIN q = DOMAIN IdlePay /\ q.pc = "fine" /\ q.emp = p.emp /\ q.kind = p.kind
        /\ q.body = p.body /\ q.month = p.month /\ q.adjsOf = p.adjsOf /\ q.kept = p.kept
        /\ q.asBonus = S /\ q.asFine = p.asFine
    BY <1>1, PayFields
  <2>3. S \cap p.kept = Due(p, "bonus")
    BY <1>1, FoundIsDue DEF Counts
  <2> HIDE DEF q, S
  <2>4. Counts(q)
    BY <1>1, <1>3, <2>2, <2>3 DEF Counts, BonusesCounted, BonusesGiven, Due
  <2> QED
    BY <2>1, <2>2, <2>4, OneGoesOn
<1> QED
  BY <1>2, <1>3

\* The fines, unless the body gives their sum.
LEMMA FinesKeep == ASSUME IInv, NEW r \in PayReq, ReadsFines(r) PROVE IInv'
<1> DEFINE p == pay[r]
<1>1. /\ DOMAIN p = DOMAIN IdlePay /\ Counts(p) /\ p.pc = "fine"
      /\ p.asFine = {} /\ p.adjsOf = p.month /\ BonusesCounted(p)
  BY Paying DEF ReadsFines, Counts
<1>2. CASE FinesGiven(p)
  <2> DEFINE q == [p EXCEPT !.pc = "done", !.fines = p.body.fines]
  <2>1. pay' = [pay EXCEPT ![r] = q] /\ adj' = adj
    BY <1>2 DEF ReadsFines, FinesGiven, Becomes
  <2>2. /\ DOMAIN q = DOMAIN IdlePay /\ q.pc = "done" /\ q.emp = p.emp /\ q.kind = p.kind
        /\ q.body = p.body /\ q.adjsOf = p.adjsOf /\ q.kept = p.kept
        /\ q.asBonus = p.asBonus /\ q.asFine = p.asFine
    BY <1>1, PayFields
  <2> HIDE DEF q
  <2>3. BonusesCounted(q)
    BY <1>1, <2>2 DEF BonusesCounted, BonusesGiven, Due
  <2>4. Counts(q)
    BY <1>1, <1>2, <2>2, <2>3 DEF Counts, FinesCounted, FinesGiven
  <2> QED
    BY <2>1, <2>2, <2>4, OneGoesOn
<1>3. CASE ~FinesGiven(p)
  <2> DEFINE S == OfType(AdjsOf(p.emp, p.month), "fine")
             q == [p EXCEPT !.pc = "done", !.fines = AdjustmentsSum(S), !.asFine = S]
  <2>1. pay' = [pay EXCEPT ![r] = q] /\ adj' = adj
    BY <1>3 DEF ReadsFines, FinesGiven, Becomes
  <2>2. /\ DOMAIN q = DOMAIN IdlePay /\ q.pc = "done" /\ q.emp = p.emp /\ q.kind = p.kind
        /\ q.body = p.body /\ q.adjsOf = p.adjsOf /\ q.kept = p.kept
        /\ q.asBonus = p.asBonus /\ q.asFine = S
    BY <1>1, PayFields
  <2>3. S \cap p.kept = Due(p, "fine")
    BY <1>1, FoundIsDue DEF Counts
  <2> HIDE DEF q, S
  <2>4. BonusesCounted(q)
    BY <1>1, <2>2 DEF BonusesCounted, BonusesGiven, Due
  <2>5. FinesCounted(q)
    BY <1>3, <2>2, <2>3 DEF FinesCounted, FinesGiven, Due
  <2>6. Counts(q)
    BY <1>1, <2>2, <2>4, <2>5 DEF Counts
  <2> QED
    BY <2>1, <2>2, <2>6, OneGoesOn
<1> QED
  BY <1>2, <1>3

\* A list reads both types in one SELECT, of one month.
LEMMA AdjustmentsKeep == ASSUME IInv, NEW r \in PayReq, ListReadsAdjustments(r) PROVE IInv'
<1> DEFINE p == pay[r]
<1>1. /\ DOMAIN p = DOMAIN IdlePay /\ Counts(p) /\ p.pc = "adjs" /\ p.kind = "list"
  BY Paying DEF ListReadsAdjustments, Counts
<1>2. PICK day \in p.readAt..today :
        LET S == AdjsOf(p.emp, Month(r, day)) IN
        Becomes(r, [p EXCEPT !.pc = "build", !.readAt = today,
                             !.bonuses = AdjustmentsSum(OfType(S, "bonus")),
                             !.fines = AdjustmentsSum(OfType(S, "fine")),
                             !.adjsOf = Month(r, day),
                             !.asBonus = OfType(S, "bonus"), !.asFine = OfType(S, "fine")])
  BY DEF ListReadsAdjustments
<1> DEFINE S == AdjsOf(p.emp, Month(r, day))
           B == OfType(S, "bonus")
           F == OfType(S, "fine")
           q == [p EXCEPT !.pc = "build", !.readAt = today, !.bonuses = AdjustmentsSum(B),
                          !.fines = AdjustmentsSum(F), !.adjsOf = Month(r, day),
                          !.asBonus = B, !.asFine = F]
<1>3. pay' = [pay EXCEPT ![r] = q] /\ adj' = adj
  BY <1>2 DEF Becomes
<1>4. /\ DOMAIN q = DOMAIN IdlePay /\ q.pc = "build" /\ q.emp = p.emp /\ q.kind = "list"
      /\ q.adjsOf = Month(r, day) /\ q.kept = p.kept /\ q.asBonus = B /\ q.asFine = F
  BY <1>1, PayFields
<1> HIDE DEF q
<1>5. q.kept \subseteq {a \in Adj : adj[a].st = "row" /\ adj[a].emp = q.emp}
  BY <1>1, <1>4 DEF Counts
<1>6. B \cap q.kept = Due(q, "bonus") /\ F \cap q.kept = Due(q, "fine")
  BY <1>4, <1>5, FoundIsDue
<1> HIDE DEF B, F
<1>7. BonusesCounted(q) /\ FinesCounted(q)
  BY <1>4, <1>6 DEF BonusesCounted, FinesCounted, BonusesGiven, FinesGiven
<1> QED
  BY <1>3, <1>4, <1>5, <1>7, OneGoesOn DEF Counts

\* The list is built, and the answer sent.
LEMMA BuildKeeps == ASSUME IInv, NEW r \in PayReq, ListBuilds(r) \/ Answer(r) PROVE IInv'
<1> DEFINE p == pay[r]
<1>1. DOMAIN p = DOMAIN IdlePay /\ Counts(p)
  BY Paying
<1>2. CASE ListBuilds(r)
  <2>1. PICK of, base : Becomes(r, [p EXCEPT !.pc = "done", !.rows = {}, !.of = of,
                                             !.base = base])
    BY <1>2 DEF ListBuilds
  <2> DEFINE q == [p EXCEPT !.pc = "done", !.rows = {}, !.of = of, !.base = base]
  <2>2. /\ DOMAIN q = DOMAIN IdlePay /\ q.pc = "done" /\ q.emp = p.emp /\ q.kind = p.kind
        /\ q.body = p.body /\ q.adjsOf = p.adjsOf /\ q.kept = p.kept
        /\ q.asBonus = p.asBonus /\ q.asFine = p.asFine
    BY <1>1, PayFields
  <2>3. pay' = [pay EXCEPT ![r] = q] /\ adj' = adj /\ p.pc = "build"
    BY <1>2, <2>1 DEF Becomes, ListBuilds
  <2> HIDE DEF q
  <2>4. BonusesCounted(q) /\ FinesCounted(q)
    BY <1>1, <2>2, <2>3
       DEF Counts, BonusesCounted, FinesCounted, BonusesGiven, FinesGiven, Due
  <2>5. Counts(q)
    BY <1>1, <2>2, <2>4 DEF Counts
  <2> QED
    BY <2>2, <2>3, <2>5, OneGoesOn
<1>3. CASE Answer(r)
  BY <1>3, IdleCounts, OneGoesOn DEF Answer, Becomes
<1> QED
  BY <1>2, <1>3

-----------------------------------------------------------------------------
\* The writers touch nothing of a calculation but what it counts as unwritten, and
\* nothing of an adjustment that still counts as that.
LEMMA WritersKeep ==
    ASSUME IInv, Fields',
           \A r \in PayReq :
              /\ pay'[r].pc = pay[r].pc /\ pay'[r].kind = pay[r].kind
              /\ pay'[r].emp = pay[r].emp /\ pay'[r].month = pay[r].month
              /\ pay'[r].body = pay[r].body /\ pay'[r].adjsOf = pay[r].adjsOf
              /\ pay'[r].asBonus = pay[r].asBonus /\ pay'[r].asFine = pay[r].asFine
              /\ pay'[r].kept \subseteq pay[r].kept,
           \A r \in PayReq : \A a \in pay'[r].kept \cap Adj :
              adj[a].st = "row" => adj'[a].st = "row" /\ adj'[a].emp = adj[a].emp
                                   /\ adj'[a].entry = adj[a].entry
    PROVE  IInv'
<1>1. ASSUME NEW r \in PayReq PROVE Counts(pay[r])'
  <2> DEFINE p == pay[r]
             q == pay'[r]
  <2>1. /\ Counts(p)
        /\ q.pc = p.pc /\ q.kind = p.kind /\ q.emp = p.emp /\ q.month = p.month
        /\ q.body = p.body /\ q.adjsOf = p.adjsOf /\ q.asBonus = p.asBonus
        /\ q.asFine = p.asFine /\ q.kept \subseteq p.kept
    BY Paying
  <2>2. \A a \in q.kept : /\ a \in p.kept /\ a \in Adj
                          /\ adj'[a].st = "row" /\ adj'[a].emp = p.emp
                          /\ adj'[a].entry = adj[a].entry
    BY <2>1 DEF Counts
  <2> HIDE DEF p, q
  <2>3. \A type : Due(p, type) \cap q.kept =
           {a \in q.kept : adj'[a].entry.type = type /\ MonthOf(adj'[a].entry.date) = q.adjsOf}
    BY <2>1, <2>2 DEF Due
  <2>4. q.kept \subseteq {a \in Adj : adj'[a].st = "row" /\ adj'[a].emp = q.emp}
    BY <2>1, <2>2
  <2>5. BonusesCounted(p) => q.asBonus \cap q.kept =
           IF BonusesGiven(q) THEN {}
           ELSE {a \in q.kept : adj'[a].entry.type = "bonus"
                                /\ MonthOf(adj'[a].entry.date) = q.adjsOf}
    <3>1. BonusesCounted(p) => q.asBonus \cap q.kept =
             IF BonusesGiven(q) THEN {} ELSE Due(p, "bonus") \cap q.kept
      BY <2>1 DEF BonusesCounted, BonusesGiven
    <3> QED
      BY <2>3, <3>1
  <2>6. FinesCounted(p) => q.asFine \cap q.kept =
           IF FinesGiven(q) THEN {}
           ELSE {a \in q.kept : adj'[a].entry.type = "fine"
                                /\ MonthOf(adj'[a].entry.date) = q.adjsOf}
    <3>1. FinesCounted(p) => q.asFine \cap q.kept =
             IF FinesGiven(q) THEN {} ELSE Due(p, "fine") \cap q.kept
      BY <2>1 DEF FinesCounted, FinesGiven
    <3> QED
      BY <2>3, <3>1
  <2> QED
    BY <2>1, <2>4, <2>5, <2>6
       DEF Counts, BonusesCounted, FinesCounted, Due, BonusesGiven, FinesGiven, q
<1> QED
  BY <1>1 DEF IInv

\* POST: the row is a new one.
LEMMA CreateKeeps ==
    ASSUME IInv, NEW e \in Employee, NEW entry, CreateAdjustment(e, entry) PROVE IInv'
<1>1. PICK a \in Adj : /\ adj[a].st = "free"
                       /\ adj' = [adj EXCEPT ![a] = [st |-> "row", emp |-> e, entry |-> entry]]
  BY DEF CreateAdjustment
<1>2. pay' = pay /\ Fields
  BY DEF CreateAdjustment, IInv
<1>3. Fields' /\ \A b \in Adj : b # a => adj'[b] = adj[b]
  BY <1>1, <1>2 DEF Fields
<1> QED
  BY <1>1, <1>2, <1>3, WritersKeep

\* What a calculation is told of a write.
LEMMA WrittenFacts ==
    ASSUME Fields, NEW a, NEW r \in PayReq
    PROVE  LET q == Written(a)[r] IN
           /\ DOMAIN q = DOMAIN IdlePay
           /\ q.pc = pay[r].pc /\ q.kind = pay[r].kind /\ q.emp = pay[r].emp
           /\ q.month = pay[r].month /\ q.body = pay[r].body /\ q.adjsOf = pay[r].adjsOf
           /\ q.asBonus = pay[r].asBonus /\ q.asFine = pay[r].asFine
           /\ q.kept = pay[r].kept \ {a}
<1> DEFINE p == pay[r]
           q == [p EXCEPT !.kept = p.kept \ {a}]
<1>1. DOMAIN p = DOMAIN IdlePay
  BY DEF Fields
<1>2. Written(a)[r] = q
  BY <1>1, PayFields DEF Written
<1>3. /\ DOMAIN q = DOMAIN IdlePay
      /\ q.pc = p.pc /\ q.kind = p.kind /\ q.emp = p.emp /\ q.month = p.month
      /\ q.body = p.body /\ q.adjsOf = p.adjsOf /\ q.asBonus = p.asBonus
      /\ q.asFine = p.asFine /\ q.kept = p.kept \ {a}
  BY <1>1, PayFields
<1> HIDE DEF q
<1> QED
  BY <1>2, <1>3

\* PATCH: the row is as it was, or no longer counts as unwritten.
LEMMA UpdateKeeps == ASSUME IInv, NEW r \in AmendReq, UpdateCommit(r) PROVE IInv'
<1> DEFINE t == amend[r].target
           now == adj[t].entry
<1>1. PICK new : /\ adj' = [adj EXCEPT ![t].entry = new]
                 /\ pay' = IF new = now THEN pay ELSE Written(t)
  BY DEF UpdateCommit
<1>2. Fields
  BY DEF IInv
<1>3. /\ DOMAIN adj' = Adj
      /\ \A a \in Adj : /\ DOMAIN adj'[a] = {"st", "emp", "entry"}
                        /\ adj'[a].st = adj[a].st /\ adj'[a].emp = adj[a].emp
                        /\ a = t => adj'[a].entry = new
                        /\ a # t => adj'[a] = adj[a]
  BY <1>1, <1>2 DEF Fields
<1>4. CASE new = now
  <2>1. pay' = pay /\ \A a \in Adj : adj'[a].entry = adj[a].entry
    BY <1>1, <1>3, <1>4
  <2>2. Fields'
    BY <1>2, <1>3, <2>1 DEF Fields
  <2> QED
    BY <1>3, <2>1, <2>2, WritersKeep
<1>5. CASE new # now
  <2>1. pay' = Written(t)
    BY <1>1, <1>5
  <2>2. DOMAIN pay' = PayReq
    BY <2>1 DEF Written
  <2>3. Fields'
    BY <1>2, <1>3, <2>1, <2>2, WrittenFacts DEF Fields
  <2> QED
    BY <1>2, <1>3, <2>1, <2>3, WrittenFacts, WritersKeep
<1> QED
  BY <1>4, <1>5

\* DELETE: the row no longer counts as unwritten.
LEMMA DeleteKeeps == ASSUME IInv, NEW a \in Adj, DeleteAdjustment(a) PROVE IInv'
<1>1. /\ adj' = [adj EXCEPT ![a] = [st |-> "gone", emp |-> Null, entry |-> Null]]
      /\ pay' = Written(a) /\ Fields
  BY DEF DeleteAdjustment, IInv
<1>2. /\ DOMAIN adj' = Adj /\ \A b \in Adj : DOMAIN adj'[b] = {"st", "emp", "entry"}
      /\ \A b \in Adj : b # a => adj'[b] = adj[b]
  BY <1>1 DEF Fields
<1>3. DOMAIN pay' = PayReq
  BY <1>1 DEF Written
<1>4. Fields'
  BY <1>1, <1>2, <1>3, WrittenFacts DEF Fields
<1> QED
  BY <1>1, <1>2, <1>4, WrittenFacts, WritersKeep

\* A schedule is replaced: nothing of the adjustments changes.
LEMMA ReplaceKeeps ==
    ASSUME IInv, NEW e \in Employee, NEW plan, ReplaceSchedule(e, plan) PROVE IInv'
<1>1. pay' = Replaced(e) /\ adj' = adj /\ Fields
  BY DEF ReplaceSchedule, IInv
<1>2. ASSUME NEW r \in PayReq
      PROVE  /\ DOMAIN pay'[r] = DOMAIN IdlePay
             /\ pay'[r].pc = pay[r].pc /\ pay'[r].kind = pay[r].kind
             /\ pay'[r].emp = pay[r].emp /\ pay'[r].month = pay[r].month
             /\ pay'[r].body = pay[r].body /\ pay'[r].adjsOf = pay[r].adjsOf
             /\ pay'[r].asBonus = pay[r].asBonus /\ pay'[r].asFine = pay[r].asFine
             /\ pay'[r].kept = pay[r].kept
  <2> DEFINE p == pay[r]
             x == p.replaced \/ p.emp = e
             q == [p EXCEPT !.replaced = x]
  <2>1. DOMAIN p = DOMAIN IdlePay
    BY <1>1 DEF Fields
  <2>2. pay'[r] = q
    BY <1>1, <2>1, PayFields DEF Replaced
  <2> HIDE DEF x
  <2>3. /\ DOMAIN q = DOMAIN IdlePay
        /\ q.pc = p.pc /\ q.kind = p.kind /\ q.emp = p.emp /\ q.month = p.month
        /\ q.body = p.body /\ q.adjsOf = p.adjsOf /\ q.asBonus = p.asBonus
        /\ q.asFine = p.asFine /\ q.kept = p.kept
    BY <2>1, PayFields
  <2> HIDE DEF q
  <2> QED
    BY <2>2, <2>3
<1>3. DOMAIN pay' = PayReq
  BY <1>1 DEF Replaced
<1>4. Fields'
  BY <1>1, <1>2, <1>3 DEF Fields
<1> QED
  BY <1>1, <1>2, <1>4, WritersKeep

\* What neither calculates nor writes an adjustment keeps the invariant.
LEMMA OthersKeep == ASSUME IInv, pay' = pay, adj' = adj PROVE IInv'
<1>1. Fields'
  BY DEF IInv, Fields
<1> QED
  BY <1>1, WritersKeep

\* Every step of the specification keeps the invariant.
LEMMA NextIInv == IInv /\ [Next]_vars => IInv'
<1> SUFFICES ASSUME IInv, [Next]_vars PROVE IInv'
  OBVIOUS
<1>1. CASE UNCHANGED vars \/ Tick
  BY <1>1, OthersKeep DEF vars, Tick
<1>2. ASSUME NEW r \in PayReq, NEW e \in Employee, NEW m, NEW b,
             StartSalary(r, e, m) \/ StartOverrides(r, e, m, b) \/ StartList(r, e, m)
      PROVE  IInv'
  BY <1>2, StartKeeps DEF StartSalary, StartOverrides, StartList
<1>3. ASSUME NEW r \in PayReq, PayStep(r) PROVE IInv'
  BY <1>3, ScheduleKeeps, BonusesKeep, FinesKeep, AdjustmentsKeep, BuildKeeps DEF PayStep
<1>4. ASSUME NEW e \in Employee, NEW n, CreateAdjustment(e, n) PROVE IInv'
  BY <1>4, CreateKeeps
<1>5. ASSUME NEW e \in Employee, NEW p, ReplaceSchedule(e, p) PROVE IInv'
  BY <1>5, ReplaceKeeps
<1>6. ASSUME NEW a \in Adj, DeleteAdjustment(a) PROVE IInv'
  BY <1>6, DeleteKeeps
<1>7. ASSUME NEW r \in AmendReq, UpdateCommit(r) PROVE IInv'
  BY <1>7, UpdateKeeps
<1>8. ASSUME NEW r, NEW a, NEW b, AmendLoads(r, a, b) \/ UpdateFails(r) PROVE IInv'
  BY <1>8, OthersKeep DEF AmendLoads, UpdateFails
<1> QED
  BY <1>1, <1>2, <1>3, <1>4, <1>5, <1>6, <1>7, <1>8 DEF Next

-----------------------------------------------------------------------------
(***************************************************************************)
(* Sums. MapThenSumSet chooses a function that adds up over every part of  *)
(* a set; such a function exists, is the only one, and does not depend on  *)
(* the order of the elements.                                              *)
(***************************************************************************)
\* The element that is taken next.
First(s) == CHOOSE x \in s : TRUE

\* g adds the values of f up over every part of S, one element after the other.
Adds(f, g, S) ==
    g = [s \in SUBSET S |-> IF s = {} THEN 0 ELSE f[First(s)] + g[s \ {First(s)}]]

Total(f, S) == (CHOOSE g : Adds(f, g, S))[S]

\* Of some parts of a finite set, one has no other of them in it.
LEMMA Smallest ==
    ASSUME NEW S, IsFiniteSet(S), NEW D, D \subseteq SUBSET S, D # {}
    PROVE  \E T \in D : \A U \in D : U \subseteq T => U = T
<1>1. IsWellFoundedOn(StrictSubsetOrdering(S), SUBSET S)
  BY FS_StrictSubsetOrderingWellFounded, FS_FiniteSubsetsOfFinite, Zenon
<1> DEFINE R == StrictSubsetOrdering(S)
<1>2. PICK T \in D : \A U \in D : ~(<<U, T>> \in R)
  <2> HIDE DEF R
  <2> QED BY <1>1, WFMin, Zenon DEF R
<1> QED
  BY <1>2 DEF StrictSubsetOrdering

\* What adds up over a set, added up over a part of it.
LEMMA AddsOnParts ==
    ASSUME NEW f, NEW S, NEW g, Adds(f, g, S), NEW U, U \subseteq S
    PROVE  Adds(f, [s \in SUBSET U |-> g[s]], U)
<1> DEFINE h == [s \in SUBSET U |-> g[s]]
<1>1. ASSUME NEW s \in SUBSET U
      PROVE  h[s] = IF s = {} THEN 0 ELSE f[First(s)] + h[s \ {First(s)}]
  BY DEF Adds
<1>2. h = [s \in SUBSET U |-> h[s]]
  OBVIOUS
<1> HIDE DEF h
<1>3. h = [s \in SUBSET U |-> IF s = {} THEN 0 ELSE f[First(s)] + h[s \ {First(s)}]]
  BY <1>1, <1>2
<1> QED
  BY <1>3 DEF Adds, h

\* There is one way at most to add up.
LEMMA AddsOnce ==
    ASSUME NEW f, NEW S, IsFiniteSet(S), NEW g, Adds(f, g, S), NEW h, Adds(f, h, S)
    PROVE  \A U \in SUBSET S : g[U] = h[U]
<1> DEFINE D == {U \in SUBSET S : g[U] # h[U]}
<1> SUFFICES ASSUME D # {} PROVE FALSE
  OBVIOUS
<1>1. PICK T \in D : \A U \in D : U \subseteq T => U = T
  <2>1. D \subseteq SUBSET S
    OBVIOUS
  <2> HIDE DEF D
  <2> QED BY <2>1, Smallest
<1>2. /\ g[T] = IF T = {} THEN 0 ELSE f[First(T)] + g[T \ {First(T)}]
      /\ h[T] = IF T = {} THEN 0 ELSE f[First(T)] + h[T \ {First(T)}]
  BY DEF Adds
<1>3. T # {} => First(T) \in T
  BY DEF First
<1>4. T # {} => g[T \ {First(T)}] = h[T \ {First(T)}]
  BY <1>1, <1>3
<1> QED
  BY <1>2, <1>4

\* There is one.
LEMMA AddsExists ==
    ASSUME NEW f, NEW S, IsFiniteSet(S)
    PROVE  \E g : Adds(f, g, S)
<1> DEFINE D == {U \in SUBSET S : ~\E g : Adds(f, g, U)}
<1> SUFFICES ASSUME D # {} PROVE FALSE
  OBVIOUS
<1>1. PICK T \in D : \A U \in D : U \subseteq T => U = T
  <2>1. D \subseteq SUBSET S
    OBVIOUS
  <2> HIDE DEF D
  <2> QED BY <2>1, Smallest
<1>2. T \subseteq S /\ ~\E g : Adds(f, g, T)
  OBVIOUS
<1>3. ASSUME NEW U \in SUBSET T, U # T
      PROVE  Adds(f, CHOOSE g : Adds(f, g, U), U)
  <2>1. \E g : Adds(f, g, U)
    BY <1>1, <1>3
  <2> QED BY <2>1, Zenon
<1>4. ASSUME NEW U \in SUBSET T, U # T
      PROVE  Total(f, U) = IF U = {} THEN 0 ELSE f[First(U)] + Total(f, U \ {First(U)})
  <2> DEFINE gU == CHOOSE g : Adds(f, g, U)
             V == U \ {First(U)}
             gV == CHOOSE g : Adds(f, g, V)
             cut == [s \in SUBSET V |-> gU[s]]
  <2>1. V \subseteq U /\ V \in SUBSET T /\ V # T /\ IsFiniteSet(V)
    BY <1>2, <1>4, FS_Subset
  <2>2. Adds(f, gU, U)
    BY <1>3, <1>4
  <2>3. Adds(f, gV, V)
    BY <1>3, <2>1, Zenon
  <2>4. Adds(f, cut, V)
    <3> HIDE DEF gU, V
    <3> QED BY <2>1, <2>2, AddsOnParts
  <2>5. Total(f, U) = gU[U] /\ Total(f, V) = gV[V]
    BY Zenon DEF Total
  <2> HIDE DEF gU, gV
  <2>6. gU[U] = IF U = {} THEN 0 ELSE f[First(U)] + gU[V]
    BY <2>2 DEF Adds
  <2> HIDE DEF V
  <2>7. cut[V] = gV[V]
    <3> HIDE DEF cut
    <3> QED BY <2>1, <2>3, <2>4, AddsOnce
  <2>8. cut[V] = gU[V]
    OBVIOUS
  <2>9. Total(f, U) = IF U = {} THEN 0 ELSE f[First(U)] + Total(f, V)
    BY <2>5, <2>6, <2>7, <2>8, Zenon
  <2> QED BY <2>9 DEF V
<1> DEFINE h == [s \in SUBSET T |-> IF s = {} THEN 0
                                    ELSE f[First(s)] + Total(f, s \ {First(s)})]
<1>5. ASSUME NEW s \in SUBSET T
      PROVE  h[s] = IF s = {} THEN 0 ELSE f[First(s)] + h[s \ {First(s)}]
  <2> DEFINE V == s \ {First(s)}
  <2>1. s # {} => V \in SUBSET T /\ V # T
    BY DEF First
  <2>2. s # {} => Total(f, V) = h[V]
    <3> HIDE DEF V
    <3> QED BY <1>4, <2>1
  <2> QED BY <2>2
<1>6. h = [s \in SUBSET T |-> h[s]]
  OBVIOUS
<1> HIDE DEF h
<1>7. Adds(f, h, T)
  BY <1>5, <1>6 DEF Adds
<1> QED
  BY <1>2, <1>7

\* A total, one element after the other.
LEMMA TotalIs ==
    ASSUME NEW f, NEW S, IsFiniteSet(S)
    PROVE  Total(f, S) = IF S = {} THEN 0 ELSE f[First(S)] + Total(f, S \ {First(S)})
<1> DEFINE V == S \ {First(S)}
           gS == CHOOSE g : Adds(f, g, S)
           gV == CHOOSE g : Adds(f, g, V)
           cut == [s \in SUBSET V |-> gS[s]]
<1>1. V \subseteq S /\ IsFiniteSet(V)
  BY FS_Subset
<1>2. Adds(f, gS, S)
  BY AddsExists, Zenon
<1>3. Adds(f, gV, V)
  BY <1>1, AddsExists, Zenon
<1>4. Total(f, S) = gS[S] /\ Total(f, V) = gV[V]
  BY Zenon DEF Total
<1> HIDE DEF gS, gV
<1>5. gS[S] = IF S = {} THEN 0 ELSE f[First(S)] + gS[V]
  BY <1>2 DEF Adds
<1> HIDE DEF V
<1>6. Adds(f, cut, V)
  BY <1>1, <1>2, AddsOnParts
<1>7. cut[V] = gS[V]
  OBVIOUS
<1> HIDE DEF cut
<1>8. cut[V] = gV[V]
  BY <1>1, <1>3, <1>6, AddsOnce
<1>9. Total(f, S) = IF S = {} THEN 0 ELSE f[First(S)] + Total(f, V)
  BY <1>4, <1>5, <1>7, <1>8, Zenon
<1> QED
  BY <1>9 DEF V

\* A total of integers is one.
LEMMA TotalInt ==
    ASSUME NEW S, IsFiniteSet(S), NEW f, \A x \in S : f[x] \in Int
    PROVE  \A U \in SUBSET S : Total(f, U) \in Int
<1> DEFINE D == {U \in SUBSET S : Total(f, U) \notin Int}
<1> SUFFICES ASSUME D # {} PROVE FALSE
  OBVIOUS
<1>1. PICK T \in D : \A U \in D : U \subseteq T => U = T
  <2>1. D \subseteq SUBSET S
    OBVIOUS
  <2> HIDE DEF D
  <2> QED BY <2>1, Smallest
<1>2. T \subseteq S /\ IsFiniteSet(T) /\ Total(f, T) \notin Int
  BY FS_Subset
<1>3. T # {} => First(T) \in T
  BY DEF First
<1>4. T # {} => Total(f, T \ {First(T)}) \in Int
  BY <1>1, <1>2, <1>3
<1>5. Total(f, T) = IF T = {} THEN 0 ELSE f[First(T)] + Total(f, T \ {First(T)})
  BY <1>2, TotalIs
<1> QED
  BY <1>2, <1>3, <1>4, <1>5

\* What the code and what the reference count for a row.
RowPays == [x \in Row |-> RowPay(x)]

\* FS_Interval, as a number.
LEMMA HoursBetween ==
    ASSUME NEW a \in 0..24, NEW b \in -1..23
    PROVE  /\ IsFiniteSet(a..b)
           /\ Cardinality(a..b) = IF a > b THEN 0 ELSE b - a + 1
<1>1. a \in Int /\ b \in Int
  OBVIOUS
<1> QED
  BY <1>1, FS_Interval

\* The hours that begin in a row are those between its times.
LEMMA WorkedHours ==
    ASSUME NEW x \in Row
    PROVE  Cardinality(Worked(x)) = Hours(x) /\ Hours(x) \in Nat
<1> DEFINE s == x.start_time
           e == x.end_time
<1>1. s \in 0..23 /\ e \in 0..23
  BY DEF Row
<1>2. CASE s <= e
  <2>1. Worked(x) = s..(e - 1)
    BY <1>1, <1>2 DEF Worked
  <2>2. Hours(x) = e - s
    BY <1>1, <1>2 DEF Hours
  <2> HIDE DEF s, e
  <2> QED
    <3>1. s \in 0..24 /\ e - 1 \in -1..23 /\ (e - 1) - s + 1 = e - s
      BY <1>1
    <3>2. s > e - 1 => e - s = 0
      BY <1>1, <1>2
    <3>3. Cardinality(s..(e - 1)) = e - s
      BY <3>1, <3>2, HoursBetween
    <3> QED
      BY <1>1, <1>2, <2>1, <2>2, <3>3
<1>3. CASE s > e
  <2>1. Worked(x) = (s..23) \cup (0..(e - 1))
    BY <1>1, <1>3 DEF Worked
  <2>2. Hours(x) = e - s + 24
    BY <1>1, <1>3 DEF Hours
  <2> HIDE DEF s, e
  <2>3. (s..23) \cap (0..(e - 1)) = {}
    BY <1>1, <1>3
  <2>4. /\ IsFiniteSet(s..23) /\ Cardinality(s..23) = 24 - s
        /\ IsFiniteSet(0..(e - 1)) /\ Cardinality(0..(e - 1)) = e
    <3>1. s \in 0..24 /\ 23 \in -1..23 /\ ~(s > 23) /\ 23 - s + 1 = 24 - s
      BY <1>1
    <3>2. 0 \in 0..24 /\ e - 1 \in -1..23 /\ (e - 1) - 0 + 1 = e
      BY <1>1
    <3>3. 0 > e - 1 => e = 0
      BY <1>1
    <3> QED
      BY <3>1, <3>2, <3>3, HoursBetween
  <2>5. Cardinality((s..23) \cup (0..(e - 1))) = 24 - s + e - Cardinality({})
    <3> DEFINE A == s..23
               B == 0..(e - 1)
    <3>1. Cardinality(A \cup B) = Cardinality(A) + Cardinality(B) - Cardinality(A \cap B)
      <4> HIDE DEF A, B
      <4> QED BY <2>4, FS_Union DEF A, B
    <3> QED
      BY <2>3, <2>4, <3>1
  <2>6. Cardinality({}) = 0
    BY FS_EmptySet
  <2> QED
    BY <1>1, <1>3, <2>1, <2>2, <2>5, <2>6
<1> QED
  BY <1>1, <1>2, <1>3

\* The sum of the code is a total.
LEMMA SalaryIsTotal ==
    ASSUME NEW rows, rows \subseteq Row
    PROVE  EntriesSalary(rows) = Total(RowPays, rows)
<1> DEFINE P(g) == g = [s \in SUBSET rows |-> IF s = {} THEN 0
                          ELSE RowPay(CHOOSE x \in s : TRUE) + g[s \ {CHOOSE x \in s : TRUE}]]
<1>1. EntriesSalary(rows) = (CHOOSE g : P(g))[rows]
  BY Zenon DEF EntriesSalary, MapThenSumSet, MapThenFoldSet
<1>2. \A s \in SUBSET rows : s # {} => RowPay(First(s)) = RowPays[First(s)]
  BY DEF First, RowPays
<1>3. \A g : P(g) <=> Adds(RowPays, g, rows)
  BY <1>2 DEF Adds, First
<1> HIDE DEF P
<1>4. (CHOOSE g : P(g)) = (CHOOSE g : Adds(RowPays, g, rows))
  BY <1>3, Zenon
<1> QED
  BY <1>1, <1>4, Zenon DEF Total

\* What a row is worth by the reference.
Value(x) == x.amount * (IF x.type = "shift" THEN 1 ELSE Cardinality(Worked(x)))

\* The reference's sum is the same total.
LEMMA WorthIsTotal ==
    ASSUME NEW rows, rows \subseteq Row
    PROVE  Worth(rows) = Total(RowPays, rows)
<1> DEFINE P(g) == g = [s \in SUBSET rows |-> IF s = {} THEN 0
                          ELSE Value(CHOOSE x \in s : TRUE) + g[s \ {CHOOSE x \in s : TRUE}]]
<1>1. Worth(rows) = (CHOOSE g : P(g))[rows]
  BY Zenon DEF Worth, Value, MapThenSumSet, MapThenFoldSet
<1>2. \A x \in Row : Value(x) = RowPays[x]
  <2> SUFFICES ASSUME NEW x \in Row PROVE Value(x) = RowPay(x)
    BY DEF RowPays
  <2>1. x.amount \in Int /\ x.type \in {"hourly", "shift"}
    BY DEF Row
  <2>2. x.amount * 1 = x.amount
    BY <2>1
  <2>3. x.amount * Hours(x) = Hours(x) * x.amount
    BY <2>1, WorkedHours
  <2> QED
    BY <2>1, <2>2, <2>3, WorkedHours DEF Value, RowPay
<1>3. \A s \in SUBSET rows : s # {} => Value(First(s)) = RowPays[First(s)]
  BY <1>2 DEF First
<1>4. \A g : P(g) <=> Adds(RowPays, g, rows)
  BY <1>3 DEF Adds, First
<1> HIDE DEF P
<1>5. (CHOOSE g : P(g)) = (CHOOSE g : Adds(RowPays, g, rows))
  BY <1>4, Zenon
<1> QED
  BY <1>1, <1>5, Zenon DEF Total

\* Every row is paid an integer.
LEMMA RowPaysInt == \A x \in Row : RowPays[x] \in Int
<1> SUFFICES ASSUME NEW x \in Row PROVE RowPay(x) \in Int
  BY DEF RowPays
<1>1. x.amount \in Int /\ Hours(x) \in Nat
  BY WorkedHours DEF Row
<1>2. Hours(x) * x.amount \in Int
  BY <1>1
<1> QED
  BY <1>1, <1>2 DEF RowPay

\* The months of the days, in order.
LEMMA Months == \A x, y \in Nat : MonthOf(x) \in Nat /\ (x <= y => MonthOf(x) <= MonthOf(y))
<1> DEFINE D == DaysPerMonth
<1> SUFFICES ASSUME NEW x \in Nat, NEW y \in Nat
             PROVE  x \div D \in Nat /\ (x <= y => x \div D <= y \div D)
  BY DEF MonthOf
<1>1. D \in Nat /\ D > 0
  BY PayrollAssumption
<1> HIDE DEF D
<1>2. x \div D \in Nat
  BY <1>1
<1>3. x <= y => x \div D <= y \div D
  BY <1>1
<1> QED BY <1>2, <1>3

-----------------------------------------------------------------------------
(***************************************************************************)
(* What the bases come to.                                                 *)
(***************************************************************************)
\* The rows that a list has loaded, at some moment since the request came in.
Loaded(p, S) ==
    \E day \in p.began..p.readAt :
        p.rows = {x \in S[p.emp] : MonthOf(x.date) \in Window(p.month, day)}

\* The base is that of the schedule, less and more what the body of a what-if says.
Based(p, S) ==
    IF p.kind = "overrides"
    THEN \E day \in Nat :
            /\ p.began <= day
            /\ p.base = EntriesSalary(Merged(Remaining(InMonth(S[p.emp], p.of),
                                                       p.body.exclude, day), p.body.schedule))
    ELSE p.base = EntriesSalary(InMonth(S[p.emp], p.of))

\* A calculation p on a day, with the schedules S. While it is under way the month turns
\* once at most, and unless the schedule is replaced it has read what is still there.
Reckons(p, S, day) ==
    /\ p.pc \in {"idle", "sched", "adjs", "bonus", "fine", "build", "done"}
    /\ p.base \in Int /\ p.bonuses \in Int /\ p.fines \in Int
    /\ p.rows \subseteq Row /\ IsFiniteSet(p.rows)
    /\ p.pc # "idle" =>
          /\ p.kind \in {"salary", "overrides", "list"} /\ p.emp \in Employee
          /\ p.month \in Nat \cup {Null} /\ (p.kind # "list" => p.month \in Nat)
          /\ p.kind = "overrides" => p.body \in WhatIfs
          /\ p.began \in Nat /\ p.readAt \in Nat /\ p.began <= p.readAt /\ p.readAt <= day
    /\ p.pc \notin {"idle", "done"} => MonthOf(day) <= MonthOf(p.began) + 1
    /\ p.pc \in {"adjs", "build"} => p.kind = "list"
    /\ p.pc \in {"adjs", "build"} /\ ~p.replaced => Loaded(p, S)
    /\ p.pc \in {"bonus", "fine", "done"} /\ ~p.replaced => Based(p, S)

Days == today \in FirstDay..LastDay

Schedules == DOMAIN sched = Employee /\ \A e \in Employee : sched[e] \in Plans

Adjustments ==
    \A a \in Adj : /\ adj[a].st \in {"free", "row", "gone"}
                   /\ adj[a].st = "row" => adj[a].emp \in Employee /\ adj[a].entry \in Entry

Amendments ==
    /\ DOMAIN amend = AmendReq
    /\ \A r \in AmendReq :
          /\ amend[r].pc \in {"idle", "loaded"}
          /\ amend[r].pc = "loaded" => amend[r].target \in Adj /\ amend[r].body \in Patches

BaseInv ==
    /\ Days /\ Schedules /\ Adjustments /\ Amendments
    /\ \A r \in PayReq : Reckons(pay[r], sched, today)

\* A salary is an integer.
LEMMA SalaryInt ==
    ASSUME NEW rows, rows \subseteq Row, IsFiniteSet(rows)
    PROVE  EntriesSalary(rows) \in Int
<1>1. \A x \in rows : RowPays[x] \in Int
  BY RowPaysInt
<1>2. Total(RowPays, rows) \in Int
  BY <1>1, TotalInt
<1> QED
  BY <1>2, SalaryIsTotal

\* The days of a schedule, or of a part of it.
LEMMA ScheduleRows ==
    ASSUME Schedules, NEW e \in Employee
    PROVE  sched[e] \subseteq Row /\ IsFiniteSet(sched[e])
  BY PayrollAssumption DEF Schedules

\* The rows of a what-if are rows.
LEMMA MergedRows ==
    ASSUME NEW rows, rows \subseteq Row, IsFiniteSet(rows), NEW b \in WhatIfs, NEW day, NEW m
    PROVE  LET S == Merged(Remaining(InMonth(rows, m), b.exclude, day), b.schedule)
           IN S \subseteq Row /\ IsFiniteSet(S)
<1> DEFINE A == {x \in Remaining(InMonth(rows, m), b.exclude, day) :
                    \A y \in b.schedule : x.date # y.date}
<1>1. b.schedule \subseteq Row /\ IsFiniteSet(b.schedule)
  BY PayrollAssumption
<1>2. A \subseteq rows
  BY DEF Remaining, InMonth
<1>3. Merged(Remaining(InMonth(rows, m), b.exclude, day), b.schedule) = A \cup b.schedule
  BY DEF Merged
<1> HIDE DEF A
<1>4. IsFiniteSet(A) /\ A \subseteq Row
  BY <1>2, FS_Subset
<1>5. IsFiniteSet(A \cup b.schedule)
  BY <1>1, <1>4, FS_Union
<1> QED
  BY <1>1, <1>3, <1>4, <1>5

\* A sum of adjustments is an integer.
LEMMA AdjustmentsInt ==
    ASSUME Adjustments, NEW S, S \subseteq {a \in Adj : adj[a].st = "row"}
    PROVE  AdjustmentsSum(S) \in Int
<1> DEFINE f == [a \in S |-> AmountOf(a)]
           P(g) == g = [s \in SUBSET S |-> IF s = {} THEN 0
                          ELSE AmountOf(CHOOSE x \in s : TRUE) + g[s \ {CHOOSE x \in s : TRUE}]]
<1>1. AdjustmentsSum(S) = (CHOOSE g : P(g))[S]
  BY Zenon DEF AdjustmentsSum, MapThenSumSet, MapThenFoldSet
<1>2. \A s \in SUBSET S : s # {} => AmountOf(First(s)) = f[First(s)]
  BY DEF First
<1>3. IsFiniteSet(S)
  BY PayrollAssumption, FS_Subset
<1>4. \A a \in S : f[a] \in Int
  BY DEF AmountOf, Adjustments, Entry
<1> HIDE DEF f
<1>5. \A g : P(g) <=> Adds(f, g, S)
  BY <1>2 DEF Adds, First
<1> HIDE DEF P
<1>6. (CHOOSE g : P(g)) = (CHOOSE g : Adds(f, g, S))
  BY <1>5, Zenon
<1>7. AdjustmentsSum(S) = Total(f, S)
  BY <1>1, <1>6, Zenon DEF Total
<1> QED
  BY <1>3, <1>4, <1>7, TotalInt

\* At first there is nothing to reckon.
LEMMA IdleReckons == \A S, day : Reckons(IdlePay, S, day)
  BY FS_EmptySet DEF Reckons, IdlePay

\* The initial states.
LEMMA InitBase == Init => BaseInv
<1> SUFFICES ASSUME Init PROVE BaseInv
  OBVIOUS
<1>1. \A r \in PayReq : Reckons(pay[r], sched, today)
  BY IdleReckons DEF Init
<1>2. Days
  BY PayrollAssumption DEF Init, Days
<1>3. Schedules
  BY DEF Init, Schedules
<1>4. Adjustments /\ Amendments
  BY DEF Init, Adjustments, Amendments, IdleAmend
<1> QED
  BY <1>1, <1>2, <1>3, <1>4 DEF BaseInv

\* A calculation that goes on, and changes nothing else, has to reckon only itself.
LEMMA OneReckons ==
    ASSUME IInv, BaseInv, NEW r \in PayReq, NEW p, pay' = [pay EXCEPT ![r] = p],
           UNCHANGED <<today, sched, adj, amend>>, Reckons(p, sched, today)
    PROVE  BaseInv'
<1>1. \A s \in PayReq : Reckons(pay'[s], sched, today)
  BY DEF BaseInv, IInv, Fields
<1>2. Days' /\ Schedules' /\ Adjustments' /\ Amendments'
  BY DEF BaseInv, Days, Schedules, Adjustments, Amendments
<1> QED
  BY <1>1, <1>2 DEF BaseInv

\* What a calculation holds when it takes its next step.
LEMMA Reckoning ==
    ASSUME IInv, BaseInv, NEW r \in PayReq
    PROVE  /\ DOMAIN pay[r] = DOMAIN IdlePay /\ Reckons(pay[r], sched, today)
           /\ Schedules /\ Adjustments /\ today \in Nat
  BY PayrollAssumption DEF IInv, Fields, BaseInv, Days

\* A calculation comes in.
LEMMA StartReckons ==
    ASSUME IInv, BaseInv, NEW r \in PayReq, NEW kind \in {"salary", "overrides", "list"},
           NEW e \in Employee, NEW m \in Nat \cup {Null}, kind # "list" => m \in Nat,
           NEW body, kind = "overrides" => body \in WhatIfs, Start(r, kind, e, m, body)
    PROVE  BaseInv'
<1> DEFINE rows == {a \in Adj : adj[a].st = "row" /\ adj[a].emp = e}
           q == [IdlePay EXCEPT !.pc = "sched", !.kind = kind, !.emp = e, !.month = m,
                                !.body = body, !.readAt = today, !.began = today,
                                !.kept = rows]
<1>1. pay' = [pay EXCEPT ![r] = q] /\ UNCHANGED <<today, sched, adj, amend>>
  BY DEF Start
<1>2. /\ q.pc = "sched" /\ q.kind = kind /\ q.emp = e /\ q.month = m /\ q.body = body
      /\ q.readAt = today /\ q.began = today /\ q.base = 0 /\ q.bonuses = 0 /\ q.fines = 0
      /\ q.rows = {}
  BY DEF IdlePay
<1>3. today \in Nat /\ MonthOf(today) \in Nat
  BY Reckoning, Months
<1> HIDE DEF q
<1>4. Reckons(q, sched, today)
  BY <1>2, <1>3, FS_EmptySet DEF Reckons
<1> QED
  BY <1>1, <1>4, OneReckons

\* The schedule is read in one SELECT, of the month that was asked for.
LEMMA SalaryReckons ==
    ASSUME IInv, BaseInv, NEW r \in PayReq, SalaryReadsSchedule(r) PROVE BaseInv'
<1> DEFINE p == pay[r]
           b == ScheduleSalary(p.emp, p.month)
           q == [p EXCEPT !.pc = "bonus", !.base = b, !.of = p.month, !.adjsOf = p.month]
<1>1. /\ pay' = [pay EXCEPT ![r] = q] /\ UNCHANGED <<today, sched, adj, amend>>
      /\ p.pc = "sched" /\ p.kind = "salary"
  BY DEF SalaryReadsSchedule, Becomes
<1>2. DOMAIN p = DOMAIN IdlePay /\ Reckons(p, sched, today) /\ Schedules
  BY Reckoning
<1>3. /\ q.pc = "bonus" /\ q.kind = "salary" /\ q.emp = p.emp /\ q.month = p.month
      /\ q.readAt = p.readAt /\ q.began = p.began /\ q.base = b /\ q.bonuses = p.bonuses
      /\ q.fines = p.fines /\ q.rows = p.rows /\ q.of = p.month
  BY <1>1, <1>2, PayFields
<1>4. b = EntriesSalary(InMonth(sched[p.emp], p.month))
  BY DEF ScheduleSalary
<1> HIDE DEF q, b
<1>5. b \in Int
  <2>1. sched[p.emp] \subseteq Row /\ IsFiniteSet(sched[p.emp])
    BY <1>1, <1>2, ScheduleRows DEF Reckons
  <2>2. InMonth(sched[p.emp], p.month) \subseteq sched[p.emp]
    BY DEF InMonth
  <2>3. IsFiniteSet(InMonth(sched[p.emp], p.month))
    BY <2>1, <2>2, FS_Subset
  <2> QED
    BY <1>4, <2>1, <2>2, <2>3, SalaryInt
<1>6. Based(q, sched)
  BY <1>3, <1>4 DEF Based
<1> HIDE DEF p
<1>7. Reckons(q, sched, today)
  BY <1>1, <1>2, <1>3, <1>5, <1>6 DEF Reckons
<1> QED
  BY <1>1, <1>7, OneReckons DEF p

\* The what-if reads it in one SELECT too, and then the clock.
LEMMA OverridesReckon ==
    ASSUME IInv, BaseInv, NEW r \in PayReq, OverridesReadSchedule(r) PROVE BaseInv'
<1> DEFINE p == pay[r]
<1>1. p.pc = "sched" /\ p.kind = "overrides" /\ UNCHANGED <<today, sched, adj, amend>>
  BY DEF OverridesReadSchedule, Becomes
<1>2. PICK day \in p.readAt..today :
        LET rows == Remaining(InMonth(sched[p.emp], p.month), p.body.exclude, day)
        IN  Becomes(r, [p EXCEPT !.pc = "bonus",
                                 !.base = EntriesSalary(Merged(rows, p.body.schedule)),
                                 !.of = p.month, !.adjsOf = p.month])
  BY DEF OverridesReadSchedule
<1> DEFINE rows == Remaining(InMonth(sched[p.emp], p.month), p.body.exclude, day)
           b == EntriesSalary(Merged(rows, p.body.schedule))
           q == [p EXCEPT !.pc = "bonus", !.base = b, !.of = p.month, !.adjsOf = p.month]
<1>3. pay' = [pay EXCEPT ![r] = q]
  BY <1>2 DEF Becomes
<1>4. DOMAIN p = DOMAIN IdlePay /\ Reckons(p, sched, today) /\ Schedules
  BY Reckoning
<1>5. /\ q.pc = "bonus" /\ q.kind = "overrides" /\ q.emp = p.emp /\ q.month = p.month
      /\ q.body = p.body
      /\ q.readAt = p.readAt /\ q.began = p.began /\ q.base = b /\ q.bonuses = p.bonuses
      /\ q.fines = p.fines /\ q.rows = p.rows /\ q.of = p.month
  BY <1>1, <1>4, PayFields
<1> HIDE DEF q
<1>6. p.emp \in Employee /\ p.body \in WhatIfs /\ p.began \in Nat /\ day \in Nat
      /\ p.began <= day
  BY <1>1, <1>2, <1>4 DEF Reckons
<1>7. b \in Int
  <2>1. sched[p.emp] \subseteq Row /\ IsFiniteSet(sched[p.emp])
    BY <1>4, <1>6, ScheduleRows
  <2>2. Merged(rows, p.body.schedule) \subseteq Row /\ IsFiniteSet(Merged(rows, p.body.schedule))
    BY <1>6, <2>1, MergedRows
  <2> QED
    BY <2>2, SalaryInt
<1>8. Based(q, sched)
  BY <1>5, <1>6 DEF Based
<1> HIDE DEF p, b
<1>9. Reckons(q, sched, today)
  BY <1>1, <1>4, <1>5, <1>6, <1>7, <1>8 DEF Reckons
<1> QED
  BY <1>1, <1>3, <1>9, OneReckons DEF p

\* The adjustments of one type have a sum.
LEMMA SumFound ==
    ASSUME Adjustments, NEW e, NEW m, NEW type
    PROVE  AdjustmentsSum(OfType(AdjsOf(e, m), type)) \in Int
<1>1. OfType(AdjsOf(e, m), type) \subseteq {a \in Adj : adj[a].st = "row"}
  BY DEF OfType, AdjsOf
<1> QED
  BY <1>1, AdjustmentsInt

\* The bonuses.
LEMMA BonusesReckon == ASSUME IInv, BaseInv, NEW r \in PayReq, ReadsBonuses(r) PROVE BaseInv'
<1> DEFINE p == pay[r]
<1>1. p.pc = "bonus" /\ UNCHANGED <<today, sched, adj, amend>>
  BY DEF ReadsBonuses, Becomes
<1>2. DOMAIN p = DOMAIN IdlePay /\ Reckons(p, sched, today) /\ Adjustments
  BY Reckoning
<1>3. ASSUME NEW n \in Int, NEW S,
             pay' = [pay EXCEPT ![r] = [p EXCEPT !.pc = "fine", !.bonuses = n, !.asBonus = S]]
      PROVE  BaseInv'
  <2> DEFINE q == [p EXCEPT !.pc = "fine", !.bonuses = n, !.asBonus = S]
  <2>1. /\ q.pc = "fine" /\ q.kind = p.kind /\ q.emp = p.emp /\ q.month = p.month
        /\ q.body = p.body /\ q.readAt = p.readAt /\ q.began = p.began /\ q.base = p.base
        /\ q.bonuses = n /\ q.fines = p.fines /\ q.rows = p.rows /\ q.of = p.of
        /\ q.replaced = p.replaced
    BY <1>2, PayFields
  <2> HIDE DEF q
  <2>2. ~q.replaced => Based(q, sched)
    BY <1>1, <1>2, <2>1 DEF Reckons, Based
  <2> HIDE DEF p
  <2>3. Reckons(q, sched, today)
    BY <1>1, <1>2, <2>1, <2>2 DEF Reckons
  <2> QED
    BY <1>1, <1>3, <2>3, OneReckons DEF p, q
<1>4. CASE p.kind = "overrides" /\ p.body.bonuses # Null
  <2>1. p.body.bonuses \in Int
    BY <1>1, <1>2, <1>4, PayrollAssumption DEF Reckons
  <2>2. pay' = [pay EXCEPT ![r] = [p EXCEPT !.pc = "fine", !.bonuses = p.body.bonuses]]
    BY <1>4 DEF ReadsBonuses, Becomes
  <2>3. [p EXCEPT !.pc = "fine", !.bonuses = p.body.bonuses] =
            [p EXCEPT !.pc = "fine", !.bonuses = p.body.bonuses, !.asBonus = p.asBonus]
    BY <1>2, PayFields
  <2> QED
    BY <1>3, <2>1, <2>2, <2>3
<1>5. CASE ~(p.kind = "overrides" /\ p.body.bonuses # Null)
  BY <1>2, <1>3, <1>5, SumFound DEF ReadsBonuses, Becomes
<1> QED
  BY <1>4, <1>5

\* The fines.
LEMMA FinesReckon == ASSUME IInv, BaseInv, NEW r \in PayReq, ReadsFines(r) PROVE BaseInv'
<1> DEFINE p == pay[r]
<1>1. p.pc = "fine" /\ UNCHANGED <<today, sched, adj, amend>>
  BY DEF ReadsFines, Becomes
<1>2. DOMAIN p = DOMAIN IdlePay /\ Reckons(p, sched, today) /\ Adjustments
  BY Reckoning
<1>3. ASSUME NEW n \in Int, NEW S,
             pay' = [pay EXCEPT ![r] = [p EXCEPT !.pc = "done", !.fines = n, !.asFine = S]]
      PROVE  BaseInv'
  <2> DEFINE q == [p EXCEPT !.pc = "done", !.fines = n, !.asFine = S]
  <2>1. /\ q.pc = "done" /\ q.kind = p.kind /\ q.emp = p.emp /\ q.month = p.month
        /\ q.body = p.body /\ q.readAt = p.readAt /\ q.began = p.began /\ q.base = p.base
        /\ q.bonuses = p.bonuses /\ q.fines = n /\ q.rows = p.rows /\ q.of = p.of
        /\ q.replaced = p.replaced
    BY <1>2, PayFields
  <2> HIDE DEF q
  <2>2. ~q.replaced => Based(q, sched)
    BY <1>1, <1>2, <2>1 DEF Reckons, Based
  <2> HIDE DEF p
  <2>3. Reckons(q, sched, today)
    BY <1>1, <1>2, <2>1, <2>2 DEF Reckons
  <2> QED
    BY <1>1, <1>3, <2>3, OneReckons DEF p, q
<1>4. CASE p.kind = "overrides" /\ p.body.fines # Null
  <2>1. p.body.fines \in Int
    BY <1>1, <1>2, <1>4, PayrollAssumption DEF Reckons
  <2>2. pay' = [pay EXCEPT ![r] = [p EXCEPT !.pc = "done", !.fines = p.body.fines]]
    BY <1>4 DEF ReadsFines, Becomes
  <2>3. [p EXCEPT !.pc = "done", !.fines = p.body.fines] =
            [p EXCEPT !.pc = "done", !.fines = p.body.fines, !.asFine = p.asFine]
    BY <1>2, PayFields
  <2> QED
    BY <1>3, <2>1, <2>2, <2>3
<1>5. CASE ~(p.kind = "overrides" /\ p.body.fines # Null)
  BY <1>2, <1>3, <1>5, SumFound DEF ReadsFines, Becomes
<1> QED
  BY <1>4, <1>5

\* A list loads the rows around the month that the clock shows.
LEMMA ListLoads == ASSUME IInv, BaseInv, NEW r \in PayReq, ListReadsSchedule(r) PROVE BaseInv'
<1> DEFINE p == pay[r]
<1>1. p.pc = "sched" /\ p.kind = "list" /\ UNCHANGED <<today, sched, adj, amend>>
  BY DEF ListReadsSchedule, Becomes
<1>2. PICK day \in p.readAt..today :
        Becomes(r, [p EXCEPT !.pc = "adjs", !.readAt = today,
           !.rows = {x \in sched[p.emp] : MonthOf(x.date) \in Window(p.month, day)}])
  BY DEF ListReadsSchedule
<1> DEFINE rows == {x \in sched[p.emp] : MonthOf(x.date) \in Window(p.month, day)}
           q == [p EXCEPT !.pc = "adjs", !.readAt = today, !.rows = rows]
<1>3. pay' = [pay EXCEPT ![r] = q]
  BY <1>2 DEF Becomes
<1>4. DOMAIN p = DOMAIN IdlePay /\ Reckons(p, sched, today) /\ Schedules /\ today \in Nat
  BY Reckoning
<1>5. /\ q.pc = "adjs" /\ q.kind = "list" /\ q.emp = p.emp /\ q.month = p.month
      /\ q.readAt = today /\ q.began = p.began /\ q.base = p.base /\ q.bonuses = p.bonuses
      /\ q.fines = p.fines /\ q.rows = rows
  BY <1>1, <1>4, PayFields
<1> HIDE DEF q
<1>6. p.emp \in Employee /\ p.began \in Nat /\ p.began <= day /\ day <= today /\ day \in Nat
  BY <1>1, <1>2, <1>4 DEF Reckons
<1>7. rows \subseteq Row /\ IsFiniteSet(rows)
  <2>1. sched[p.emp] \subseteq Row /\ IsFiniteSet(sched[p.emp]) /\ rows \subseteq sched[p.emp]
    BY <1>4, <1>6, ScheduleRows
  <2> HIDE DEF rows
  <2> QED
    BY <2>1, FS_Subset
<1>8. Loaded(q, sched)
  BY <1>4, <1>5, <1>6 DEF Loaded
<1> HIDE DEF p, rows
<1>9. Reckons(q, sched, today)
  BY <1>1, <1>4, <1>5, <1>6, <1>7, <1>8 DEF Reckons
<1> QED
  BY <1>1, <1>3, <1>9, OneReckons DEF p

\* It reads the adjustments of the month that the clock shows then.
LEMMA ListReckons ==
    ASSUME IInv, BaseInv, NEW r \in PayReq, ListReadsAdjustments(r) PROVE BaseInv'
<1> DEFINE p == pay[r]
<1>1. p.pc = "adjs" /\ UNCHANGED <<today, sched, adj, amend>>
  BY DEF ListReadsAdjustments, Becomes
<1>2. PICK m, B, F :
        /\ AdjustmentsSum(B) \in Int /\ AdjustmentsSum(F) \in Int
        /\ Becomes(r, [p EXCEPT !.pc = "build", !.readAt = today,
                                !.bonuses = AdjustmentsSum(B), !.fines = AdjustmentsSum(F),
                                !.adjsOf = m, !.asBonus = B, !.asFine = F])
  <2>1. PICK day \in p.readAt..today :
          LET S == AdjsOf(p.emp, Month(r, day)) IN
          Becomes(r, [p EXCEPT !.pc = "build", !.readAt = today,
                               !.bonuses = AdjustmentsSum(OfType(S, "bonus")),
                               !.fines = AdjustmentsSum(OfType(S, "fine")),
                               !.adjsOf = Month(r, day),
                               !.asBonus = OfType(S, "bonus"), !.asFine = OfType(S, "fine")])
    BY DEF ListReadsAdjustments
  <2>2. \A type : AdjustmentsSum(OfType(AdjsOf(p.emp, Month(r, day)), type)) \in Int
    BY Reckoning, SumFound
  <2> QED
    BY <2>1, <2>2
<1> DEFINE b == AdjustmentsSum(B)
           f == AdjustmentsSum(F)
           q == [p EXCEPT !.pc = "build", !.readAt = today, !.bonuses = b, !.fines = f,
                          !.adjsOf = m, !.asBonus = B, !.asFine = F]
<1>3. pay' = [pay EXCEPT ![r] = q]
  BY <1>2 DEF Becomes
<1>4. DOMAIN p = DOMAIN IdlePay /\ Reckons(p, sched, today) /\ today \in Nat
  BY Reckoning
<1> HIDE DEF b, f
<1>5. /\ q.pc = "build" /\ q.kind = p.kind /\ q.emp = p.emp /\ q.month = p.month
      /\ q.readAt = today /\ q.began = p.began /\ q.base = p.base /\ q.bonuses = b
      /\ q.fines = f /\ q.rows = p.rows /\ q.replaced = p.replaced
  BY <1>4, PayFields
<1>6. b \in Int /\ f \in Int
  BY <1>2 DEF b, f
<1> HIDE DEF q
<1>7. p.began \in Nat /\ p.readAt \in Nat /\ p.began <= p.readAt /\ p.readAt <= today
      /\ p.kind = "list"
  BY <1>1, <1>4 DEF Reckons
<1>8. ~q.replaced => Loaded(q, sched)
  <2> SUFFICES ASSUME ~q.replaced PROVE Loaded(q, sched)
    OBVIOUS
  <2>1. PICK day \in p.began..p.readAt :
          p.rows = {x \in sched[p.emp] : MonthOf(x.date) \in Window(p.month, day)}
    BY <1>1, <1>4, <1>5 DEF Reckons, Loaded
  <2>2. day \in p.began..today
    BY <1>4, <1>7
  <2> QED
    BY <1>5, <2>1, <2>2 DEF Loaded
<1> HIDE DEF p
<1>9. Reckons(q, sched, today)
  BY <1>1, <1>4, <1>5, <1>6, <1>7, <1>8 DEF Reckons
<1> QED
  BY <1>1, <1>3, <1>9, OneReckons DEF p

\* The month that the clock shows last is among those that were loaded.
LEMMA MonthIsLoaded ==
    ASSUME NEW p, NEW S, NEW day \in Nat, Reckons(p, S, day), p.pc = "build",
           Loaded(p, S), NEW now \in p.readAt..day
    PROVE  LET m == IF p.month # Null THEN p.month ELSE MonthOf(now)
           IN InMonth(p.rows, m) = InMonth(S[p.emp], m)
<1> DEFINE m == IF p.month # Null THEN p.month ELSE MonthOf(now)
<1>1. PICK then \in p.began..p.readAt :
        p.rows = {x \in S[p.emp] : MonthOf(x.date) \in Window(p.month, then)}
  BY DEF Loaded
<1>2. /\ p.began \in Nat /\ p.readAt \in Nat /\ p.month \in Nat \cup {Null}
      /\ MonthOf(day) <= MonthOf(p.began) + 1
  BY DEF Reckons
<1>3. then \in Nat /\ now \in Nat /\ p.began <= then /\ then <= now /\ now <= day
  BY <1>1, <1>2
<1>4. m \in Window(p.month, then)
  <2>1. /\ MonthOf(p.began) \in Nat /\ MonthOf(then) \in Nat /\ MonthOf(now) \in Nat
        /\ MonthOf(day) \in Nat
        /\ MonthOf(p.began) <= MonthOf(then) /\ MonthOf(then) <= MonthOf(now)
        /\ MonthOf(now) <= MonthOf(day)
    BY <1>2, <1>3, Months
  <2>2. MonthOf(now) = MonthOf(then) \/ MonthOf(now) = MonthOf(then) + 1
    BY <1>2, <2>1
  <2> QED
    BY <2>2 DEF Window
<1> HIDE DEF m
<1>5. InMonth(p.rows, m) = InMonth(S[p.emp], m)
  BY <1>1, <1>4 DEF InMonth
<1> QED
  BY <1>5 DEF m

\* The list is built of the month that the clock shows last, all of whose rows are loaded.
LEMMA BuildReckons == ASSUME IInv, BaseInv, NEW r \in PayReq, ListBuilds(r) PROVE BaseInv'
<1> DEFINE p == pay[r]
<1>1. p.pc = "build" /\ UNCHANGED <<today, sched, adj, amend>>
  BY DEF ListBuilds, Becomes
<1>2. PICK now \in p.readAt..today :
        Becomes(r, [p EXCEPT !.pc = "done", !.rows = {}, !.of = Month(r, now),
                             !.base = MonthlySalary(p.rows, Month(r, now))])
  BY DEF ListBuilds
<1> DEFINE m == Month(r, now)
           b == MonthlySalary(p.rows, m)
           q == [p EXCEPT !.pc = "done", !.rows = {}, !.of = m, !.base = b]
<1>3. pay' = [pay EXCEPT ![r] = q]
  BY <1>2 DEF Becomes
<1>4. DOMAIN p = DOMAIN IdlePay /\ Reckons(p, sched, today) /\ today \in Nat
  BY Reckoning
<1>5. /\ q.pc = "done" /\ q.kind = p.kind /\ q.emp = p.emp /\ q.month = p.month
      /\ q.readAt = p.readAt /\ q.began = p.began /\ q.base = b /\ q.bonuses = p.bonuses
      /\ q.fines = p.fines /\ q.rows = {} /\ q.of = m /\ q.replaced = p.replaced
  BY <1>4, PayFields
<1>6. b = EntriesSalary(InMonth(p.rows, m))
  BY DEF MonthlySalary
<1> HIDE DEF q, b
<1>7. b \in Int
  <2>1. p.rows \subseteq Row /\ IsFiniteSet(p.rows) /\ InMonth(p.rows, m) \subseteq p.rows
    BY <1>4 DEF Reckons, InMonth
  <2>2. IsFiniteSet(InMonth(p.rows, m)) /\ InMonth(p.rows, m) \subseteq Row
    BY <2>1, FS_Subset
  <2> QED
    BY <1>6, <2>2, SalaryInt
<1>8. p.kind = "list"
  BY <1>1, <1>4 DEF Reckons
<1>9. ~q.replaced => Based(q, sched)
  <2> SUFFICES ASSUME ~q.replaced PROVE Based(q, sched)
    OBVIOUS
  <2>1. Loaded(p, sched)
    BY <1>1, <1>4, <1>5 DEF Reckons
  <2>2. m = IF p.month # Null THEN p.month ELSE MonthOf(now)
    BY DEF Month
  <2> HIDE DEF m, p
  <2>3. InMonth(p.rows, m) = InMonth(sched[p.emp], m)
    BY <1>1, <1>2, <1>4, <2>1, <2>2, MonthIsLoaded
  <2> QED
    BY <1>5, <1>6, <1>8, <2>3 DEF Based
<1> HIDE DEF p, m
<1>10. Reckons(q, sched, today)
  BY <1>1, <1>4, <1>5, <1>7, <1>8, <1>9, FS_EmptySet DEF Reckons
<1> QED
  BY <1>1, <1>3, <1>10, OneReckons DEF p

\* Every step of a calculation.
LEMMA StepReckons == ASSUME IInv, BaseInv, NEW r \in PayReq, PayStep(r) PROVE BaseInv'
<1>1. CASE Answer(r)
  BY <1>1, IdleReckons, OneReckons DEF Answer, Becomes
<1> QED
  BY <1>1, SalaryReckons, OverridesReckon, BonusesReckon, FinesReckon, ListLoads, ListReckons,
     BuildReckons DEF PayStep

-----------------------------------------------------------------------------
\* What a calculation has read and will be told of does not change from p to q.
SameReadings(p, q) ==
    /\ q.pc = p.pc /\ q.kind = p.kind /\ q.emp = p.emp /\ q.month = p.month
    /\ q.body = p.body /\ q.readAt = p.readAt /\ q.rows = p.rows /\ q.base = p.base
    /\ q.bonuses = p.bonuses /\ q.fines = p.fines /\ q.began = p.began /\ q.of = p.of

\* A calculation is not told of a write, or of a later day, unless its schedule is replaced.
LEMMA StillReckons ==
    ASSUME NEW p, NEW q, SameReadings(p, q), NEW S, NEW T, NEW day \in Nat, NEW next \in Nat,
           day <= next, Reckons(p, S, day),
           p.pc \notin {"idle", "done"} => MonthOf(next) <= MonthOf(p.began) + 1,
           p.pc # "idle" /\ ~q.replaced => ~p.replaced /\ T[p.emp] = S[p.emp]
    PROVE  Reckons(q, T, next)
<1>1. p.pc \in {"adjs", "build"} /\ ~q.replaced => Loaded(q, T)
  BY DEF Reckons, Loaded, SameReadings
<1>2. p.pc \in {"bonus", "fine", "done"} /\ ~q.replaced => Based(q, T)
  <2> SUFFICES ASSUME p.pc \in {"bonus", "fine", "done"}, ~q.replaced PROVE Based(q, T)
    OBVIOUS
  <2>1. Based(p, S) /\ T[p.emp] = S[p.emp]
    BY DEF Reckons
  <2> QED
    BY <2>1 DEF Based, SameReadings
<1>3. p.pc # "idle" => p.readAt \in Nat /\ p.readAt <= next
  BY DEF Reckons
<1> QED
  BY <1>1, <1>2, <1>3 DEF Reckons, SameReadings

\* A write to an adjustment changes no reading.
LEMMA WrittenReads ==
    ASSUME Fields, NEW a, NEW r \in PayReq
    PROVE  SameReadings(pay[r], Written(a)[r]) /\ Written(a)[r].replaced = pay[r].replaced
<1> DEFINE p == pay[r]
           q == [p EXCEPT !.kept = p.kept \ {a}]
<1>1. DOMAIN p = DOMAIN IdlePay
  BY DEF Fields
<1>2. Written(a)[r] = q
  BY <1>1, PayFields DEF Written
<1>3. SameReadings(p, q) /\ q.replaced = p.replaced
  BY <1>1, PayFields DEF SameReadings
<1> HIDE DEF q
<1> QED
  BY <1>2, <1>3

\* A schedule that is replaced changes no reading, and is made known.
LEMMA ReplacedReads ==
    ASSUME Fields, NEW e, NEW r \in PayReq
    PROVE  /\ SameReadings(pay[r], Replaced(e)[r])
           /\ ~Replaced(e)[r].replaced => ~pay[r].replaced /\ pay[r].emp # e
<1> DEFINE p == pay[r]
           x == p.replaced \/ p.emp = e
           q == [p EXCEPT !.replaced = x]
<1>1. DOMAIN p = DOMAIN IdlePay
  BY DEF Fields
<1>2. Replaced(e)[r] = q
  BY <1>1, PayFields DEF Replaced
<1> HIDE DEF x
<1>3. SameReadings(p, q) /\ q.replaced = x
  BY <1>1, PayFields DEF SameReadings
<1> HIDE DEF q
<1>4. ~x => ~p.replaced /\ p.emp # e
  BY DEF x
<1> QED
  BY <1>2, <1>3, <1>4, Zenon

\* What changes no reading, and no schedule that it does not make known.
LEMMA WritersReckon ==
    ASSUME IInv, BaseInv, Days', Schedules', Adjustments', Amendments', today <= today',
           \A r \in PayReq : /\ SameReadings(pay[r], pay'[r])
                             /\ pay[r].pc \notin {"idle", "done"} =>
                                   MonthOf(today') <= MonthOf(pay[r].began) + 1
                             /\ pay[r].pc # "idle" /\ ~pay'[r].replaced =>
                                   ~pay[r].replaced /\ sched'[pay[r].emp] = sched[pay[r].emp]
    PROVE  BaseInv'
<1>1. today \in Nat /\ today' \in Nat
  BY PayrollAssumption DEF BaseInv, Days
<1>2. ASSUME NEW r \in PayReq PROVE Reckons(pay'[r], sched', today')
  BY <1>1, <1>2, StillReckons DEF BaseInv
<1> QED
  BY <1>2 DEF BaseInv

\* What the invariant says of a calculation and the month, when the day does not change.
LEMMA SameDay ==
    ASSUME BaseInv, today' = today
    PROVE  /\ Days' /\ today <= today'
           /\ \A r \in PayReq : pay[r].pc \notin {"idle", "done"} =>
                 MonthOf(today') <= MonthOf(pay[r].began) + 1
<1>1. Days' /\ today <= today'
  BY PayrollAssumption DEF BaseInv, Days
<1>2. \A r \in PayReq : Reckons(pay[r], sched, today)
  BY DEF BaseInv
<1> QED
  BY <1>1, <1>2 DEF Reckons

\* POST of an adjustment.
LEMMA CreateReckons ==
    ASSUME IInv, BaseInv, NEW e \in Employee, NEW n \in NewAdjs, CreateAdjustment(e, n)
    PROVE  BaseInv'
<1>1. /\ UNCHANGED <<today, sched, pay, amend>>
      /\ \E a \in Adj : adj' = [adj EXCEPT ![a] = [st |-> "row", emp |-> e, entry |-> n]]
  BY DEF CreateAdjustment
<1>2. Schedules' /\ Amendments'
  BY <1>1 DEF BaseInv, Schedules, Amendments
<1>3. Adjustments'
  BY <1>1, PayrollAssumption DEF BaseInv, Adjustments, IInv, Fields
<1>4. \A r \in PayReq : SameReadings(pay[r], pay'[r])
  BY <1>1 DEF SameReadings
<1> QED
  BY <1>1, <1>2, <1>3, <1>4, SameDay, WritersReckon

\* DELETE of an adjustment.
LEMMA DeleteReckons ==
    ASSUME IInv, BaseInv, NEW a \in Adj, DeleteAdjustment(a) PROVE BaseInv'
<1>1. /\ UNCHANGED <<today, sched, amend>> /\ pay' = Written(a)
      /\ adj' = [adj EXCEPT ![a] = [st |-> "gone", emp |-> Null, entry |-> Null]]
  BY DEF DeleteAdjustment
<1>2. Schedules' /\ Amendments'
  BY <1>1 DEF BaseInv, Schedules, Amendments
<1>3. Adjustments'
  BY <1>1 DEF BaseInv, Adjustments, IInv, Fields
<1>4. \A r \in PayReq : SameReadings(pay[r], pay'[r]) /\ pay'[r].replaced = pay[r].replaced
  BY <1>1, WrittenReads DEF IInv
<1> QED
  BY <1>1, <1>2, <1>3, <1>4, SameDay, WritersReckon

\* What a PATCH writes is an adjustment.
LEMMA AmendedEntry ==
    ASSUME NEW body \in Patches, NEW row, NEW now \in Entry
    PROVE  [f \in {"type", "amount", "date"} |-> Amended(body[f], row[f], now[f])] \in Entry
<1> DEFINE new == [f \in {"type", "amount", "date"} |-> Amended(body[f], row[f], now[f])]
<1>1. /\ now.type \in {"bonus", "fine"} /\ now.amount \in Int /\ now.date \in Nat
  BY DEF Entry
<1>2. /\ body.type \in {"bonus", "fine", Keep} /\ body.amount \in Int \cup {Keep}
      /\ body.date \in Nat \cup {Keep}
  BY PayrollAssumption
<1>3. /\ new.type \in {"bonus", "fine"} /\ new.amount \in Int /\ new.date \in Nat
  BY <1>1, <1>2 DEF Amended
<1>4. new = [type |-> new.type, amount |-> new.amount, date |-> new.date]
  OBVIOUS
<1> HIDE DEF new
<1>5. [type |-> new.type, amount |-> new.amount, date |-> new.date] \in Entry
  BY <1>3 DEF Entry
<1> QED
  BY <1>4, <1>5 DEF new

\* PATCH of an adjustment: its first step, and its last when the row is gone.
LEMMA AmendReckons ==
    ASSUME IInv, BaseInv, NEW r \in AmendReq, NEW a \in Adj, NEW b \in Patches,
           AmendLoads(r, a, b) \/ UpdateFails(r)
    PROVE  BaseInv'
<1>1. UNCHANGED <<today, sched, adj, pay>>
  BY DEF AmendLoads, UpdateFails
<1>2. Amendments'
  BY DEF AmendLoads, UpdateFails, BaseInv, Amendments, IdleAmend
<1>3. Schedules' /\ Adjustments'
  BY <1>1 DEF BaseInv, Schedules, Adjustments
<1>4. \A s \in PayReq : SameReadings(pay[s], pay'[s])
  BY <1>1 DEF SameReadings
<1> QED
  BY <1>1, <1>2, <1>3, <1>4, SameDay, WritersReckon

\* Its commit.
LEMMA UpdateReckons ==
    ASSUME IInv, BaseInv, NEW r \in AmendReq, UpdateCommit(r) PROVE BaseInv'
<1> DEFINE m == amend[r]
           t == m.target
           now == adj[t].entry
           new == [f \in {"type", "amount", "date"} |-> Amended(m.body[f], m.row[f], now[f])]
<1>1. /\ m.pc = "loaded" /\ adj[t].st = "row"
      /\ adj' = [adj EXCEPT ![t].entry = new]
      /\ pay' = IF new = now THEN pay ELSE Written(t)
      /\ amend' = [amend EXCEPT ![r] = IdleAmend] /\ UNCHANGED <<today, sched>>
  BY DEF UpdateCommit
<1>2. Schedules' /\ Amendments'
  BY <1>1 DEF BaseInv, Schedules, Amendments, IdleAmend
<1>3. new \in Entry
  <2>1. m.body \in Patches /\ now \in Entry
    BY <1>1 DEF BaseInv, Amendments, Adjustments
  <2> QED
    BY <2>1, AmendedEntry
<1> HIDE DEF new
<1>4. /\ DOMAIN adj' = Adj
      /\ \A a \in Adj : /\ adj'[a].st = adj[a].st /\ adj'[a].emp = adj[a].emp
                        /\ a = t => adj'[a].entry = new
                        /\ a # t => adj'[a] = adj[a]
  BY <1>1 DEF IInv, Fields
<1>5. Adjustments'
  BY <1>3, <1>4 DEF BaseInv, Adjustments
<1>6. \A s \in PayReq : SameReadings(pay[s], pay'[s]) /\ pay'[s].replaced = pay[s].replaced
  <2>1. CASE pay' = pay
    BY <2>1 DEF SameReadings
  <2>2. CASE pay' = Written(t)
    BY <2>2, WrittenReads DEF IInv
  <2> QED
    BY <1>1, <2>1, <2>2
<1> QED
  BY <1>1, <1>2, <1>5, <1>6, SameDay, WritersReckon

\* A schedule is replaced.
LEMMA ReplaceReckons ==
    ASSUME IInv, BaseInv, NEW e \in Employee, NEW plan \in Plans, ReplaceSchedule(e, plan)
    PROVE  BaseInv'
<1>1. /\ sched' = [sched EXCEPT ![e] = plan] /\ pay' = Replaced(e)
      /\ UNCHANGED <<today, adj, amend>>
  BY DEF ReplaceSchedule
<1>2. Schedules' /\ Adjustments' /\ Amendments'
  BY <1>1 DEF BaseInv, Schedules, Adjustments, Amendments
<1>3. \A x \in Employee : x # e => sched'[x] = sched[x]
  BY <1>1 DEF BaseInv, Schedules
<1>4. ASSUME NEW r \in PayReq
      PROVE  /\ SameReadings(pay[r], pay'[r])
             /\ pay[r].pc # "idle" /\ ~pay'[r].replaced =>
                   ~pay[r].replaced /\ sched'[pay[r].emp] = sched[pay[r].emp]
  <2>1. /\ SameReadings(pay[r], pay'[r])
        /\ ~pay'[r].replaced => ~pay[r].replaced /\ pay[r].emp # e
    BY <1>1, ReplacedReads DEF IInv
  <2>2. pay[r].pc # "idle" => pay[r].emp \in Employee
    BY DEF BaseInv, Reckons
  <2> QED
    BY <1>3, <2>1, <2>2
<1> QED
  BY <1>1, <1>2, <1>4, SameDay, WritersReckon

\* A day goes by.
LEMMA TickReckons == ASSUME IInv, BaseInv, Tick PROVE BaseInv'
<1>1. UNCHANGED <<sched, adj, pay, amend>> /\ today' = today + 1 /\ today < LastDay
  BY DEF Tick
<1>2. Days' /\ today <= today'
  BY <1>1, PayrollAssumption DEF BaseInv, Days
<1>3. Schedules' /\ Adjustments' /\ Amendments'
  BY <1>1 DEF BaseInv, Schedules, Adjustments, Amendments
<1>4. \A r \in PayReq : SameReadings(pay[r], pay'[r])
  BY <1>1 DEF SameReadings
<1>5. \A r \in PayReq : pay[r].pc \notin {"idle", "done"} =>
         MonthOf(today') <= MonthOf(pay[r].began) + 1
  BY DEF Tick
<1> QED
  BY <1>1, <1>2, <1>3, <1>4, <1>5, WritersReckon

\* Every step of the specification keeps what the bases come to.
LEMMA NextBase == IInv /\ BaseInv /\ [Next]_vars => BaseInv'
<1> SUFFICES ASSUME IInv, BaseInv, [Next]_vars PROVE BaseInv'
  OBVIOUS
<1>1. CASE UNCHANGED vars
  BY <1>1 DEF vars, BaseInv, Days, Schedules, Adjustments, Amendments
<1>2. CASE Tick
  BY <1>2, TickReckons
<1>3. ASSUME NEW r \in PayReq, NEW e \in Employee, NEW m \in Asked, NEW b \in WhatIfs,
             StartSalary(r, e, m) \/ StartOverrides(r, e, m, b)
      PROVE  BaseInv'
  BY <1>3, PayrollAssumption, StartReckons DEF StartSalary, StartOverrides
<1>4. ASSUME NEW r \in PayReq, NEW e \in Employee, NEW m \in Asked, StartSalary(r, e, m)
      PROVE  BaseInv'
  BY <1>4, PayrollAssumption, StartReckons DEF StartSalary
<1>5. ASSUME NEW r \in PayReq, NEW e \in Employee, NEW m \in Asked \cup {Null},
             StartList(r, e, m)
      PROVE  BaseInv'
  BY <1>5, PayrollAssumption, StartReckons DEF StartList
<1>6. ASSUME NEW r \in AmendReq, NEW a \in Adj, NEW b \in Patches, AmendLoads(r, a, b)
      PROVE  BaseInv'
  BY <1>6, AmendReckons
<1>7. ASSUME NEW r \in AmendReq, UpdateFails(r) PROVE BaseInv'
  <2>1. amend[r].target \in Adj /\ amend[r].body \in Patches
    BY <1>7 DEF UpdateFails, BaseInv, Amendments
  <2> QED
    BY <1>7, <2>1, AmendReckons
<1> QED
  BY <1>1, <1>2, <1>3, <1>4, <1>5, <1>6, <1>7, StepReckons, CreateReckons, DeleteReckons,
     UpdateReckons, ReplaceReckons DEF Next

-----------------------------------------------------------------------------
\* Whatever is written while a salary is calculated, by any number of requests, an
\* adjustment that nobody writes is counted if it is of the month, once and as what
\* it is; a what-if that gives a sum counts none of that type.
THEOREM CountedOnce == Spec => []UnamendedCountOnce
<1>1. IInv => UnamendedCountOnce
  BY DEF IInv, Counts, BonusesCounted, FinesCounted, Due, BonusesGiven, FinesGiven,
         UnamendedCountOnce
<1> QED
  BY <1>1, InitIInv, NextIInv, PTL DEF Spec
\* The clock, the schedules, the adjustments and what the calculations hold of them are
\* what the columns take, and every sum is a number, whatever is read when.
THEOREM PayrollTyped == Spec => []TypeOK
<1>1. ASSUME BaseInv PROVE TypeOK
  <2>1. \A e \in Employee : /\ sched[e] \subseteq Row
                            /\ \A x, y \in sched[e] : x.date = y.date => x = y
    BY <1>1, PayrollAssumption DEF BaseInv, Schedules
  <2>2. \A r \in PayReq :
           /\ pay[r].pc \in {"idle", "sched", "adjs", "bonus", "fine", "build", "done"}
           /\ {pay[r].base, pay[r].bonuses, pay[r].fines} \subseteq Int
           /\ pay[r].rows \subseteq Row
    BY <1>1 DEF BaseInv, Reckons
  <2> QED
    BY <1>1, <2>1, <2>2 DEF BaseInv, Days, Adjustments, Amendments, TypeOK
<1> QED
  BY <1>1, InitIInv, InitBase, NextIInv, NextBase, PTL DEF Spec

\* The three calculations agree, for every schedule and every turn of the month: unless
\* the schedule is replaced meanwhile, the base is what the days of one month are worth.
THEOREM BasesAreTheMonths == Spec => []BaseIsTheMonths
<1>1. ASSUME BaseInv PROVE BaseIsTheMonths
  <2> SUFFICES ASSUME NEW r \in PayReq, pay[r].pc = "done", ~pay[r].replaced, ~WhatIf(r)
               PROVE  pay[r].base = Worth({x \in sched[pay[r].emp] : MonthOf(x.date) = pay[r].of})
    BY DEF BaseIsTheMonths
  <2> DEFINE p == pay[r]
             S == InMonth(sched[p.emp], p.of)
  <2>1. Based(p, sched) /\ p.emp \in Employee
    BY <1>1 DEF BaseInv, Reckons
  <2>2. p.base = EntriesSalary(S)
    <3>1. CASE p.kind = "overrides"
      <4>1. p.body.schedule = {} /\ p.body.exclude = {}
        BY <3>1 DEF WhatIf
      <4>2. \A day : Merged(Remaining(S, p.body.exclude, day), p.body.schedule) = S
        BY <4>1 DEF Merged, Remaining
      <4> QED
        BY <2>1, <3>1, <4>2 DEF Based
    <3>2. CASE p.kind # "overrides"
      BY <2>1, <3>2 DEF Based
    <3> QED
      BY <3>1, <3>2
  <2>3. S \subseteq Row
    BY <1>1, <2>1, ScheduleRows DEF BaseInv, InMonth
  <2>4. EntriesSalary(S) = Worth(S)
    BY <2>3, SalaryIsTotal, WorthIsTotal
  <2> QED
    BY <2>2, <2>4 DEF InMonth
<1> QED
  BY <1>1, InitIInv, InitBase, NextIInv, NextBase, PTL DEF Spec

\* Whatever the clock shows when a what-if reads it, its base is what some of the days of
\* the month are worth, of which it leaves out none that was past when it was asked.
THEOREM PastIsPaid == Spec => []PastStaysPaid
<1>1. ASSUME BaseInv PROVE PastStaysPaid
  <2> SUFFICES ASSUME NEW r \in PayReq, pay[r].pc = "done", ~pay[r].replaced,
                      pay[r].kind = "overrides", pay[r].body.schedule = {}
               PROVE  \E S \in SUBSET InMonth(sched[pay[r].emp], pay[r].of) :
                         /\ \A x \in InMonth(sched[pay[r].emp], pay[r].of) \ S :
                               x.date \in pay[r].body.exclude /\ x.date >= pay[r].began
                         /\ pay[r].base = Worth(S)
    BY DEF PastStaysPaid, InMonth
  <2> DEFINE p == pay[r]
             rows == InMonth(sched[p.emp], p.of)
  <2>1. Based(p, sched) /\ p.emp \in Employee /\ p.began \in Nat
    BY <1>1 DEF BaseInv, Reckons
  <2>2. PICK day \in Nat :
          /\ p.began <= day
          /\ p.base = EntriesSalary(Merged(Remaining(rows, p.body.exclude, day),
                                           p.body.schedule))
    BY <2>1 DEF Based
  <2> DEFINE S == Remaining(rows, p.body.exclude, day)
  <2>3. p.base = EntriesSalary(S)
    <3>1. Merged(S, {}) = S
      BY DEF Merged
    <3> QED
      BY <2>2, <3>1
  <2>4. rows \subseteq Row
    BY <1>1, <2>1, ScheduleRows DEF BaseInv, InMonth
  <2> HIDE DEF p, rows
  <2>5. S \in SUBSET rows
    BY DEF Remaining
  <2>6. p.base = Worth(S)
    BY <2>3, <2>4, <2>5, SalaryIsTotal, WorthIsTotal
  <2>7. \A x \in rows \ S : x.date \in p.body.exclude /\ x.date >= p.began
    BY <2>1, <2>2, <2>4 DEF Remaining, Row
  <2> QED
    BY <2>5, <2>6, <2>7 DEF p, rows
<1> QED
  BY <1>1, InitIInv, InitBase, NextIInv, NextBase, PTL DEF Spec
=============================================================================
