----------------------- MODULE EmployeeRecordsProofs -----------------------
(***************************************************************************)
(* Theorems about EmployeeRecords, for any number of employees and         *)
(* requests: what holds of overlapping PATCHes, that PATCHes which do not  *)
(* overlap implement Roster, and who can wait for whose row locks.         *)
(***************************************************************************)
EXTENDS EmployeeRecords, FiniteSetTheorems, TLAPS

\* Every number is taken at most once, and there is one for each PATCH under way.
CapInv == writes + Cardinality(Patching) <= MaxWrites

\* An employee who was hired has a rate; one who is not there has no schedule.
ProfileInv ==
    \A e \in Employee :
        /\ profile[e].st # "none" => profile[e].type \in RateType /\ profile[e].amount \in Amount
        /\ profile[e].st # "row" => \A d \in Date : sched[e][d] = Null

\* A PATCH p holds what its body says, and for the rest what the profile said; if it has
\* not been overtaken, the profile still says so.
PatchFits(p, prof) ==
    p.pc # "idle" =>
        /\ p.emp \in Employee /\ prof[p.emp].st # "none"
        /\ p.type \in RateType /\ p.amount \in Amount
        /\ p.pc \notin {"loaded", "user"} => p.body.dates # Keep
        /\ p.body.type # Keep => p.type = p.body.type
        /\ p.body.amount # Keep => p.amount = p.body.amount
        /\ ~p.overtaken /\ "type" \notin p.dirty => p.type = prof[p.emp].type
        /\ ~p.overtaken /\ "amount" \notin p.dirty => p.amount = prof[p.emp].amount

PatchInv == \A r \in PatchReq : PatchFits(patch[r], profile)

\* How far its DELETE and its INSERTs are: at the end of either none is left.
ProgressFits(p) ==
    /\ p.pc \in {"idle", "loaded", "user", "flushed"} => p.rows = {} /\ p.done = {} /\ p.at = Null
    /\ p.pc = "deleting" /\ p.at = Null => DatesOf(p.rows) \subseteq p.done
    /\ p.pc \in {"inserting", "inserted"} =>
          /\ p.at # Null => p.at \in p.body.dates /\ p.pc = "inserting"
          /\ p.at = Null => p.body.dates \subseteq p.done

ProgressInv == \A r \in PatchReq : ProgressFits(patch[r])

\* An uncommitted row is the only one at its date: the committed one, if any, has been
\* deleted by the same PATCH, and no other PATCH has inserted one.
Inserted(p, d) == d \in p.done /\ p.pc \in {"inserting", "inserted"}

IndexInv ==
    \A r \in PatchReq, d \in Date :
        Inserted(patch[r], d) =>
            /\ sched[patch[r].emp][d] # Null =>
                  <<d, sched[patch[r].emp][d].id>> \in patch[r].rows
            /\ \A q \in PatchReq : patch[q].emp = patch[r].emp /\ Inserted(patch[q], d) => q = r

\* The rows that a DELETE found are whole schedules: a row of a write it has seen is
\* one that it takes. (w: the writes so far.)
RowsFit(p, sch, w) ==
    /\ \A x \in p.rows : x[2] \in 0..w
    /\ \A c \in Date, x \in p.rows :
          p.pc # "idle" /\ sch[p.emp][c] # Null /\ sch[p.emp][c].id = x[2] =>
              <<c, x[2]>> \in p.rows

RowsInv == \A r \in PatchReq : RowsFit(patch[r], sched, writes)

\* Rows were written by a write that is over, and had seen older ones.
NumbersInv ==
    \A e \in Employee, d \in Date :
        sched[e][d] # Null => sched[e][d].id \in 0..writes /\ sched[e][d].seen \subseteq 0..writes

OffEmpInv ==
    \A r \in OffReq : off[r].pc # "idle" => off[r].emp \in Employee /\ profile[off[r].emp].st # "none"

\* PATCHes of one employee that do not overlap: none is overtaken, and what a DELETE has
\* found is all there is.
SeesAll(p, sch) ==
    p.pc \in {"deleting", "inserting", "inserted"} =>
        \A d \in Date : sch[p.emp][d] # Null => <<d, sch[p.emp][d].id>> \in p.rows

SerialInv ==
    Serial =>
        /\ \A q, r \in Patching : patch[q].emp = patch[r].emp => q = r
        /\ \A r \in Patching : ~patch[r].overtaken /\ SeesAll(patch[r], sched)

IInv ==
    /\ TypeOK /\ CapInv /\ ProfileInv /\ PatchInv /\ ProgressInv /\ RowsInv /\ NumbersInv
    /\ OffEmpInv /\ IndexInv /\ SerialInv /\ ReplacedDaysAreGone /\ SnapshotUnlessOvertaken

----------------------------------------------------------------------------
\* What the rows of a schedule are, as a DELETE finds them.
LEMMA RowsOfFacts ==
    ASSUME TypeOK, NEW e \in Employee
    PROVE  /\ RowsOf(e) \subseteq Date \X Id
           /\ \A d \in Date : sched[e][d] # Null => <<d, sched[e][d].id>> \in RowsOf(e)
           /\ \A x \in RowsOf(e) : /\ x[1] \in Date /\ x = <<x[1], x[2]>>
                                   /\ sched[e][x[1]] # Null /\ sched[e][x[1]].id = x[2]
  <1>1. \A d \in Date : sched[e][d] # Null => sched[e][d].id \in Id
    BY DEF TypeOK, DayRow
  <1> QED BY <1>1 DEF RowsOf

\* A request that has ended.
LEMMA IdleTyped ==
    /\ Idle \in Patch /\ Idle.pc = "idle" /\ Idle.rows = {} /\ Idle.done = {} /\ Idle.at = Null
    /\ IdleOff \in Off /\ IdleOff.pc = "idle" /\ IdleOff.rows = {}
  <1>1. NoBody \in Body
    BY DEF NoBody, Body
  <1> QED BY <1>1 DEF Idle, Patch, IdleOff, Off

\* A statement turns to something that is left, if there is any.
LEMMA NextOfFacts ==
    ASSUME NEW D \in SUBSET Date, NEW d \in NextOf(D)
    PROVE  d \in Date \cup {Null} /\ (d # Null => d \in D) /\ (d = Null => D = {})
  <1>1. Null \notin Date
    BY RecordsAssumption
  <1> QED BY <1>1 DEF NextOf

\* The profile that a PATCH leaves.
LEMMA UpdatedFacts ==
    ASSUME TypeOK, ProfileInv, PatchInv, NEW r \in Patching, NEW e, e = patch[r].emp
    PROVE  /\ e \in Employee
           /\ Updated(r) \in Profile /\ Updated(r).st = profile[e].st
           /\ Updated(r).type \in RateType /\ Updated(r).amount \in Amount
           /\ "type" \in patch[r].dirty => Updated(r).type = patch[r].type
           /\ "type" \notin patch[r].dirty => Updated(r).type = profile[e].type
           /\ "amount" \in patch[r].dirty => Updated(r).amount = patch[r].amount
           /\ "amount" \notin patch[r].dirty => Updated(r).amount = profile[e].amount
  <1>1. /\ e \in Employee /\ profile[e].st # "none"
        /\ patch[r].type \in RateType /\ patch[r].amount \in Amount
    BY DEF PatchInv, PatchFits, Patching
  <1>2. profile[e] \in Profile /\ profile[e].type \in RateType /\ profile[e].amount \in Amount
    BY <1>1 DEF TypeOK, ProfileInv
  <1> DEFINE t == IF "type" \in patch[r].dirty THEN patch[r].type ELSE profile[e].type
             a == IF "amount" \in patch[r].dirty THEN patch[r].amount ELSE profile[e].amount
  <1>3. t \in RateType /\ a \in Amount
    BY <1>1, <1>2
  <1>4. Updated(r) = [profile[e] EXCEPT !.type = t, !.amount = a]
    BY DEF Updated
  <1>6. /\ Updated(r) \in Profile /\ Updated(r).st = profile[e].st
        /\ Updated(r).type = t /\ Updated(r).amount = a
    <2> HIDE DEF t, a
    <2> QED BY <1>2, <1>3, <1>4 DEF Profile
  <1> QED BY <1>1, <1>3, <1>6

\* COMMIT, for the PATCH and for the ones it overtakes.
LEMMA CommittedFacts ==
    ASSUME TypeOK, ProfileInv, PatchInv, NEW r \in Patching, Committed(r), NEW e, e = patch[r].emp
    PROVE  /\ e \in Employee
           /\ profile' \in [Employee -> Profile]
           /\ profile'[e] = Updated(r)
           /\ \A f \in Employee : f # e => profile'[f] = profile[f]
           /\ \A f \in Employee : profile'[f].st = profile[f].st
           /\ had'[e] = had[e] \cup {<<Updated(r).type, Updated(r).amount>>}
           /\ \A f \in Employee : f # e => had'[f] = had[f]
           /\ writes' = writes + 1
           /\ patch' \in [PatchReq -> Patch]
           /\ patch'[r].pc = "idle" /\ patch'[r].rows = {} /\ patch'[r].done = {}
           /\ patch'[r].at = Null /\ patch'[r].ok
           /\ \A q \in PatchReq \ {r} :
                /\ patch'[q] \in Patch
                /\ patch'[q].pc = patch[q].pc /\ patch'[q].rows = patch[q].rows
                /\ patch'[q].ok = patch[q].ok /\ patch'[q].emp = patch[q].emp
                /\ patch'[q].body = patch[q].body /\ patch'[q].type = patch[q].type
                /\ patch'[q].amount = patch[q].amount /\ patch'[q].dirty = patch[q].dirty
                /\ patch'[q].at = patch[q].at /\ patch'[q].done = patch[q].done
                /\ patch[q].overtaken \/ patch[q].emp = e => patch'[q].overtaken
                /\ patch'[q].overtaken => patch[q].overtaken \/ patch[q].emp = e
  <1>1. /\ e \in Employee /\ Updated(r) \in Profile /\ Updated(r).st = profile[e].st
    BY UpdatedFacts
  <1>2. /\ profile' = [profile EXCEPT ![e] = Updated(r)]
        /\ had' = [had EXCEPT ![e] = @ \cup {<<Updated(r).type, Updated(r).amount>>}]
        /\ writes' = writes + 1
        /\ patch' = [q \in PatchReq |->
              IF q = r THEN [Idle EXCEPT !.ok = TRUE]
              ELSE [patch[q] EXCEPT !.overtaken = @ \/ patch[q].emp = e]]
    BY DEF Committed
  <1>3. r \in PatchReq /\ \A q \in PatchReq : patch[q] \in Patch
    BY DEF TypeOK, Patching
  <1>4. /\ patch'[r] \in Patch /\ patch'[r].pc = "idle" /\ patch'[r].rows = {}
        /\ patch'[r].done = {} /\ patch'[r].at = Null /\ patch'[r].ok
    <2>1. patch'[r] = [Idle EXCEPT !.ok = TRUE]
      BY <1>2, <1>3
    <2>2. /\ patch'[r] \in Patch /\ patch'[r].pc = "idle" /\ patch'[r].rows = {}
          /\ patch'[r].done = {} /\ patch'[r].at = Null /\ patch'[r].ok = TRUE
      BY <2>1, IdleTyped DEF Patch
    <2> QED BY <2>2
  <1>5. ASSUME NEW q \in PatchReq \ {r}
        PROVE  /\ patch'[q] \in Patch
               /\ patch'[q].pc = patch[q].pc /\ patch'[q].rows = patch[q].rows
               /\ patch'[q].ok = patch[q].ok /\ patch'[q].emp = patch[q].emp
               /\ patch'[q].body = patch[q].body /\ patch'[q].type = patch[q].type
               /\ patch'[q].amount = patch[q].amount /\ patch'[q].dirty = patch[q].dirty
               /\ patch'[q].at = patch[q].at /\ patch'[q].done = patch[q].done
               /\ patch[q].overtaken \/ patch[q].emp = e => patch'[q].overtaken
               /\ patch'[q].overtaken => patch[q].overtaken \/ patch[q].emp = e
    <2>1. patch'[q] = [patch[q] EXCEPT !.overtaken = @ \/ patch[q].emp = e]
      BY <1>2
    <2>2. patch[q] \in Patch
      BY <1>3
    <2> DEFINE b == patch[q].overtaken \/ patch[q].emp = e
    <2>3. patch'[q] = [patch[q] EXCEPT !.overtaken = b] /\ b \in BOOLEAN
      BY <2>1
    <2>4. (b => patch[q].overtaken \/ patch[q].emp = e) /\ (patch[q].overtaken \/ patch[q].emp = e => b)
      OBVIOUS
    <2> HIDE DEF b
    <2>5. /\ patch'[q] \in Patch
          /\ patch'[q].pc = patch[q].pc /\ patch'[q].rows = patch[q].rows
          /\ patch'[q].ok = patch[q].ok /\ patch'[q].emp = patch[q].emp
          /\ patch'[q].body = patch[q].body /\ patch'[q].type = patch[q].type
          /\ patch'[q].amount = patch[q].amount /\ patch'[q].dirty = patch[q].dirty
          /\ patch'[q].at = patch[q].at /\ patch'[q].done = patch[q].done
          /\ patch'[q].overtaken = b
      BY <2>2, <2>3 DEF Patch
    <2> QED BY <2>4, <2>5
  <1>6. patch' \in [PatchReq -> Patch]
    <2>1. \A q \in PatchReq : patch'[q] \in Patch
      BY <1>4, <1>5
    <2>2. patch' = [q \in PatchReq |-> patch'[q]]
      BY <1>2
    <2> QED BY <2>1, <2>2
  <1>7. /\ profile' \in [Employee -> Profile] /\ profile'[e] = Updated(r)
        /\ \A f \in Employee : f # e => profile'[f] = profile[f]
        /\ had'[e] = had[e] \cup {<<Updated(r).type, Updated(r).amount>>}
        /\ \A f \in Employee : f # e => had'[f] = had[f]
    BY <1>1, <1>2 DEF TypeOK
  <1>8. (\A f \in Employee : profile'[f].st = profile[f].st) /\ writes' = writes + 1
    BY <1>1, <1>2, <1>7
  <1> QED BY <1>1, <1>4, <1>5, <1>6, <1>7, <1>8

\* The schedule that a PATCH leaves: the days of the body are new...
LEMMA NewDay ==
    ASSUME TypeOK, PatchInv, NEW r \in Patching, writes + 1 \in Id,
           NEW d \in Date, d \in patch[r].body.dates, NEW n, n = NewSchedule(r)[d]
    PROVE  /\ n \in DayRow /\ n # Null
           /\ n.type = patch[r].type /\ n.amount = patch[r].amount
           /\ n.id = writes + 1 /\ n.seen = {x[2] : x \in patch[r].rows}
           /\ n.overtaken = patch[r].overtaken
  <1>1. /\ patch[r].type \in RateType /\ patch[r].amount \in Amount
        /\ patch[r].overtaken \in BOOLEAN /\ patch[r].rows \subseteq Date \X Id
    BY DEF PatchInv, PatchFits, Patching, TypeOK, Patch
  <1>2. {x[2] : x \in patch[r].rows} \subseteq Id
    BY <1>1
  <1>3. n = [type |-> patch[r].type, amount |-> patch[r].amount, id |-> writes + 1,
             seen |-> {x[2] : x \in patch[r].rows}, overtaken |-> patch[r].overtaken]
    BY DEF NewSchedule
  <1>4. n \in DayRow
    BY <1>1, <1>2, <1>3 DEF DayRow
  <1>5. n # Null
    BY <1>4, NullAssumption
  <1> QED BY <1>3, <1>4, <1>5

\* ... and of the others those are left that the DELETE has not found.
LEMMA KeptDay ==
    ASSUME NEW r, NEW e, e = patch[r].emp, NEW d \in Date, d \notin patch[r].body.dates,
           NewSchedule(r)[d] # Null
    PROVE  NewSchedule(r)[d] = sched[e][d] /\ <<d, sched[e][d].id>> \notin patch[r].rows
  BY DEF NewSchedule, Found

----------------------------------------------------------------------------
\* The request has come so far, and is otherwise what it was.
Becomes(r, pc, rows, at, done) ==
    /\ patch' \in [PatchReq -> Patch]
    /\ \A q \in PatchReq : q # r => patch'[q] = patch[q]
    /\ patch'[r].emp = patch[r].emp /\ patch'[r].body = patch[r].body
    /\ patch'[r].type = patch[r].type /\ patch'[r].amount = patch[r].amount
    /\ patch'[r].dirty = patch[r].dirty /\ patch'[r].overtaken = patch[r].overtaken
    /\ patch'[r].pc = pc /\ patch'[r].rows = rows /\ patch'[r].at = at /\ patch'[r].done = done

Stops(r) ==
    /\ patch' \in [PatchReq -> Patch]
    /\ \A q \in PatchReq : q # r => patch'[q] = patch[q]
    /\ patch'[r] = Idle

\* A PATCH goes on, or fails, without a commit.
Advances(r, p) ==
    \/ PatchUser(r) /\ Becomes(r, "user", p.rows, p.at, p.done)
    \/ PatchFlush(r) /\ Becomes(r, "flushed", p.rows, p.at, p.done)
    \/ /\ PatchDelete(r)
       /\ \E d \in NextOf(DatesOf(RowsOf(p.emp))) :
             Becomes(r, "deleting", RowsOf(p.emp), d, p.done)
    \/ /\ PatchTakes(r)
       /\ \E d \in NextOf(DatesOf(p.rows) \ (p.done \cup {p.at})) :
             Becomes(r, "deleting", p.rows, d, p.done \cup {p.at})
    \/ /\ PatchDeleted(r)
       /\ \E d \in NextOf(p.body.dates) : Becomes(r, "inserting", p.rows, d, {})
    \/ /\ PatchInserts(r)
       /\ \E d \in NextOf(p.body.dates \ (p.done \cup {p.at})) :
             Becomes(r, "inserting", p.rows, d, p.done \cup {p.at})
    \/ PatchInserted(r) /\ Becomes(r, "inserted", p.rows, p.at, p.done)

Moves(r) ==
    /\ UNCHANGED <<profile, sched, writes, had>>
    /\ patch[r].pc # "idle"
    /\ Stops(r) \/ Advances(r, patch[r])

\* What PatchLoad reads.
Loads(r, e, b) ==
    /\ UNCHANGED <<profile, sched, writes, had>>
    /\ patch[r].pc = "idle" /\ profile[e].st = "row"
    /\ Serial => \A q \in Patching : patch[q].emp # e
    /\ RoomToWrite
    /\ patch' \in [PatchReq -> Patch]
    /\ \A q \in PatchReq : q # r => patch'[q] = patch[q]
    /\ patch'[r].pc = "loaded" /\ patch'[r].emp = e /\ patch'[r].body = b
    /\ patch'[r].rows = {} /\ patch'[r].overtaken = FALSE
    /\ patch'[r].at = Null /\ patch'[r].done = {}
    /\ patch'[r].type = Value(b.type, profile[e].type)
    /\ patch'[r].amount = Value(b.amount, profile[e].amount)
    /\ "type" \in patch'[r].dirty <=> b.type \notin {Keep, profile[e].type}
    /\ "amount" \in patch'[r].dirty <=> b.amount \notin {Keep, profile[e].amount}

\* What stays of a request under way.
Keeps(n, p) ==
    /\ n.emp = p.emp /\ n.body = p.body /\ n.type = p.type /\ n.amount = p.amount
    /\ n.dirty = p.dirty /\ n.overtaken = p.overtaken

\* An update of the other fields.
LEMMA BecomesFacts ==
    ASSUME TypeOK, NEW r \in PatchReq, NEW n \in Patch, Keeps(n, patch[r]),
           patch' = [patch EXCEPT ![r] = n]
    PROVE  Becomes(r, n.pc, n.rows, n.at, n.done)
  <1>1. patch' \in [PatchReq -> Patch] /\ patch'[r] = n /\ \A q \in PatchReq : q # r => patch'[q] = patch[q]
    BY DEF TypeOK
  <1> QED BY <1>1 DEF Becomes, Keeps

\* The fields of a request are of their types.
LEMMA PatchTyped ==
    ASSUME TypeOK, PatchInv, NEW r \in PatchReq
    PROVE  /\ patch[r] \in Patch /\ patch[r].rows \in SUBSET (Date \X Id)
           /\ patch[r].at \in Date \cup {Null} /\ patch[r].done \in SUBSET Date
           /\ DatesOf(patch[r].rows) \in SUBSET Date
           /\ patch[r].pc \notin {"idle", "loaded", "user"} => patch[r].body.dates \in SUBSET Date
           /\ patch[r].pc # "idle" => patch[r].emp \in Employee
  <1>1. patch[r] \in Patch
    BY DEF TypeOK
  <1>2. patch[r].rows \in SUBSET (Date \X Id) /\ patch[r].body.dates \in (SUBSET Date) \cup {Keep}
    BY <1>1 DEF Patch, Body
  <1>3. DatesOf(patch[r].rows) \in SUBSET Date
    BY <1>2 DEF DatesOf
  <1> QED BY <1>1, <1>2, <1>3 DEF PatchInv, PatchFits, Patch

\* Abort, or a 500.
LEMMA StopsFacts ==
    ASSUME TypeOK, NEW r \in PatchReq, patch' = Answered(r)
    PROVE  Stops(r)
  <1> HIDE DEF Idle
  <1> QED BY IdleTyped DEF Answered, Stops, TypeOK

\* The steps between a load and a commit are moves.
LEMMA MoveSteps ==
    ASSUME TypeOK, PatchInv, NEW r \in PatchReq,
           \/ PatchUser(r) \/ PatchFlush(r) \/ PatchDelete(r) \/ PatchTakes(r)
           \/ PatchDeleted(r) \/ PatchInserts(r) \/ PatchInserted(r) \/ PatchFails(r)
           \/ patch[r].pc # "idle" /\ patch' = Answered(r)
              /\ UNCHANGED <<profile, sched, writes, had>>
    PROVE  Moves(r)
  <1> DEFINE p == patch[r]
  <1>1. /\ p \in Patch /\ p.rows \in SUBSET (Date \X Id)
        /\ p.at \in Date \cup {Null} /\ p.done \in SUBSET Date /\ DatesOf(p.rows) \in SUBSET Date
        /\ p.pc \notin {"idle", "loaded", "user"} => p.body.dates \in SUBSET Date
    BY PatchTyped
  <1>2. ASSUME NEW c \in {"user", "flushed", "inserted"}, patch' = [patch EXCEPT ![r].pc = c]
        PROVE  Becomes(r, c, p.rows, p.at, p.done)
    <2> DEFINE n == [p EXCEPT !.pc = c]
    <2>1. n \in Patch /\ Keeps(n, p) /\ n.pc = c /\ n.rows = p.rows /\ n.at = p.at /\ n.done = p.done
      BY <1>1 DEF Patch, Keeps
    <2>2. patch' = [patch EXCEPT ![r] = n]
      BY <1>2
    <2> HIDE DEF n
    <2>3. Becomes(r, n.pc, n.rows, n.at, n.done)
      BY <2>1, <2>2, BecomesFacts
    <2> QED BY <2>1, <2>3
  <1>3. CASE PatchUser(r)
    <2>1. Becomes(r, "user", p.rows, p.at, p.done)
      BY <1>2, <1>3 DEF PatchUser
    <2> QED BY <1>3, <2>1 DEF PatchUser, Moves, Advances
  <1>4. CASE PatchFlush(r)
    <2>1. Becomes(r, "flushed", p.rows, p.at, p.done)
      BY <1>2, <1>4 DEF PatchFlush
    <2>2. p.pc # "idle"
      BY <1>4 DEF PatchFlush, ProfileNext
    <2> QED BY <1>4, <2>1, <2>2 DEF PatchFlush, Moves, Advances
  <1>5. CASE PatchDelete(r)
    <2> DEFINE rows == RowsOf(p.emp)
    <2>1. rows \in SUBSET (Date \X Id) /\ p.pc = "flushed"
      BY <1>5, RowsOfFacts DEF PatchDelete, PatchInv, PatchFits
    <2>2. DatesOf(rows) \in SUBSET Date
      BY <2>1 DEF DatesOf
    <2>3. PICK d \in NextOf(DatesOf(rows)) :
             patch' = [patch EXCEPT ![r] = [p EXCEPT !.pc = "deleting", !.rows = rows, !.at = d]]
      BY <1>5 DEF PatchDelete
    <2>4. d \in Date \cup {Null}
      BY <2>2, NextOfFacts
    <2> HIDE DEF rows
    <2> DEFINE n == [p EXCEPT !.pc = "deleting", !.rows = rows, !.at = d]
    <2>5. /\ n \in Patch /\ Keeps(n, p) /\ n.pc = "deleting" /\ n.rows = rows /\ n.at = d
          /\ n.done = p.done
      BY <1>1, <2>1, <2>4 DEF Patch, Keeps
    <2>6. patch' = [patch EXCEPT ![r] = n]
      BY <2>3
    <2> HIDE DEF n
    <2>7. Becomes(r, "deleting", rows, d, p.done)
      BY <2>5, <2>6, BecomesFacts
    <2> QED BY <1>5, <2>1, <2>3, <2>7 DEF PatchDelete, Moves, Advances, rows
  <1>6. ASSUME NEW d \in Date \cup {Null}, p.at # Null,
               patch' = [patch EXCEPT ![r] = [p EXCEPT !.done = p.done \cup {p.at}, !.at = d]]
        PROVE  Becomes(r, p.pc, p.rows, d, p.done \cup {p.at})
    <2> DEFINE done == p.done \cup {p.at}
               n == [p EXCEPT !.done = done, !.at = d]
    <2>1. done \in SUBSET Date
      BY <1>1, <1>6
    <2>2. patch' = [patch EXCEPT ![r] = n]
      BY <1>6
    <2> HIDE DEF done
    <2>3. n \in Patch /\ Keeps(n, p) /\ n.pc = p.pc /\ n.rows = p.rows /\ n.at = d /\ n.done = done
      BY <1>1, <2>1 DEF Patch, Keeps
    <2> HIDE DEF n
    <2>4. Becomes(r, n.pc, n.rows, n.at, n.done)
      BY <2>2, <2>3, BecomesFacts
    <2> QED BY <2>3, <2>4 DEF done
  <1>7. CASE PatchTakes(r)
    <2>1. PICK d \in NextOf(DatesOf(p.rows) \ (p.done \cup {p.at})) :
             patch' = [patch EXCEPT ![r] = [p EXCEPT !.done = p.done \cup {p.at}, !.at = d]]
      BY <1>7 DEF PatchTakes
    <2>2. d \in Date \cup {Null} /\ p.pc = "deleting" /\ p.at # Null
      BY <1>1, <1>7, NextOfFacts DEF PatchTakes
    <2>3. Becomes(r, "deleting", p.rows, d, p.done \cup {p.at})
      BY <1>6, <2>1, <2>2
    <2>4. UNCHANGED <<profile, sched, writes, had>>
      BY <1>7 DEF PatchTakes
    <2> QED BY <1>7, <2>1, <2>2, <2>3, <2>4 DEF Moves, Advances
  <1>8. CASE PatchDeleted(r)
    <2>1. PICK d \in NextOf(p.body.dates) :
             patch' = [patch EXCEPT ![r] = [p EXCEPT !.pc = "inserting", !.done = {}, !.at = d]]
      BY <1>8 DEF PatchDeleted
    <2>2. d \in Date \cup {Null} /\ p.pc = "deleting"
      BY <1>1, <1>8, NextOfFacts DEF PatchDeleted
    <2> DEFINE n == [p EXCEPT !.pc = "inserting", !.done = {}, !.at = d]
    <2>3. /\ n \in Patch /\ Keeps(n, p) /\ n.pc = "inserting" /\ n.rows = p.rows /\ n.at = d
          /\ n.done = {}
      BY <1>1, <2>2 DEF Patch, Keeps
    <2>4. patch' = [patch EXCEPT ![r] = n]
      BY <2>1
    <2> HIDE DEF n
    <2>5. Becomes(r, "inserting", p.rows, d, {})
      BY <2>3, <2>4, BecomesFacts
    <2>6. UNCHANGED <<profile, sched, writes, had>>
      BY <1>8 DEF PatchDeleted
    <2> QED BY <1>8, <2>1, <2>2, <2>5, <2>6 DEF Moves, Advances
  <1>9. CASE PatchInserts(r)
    <2>1. PICK d \in NextOf(p.body.dates \ (p.done \cup {p.at})) :
             patch' = [patch EXCEPT ![r] = [p EXCEPT !.done = p.done \cup {p.at}, !.at = d]]
      BY <1>9 DEF PatchInserts
    <2>2. p.pc = "inserting" /\ p.at # Null
      BY <1>9 DEF PatchInserts
    <2>3. d \in Date \cup {Null}
      BY <1>1, <2>2, NextOfFacts
    <2>4. Becomes(r, "inserting", p.rows, d, p.done \cup {p.at})
      BY <1>6, <2>1, <2>2, <2>3
    <2>5. UNCHANGED <<profile, sched, writes, had>>
      BY <1>9 DEF PatchInserts
    <2> QED BY <1>9, <2>1, <2>2, <2>4, <2>5 DEF Moves, Advances
  <1>10. CASE PatchInserted(r)
    <2>1. Becomes(r, "inserted", p.rows, p.at, p.done)
      BY <1>2, <1>10 DEF PatchInserted
    <2> QED BY <1>10, <2>1 DEF PatchInserted, Moves, Advances
  <1>11. ASSUME p.pc # "idle", patch' = Answered(r), UNCHANGED <<profile, sched, writes, had>>
         PROVE  Moves(r)
    BY <1>11, StopsFacts DEF Moves
  <1>12. CASE PatchFails(r)
    <2>1. p.pc # "idle"
      BY <1>12 DEF PatchFails, LostProfile
    <2> QED BY <1>11, <1>12, <2>1 DEF PatchFails
  <1> QED BY <1>3, <1>4, <1>5, <1>7, <1>8, <1>9, <1>10, <1>11, <1>12

\* A move is of one PATCH. It ends, or keeps what it was asked for, and the rows it has
\* found unless it has only now looked.
LEMMA MovesFacts ==
    ASSUME NEW r \in PatchReq, Moves(r)
    PROVE  /\ UNCHANGED <<profile, sched, writes, had>>
           /\ patch[r].pc # "idle"
           /\ patch' \in [PatchReq -> Patch]
           /\ \A q \in PatchReq : q # r => patch'[q] = patch[q]
           /\ \/ patch'[r] = Idle
              \/ /\ patch'[r].emp = patch[r].emp /\ patch'[r].body = patch[r].body
                 /\ patch'[r].type = patch[r].type /\ patch'[r].amount = patch[r].amount
                 /\ patch'[r].dirty = patch[r].dirty /\ patch'[r].overtaken = patch[r].overtaken
                 /\ patch'[r].pc \notin {"idle", "loaded"}
                 /\ patch'[r].pc \notin {"loaded", "user"} => patch[r].body.dates # Keep
                                                \/ patch[r].pc \notin {"loaded", "user"}
                 /\ \/ patch'[r].pc \in {"user", "flushed"} /\ patch'[r].rows = patch[r].rows
                    \/ patch[r].pc = "flushed" /\ patch'[r].pc = "deleting"
                       /\ patch'[r].rows = RowsOf(patch[r].emp)
                    \/ patch[r].pc \in {"deleting", "inserting"} /\ patch'[r].rows = patch[r].rows
  <1>1. CASE Stops(r)
    BY <1>1 DEF Moves, Stops
  <1>2. CASE Advances(r, patch[r])
    BY <1>2 DEF Moves, Advances, Becomes, PatchUser, PatchFlush, PatchDelete, PatchTakes,
        PatchDeleted, PatchInserts, PatchInserted
  <1> QED BY <1>1, <1>2 DEF Moves

\* PatchLoad sets what the body names and compares it with what it has loaded.
LEMMA LoadSteps ==
    ASSUME TypeOK, ProfileInv, NEW r \in PatchReq, NEW e \in Employee, NEW b \in Bodies,
           PatchLoad(r, e, b)
    PROVE  Loads(r, e, b)
  <1> DEFINE D == {f \in {"type", "amount"} : b[f] \notin {Keep, profile[e][f]}}
             t == Value(b.type, profile[e].type)
             a == Value(b.amount, profile[e].amount)
             p == [pc |-> "loaded", emp |-> e, body |-> b, type |-> t, amount |-> a, dirty |-> D,
                   rows |-> {}, at |-> Null, done |-> {}, overtaken |-> FALSE, ok |-> FALSE]
  <1>1. b \in Body
    BY RecordsAssumption
  <1>2. t \in RateType /\ a \in Amount
    BY <1>1 DEF PatchLoad, ProfileInv, Value, Body
  <1>3. /\ D \subseteq {"type", "amount"}
        /\ "type" \in D <=> b.type \notin {Keep, profile[e].type}
        /\ "amount" \in D <=> b.amount \notin {Keep, profile[e].amount}
    OBVIOUS
  <1>4. patch' = [patch EXCEPT ![r] = p]
    BY DEF PatchLoad
  <1> HIDE DEF D, t, a
  <1>5. p \in Patch
    BY <1>1, <1>2, <1>3 DEF Patch
  <1>6. patch' \in [PatchReq -> Patch] /\ patch'[r] = p /\ \A q \in PatchReq : q # r => patch'[q] = patch[q]
    BY <1>4, <1>5 DEF TypeOK
  <1> QED BY <1>3, <1>6 DEF PatchLoad, Loads, t, a

\* A PATCH takes up to one number, and there is one.
LEMMA RoomToCommit ==
    ASSUME TypeOK, CapInv, NEW r \in Patching
    PROVE  writes + 1 \in Id
  <1>1. IsFiniteSet(Patching)
    BY RecordsAssumption, FS_Subset DEF Patching
  <1>2. Cardinality(Patching) \in Nat /\ Cardinality(Patching) # 0
    BY <1>1, FS_CardinalityType, FS_EmptySet
  <1>3. writes \in Nat /\ MaxWrites \in Nat
    BY RecordsAssumption DEF TypeOK, Id
  <1>4. writes + Cardinality(Patching) <= MaxWrites
    BY DEF CapInv
  <1> DEFINE n == Cardinality(Patching)
  <1>5. n \in Nat /\ n # 0 /\ writes + n <= MaxWrites
    BY <1>2, <1>4
  <1> HIDE DEF n
  <1>6. writes + 1 \in 0..MaxWrites
    BY <1>3, <1>5
  <1> QED BY <1>6 DEF Id

\* Who waits is under way, and so is who is waited for, with the same employee.
LEMMA WaitersWait ==
    ASSUME NEW r \in Request, WaitsFor(r) # {}
    PROVE  IF r \in PatchReq THEN patch[r].pc # "idle" ELSE r \in OffReq /\ off[r].pc # "idle"
  <1>1. CASE r \in PatchReq
    BY <1>1 DEF WaitsFor, PatchWaitsFor, ProfileNext
  <1>2. CASE r \notin PatchReq
    BY <1>2 DEF WaitsFor, OffWaitsFor, Request
  <1> QED BY <1>1, <1>2

\* An abort leaves the tables as they are.
LEMMA AbortFacts ==
    ASSUME TypeOK, PatchInv, NEW r \in Request, BreakDeadlock(r)
    PROVE  \/ r \in PatchReq /\ Moves(r) /\ Stops(r) /\ UNCHANGED off
           \/ /\ r \in OffReq /\ off[r].pc # "idle" /\ off' = [off EXCEPT ![r] = IdleOff]
              /\ UNCHANGED <<profile, sched, patch, writes, had>>
  <1>1. PICK S \in SUBSET Waiting : r \in S
    BY DEF BreakDeadlock
  <1>2. WaitsFor(r) # {}
    BY <1>1 DEF Waiting
  <1>3. IF r \in PatchReq THEN patch[r].pc # "idle" ELSE r \in OffReq /\ off[r].pc # "idle"
    BY <1>2, WaitersWait
  <1>4. CASE r \in PatchReq /\ patch' = Answered(r) /\ UNCHANGED off
    <2>1. UNCHANGED <<profile, sched, writes, had>>
      BY DEF BreakDeadlock
    <2>2. Moves(r)
      BY <1>3, <1>4, <2>1, MoveSteps
    <2> QED BY <1>4, <2>2, StopsFacts
  <1>5. CASE r \in OffReq /\ off' = [off EXCEPT ![r] = IdleOff] /\ UNCHANGED patch
    <2>1. UNCHANGED <<profile, sched, writes, had>>
      BY DEF BreakDeadlock
    <2>2. off[r].pc # "idle"
      BY <1>3, <1>5, RecordsAssumption
    <2> QED BY <1>5, <2>1, <2>2
  <1> QED BY <1>4, <1>5 DEF BreakDeadlock

\* All that a step can be.
LEMMA StepCases ==
    ASSUME TypeOK, ProfileInv, PatchInv, [Next]_vars
    PROVE  \/ \E e \in Employee, t \in RateType, a \in Amount, D \in Plans : CreateEmployee(e, t, a, D)
           \/ \E r \in PatchReq, e \in Employee, b \in Bodies : Loads(r, e, b) /\ UNCHANGED off
           \/ \E r \in PatchReq : Moves(r) /\ UNCHANGED off
           \/ \E r \in PatchReq : PatchCommitSchedule(r) \/ PatchCommitRate(r)
           \/ \E r \in OffReq : OffCommit(r)
           \/ UNCHANGED <<profile, sched, patch, writes, had>>
  <1>1. ASSUME NEW p \in Request, BreakDeadlock(p)
        PROVE  \/ p \in PatchReq /\ Moves(p) /\ UNCHANGED off
               \/ UNCHANGED <<profile, sched, patch, writes, had>>
    BY <1>1, AbortFacts
  <1>2. ASSUME NEW r \in PatchReq, NEW e \in Employee, NEW b \in Bodies, PatchLoad(r, e, b)
        PROVE  Loads(r, e, b) /\ UNCHANGED off
    BY <1>2, LoadSteps DEF PatchLoad
  <1>3. ASSUME NEW r \in PatchReq,
               \/ PatchUser(r) \/ PatchFlush(r) \/ PatchDelete(r) \/ PatchTakes(r)
               \/ PatchDeleted(r) \/ PatchInserts(r) \/ PatchInserted(r) \/ PatchFails(r)
        PROVE  Moves(r) /\ UNCHANGED off
    <2>1. Moves(r)
      BY <1>3, MoveSteps
    <2>2. UNCHANGED off
      BY <1>3 DEF PatchUser, PatchFlush, PatchDelete, PatchTakes, PatchDeleted, PatchInserts,
          PatchInserted, PatchFails
    <2> QED BY <2>1, <2>2
  <1>4. ASSUME NEW r \in OffReq,
               \/ \E e \in Employee : OffDeletesRows(r, e)
               \/ OffTakes(r) \/ OffHasRows(r) \/ OffHasProfile(r) \/ OffFails(r)
        PROVE  UNCHANGED <<profile, sched, patch, writes, had>>
    BY <1>4 DEF OffDeletesRows, OffTakes, OffHasRows, OffHasProfile, OffFails
  <1> QED BY <1>1, <1>2, <1>3, <1>4 DEF Next, vars, PatchStep, OffStep

\* The steps that write a table; loading and waiting write none.
LEMMA TableSteps ==
    ASSUME TypeOK, ProfileInv, PatchInv, [Next]_vars
    PROVE  \/ \E e \in Employee, t \in RateType, a \in Amount, D \in Plans : CreateEmployee(e, t, a, D)
           \/ \E r \in PatchReq : PatchCommitSchedule(r) \/ PatchCommitRate(r)
           \/ \E r \in OffReq : OffCommit(r)
           \/ UNCHANGED <<profile, sched, writes, had>>
  <1>1. ASSUME NEW r \in PatchReq, NEW e \in Employee, NEW b \in Bodies, Loads(r, e, b)
        PROVE  UNCHANGED <<profile, sched, writes, had>>
    BY <1>1 DEF Loads
  <1>2. ASSUME NEW r \in PatchReq, Moves(r)
        PROVE  UNCHANGED <<profile, sched, writes, had>>
    BY <1>2, MovesFacts
  <1> QED BY <1>1, <1>2, StepCases

\* The numbers suffice.
LEMMA CapStep ==
    ASSUME TypeOK, ProfileInv, PatchInv, CapInv, [Next]_vars
    PROVE  CapInv'
  <1>1. IsFiniteSet(Patching) /\ Cardinality(Patching) \in Nat
    BY RecordsAssumption, FS_Subset, FS_CardinalityType DEF Patching
  <1>2. writes \in Nat /\ MaxWrites \in Nat
    BY RecordsAssumption DEF TypeOK, Id
  <1>3. ASSUME NEW e \in Employee, NEW t \in RateType, NEW a \in Amount, NEW D \in Plans,
               CreateEmployee(e, t, a, D)
        PROVE  CapInv'
    <2>1. Patching' = Patching /\ writes' = writes + 1 /\ writes + Cardinality(Patching) < MaxWrites
      BY <1>3 DEF CreateEmployee, Patching, RoomToWrite
    <2> QED BY <1>1, <1>2, <2>1 DEF CapInv
  <1>4. ASSUME NEW r \in PatchReq, NEW e \in Employee, NEW b \in Bodies, Loads(r, e, b)
        PROVE  CapInv'
    <2>1. Patching' = Patching \cup {r} /\ r \notin Patching
      BY <1>4 DEF Loads, Patching
    <2>2. Cardinality(Patching') = Cardinality(Patching) + 1
      BY <1>1, <2>1, FS_AddElement
    <2> QED BY <1>1, <1>2, <1>4, <2>2 DEF CapInv, Loads, RoomToWrite
  <1>5. ASSUME NEW r \in PatchReq
        PROVE  /\ Cardinality(Patching) <= Cardinality(Patching)
               /\ Cardinality(Patching \ {r}) <= Cardinality(Patching)
    <2>1. Cardinality(Patching \ {r}) =
            IF r \in Patching THEN Cardinality(Patching) - 1 ELSE Cardinality(Patching)
      BY <1>1, FS_RemoveElement
    <2> QED BY <1>1, <2>1
  <1>6. ASSUME NEW r \in PatchReq, Moves(r)
        PROVE  CapInv'
    <2>1. Patching' = Patching \/ Patching' = Patching \ {r}
      BY <1>6, MovesFacts, IdleTyped DEF Patching
    <2>2. Cardinality(Patching') \in Nat
      BY <1>1, <2>1, FS_RemoveElement, FS_CardinalityType
    <2>3. Cardinality(Patching') <= Cardinality(Patching)
      BY <1>5, <2>1
    <2> QED BY <1>1, <1>2, <1>6, <2>2, <2>3, MovesFacts DEF CapInv
  <1>7. ASSUME NEW r \in PatchReq, PatchCommitSchedule(r) \/ PatchCommitRate(r)
        PROVE  CapInv'
    <2>1. r \in Patching /\ Committed(r)
      BY <1>7 DEF PatchCommitSchedule, PatchCommitRate, ProfileNext, Patching
    <2>2. writes' = writes + 1 /\ patch'[r].pc = "idle"
          /\ \A q \in PatchReq \ {r} : patch'[q].pc = patch[q].pc
      BY <2>1, CommittedFacts
    <2>3. Patching' = Patching \ {r}
      BY <2>2 DEF Patching
    <2>4. Cardinality(Patching') = Cardinality(Patching) - 1
      BY <1>1, <2>1, <2>3, FS_RemoveElement
    <2> QED BY <1>1, <1>2, <2>2, <2>4 DEF CapInv
  <1>8. ASSUME UNCHANGED <<patch, writes>>
        PROVE  CapInv'
    BY <1>8 DEF CapInv, Patching
  <1> QED BY <1>3, <1>4, <1>6, <1>7, <1>8, StepCases DEF OffCommit

----------------------------------------------------------------------------
\* Who is hired comes with a rate and days at it.
LEMMA CreateFacts ==
    ASSUME TypeOK, CapInv, NEW e \in Employee, NEW t \in RateType, NEW a \in Amount,
           NEW D \in Plans, CreateEmployee(e, t, a, D)
    PROVE  /\ writes' = writes + 1 /\ writes + 1 \in Id
           /\ profile' \in [Employee -> Profile]
           /\ profile[e].st = "none" /\ profile'[e].st = "row"
           /\ profile'[e].type = t /\ profile'[e].amount = a
           /\ \A f \in Employee : f # e => profile'[f] = profile[f]
           /\ \A f \in Employee : f # e => sched'[f] = sched[f]
           /\ \A f \in Employee : f # e => had'[f] = had[f]
           /\ had' \in [Employee -> SUBSET Rate] /\ had'[e] = {<<t, a>>}
           /\ sched' \in [Employee -> [Date -> DayRow \cup {Null}]]
  <1>1. IsFiniteSet(Patching) /\ Cardinality(Patching) \in Nat
    BY RecordsAssumption, FS_Subset, FS_CardinalityType DEF Patching
  <1>2. writes \in Nat /\ MaxWrites \in Nat
    BY RecordsAssumption DEF TypeOK, Id
  <1>3. writes + Cardinality(Patching) < MaxWrites
    BY DEF CreateEmployee, RoomToWrite
  <1>4. writes + 1 \in Id
    BY <1>1, <1>2, <1>3 DEF Id
  <1> DEFINE row == [type |-> t, amount |-> a, id |-> writes + 1, seen |-> {}, overtaken |-> FALSE]
  <1>5. row \in DayRow
    BY <1>4 DEF DayRow
  <1>6. sched' = [sched EXCEPT ![e] = [d \in Date |-> IF d \in D THEN row ELSE Null]]
    BY DEF CreateEmployee
  <1>7. [d \in Date |-> IF d \in D THEN row ELSE Null] \in [Date -> DayRow \cup {Null}]
    BY <1>5
  <1>8. /\ sched' \in [Employee -> [Date -> DayRow \cup {Null}]]
        /\ sched'[e] = [d \in Date |-> IF d \in D THEN row ELSE Null]
        /\ \A f \in Employee : f # e => sched'[f] = sched[f]
    BY <1>6, <1>7 DEF TypeOK
  <1>9. /\ profile[e].st = "none"
        /\ profile' = [profile EXCEPT ![e] = [st |-> "row", type |-> t, amount |-> a]]
        /\ writes' = writes + 1 /\ had' = [had EXCEPT ![e] = {<<t, a>>}]
    BY DEF CreateEmployee
  <1>10. [st |-> "row", type |-> t, amount |-> a] \in Profile /\ {<<t, a>>} \in SUBSET Rate
    BY DEF Profile, Rate
  <1> QED BY <1>4, <1>8, <1>9, <1>10 DEF TypeOK

\* Each of these days is a row of the first write of the employee.
LEMMA FirstDay ==
    ASSUME TypeOK, CapInv, NEW e \in Employee, NEW t \in RateType, NEW a \in Amount,
           NEW D \in Plans, CreateEmployee(e, t, a, D), NEW d \in Date
    PROVE  IF d \in D
           THEN /\ sched'[e][d].type = t /\ sched'[e][d].amount = a
                /\ sched'[e][d].id = writes + 1 /\ sched'[e][d].seen = {}
                /\ sched'[e][d] # Null
           ELSE sched'[e][d] = Null
  <1> DEFINE row == [type |-> t, amount |-> a, id |-> writes + 1, seen |-> {}, overtaken |-> FALSE]
  <1>1. sched'[e][d] = IF d \in D THEN row ELSE Null
    BY DEF CreateEmployee, TypeOK
  <1>2. row \in DayRow
    BY CreateFacts DEF DayRow
  <1>3. row # Null
    BY <1>2, NullAssumption
  <1> QED BY <1>1, <1>3

\* The commit of a schedule.
LEMMA CommitScheduleFacts ==
    ASSUME TypeOK, CapInv, PatchInv, NEW r \in PatchReq, PatchCommitSchedule(r),
           NEW e, e = patch[r].emp
    PROVE  /\ r \in Patching /\ Committed(r) /\ patch[r].pc = "inserted"
           /\ e \in Employee /\ profile[e].st = "row" /\ patch[r].body.dates # Keep
           /\ UNCHANGED off
           /\ sched' \in [Employee -> [Date -> DayRow \cup {Null}]]
           /\ sched'[e] = NewSchedule(r)
           /\ \A f \in Employee : f # e => sched'[f] = sched[f]
  <1>1. /\ r \in Patching /\ e \in Employee /\ patch[r].body.dates # Keep
    BY DEF PatchCommitSchedule, Patching, PatchInv, PatchFits
  <1>2. NewSchedule(r) \in [Date -> DayRow \cup {Null}]
    <2>1. ASSUME NEW d \in Date
          PROVE  NewSchedule(r)[d] \in DayRow \cup {Null}
      <3>1. CASE d \in patch[r].body.dates
        BY <1>1, <3>1, NewDay, RoomToCommit
      <3>2. CASE d \notin patch[r].body.dates
        <4>1. sched[e][d] \in DayRow \cup {Null}
          BY <1>1 DEF TypeOK
        <4>2. NewSchedule(r)[d] \in {Null, sched[e][d]}
          BY <3>2 DEF NewSchedule
        <4> QED BY <4>1, <4>2
      <3> QED BY <3>1, <3>2
    <2>2. NewSchedule(r) = [d \in Date |-> NewSchedule(r)[d]]
      BY DEF NewSchedule
    <2> QED BY <2>1, <2>2
  <1>3. sched' = [sched EXCEPT ![e] = NewSchedule(r)]
    BY DEF PatchCommitSchedule
  <1>4. /\ sched' \in [Employee -> [Date -> DayRow \cup {Null}]]
        /\ sched'[e] = NewSchedule(r) /\ \A f \in Employee : f # e => sched'[f] = sched[f]
    BY <1>1, <1>2, <1>3 DEF TypeOK
  <1> QED BY <1>1, <1>4 DEF PatchCommitSchedule

\* A deletion has begun, goes on, or has ended.
OffMoves(r) ==
    /\ off' \in [OffReq -> Off]
    /\ \A q \in OffReq : q # r => off'[q] = off[q]
    /\ \/ off'[r] = IdleOff
       \/ /\ \E e \in Employee : OffDeletesRows(r, e) /\ off'[r].emp = e /\ off'[r].rows = RowsOf(e)
          /\ off[r].pc = "idle" /\ off'[r].pc = "rows" /\ off'[r].done = {}
          /\ off'[r].at = Null => off'[r].rows = {}
       \/ /\ off'[r].emp = off[r].emp /\ off'[r].rows = off[r].rows
          /\ \/ /\ OffTakes(r) /\ off[r].pc = "rows" /\ off'[r].pc = "rows"
                /\ off'[r].done = off[r].done \cup {off[r].at}
                /\ off'[r].at = Null => DatesOf(off'[r].rows) \subseteq off'[r].done
             \/ /\ OffHasRows(r) /\ off[r].pc = "rows" /\ off'[r].pc = "profile"
                /\ off[r].at = Null
             \/ OffHasProfile(r) /\ off[r].pc = "profile" /\ off'[r].pc = "user"

\* The steps of a deletion.
LEMMA OffSteps ==
    ASSUME TypeOK, NEW r \in OffReq,
           \/ \E e \in Employee : OffDeletesRows(r, e)
           \/ OffStep(r) \/ off' = [off EXCEPT ![r] = IdleOff]
    PROVE  OffMoves(r)
  <1> DEFINE o == off[r]
  <1>1. /\ off \in [OffReq -> Off] /\ o \in Off
        /\ o.rows \in SUBSET (Date \X Id) /\ o.done \in SUBSET Date /\ o.at \in Date \cup {Null}
    BY DEF TypeOK, Off
  <1>2. ASSUME NEW n \in Off, off' = [off EXCEPT ![r] = n]
        PROVE  off' \in [OffReq -> Off] /\ off'[r] = n /\ \A q \in OffReq : q # r => off'[q] = off[q]
    BY <1>1, <1>2
  <1>3. CASE off' = [off EXCEPT ![r] = IdleOff]
    <2> HIDE DEF IdleOff
    <2> QED BY <1>2, <1>3, IdleTyped DEF OffMoves
  <1>4. ASSUME NEW e \in Employee, OffDeletesRows(r, e)
        PROVE  OffMoves(r)
    <2> DEFINE rows == RowsOf(e)
    <2>1. rows \in SUBSET (Date \X Id)
      BY RowsOfFacts
    <2>2. DatesOf(rows) \in SUBSET Date
      BY <2>1 DEF DatesOf
    <2>3. PICK d \in NextOf(DatesOf(rows)) :
             off' = [off EXCEPT ![r] = [pc |-> "rows", emp |-> e, rows |-> rows, at |-> d, done |-> {}]]
      BY <1>4 DEF OffDeletesRows
    <2>4. d \in Date \cup {Null} /\ (d = Null => DatesOf(rows) = {})
      BY <2>2, NextOfFacts
    <2>5. d = Null => rows = {}
      BY <2>4 DEF DatesOf
    <2> HIDE DEF rows
    <2> DEFINE n == [pc |-> "rows", emp |-> e, rows |-> rows, at |-> d, done |-> {}]
    <2>6. n \in Off /\ n.pc = "rows" /\ n.emp = e /\ n.rows = rows /\ n.at = d /\ n.done = {}
      BY <2>1, <2>4 DEF Off
    <2>7. off' = [off EXCEPT ![r] = n]
      BY <2>3
    <2> HIDE DEF n
    <2>8. off' \in [OffReq -> Off] /\ off'[r] = n /\ \A q \in OffReq : q # r => off'[q] = off[q]
      BY <1>2, <2>6, <2>7
    <2>9. off[r].pc = "idle"
      BY <1>4 DEF OffDeletesRows
    <2> QED BY <1>4, <2>5, <2>6, <2>8, <2>9 DEF OffMoves, rows
  <1>5. CASE OffTakes(r)
    <2>1. PICK d \in NextOf(DatesOf(o.rows) \ (o.done \cup {o.at})) :
             off' = [off EXCEPT ![r] = [o EXCEPT !.done = o.done \cup {o.at}, !.at = d]]
      BY <1>5 DEF OffTakes
    <2>2. DatesOf(o.rows) \in SUBSET Date /\ o.at # Null /\ o.pc = "rows"
      BY <1>1, <1>5 DEF DatesOf, OffTakes
    <2>3. d \in Date \cup {Null} /\ (d = Null => DatesOf(o.rows) \ (o.done \cup {o.at}) = {})
      BY <2>2, NextOfFacts
    <2> DEFINE n == [o EXCEPT !.done = o.done \cup {o.at}, !.at = d]
    <2>4. /\ n \in Off /\ n.pc = o.pc /\ n.emp = o.emp /\ n.rows = o.rows /\ n.at = d
          /\ n.done = o.done \cup {o.at}
      BY <1>1, <2>2, <2>3 DEF Off
    <2>5. off' = [off EXCEPT ![r] = n]
      BY <2>1
    <2> HIDE DEF n
    <2>6. off' \in [OffReq -> Off] /\ off'[r] = n /\ \A q \in OffReq : q # r => off'[q] = off[q]
      BY <1>2, <2>4, <2>5
    <2>7. d = Null => DatesOf(o.rows) \subseteq o.done \cup {o.at}
      BY <2>3
    <2> QED BY <1>5, <2>2, <2>4, <2>6, <2>7 DEF OffMoves
  <1>6. ASSUME NEW c \in {"profile", "user"}, off' = [off EXCEPT ![r].pc = c]
        PROVE  /\ off' \in [OffReq -> Off] /\ \A q \in OffReq : q # r => off'[q] = off[q]
               /\ off'[r].emp = o.emp /\ off'[r].rows = o.rows /\ off'[r].pc = c
    <2> DEFINE n == [o EXCEPT !.pc = c]
    <2>1. n \in Off /\ n.emp = o.emp /\ n.rows = o.rows /\ n.pc = c
      BY <1>1 DEF Off
    <2>2. off' = [off EXCEPT ![r] = n]
      BY <1>6
    <2> HIDE DEF n
    <2> QED BY <1>2, <2>1, <2>2
  <1>7. CASE OffHasRows(r)
    BY <1>6, <1>7 DEF OffHasRows, OffMoves
  <1>8. CASE OffHasProfile(r)
    BY <1>6, <1>8 DEF OffHasProfile, OffMoves
  <1>9. CASE OffCommit(r) \/ OffFails(r)
    BY <1>3, <1>9 DEF OffCommit, OffFails
  <1> QED BY <1>3, <1>4, <1>5, <1>7, <1>8, <1>9 DEF OffStep

\* All that a step can be for the deletions.
LEMMA OffCases ==
    ASSUME TypeOK, PatchInv, [Next]_vars
    PROVE  UNCHANGED off \/ \E r \in OffReq : OffMoves(r)
  <1>1. ASSUME NEW r \in Request, BreakDeadlock(r)
        PROVE  UNCHANGED off \/ \E q \in OffReq : OffMoves(q)
    BY <1>1, AbortFacts, OffSteps
  <1>2. ASSUME NEW r \in PatchReq, PatchStep(r)
        PROVE  UNCHANGED off
    BY <1>2 DEF PatchStep, PatchUser, PatchFlush, PatchDelete, PatchTakes, PatchDeleted, PatchInserts,
           PatchInserted, PatchCommitSchedule, PatchCommitRate, PatchFails
  <1>3. ASSUME NEW e \in Employee, NEW t \in RateType, NEW a \in Amount, NEW D \in Plans,
               CreateEmployee(e, t, a, D)
        PROVE  UNCHANGED off
    BY <1>3 DEF CreateEmployee
  <1>4. ASSUME NEW r \in PatchReq, NEW e \in Employee, NEW b \in Bodies, PatchLoad(r, e, b)
        PROVE  UNCHANGED off
    BY <1>4 DEF PatchLoad
  <1>5. ASSUME NEW r \in OffReq, OffStep(r) \/ \E e \in Employee : OffDeletesRows(r, e)
        PROVE  OffMoves(r)
    BY <1>5, OffSteps
  <1> QED BY <1>1, <1>2, <1>3, <1>4, <1>5 DEF Next, vars

\* Typing.
LEMMA TypeStep ==
    ASSUME TypeOK, CapInv, ProfileInv, PatchInv, OffEmpInv, [Next]_vars
    PROVE  TypeOK'
  <1>1. off' \in [OffReq -> Off]
    BY OffCases DEF OffMoves, TypeOK
  <1>2. ASSUME NEW e \in Employee, NEW t \in RateType, NEW a \in Amount, NEW D \in Plans,
               CreateEmployee(e, t, a, D)
        PROVE  TypeOK'
    <2>1. patch' = patch
      BY <1>2 DEF CreateEmployee
    <2>2. /\ writes' = writes + 1 /\ writes + 1 \in Id /\ profile' \in [Employee -> Profile]
          /\ had' \in [Employee -> SUBSET Rate]
          /\ sched' \in [Employee -> [Date -> DayRow \cup {Null}]]
      BY <1>2, CreateFacts
    <2> QED BY <1>1, <2>1, <2>2 DEF TypeOK
  <1>3. ASSUME NEW r \in PatchReq, Moves(r) \/ \E e \in Employee, b \in Bodies : Loads(r, e, b)
        PROVE  TypeOK'
    <2>1. patch' \in [PatchReq -> Patch] /\ UNCHANGED <<profile, sched, writes, had>>
      BY <1>3, MovesFacts DEF Loads
    <2> QED BY <1>1, <2>1 DEF TypeOK
  <1>4. ASSUME NEW r \in PatchReq, PatchCommitSchedule(r) \/ PatchCommitRate(r)
        PROVE  TypeOK'
    <2>1. r \in Patching /\ Committed(r)
      BY <1>4 DEF PatchCommitSchedule, PatchCommitRate, ProfileNext, Patching
    <2> DEFINE e == patch[r].emp
    <2>2. /\ profile' \in [Employee -> Profile] /\ patch' \in [PatchReq -> Patch]
          /\ e \in Employee /\ writes' = writes + 1
      BY <2>1, CommittedFacts
    <2>3. writes' \in Id
      BY <2>1, <2>2, RoomToCommit
    <2>4. had' \in [Employee -> SUBSET Rate]
      <3>1. <<Updated(r).type, Updated(r).amount>> \in Rate
        BY <2>1, UpdatedFacts DEF Rate
      <3>2. had[e] \cup {<<Updated(r).type, Updated(r).amount>>} \in SUBSET Rate
        BY <2>2, <3>1 DEF TypeOK
      <3>3. had' = [had EXCEPT ![e] = had[e] \cup {<<Updated(r).type, Updated(r).amount>>}]
        BY <2>1, <2>2 DEF Committed
      <3> HIDE DEF e
      <3> QED BY <3>2, <3>3 DEF TypeOK
    <2>5. sched' \in [Employee -> [Date -> DayRow \cup {Null}]]
      BY <1>4, CommitScheduleFacts DEF PatchCommitRate, TypeOK
    <2> QED BY <1>1, <2>2, <2>3, <2>4, <2>5 DEF TypeOK
  <1>5. ASSUME NEW r \in OffReq, OffCommit(r)
        PROVE  TypeOK'
    <2> DEFINE e == off[r].emp
    <2>1. \A f \in Employee : [profile[f] EXCEPT !.st = "gone"] \in Profile
      BY DEF TypeOK, Profile
    <2>2. profile' \in [Employee -> Profile]
      BY <1>5, <2>1 DEF OffCommit, TypeOK
    <2>3. sched' \in [Employee -> [Date -> DayRow \cup {Null}]]
      BY <1>5 DEF OffCommit, TypeOK
    <2> QED BY <1>1, <1>5, <2>2, <2>3 DEF OffCommit, TypeOK
  <1>6. CASE UNCHANGED <<profile, sched, patch, writes, had>>
    BY <1>1, <1>6 DEF TypeOK
  <1> QED BY <1>2, <1>3, <1>4, <1>5, <1>6, StepCases

\* An employee's rate and whether there is one.
LEMMA ProfileStep ==
    ASSUME TypeOK, CapInv, ProfileInv, PatchInv, OffEmpInv, [Next]_vars
    PROVE  ProfileInv'
  <1>1. ASSUME NEW e \in Employee, NEW t \in RateType, NEW a \in Amount, NEW D \in Plans,
               CreateEmployee(e, t, a, D)
        PROVE  ProfileInv'
    <2>1. /\ profile'[e].st = "row" /\ profile'[e].type = t /\ profile'[e].amount = a
          /\ \A f \in Employee : f # e => profile'[f] = profile[f]
          /\ \A f \in Employee : f # e => sched'[f] = sched[f]
      BY <1>1, CreateFacts
    <2> QED BY <2>1 DEF ProfileInv
  <1>2. ASSUME NEW r \in PatchReq, PatchCommitSchedule(r) \/ PatchCommitRate(r)
        PROVE  ProfileInv'
    <2> DEFINE e == patch[r].emp
    <2>1. r \in Patching /\ Committed(r) /\ profile[e].st = "row"
      BY <1>2 DEF PatchCommitSchedule, PatchCommitRate, ProfileNext, Patching
    <2>2. /\ e \in Employee /\ profile'[e] = Updated(r)
          /\ \A f \in Employee : f # e => profile'[f] = profile[f]
      BY <2>1, CommittedFacts
    <2>3. Updated(r).st = "row" /\ Updated(r).type \in RateType /\ Updated(r).amount \in Amount
      BY <2>1, UpdatedFacts
    <2>4. \A f \in Employee : f # e => sched'[f] = sched[f]
      BY <1>2, CommitScheduleFacts DEF PatchCommitRate
    <2> HIDE DEF e
    <2> QED BY <2>2, <2>3, <2>4 DEF ProfileInv
  <1>3. ASSUME NEW r \in OffReq, OffCommit(r)
        PROVE  ProfileInv'
    <2> DEFINE e == off[r].emp
    <2>1. e \in Employee /\ profile[e].st # "none"
      BY <1>3 DEF OffCommit, OffEmpInv
    <2>2. profile'[e] = [profile[e] EXCEPT !.st = "gone"] /\ sched'[e] = [d \in Date |-> Null]
      BY <1>3, <2>1 DEF OffCommit, TypeOK
    <2>3. profile'[e].type = profile[e].type /\ profile'[e].amount = profile[e].amount
      BY <2>1, <2>2 DEF TypeOK, Profile
    <2>4. \A f \in Employee : f # e => profile'[f] = profile[f] /\ sched'[f] = sched[f]
      BY <1>3, <2>1 DEF OffCommit, TypeOK
    <2> HIDE DEF e
    <2>5. /\ profile'[e].type \in RateType /\ profile'[e].amount \in Amount
          /\ \A d \in Date : sched'[e][d] = Null
      BY <2>1, <2>2, <2>3 DEF ProfileInv
    <2> QED BY <2>4, <2>5 DEF ProfileInv
  <1>4. CASE UNCHANGED <<profile, sched>>
    BY <1>4 DEF ProfileInv
  <1>5. ASSUME NEW r \in PatchReq, Moves(r)
        PROVE  UNCHANGED <<profile, sched>>
    BY <1>5, MovesFacts
  <1>6. ASSUME NEW r \in PatchReq, NEW e \in Employee, NEW b \in Bodies, Loads(r, e, b)
        PROVE  UNCHANGED <<profile, sched>>
    BY <1>6 DEF Loads
  <1> QED BY <1>1, <1>2, <1>3, <1>4, <1>5, <1>6, StepCases

\* What the PATCHes hold.
LEMMA PatchStepInv ==
    ASSUME TypeOK, CapInv, ProfileInv, PatchInv, OffEmpInv, [Next]_vars
    PROVE  PatchInv'
  <1>1. SUFFICES ASSUME NEW r \in PatchReq
                 PROVE  PatchFits(patch'[r], profile')
    BY DEF PatchInv, PatchFits
  <1>2. PatchFits(patch[r], profile)
    BY DEF PatchInv
  <1>3. ASSUME NEW e \in Employee, NEW t \in RateType, NEW a \in Amount, NEW D \in Plans,
               CreateEmployee(e, t, a, D)
        PROVE  PatchFits(patch'[r], profile')
    <2>1. /\ profile[e].st = "none"
          /\ \A f \in Employee : f # e => profile'[f] = profile[f]
      BY <1>3, CreateFacts
    <2>2. patch' = patch
      BY <1>3 DEF CreateEmployee
    <2>3. patch[r].pc # "idle" => patch[r].emp \in Employee /\ patch[r].emp # e
      BY <1>2, <2>1 DEF PatchFits
    <2> QED BY <1>2, <2>1, <2>2, <2>3 DEF PatchFits
  <1>4. ASSUME NEW q \in PatchReq, NEW e \in Employee, NEW b \in Bodies, Loads(q, e, b)
        PROVE  PatchFits(patch'[r], profile')
    <2>1. CASE q = r
      <3>1. /\ profile' = profile /\ patch'[r].pc = "loaded" /\ patch'[r].emp = e /\ patch'[r].body = b
            /\ patch'[r].type = Value(b.type, profile[e].type)
            /\ patch'[r].amount = Value(b.amount, profile[e].amount)
            /\ "type" \in patch'[r].dirty <=> b.type \notin {Keep, profile[e].type}
            /\ "amount" \in patch'[r].dirty <=> b.amount \notin {Keep, profile[e].amount}
            /\ profile[e].st = "row"
        BY <1>4, <2>1 DEF Loads
      <3>2. profile[e].type \in RateType /\ profile[e].amount \in Amount
        BY <3>1 DEF ProfileInv
      <3>3. b.type \in RateType \cup {Keep} /\ b.amount \in Amount \cup {Keep}
        BY RecordsAssumption DEF Body
      <3> QED BY <3>1, <3>2, <3>3 DEF PatchFits, Value
    <2>2. CASE q # r
      BY <1>2, <1>4, <2>2 DEF Loads
    <2> QED BY <2>1, <2>2
  <1>5. ASSUME NEW q \in PatchReq, Moves(q)
        PROVE  PatchFits(patch'[r], profile')
    <2>1. CASE q = r
      BY <1>2, <1>5, <2>1, MovesFacts, IdleTyped DEF PatchFits
    <2>2. CASE q # r
      BY <1>2, <1>5, <2>2, MovesFacts
    <2> QED BY <2>1, <2>2
  <1>6. ASSUME NEW q \in PatchReq, PatchCommitSchedule(q) \/ PatchCommitRate(q)
        PROVE  PatchFits(patch'[r], profile')
    <2>1. q \in Patching /\ Committed(q)
      BY <1>6 DEF PatchCommitSchedule, PatchCommitRate, ProfileNext, Patching
    <2> DEFINE e == patch[q].emp
    <2>2. CASE q = r
      BY <2>1, <2>2, CommittedFacts DEF PatchFits
    <2>3. CASE q # r
      <3>1. /\ patch'[r].pc = patch[r].pc /\ patch'[r].rows = patch[r].rows
            /\ patch'[r].ok = patch[r].ok /\ patch'[r].emp = patch[r].emp
            /\ patch'[r].body = patch[r].body /\ patch'[r].type = patch[r].type
            /\ patch'[r].amount = patch[r].amount /\ patch'[r].dirty = patch[r].dirty
            /\ patch[r].overtaken \/ patch[r].emp = e => patch'[r].overtaken
        BY <2>1, <2>3, CommittedFacts
      <3>2. /\ \A f \in Employee : f # e => profile'[f] = profile[f]
            /\ \A f \in Employee : profile'[f].st = profile[f].st
        BY <2>1, CommittedFacts
      <3> HIDE DEF e
      <3> QED BY <1>2, <3>1, <3>2 DEF PatchFits
    <2> QED BY <2>2, <2>3
  <1>7. ASSUME NEW q \in OffReq, OffCommit(q)
        PROVE  PatchFits(patch'[r], profile')
    <2>1. \A f \in Employee : /\ profile'[f].type = profile[f].type
                              /\ profile'[f].amount = profile[f].amount
                              /\ profile[f].st # "none" => profile'[f].st # "none"
      BY <1>7 DEF OffCommit, TypeOK, Profile
    <2>2. patch' = patch
      BY <1>7 DEF OffCommit
    <2> QED BY <1>2, <2>1, <2>2 DEF PatchFits
  <1>8. CASE UNCHANGED <<profile, patch>>
    BY <1>2, <1>8
  <1> QED BY <1>3, <1>4, <1>5, <1>6, <1>7, <1>8, StepCases

\* The number of writes only grows.
LEMMA WritesGrow ==
    ASSUME TypeOK, CapInv, ProfileInv, PatchInv, [Next]_vars
    PROVE  writes \in Nat /\ writes' \in Nat /\ (writes' = writes \/ writes' = writes + 1)
  <1>1. writes \in Nat
    BY DEF TypeOK, Id
  <1>2. ASSUME NEW e \in Employee, NEW t \in RateType, NEW a \in Amount, NEW D \in Plans,
               CreateEmployee(e, t, a, D)
        PROVE  writes' = writes + 1
    BY <1>2, CreateFacts
  <1>3. ASSUME NEW r \in PatchReq, PatchCommitSchedule(r) \/ PatchCommitRate(r)
        PROVE  writes' = writes + 1
    BY <1>3 DEF PatchCommitSchedule, PatchCommitRate, Committed
  <1>4. ASSUME NEW r \in PatchReq, Moves(r)
        PROVE  writes' = writes
    BY <1>4, MovesFacts
  <1>5. ASSUME NEW r \in PatchReq, NEW e \in Employee, NEW b \in Bodies, Loads(r, e, b)
        PROVE  writes' = writes
    BY <1>5 DEF Loads
  <1>6. ASSUME NEW r \in OffReq, OffCommit(r)
        PROVE  writes' = writes
    BY <1>6 DEF OffCommit
  <1>7. writes' = writes \/ writes' = writes + 1
    BY <1>2, <1>3, <1>4, <1>5, <1>6, StepCases
  <1> QED BY <1>1, <1>7

\* A day is new, with the next number, or the day it was.
LEMMA DaysFacts ==
    ASSUME TypeOK, CapInv, ProfileInv, PatchInv, OffEmpInv, [Next]_vars,
           NEW e \in Employee, NEW d \in Date, sched'[e][d] # Null, sched'[e][d] # sched[e][d]
    PROVE  /\ writes' = writes + 1
           /\ sched'[e][d].id = writes'
           /\ \/ \E t \in RateType, a \in Amount, D \in Plans : CreateEmployee(e, t, a, D)
              \/ \E r \in Patching : /\ PatchCommitSchedule(r) /\ patch[r].emp = e
                                     /\ d \in patch[r].body.dates
  <1>1. ASSUME NEW f \in Employee, NEW t \in RateType, NEW a \in Amount, NEW D \in Plans,
               CreateEmployee(f, t, a, D)
        PROVE  f = e /\ writes' = writes + 1 /\ sched'[e][d].id = writes'
    <2>1. writes' = writes + 1 /\ \A g \in Employee : g # f => sched'[g] = sched[g]
      BY <1>1, CreateFacts
    <2>2. f = e
      BY <2>1
    <2> QED BY <1>1, <2>1, <2>2, FirstDay
  <1>2. ASSUME NEW r \in PatchReq, PatchCommitSchedule(r)
        PROVE  /\ r \in Patching /\ patch[r].emp = e /\ d \in patch[r].body.dates
               /\ writes' = writes + 1 /\ sched'[e][d].id = writes'
    <2>1. /\ r \in Patching /\ Committed(r) /\ patch[r].body.dates # Keep
          /\ sched'[patch[r].emp] = NewSchedule(r)
          /\ \A f \in Employee : f # patch[r].emp => sched'[f] = sched[f]
      BY <1>2, CommitScheduleFacts
    <2>2. patch[r].emp = e /\ writes' = writes + 1
      BY <2>1 DEF Committed
    <2>3. writes + 1 \in Id
      BY <2>1, RoomToCommit
    <2>4. d \in patch[r].body.dates
      <3>1. NewSchedule(r)[d] # Null /\ NewSchedule(r)[d] # sched[patch[r].emp][d]
        BY <2>1, <2>2
      <3> QED BY <3>1, KeptDay
    <2>5. sched'[e][d].id = writes + 1
      BY <2>1, <2>2, <2>3, <2>4, NewDay
    <2> QED BY <2>1, <2>2, <2>4, <2>5
  <1>3. ASSUME NEW r \in OffReq, OffCommit(r)
        PROVE  FALSE
    BY <1>3 DEF OffCommit, TypeOK
  <1> QED BY <1>1, <1>2, <1>3, TableSteps DEF PatchCommitRate

\* What a replaced schedule is: the numbers of its rows, and of the ones it has seen.
LEMMA NumbersStep ==
    ASSUME TypeOK, CapInv, ProfileInv, PatchInv, OffEmpInv, RowsInv, NumbersInv, [Next]_vars
    PROVE  NumbersInv'
  <1>1. SUFFICES ASSUME NEW e \in Employee, NEW d \in Date, sched'[e][d] # Null
                 PROVE  sched'[e][d].id \in 0..writes' /\ sched'[e][d].seen \subseteq 0..writes'
    BY DEF NumbersInv
  <1>2. 0..writes \subseteq 0..writes' /\ writes' \in 0..writes'
    BY WritesGrow
  <1>3. CASE sched'[e][d] = sched[e][d]
    BY <1>1, <1>2, <1>3 DEF NumbersInv
  <1>4. CASE sched'[e][d] # sched[e][d]
    <2>1. sched'[e][d].id = writes'
      BY <1>1, <1>4, DaysFacts
    <2>2. ASSUME NEW t \in RateType, NEW a \in Amount, NEW D \in Plans, CreateEmployee(e, t, a, D)
          PROVE  sched'[e][d].seen \subseteq 0..writes'
      BY <1>1, <2>2, FirstDay
    <2>3. ASSUME NEW r \in Patching, PatchCommitSchedule(r), patch[r].emp = e, d \in patch[r].body.dates
          PROVE  sched'[e][d].seen \subseteq 0..writes'
      <3>1. r \in PatchReq /\ patch[r].body.dates # Keep /\ sched'[e] = NewSchedule(r) /\ writes + 1 \in Id
        BY <2>3, CommitScheduleFacts, RoomToCommit DEF Patching
      <3>2. sched'[e][d].seen = {x[2] : x \in patch[r].rows}
        BY <2>3, <3>1, NewDay
      <3> QED BY <1>2, <3>1, <3>2 DEF RowsInv, RowsFit
    <2> QED BY <1>1, <1>4, <2>1, <2>2, <2>3, <1>2, DaysFacts
  <1> QED BY <1>3, <1>4

\* Nobody adds to a write that is over: who has found one of its rows has found all.
LEMMA RowsStep ==
    ASSUME TypeOK, CapInv, ProfileInv, PatchInv, OffEmpInv, RowsInv, NumbersInv, [Next]_vars
    PROVE  RowsInv'
  <1>1. SUFFICES ASSUME NEW r \in PatchReq
                 PROVE  RowsFit(patch'[r], sched', writes')
    BY DEF RowsInv, RowsFit
  <1>2. RowsFit(patch[r], sched, writes) /\ PatchFits(patch[r], profile)
    BY DEF RowsInv, PatchInv
  <1>3. 0..writes \subseteq 0..writes' /\ writes \in Nat
    BY WritesGrow
  <1>4. ASSUME patch'[r].rows = patch[r].rows, patch'[r].emp = patch[r].emp,
               patch'[r].pc # "idle" => patch[r].pc # "idle"
        PROVE  RowsFit(patch'[r], sched', writes')
    <2>1. \A x \in patch[r].rows : x[2] \in 0..writes
      BY <1>2 DEF RowsFit
    <2>2. ASSUME NEW c \in Date, NEW x \in patch[r].rows, patch'[r].pc # "idle",
                 sched'[patch[r].emp][c] # Null, sched'[patch[r].emp][c].id = x[2]
          PROVE  <<c, x[2]>> \in patch[r].rows
      <3>1. patch[r].emp \in Employee
        BY <1>2, <1>4, <2>2 DEF PatchFits
      <3>2. CASE sched'[patch[r].emp][c] = sched[patch[r].emp][c]
        BY <1>2, <1>4, <2>2, <3>2 DEF RowsFit
      <3>3. CASE sched'[patch[r].emp][c] # sched[patch[r].emp][c]
        <4>1. x[2] = writes + 1
          BY <2>2, <3>1, <3>3, DaysFacts
        <4> QED BY <1>3, <2>1, <4>1
      <3> QED BY <3>2, <3>3
    <2> QED BY <1>3, <1>4, <2>1, <2>2 DEF RowsFit
  <1>5. CASE patch'[r].rows = {}
    BY <1>5 DEF RowsFit
  <1>6. ASSUME NEW q \in PatchReq, Moves(q)
        PROVE  RowsFit(patch'[r], sched', writes')
    <2>1. CASE q = r /\ patch'[r].rows = RowsOf(patch[r].emp) /\ patch'[r].emp = patch[r].emp
      <3>1. patch[r].emp \in Employee /\ sched' = sched /\ writes' = writes
        BY <1>2, <1>6, <2>1, MovesFacts DEF PatchFits
      <3>2. \A x \in RowsOf(patch[r].emp) : /\ x[1] \in Date /\ sched[patch[r].emp][x[1]] # Null
                                            /\ sched[patch[r].emp][x[1]].id = x[2]
        BY <3>1, RowsOfFacts
      <3>3. \A x \in RowsOf(patch[r].emp) : x[2] \in 0..writes
        BY <3>1, <3>2 DEF NumbersInv
      <3>4. \A d \in Date : sched[patch[r].emp][d] # Null =>
               <<d, sched[patch[r].emp][d].id>> \in RowsOf(patch[r].emp)
        BY <3>1, RowsOfFacts
      <3> QED BY <2>1, <3>1, <3>3, <3>4 DEF RowsFit
    <2>2. CASE q # r
      BY <1>4, <1>6, <2>2, MovesFacts
    <2>3. CASE patch'[r] = Idle
      BY <1>5, <2>3, IdleTyped
    <2>4. CASE patch'[r].emp = patch[r].emp /\ patch'[r].rows = patch[r].rows /\ patch[r].pc # "idle"
      BY <1>4, <2>4
    <2> QED BY <1>6, <2>1, <2>2, <2>3, <2>4, MovesFacts
  <1>7. ASSUME NEW q \in PatchReq, NEW e \in Employee, NEW b \in Bodies, Loads(q, e, b)
        PROVE  RowsFit(patch'[r], sched', writes')
    BY <1>4, <1>5, <1>7 DEF Loads
  <1>8. ASSUME NEW q \in PatchReq, PatchCommitSchedule(q) \/ PatchCommitRate(q)
        PROVE  RowsFit(patch'[r], sched', writes')
    <2>1. q \in Patching /\ Committed(q)
      BY <1>8 DEF PatchCommitSchedule, PatchCommitRate, ProfileNext, Patching
    <2>2. CASE q = r
      BY <1>5, <2>1, <2>2, CommittedFacts
    <2>3. CASE q # r
      <3>1. patch'[r].rows = patch[r].rows /\ patch'[r].emp = patch[r].emp /\ patch'[r].pc = patch[r].pc
        BY <2>1, <2>3, CommittedFacts
      <3> QED BY <1>4, <3>1
    <2> QED BY <2>2, <2>3
  <1>9. CASE patch' = patch
    BY <1>4, <1>9
  <1> QED BY <1>6, <1>7, <1>8, <1>9, StepCases DEF CreateEmployee, OffCommit

\* How far the requests are.
LEMMA ProgressStep ==
    ASSUME TypeOK, CapInv, ProfileInv, PatchInv, ProgressInv, [Next]_vars
    PROVE  ProgressInv'
  <1>1. SUFFICES ASSUME NEW r \in PatchReq
                 PROVE  ProgressFits(patch'[r])
    BY DEF ProgressInv, ProgressFits, DatesOf
  <1>2. ProgressFits(patch[r])
    BY DEF ProgressInv
  <1>3. CASE patch'[r] = patch[r]
    BY <1>2, <1>3
  <1>4. CASE patch'[r] = Idle
    BY <1>4, IdleTyped DEF ProgressFits
  <1>5. ASSUME Moves(r)
        PROVE  ProgressFits(patch'[r])
    <2> DEFINE p == patch[r]
               n == patch'[r]
    <2>1. /\ p.at \in Date \cup {Null} /\ DatesOf(p.rows) \in SUBSET Date
          /\ p.pc \notin {"idle", "loaded", "user"} => p.body.dates \in SUBSET Date
      BY PatchTyped
    <2>2. CASE Stops(r)
      BY <1>4, <2>2 DEF Stops
    <2>3. CASE PatchUser(r) /\ Becomes(r, "user", p.rows, p.at, p.done)
      BY <1>2, <2>3 DEF PatchUser, Becomes, ProgressFits
    <2>4. CASE PatchFlush(r) /\ Becomes(r, "flushed", p.rows, p.at, p.done)
      BY <1>2, <2>4 DEF PatchFlush, ProfileNext, Becomes, ProgressFits
    <2>5. ASSUME PatchDelete(r), NEW d \in NextOf(DatesOf(RowsOf(p.emp))),
                 Becomes(r, "deleting", RowsOf(p.emp), d, p.done)
          PROVE  ProgressFits(n)
      <3>1. p.emp \in Employee
        BY <2>5 DEF PatchDelete, PatchInv, PatchFits
      <3>2. DatesOf(RowsOf(p.emp)) \in SUBSET Date
        BY <3>1, RowsOfFacts DEF DatesOf
      <3>3. d = Null => DatesOf(RowsOf(p.emp)) = {}
        BY <3>2, NextOfFacts
      <3> QED BY <2>5, <3>3 DEF Becomes, ProgressFits
    <2>6. ASSUME PatchTakes(r), NEW d \in NextOf(DatesOf(p.rows) \ (p.done \cup {p.at})),
                 Becomes(r, "deleting", p.rows, d, p.done \cup {p.at})
          PROVE  ProgressFits(n)
      <3>1. d = Null => DatesOf(p.rows) \ (p.done \cup {p.at}) = {}
        BY <2>1, NextOfFacts
      <3> QED BY <2>6, <3>1 DEF Becomes, ProgressFits
    <2>7. ASSUME PatchDeleted(r), NEW d \in NextOf(p.body.dates), Becomes(r, "inserting", p.rows, d, {})
          PROVE  ProgressFits(n)
      <3>1. p.body.dates \in SUBSET Date
        BY <2>1, <2>7 DEF PatchDeleted
      <3>2. (d # Null => d \in p.body.dates) /\ (d = Null => p.body.dates = {})
        BY <3>1, NextOfFacts
      <3> QED BY <2>7, <3>2 DEF Becomes, ProgressFits
    <2>8. ASSUME PatchInserts(r), NEW d \in NextOf(p.body.dates \ (p.done \cup {p.at})),
                 Becomes(r, "inserting", p.rows, d, p.done \cup {p.at})
          PROVE  ProgressFits(n)
      <3>1. p.body.dates \in SUBSET Date
        BY <2>1, <2>8 DEF PatchInserts
      <3>2. /\ d # Null => d \in p.body.dates \ (p.done \cup {p.at})
            /\ d = Null => p.body.dates \ (p.done \cup {p.at}) = {}
        BY <3>1, NextOfFacts
      <3> QED BY <2>8, <3>2 DEF Becomes, ProgressFits
    <2>9. CASE PatchInserted(r) /\ Becomes(r, "inserted", p.rows, p.at, p.done)
      BY <1>2, <2>9 DEF PatchInserted, Becomes, ProgressFits
    <2> QED BY <1>5, <2>2, <2>3, <2>4, <2>5, <2>6, <2>7, <2>8, <2>9 DEF Moves, Advances
  <1>6. ASSUME NEW q \in PatchReq, Moves(q)
        PROVE  ProgressFits(patch'[r])
    <2>1. CASE q = r
      BY <1>5, <1>6, <2>1
    <2>2. CASE q # r
      BY <1>3, <1>6, <2>2, MovesFacts
    <2> QED BY <2>1, <2>2
  <1>7. ASSUME NEW q \in PatchReq, NEW e \in Employee, NEW b \in Bodies, Loads(q, e, b)
        PROVE  ProgressFits(patch'[r])
    BY <1>2, <1>7 DEF Loads, ProgressFits
  <1>8. ASSUME NEW q \in PatchReq, PatchCommitSchedule(q) \/ PatchCommitRate(q)
        PROVE  ProgressFits(patch'[r])
    <2>1. q \in Patching /\ Committed(q)
      BY <1>8 DEF PatchCommitSchedule, PatchCommitRate, ProfileNext, Patching
    <2>2. CASE q = r
      BY <2>1, <2>2, CommittedFacts DEF ProgressFits
    <2>3. CASE q # r
      <3>1. /\ patch'[r].pc = patch[r].pc /\ patch'[r].rows = patch[r].rows
            /\ patch'[r].at = patch[r].at /\ patch'[r].done = patch[r].done
            /\ patch'[r].body = patch[r].body
        BY <2>1, <2>3, CommittedFacts
      <3> QED BY <1>2, <3>1 DEF ProgressFits
    <2> QED BY <2>2, <2>3
  <1> QED BY <1>3, <1>6, <1>7, <1>8, StepCases DEF CreateEmployee, OffCommit

\* What one has inserted nobody else has, and what was there before he has deleted.
LEMMA IndexStep ==
    ASSUME TypeOK, CapInv, ProfileInv, PatchInv, OffEmpInv, ProgressInv, IndexInv, [Next]_vars
    PROVE  IndexInv'
  <1>1. SUFFICES ASSUME NEW r \in PatchReq, NEW d \in Date, Inserted(patch'[r], d)
                 PROVE  /\ sched'[patch'[r].emp][d] # Null =>
                              <<d, sched'[patch'[r].emp][d].id>> \in patch'[r].rows
                        /\ \A q \in PatchReq :
                              patch'[q].emp = patch'[r].emp /\ Inserted(patch'[q], d) => q = r
    BY DEF IndexInv, Inserted
  <1> DEFINE e == patch[r].emp
             Goal == /\ sched'[patch'[r].emp][d] # Null =>
                           <<d, sched'[patch'[r].emp][d].id>> \in patch'[r].rows
                     /\ \A q \in PatchReq :
                           patch'[q].emp = patch'[r].emp /\ Inserted(patch'[q], d) => q = r
  <1>2. ASSUME Inserted(patch[r], d)
        PROVE  /\ sched[e][d] # Null => <<d, sched[e][d].id>> \in patch[r].rows
               /\ \A q \in PatchReq : patch[q].emp = e /\ Inserted(patch[q], d) => q = r
               /\ e \in Employee /\ profile[e].st # "none"
    BY <1>2 DEF IndexInv, Inserted, PatchInv, PatchFits
  \* Nobody else has come to it, and this PATCH had it.
  <1>3. ASSUME Inserted(patch[r], d), patch'[r].emp = e, patch'[r].rows = patch[r].rows,
               sched'[e][d] \in {Null, sched[e][d]},
               \A q \in PatchReq : Inserted(patch'[q], d) =>
                   \/ q = r
                   \/ patch'[q].emp # e
                   \/ patch'[q].emp = patch[q].emp /\ Inserted(patch[q], d)
        PROVE  Goal
    BY <1>2, <1>3
  <1>4. ASSUME patch' = patch
        PROVE  Goal
    <2>1. Inserted(patch[r], d)
      BY <1>1, <1>4
    <2>2. ASSUME NEW f \in Employee, NEW t \in RateType, NEW a \in Amount, NEW D \in Plans,
                 CreateEmployee(f, t, a, D)
          PROVE  sched'[e][d] = sched[e][d]
      <3>1. profile[f].st = "none" /\ \A g \in Employee : g # f => sched'[g] = sched[g]
        BY <2>2, CreateFacts
      <3> QED BY <1>2, <2>1, <3>1
    <2>3. ASSUME NEW q \in OffReq, OffCommit(q)
          PROVE  sched'[e][d] \in {Null, sched[e][d]}
      BY <1>2, <2>1, <2>3 DEF OffCommit, TypeOK
    <2>4. ASSUME NEW q \in PatchReq, PatchCommitSchedule(q) \/ PatchCommitRate(q)
          PROVE  FALSE
      <3>1. q \in Patching /\ Committed(q)
        BY <2>4 DEF PatchCommitSchedule, PatchCommitRate, ProfileNext, Patching
      <3> QED BY <1>4, <3>1, CommittedFacts DEF Patching
    <2>5. sched'[e][d] \in {Null, sched[e][d]}
      BY <2>2, <2>3, <2>4, TableSteps
    <2> QED BY <1>3, <1>4, <2>1, <2>5
  <1>5. ASSUME NEW s \in PatchReq, NEW f \in Employee, NEW b \in Bodies, Loads(s, f, b)
        PROVE  Goal
    <2>1. /\ sched' = sched /\ \A q \in PatchReq : q # s => patch'[q] = patch[q]
          /\ ~Inserted(patch'[s], d)
      BY <1>5 DEF Loads, Inserted
    <2> QED BY <1>1, <1>3, <2>1
  <1>6. ASSUME NEW s \in PatchReq, Moves(s)
        PROVE  Goal
    <2>1. sched' = sched /\ \A q \in PatchReq : q # s => patch'[q] = patch[q]
      BY <1>6, MovesFacts
    <2>2. CASE Inserted(patch'[s], d) => Inserted(patch[s], d) /\ patch'[s].emp = patch[s].emp
                                                             /\ patch'[s].rows = patch[s].rows
      <3>1. Inserted(patch[r], d) /\ patch'[r].emp = e /\ patch'[r].rows = patch[r].rows
        BY <1>1, <2>1, <2>2
      <3> QED BY <1>3, <2>1, <2>2, <3>1
    <2>3. CASE Stops(s)
      <3>1. ~Inserted(patch'[s], d)
        BY <2>3, IdleTyped DEF Stops, Inserted
      <3> QED BY <2>2, <3>1
    <2>4. CASE \/ PatchUser(s) /\ Becomes(s, "user", patch[s].rows, patch[s].at, patch[s].done)
               \/ PatchFlush(s) /\ Becomes(s, "flushed", patch[s].rows, patch[s].at, patch[s].done)
               \/ patch'[s].pc = "deleting" \/ patch'[s].done = {}
      <3>1. ~Inserted(patch'[s], d)
        BY <2>4 DEF Becomes, Inserted
      <3> QED BY <2>2, <3>1
    <2>5. CASE PatchInserted(s) /\ Becomes(s, "inserted", patch[s].rows, patch[s].at, patch[s].done)
      BY <2>2, <2>5 DEF PatchInserted, Becomes, Inserted
    <2>6. ASSUME PatchInserts(s), NEW x,
                 Becomes(s, "inserting", patch[s].rows, x, patch[s].done \cup {patch[s].at})
          PROVE  Goal
      <3>1. /\ patch[s].pc = "inserting" /\ patch'[s].emp = patch[s].emp
            /\ patch'[s].rows = patch[s].rows
            /\ Inserted(patch'[s], d) <=> Inserted(patch[s], d) \/ d = patch[s].at
        BY <2>6 DEF PatchInserts, Becomes, Inserted
      <3>2. CASE d # patch[s].at
        BY <2>2, <3>1, <3>2
      <3>3. CASE d = patch[s].at
        <4>1. PatchWaitsFor(s) = {} /\ ~Collides(s) /\ d # Null
          BY <2>6, <3>3, RecordsAssumption DEF PatchInserts
        <4>2. \A q \in PatchReq : q # s /\ patch[q].emp = patch[s].emp => ~Inserted(patch[q], d)
          BY <3>1, <3>3, <4>1 DEF PatchWaitsFor, Inserters, Inserted, Request
        <4>3. sched[patch[s].emp][d] # Null => <<d, sched[patch[s].emp][d].id>> \in patch[s].rows
          BY <3>3, <4>1 DEF Collides, Found
        <4>4. CASE s = r
          BY <2>1, <3>1, <4>2, <4>3, <4>4
        <4>5. CASE s # r
          <5>1. Inserted(patch[r], d) /\ patch'[r] = patch[r]
            BY <1>1, <2>1, <4>5
          <5>2. patch[s].emp # e
            BY <4>2, <4>5, <5>1
          <5> QED BY <1>3, <2>1, <3>1, <5>1, <5>2
        <4> QED BY <4>4, <4>5
      <3> QED BY <3>2, <3>3
    <2>7. Advances(s, patch[s]) =>
             \/ PatchUser(s) /\ Becomes(s, "user", patch[s].rows, patch[s].at, patch[s].done)
             \/ PatchFlush(s) /\ Becomes(s, "flushed", patch[s].rows, patch[s].at, patch[s].done)
             \/ patch'[s].pc = "deleting" \/ patch'[s].done = {}
             \/ PatchInserted(s) /\ Becomes(s, "inserted", patch[s].rows, patch[s].at, patch[s].done)
             \/ PatchInserts(s) /\ \E x \in NextOf(patch[s].body.dates \ (patch[s].done \cup {patch[s].at})) :
                   Becomes(s, "inserting", patch[s].rows, x, patch[s].done \cup {patch[s].at})
      BY DEF Advances, Becomes
    <2> HIDE DEF Goal
    <2> QED BY <1>6, <2>3, <2>4, <2>5, <2>6, <2>7 DEF Moves
  <1>7. ASSUME NEW s \in PatchReq, PatchCommitSchedule(s) \/ PatchCommitRate(s)
        PROVE  Goal
    <2>1. s \in Patching /\ Committed(s)
      BY <1>7 DEF PatchCommitSchedule, PatchCommitRate, ProfileNext, Patching
    <2>2. /\ patch'[s].pc = "idle"
          /\ \A q \in PatchReq \ {s} : /\ patch'[q].pc = patch[q].pc /\ patch'[q].rows = patch[q].rows
                                       /\ patch'[q].emp = patch[q].emp /\ patch'[q].done = patch[q].done
      BY <2>1, CommittedFacts
    <2>3. r # s /\ Inserted(patch[r], d)
      BY <1>1, <2>2 DEF Inserted
    <2>4. \A q \in PatchReq : Inserted(patch'[q], d) =>
             Inserted(patch[q], d) /\ patch'[q].emp = patch[q].emp
      BY <2>2 DEF Inserted
    <2>5. sched'[e][d] \in {Null, sched[e][d]}
      <3>1. CASE PatchCommitRate(s)
        BY <3>1 DEF PatchCommitRate
      <3>2. CASE PatchCommitSchedule(s)
        <4>1. /\ sched'[patch[s].emp] = NewSchedule(s) /\ patch[s].pc = "inserted"
              /\ \A f \in Employee : f # patch[s].emp => sched'[f] = sched[f]
          BY <3>2, CommitScheduleFacts
        <4>2. CASE patch[s].emp # e
          BY <1>2, <2>3, <4>1, <4>2
        <4>3. CASE patch[s].emp = e
          <5>1. patch[s].body.dates \subseteq patch[s].done
            BY <4>1 DEF ProgressInv, ProgressFits
          <5>2. ~Inserted(patch[s], d)
            BY <1>2, <2>3, <4>3
          <5>3. d \notin patch[s].body.dates
            BY <4>1, <5>1, <5>2 DEF Inserted
          <5> QED BY <4>1, <4>3, <5>3 DEF NewSchedule
        <4> QED BY <4>2, <4>3
      <3> QED BY <1>7, <3>1, <3>2
    <2>6. patch'[r].emp = e /\ patch'[r].rows = patch[r].rows
      BY <2>2, <2>3
    <2> QED BY <1>3, <2>3, <2>4, <2>5, <2>6
  <1>8. Goal
    <2> HIDE DEF Goal
    <2>1. ASSUME NEW f \in Employee, NEW t \in RateType, NEW a \in Amount, NEW D \in Plans,
                 CreateEmployee(f, t, a, D)
          PROVE  patch' = patch
      BY <2>1 DEF CreateEmployee
    <2>2. ASSUME NEW q \in OffReq, OffCommit(q)
          PROVE  patch' = patch
      BY <2>2 DEF OffCommit
    <2> QED BY <1>4, <1>5, <1>6, <1>7, <2>1, <2>2, StepCases
  <1> QED BY <1>8

\* Deletions are of employees who were hired.
LEMMA OffEmpStep ==
    ASSUME TypeOK, CapInv, ProfileInv, PatchInv, OffEmpInv, [Next]_vars
    PROVE  OffEmpInv'
  <1>1. \A e \in Employee : profile[e].st # "none" => profile'[e].st # "none"
    <2>1. ASSUME NEW e \in Employee, NEW t \in RateType, NEW a \in Amount, NEW D \in Plans,
                 CreateEmployee(e, t, a, D)
          PROVE  \A f \in Employee : profile[f].st # "none" => profile'[f].st # "none"
      <3>1. profile[e].st = "none" /\ \A f \in Employee : f # e => profile'[f] = profile[f]
        BY <2>1, CreateFacts
      <3> QED BY <3>1
    <2>2. ASSUME NEW r \in PatchReq, PatchCommitSchedule(r) \/ PatchCommitRate(r)
          PROVE  \A f \in Employee : profile[f].st # "none" => profile'[f].st # "none"
      <3>1. r \in Patching /\ Committed(r)
        BY <2>2 DEF PatchCommitSchedule, PatchCommitRate, ProfileNext, Patching
      <3>2. \A f \in Employee : profile'[f].st = profile[f].st
        BY <3>1, CommittedFacts
      <3> QED BY <3>2
    <2>3. ASSUME NEW r \in OffReq, OffCommit(r)
          PROVE  \A f \in Employee : profile[f].st # "none" => profile'[f].st # "none"
      BY <2>3 DEF OffCommit, TypeOK, Profile
    <2>4. CASE UNCHANGED profile
      BY <2>4
    <2> QED BY <2>1, <2>2, <2>3, <2>4, TableSteps
  <1>2. SUFFICES ASSUME NEW r \in OffReq, off'[r].pc # "idle"
                 PROVE  off'[r].emp \in Employee /\ profile'[off'[r].emp].st # "none"
    BY DEF OffEmpInv
  <1>3. CASE off'[r] = off[r]
    BY <1>1, <1>2, <1>3 DEF OffEmpInv
  <1>4. ASSUME OffMoves(r)
        PROVE  off'[r].emp \in Employee /\ profile'[off'[r].emp].st # "none"
    <2>1. CASE off'[r] = IdleOff
      BY <1>2, <2>1, IdleTyped
    <2>2. ASSUME NEW e \in Employee, OffDeletesRows(r, e), off'[r].emp = e
          PROVE  off'[r].emp \in Employee /\ profile'[off'[r].emp].st # "none"
      BY <1>1, <2>2 DEF OffDeletesRows
    <2>3. CASE off'[r].emp = off[r].emp /\ off[r].pc # "idle"
      BY <1>1, <2>3 DEF OffEmpInv
    <2> QED BY <1>4, <2>1, <2>2, <2>3 DEF OffMoves
  <1>5. ASSUME NEW q \in OffReq, OffMoves(q), q # r
        PROVE  off'[r] = off[r]
    BY <1>5 DEF OffMoves
  <1> QED BY <1>3, <1>4, <1>5, OffCases

\* Who replaces a schedule leaves none of the writes it has seen.
LEMMA ReplacedStep ==
    ASSUME TypeOK, CapInv, ProfileInv, PatchInv, OffEmpInv, RowsInv, NumbersInv,
           ReplacedDaysAreGone, [Next]_vars
    PROVE  ReplacedDaysAreGone'
  <1>1. SUFFICES ASSUME NEW e \in Employee, NEW c \in Date, NEW d \in Date,
                        sched'[e][c] # Null, sched'[e][d] # Null,
                        sched'[e][c].id \in sched'[e][d].seen
                 PROVE  FALSE
    BY DEF ReplacedDaysAreGone
  <1>2. writes \in Nat
    BY WritesGrow
  <1>3. CASE sched'[e][c] = sched[e][c] /\ sched'[e][d] = sched[e][d]
    BY <1>1, <1>3 DEF ReplacedDaysAreGone
  <1>4. CASE sched'[e][c] # sched[e][c] /\ sched'[e][d] = sched[e][d]
    <2>1. sched'[e][c].id = writes + 1
      BY <1>1, <1>4, DaysFacts
    <2>2. sched[e][d].seen \subseteq 0..writes
      BY <1>1, <1>4 DEF NumbersInv
    <2> QED BY <1>1, <1>2, <1>4, <2>1, <2>2
  <1>5. CASE sched'[e][d] # sched[e][d]
    <2>1. ASSUME NEW t \in RateType, NEW a \in Amount, NEW D \in Plans, CreateEmployee(e, t, a, D)
          PROVE  FALSE
      BY <1>1, <2>1, FirstDay
    <2>2. ASSUME NEW r \in Patching, PatchCommitSchedule(r), patch[r].emp = e,
                 d \in patch[r].body.dates
          PROVE  FALSE
      <3>1. /\ r \in PatchReq /\ patch[r].body.dates # Keep /\ sched'[e] = NewSchedule(r)
            /\ writes + 1 \in Id
        BY <2>2, CommitScheduleFacts, RoomToCommit DEF Patching
      <3>2. sched'[e][d].seen = {x[2] : x \in patch[r].rows}
        BY <2>2, <3>1, NewDay
      <3> PICK x \in patch[r].rows : sched'[e][c].id = x[2]
        BY <1>1, <3>2
      <3>3. x[2] \in 0..writes
        BY <3>1 DEF RowsInv, RowsFit
      <3>4. sched'[e][c] = sched[e][c]
        BY <1>1, <1>2, <3>3, DaysFacts
      <3>5. <<c, x[2]>> \in patch[r].rows
        BY <1>1, <2>2, <3>1, <3>4 DEF RowsInv, RowsFit, Patching
      <3>6. c \notin patch[r].body.dates
        <4>1. ASSUME c \in patch[r].body.dates
              PROVE  FALSE
          <5>1. sched'[e][c].id = writes + 1
            BY <3>1, <4>1, NewDay
          <5> QED BY <1>2, <3>3, <5>1
        <4> QED BY <4>1
      <3>7. NewSchedule(r)[c] # Null /\ NewSchedule(r)[c].id = x[2]
        BY <1>1, <3>1
      <3>8. /\ NewSchedule(r)[c] = sched[patch[r].emp][c]
            /\ <<c, sched[patch[r].emp][c].id>> \notin patch[r].rows
        BY <3>6, <3>7, KeptDay
      <3> QED BY <3>5, <3>7, <3>8
    <2> QED BY <1>1, <1>5, <2>1, <2>2, DaysFacts
  <1> QED BY <1>3, <1>4, <1>5

\* What a PATCH commits that nobody has overtaken is the rate that it holds.
LEMMA WholeRate ==
    ASSUME TypeOK, ProfileInv, PatchInv, NEW r \in Patching, ~patch[r].overtaken
    PROVE  Updated(r).type = patch[r].type /\ Updated(r).amount = patch[r].amount
  <1>1. /\ "type" \notin patch[r].dirty => patch[r].type = profile[patch[r].emp].type
        /\ "amount" \notin patch[r].dirty => patch[r].amount = profile[patch[r].emp].amount
    BY DEF PatchInv, PatchFits, Patching
  <1>2. /\ "type" \in patch[r].dirty => Updated(r).type = patch[r].type
        /\ "type" \notin patch[r].dirty => Updated(r).type = profile[patch[r].emp].type
        /\ "amount" \in patch[r].dirty => Updated(r).amount = patch[r].amount
        /\ "amount" \notin patch[r].dirty => Updated(r).amount = profile[patch[r].emp].amount
    BY UpdatedFacts
  <1> QED BY <1>1, <1>2

\* A day is written at the rate that the profile gets in the same commit, unless overtaken.
LEMMA SnapshotStep ==
    ASSUME TypeOK, CapInv, ProfileInv, PatchInv, OffEmpInv, SnapshotUnlessOvertaken, [Next]_vars
    PROVE  SnapshotUnlessOvertaken'
  <1>1. SUFFICES ASSUME NEW e \in Employee, NEW d \in Date,
                        sched'[e][d] # Null, ~sched'[e][d].overtaken
                 PROVE  <<sched'[e][d].type, sched'[e][d].amount>> \in had'[e]
    BY DEF SnapshotUnlessOvertaken
  <1>2. ASSUME NEW t \in RateType, NEW a \in Amount, NEW D \in Plans, CreateEmployee(e, t, a, D)
        PROVE  <<sched'[e][d].type, sched'[e][d].amount>> \in had'[e]
    <2>1. had'[e] = {<<t, a>>}
      BY <1>2, CreateFacts
    <2>2. sched'[e][d].type = t /\ sched'[e][d].amount = a
      BY <1>1, <1>2, FirstDay
    <2> QED BY <2>1, <2>2
  <1>3. ASSUME NEW r \in Patching, PatchCommitSchedule(r), patch[r].emp = e,
               d \in patch[r].body.dates
        PROVE  <<sched'[e][d].type, sched'[e][d].amount>> \in had'[e]
    <2>1. /\ r \in PatchReq /\ patch[r].body.dates # Keep /\ sched'[e] = NewSchedule(r)
          /\ writes + 1 \in Id /\ Committed(r)
      BY <1>3, CommitScheduleFacts, RoomToCommit DEF Patching
    <2>2. /\ sched'[e][d].type = patch[r].type /\ sched'[e][d].amount = patch[r].amount
          /\ sched'[e][d].overtaken = patch[r].overtaken
      BY <1>3, <2>1, NewDay
    <2>3. had'[e] = had[e] \cup {<<Updated(r).type, Updated(r).amount>>}
      BY <1>3, <2>1, CommittedFacts
    <2>4. Updated(r).type = patch[r].type /\ Updated(r).amount = patch[r].amount
      BY <1>1, <2>2, WholeRate
    <2> QED BY <2>2, <2>3, <2>4
  <1>4. CASE sched'[e][d] = sched[e][d]
    <2>1. <<sched[e][d].type, sched[e][d].amount>> \in had[e]
      BY <1>1, <1>4 DEF SnapshotUnlessOvertaken
    <2>2. ASSUME NEW f \in Employee, NEW t \in RateType, NEW a \in Amount, NEW D \in Plans,
                 CreateEmployee(f, t, a, D), f # e
          PROVE  had'[e] = had[e]
      BY <2>2, CreateFacts
    <2>3. ASSUME NEW r \in PatchReq, PatchCommitSchedule(r) \/ PatchCommitRate(r)
          PROVE  had[e] \subseteq had'[e]
      <3>1. r \in Patching /\ Committed(r)
        BY <2>3 DEF PatchCommitSchedule, PatchCommitRate, ProfileNext, Patching
      <3>2. CASE e = patch[r].emp
        <4>1. had'[e] = had[e] \cup {<<Updated(r).type, Updated(r).amount>>}
          BY <3>1, <3>2, CommittedFacts
        <4> QED BY <4>1
      <3>3. CASE e # patch[r].emp
        BY <3>1, <3>3, CommittedFacts
      <3> QED BY <3>2, <3>3
    <2>4. ASSUME UNCHANGED had
          PROVE  had'[e] = had[e]
      BY <2>4
    <2>5. ASSUME NEW r \in OffReq, OffCommit(r)
          PROVE  had'[e] = had[e]
      BY <2>5 DEF OffCommit
    <2>6. CASE had[e] \subseteq had'[e]
      BY <1>4, <2>1, <2>6
    <2> QED BY <1>2, <2>2, <2>3, <2>4, <2>5, <2>6, TableSteps
  <1>5. CASE sched'[e][d] # sched[e][d]
    BY <1>1, <1>2, <1>3, <1>5, DaysFacts
  <1> QED BY <1>4, <1>5

\* PATCHes that do not overlap see everything and are overtaken by none.
LEMMA SerialStep ==
    ASSUME TypeOK, CapInv, ProfileInv, PatchInv, OffEmpInv, SerialInv, [Next]_vars
    PROVE  SerialInv'
  <1>1. SUFFICES ASSUME Serial
                 PROVE  /\ \A q, r \in Patching' : patch'[q].emp = patch'[r].emp => q = r
                        /\ \A r \in Patching' : ~patch'[r].overtaken /\ SeesAll(patch'[r], sched')
    BY DEF SerialInv, SeesAll
  <1>2. /\ \A q, r \in Patching : patch[q].emp = patch[r].emp => q = r
        /\ \A r \in Patching : ~patch[r].overtaken /\ SeesAll(patch[r], sched)
    BY <1>1 DEF SerialInv
  <1> DEFINE Goal == /\ \A q, r \in Patching' : patch'[q].emp = patch'[r].emp => q = r
                     /\ \A r \in Patching' : ~patch'[r].overtaken /\ SeesAll(patch'[r], sched')
  <1>3. ASSUME NEW e \in Employee, NEW t \in RateType, NEW a \in Amount, NEW D \in Plans,
               CreateEmployee(e, t, a, D)
        PROVE  Goal
    <2>1. profile[e].st = "none" /\ \A f \in Employee : f # e => sched'[f] = sched[f]
      BY <1>3, CreateFacts
    <2>2. \A r \in Patching : patch[r].emp \in Employee /\ patch[r].emp # e
      BY <2>1 DEF PatchInv, PatchFits, Patching
    <2>3. patch' = patch /\ Patching' = Patching
      BY <1>3 DEF CreateEmployee, Patching
    <2> QED BY <1>2, <2>1, <2>2, <2>3 DEF SeesAll
  <1>4. ASSUME NEW s \in PatchReq, NEW e \in Employee, NEW b \in Bodies, Loads(s, e, b)
        PROVE  Goal
    <2>1. /\ Patching' = Patching \cup {s} /\ s \notin Patching
          /\ \A q \in Patching : patch'[q] = patch[q] /\ patch[q].emp # e
          /\ patch'[s].emp = e /\ patch'[s].overtaken = FALSE /\ patch'[s].pc = "loaded"
          /\ sched' = sched
      BY <1>1, <1>4 DEF Loads, Patching
    <2> QED BY <1>2, <2>1 DEF SeesAll
  <1>5. ASSUME NEW s \in PatchReq, Moves(s)
        PROVE  Goal
    <2>1. /\ s \in Patching /\ sched' = sched
          /\ \A q \in PatchReq : q # s => patch'[q] = patch[q]
      BY <1>5, MovesFacts DEF Patching
    <2>2. CASE patch'[s] = Idle
      <3>1. Patching' = Patching \ {s}
        BY <2>1, <2>2, IdleTyped DEF Patching
      <3>2. \A q \in Patching' : q \in Patching /\ patch'[q] = patch[q]
        BY <2>1, <3>1 DEF Patching
      <3> QED BY <1>2, <2>1, <3>2
    <2>3. CASE patch'[s] # Idle
      <3>1. patch'[s].emp = patch[s].emp /\ patch'[s].overtaken = patch[s].overtaken
        BY <1>5, <2>3, MovesFacts
      <3>2. \A q \in Patching' : /\ q \in Patching
                                 /\ patch'[q].emp = patch[q].emp
                                 /\ patch'[q].overtaken = patch[q].overtaken
                                 /\ q # s => patch'[q] = patch[q]
        BY <2>1, <3>1 DEF Patching
      <3>3. SeesAll(patch'[s], sched')
        <4>1. CASE patch'[s].rows = RowsOf(patch[s].emp)
          <5>1. patch[s].emp \in Employee
            BY <2>1 DEF PatchInv, PatchFits, Patching
          <5> QED BY <2>1, <3>1, <4>1, <5>1, RowsOfFacts DEF SeesAll
        <4>2. CASE patch[s].pc \in {"deleting", "inserting"} /\ patch'[s].rows = patch[s].rows
          BY <1>2, <2>1, <3>1, <4>2 DEF SeesAll
        <4>3. CASE patch'[s].pc \in {"user", "flushed"}
          BY <4>3 DEF SeesAll
        <4> QED BY <1>5, <2>3, <4>1, <4>2, <4>3, MovesFacts
      <3>4. \A q, r \in Patching' : patch'[q].emp = patch'[r].emp => q = r
        BY <1>2, <3>2
      <3>5. ASSUME NEW q \in Patching'
            PROVE  ~patch'[q].overtaken /\ SeesAll(patch'[q], sched')
        <4>1. CASE q = s
          BY <1>2, <3>2, <3>3, <4>1
        <4>2. CASE q # s
          BY <1>2, <2>1, <3>2, <4>2
        <4> QED BY <4>1, <4>2
      <3> QED BY <3>4, <3>5
    <2> QED BY <2>2, <2>3
  <1>6. ASSUME NEW s \in PatchReq, PatchCommitSchedule(s) \/ PatchCommitRate(s)
        PROVE  Goal
    <2>1. s \in Patching /\ Committed(s)
      BY <1>6 DEF PatchCommitSchedule, PatchCommitRate, ProfileNext, Patching
    <2> DEFINE e == patch[s].emp
    <2>2. /\ patch'[s].pc = "idle"
          /\ \A q \in PatchReq \ {s} :
                /\ patch'[q].pc = patch[q].pc /\ patch'[q].rows = patch[q].rows
                /\ patch'[q].emp = patch[q].emp
                /\ patch'[q].overtaken => patch[q].overtaken \/ patch[q].emp = e
      BY <2>1, CommittedFacts
    <2>3. Patching' = Patching \ {s}
      BY <2>2 DEF Patching
    <2>4. \A f \in Employee : f # e => sched'[f] = sched[f]
      BY <1>6, CommitScheduleFacts DEF PatchCommitRate
    <2>5. \A q \in Patching' : q \in Patching /\ patch[q].emp # e /\ patch[q].emp \in Employee
      BY <1>2, <2>1, <2>3 DEF PatchInv, PatchFits, Patching
    <2>6. \A q \in Patching' : q \in PatchReq \ {s}
      BY <2>3 DEF Patching
    <2> HIDE DEF e
    <2> QED BY <1>2, <2>2, <2>4, <2>5, <2>6 DEF SeesAll
  <1>7. ASSUME NEW q \in OffReq, OffCommit(q)
        PROVE  Goal
    <2>1. \A e \in Employee : sched'[e] = sched[e] \/ \A d \in Date : sched'[e][d] = Null
      BY <1>7 DEF OffCommit, TypeOK
    <2>2. patch' = patch /\ Patching' = Patching
      BY <1>7 DEF OffCommit, Patching
    <2>3. \A r \in Patching : patch[r].emp \in Employee
      BY DEF PatchInv, PatchFits, Patching
    <2> QED BY <1>2, <2>1, <2>2, <2>3 DEF SeesAll
  <1>8. ASSUME UNCHANGED <<patch, sched>>
        PROVE  Goal
    BY <1>2, <1>8 DEF Patching
  <1> QED BY <1>3, <1>4, <1>5, <1>6, <1>7, <1>8, StepCases

----------------------------------------------------------------------------
\* The inductive invariant holds at first and is kept by every step.
LEMMA Inductive == Spec => []IInv
  <1>1. Init => IInv
    <2> SUFFICES ASSUME Init
                 PROVE  IInv
      OBVIOUS
    <2>1. Patching = {}
      BY DEF Init, Patching, Idle
    <2>2. CapInv
      BY <2>1, FS_EmptySet, RecordsAssumption DEF Init, CapInv
    <2>3. TypeOK
      <3>1. 0 \in Id
        BY RecordsAssumption DEF Id
      <3> HIDE DEF Idle, IdleOff
      <3> QED BY <3>1, IdleTyped DEF Init, TypeOK, Profile
    <2>4. ProfileInv /\ NumbersInv /\ OffEmpInv
      BY IdleTyped DEF Init, ProfileInv, NumbersInv, OffEmpInv
    <2>7. \A r \in PatchReq : patch[r] = Idle
      BY DEF Init
    <2>8. PatchInv /\ ProgressInv /\ RowsInv /\ IndexInv
      BY <2>7, IdleTyped DEF PatchInv, PatchFits, ProgressInv, ProgressFits, RowsInv, RowsFit,
                             IndexInv, Inserted
    <2>5. SerialInv
      BY <2>1 DEF SerialInv
    <2>6. ReplacedDaysAreGone /\ SnapshotUnlessOvertaken
      BY DEF Init, ReplacedDaysAreGone, SnapshotUnlessOvertaken
    <2> QED BY <2>2, <2>3, <2>4, <2>5, <2>6, <2>8 DEF IInv
  <1>2. IInv /\ [Next]_vars => IInv'
    BY TypeStep, CapStep, ProfileStep, PatchStepInv, ProgressStep, IndexStep, RowsStep,
       NumbersStep, OffEmpStep, SerialStep, ReplacedStep, SnapshotStep
       DEF IInv
  <1> QED BY <1>1, <1>2, PTL DEF Spec

\* Every variable keeps its type; the numbers in particular suffice for all that write.
THEOREM RecordsTyped == Spec => []TypeOK
  <1>1. IInv => TypeOK
    BY DEF IInv
  <1> QED BY <1>1, Inductive, PTL

\* PATCHes that overlap in any way: no day is left of a schedule whose rows the DELETE of a
\* day next to it could see.
THEOREM ReplacedForGood == Spec => []ReplacedDaysAreGone
  <1>1. IInv => ReplacedDaysAreGone
    BY DEF IInv
  <1> QED BY <1>1, Inductive, PTL

\* Only a PATCH that was overtaken writes days at a rate that the profile never had.
THEOREM OnlyTheOvertakenMix == Spec => []SnapshotUnlessOvertaken
  <1>1. IInv => SnapshotUnlessOvertaken
    BY DEF IInv
  <1> QED BY <1>1, Inductive, PTL

\* What a PATCH commits while no other one of the employee is under way.
LEMMA SerialCommit ==
    ASSUME IInv, Serial, NEW r \in PatchReq, PatchCommitSchedule(r) \/ PatchCommitRate(r),
           NEW e, e = patch[r].emp
    PROVE  /\ e \in Employee /\ r \in Patching /\ Committed(r) /\ profile[e].st = "row"
           /\ profile'[e].st = "row"
           /\ profile'[e].type = patch[r].type /\ profile'[e].amount = patch[r].amount
           /\ patch[r].type \in RateType /\ patch[r].amount \in Amount
           /\ \A f \in Employee : f # e => profile'[f] = profile[f]
  <1>1. r \in Patching /\ Committed(r) /\ profile[e].st = "row"
    BY DEF PatchCommitSchedule, PatchCommitRate, ProfileNext, Patching
  <1>2. e \in Employee /\ patch[r].type \in RateType /\ patch[r].amount \in Amount
    BY <1>1 DEF IInv, PatchInv, PatchFits, Patching
  <1>3. /\ profile'[e] = Updated(r)
        /\ \A f \in Employee : f # e => profile'[f] = profile[f]
    BY <1>1, CommittedFacts DEF IInv
  <1>4. ~patch[r].overtaken
    BY <1>1 DEF IInv, SerialInv
  <1>5. Updated(r).type = patch[r].type /\ Updated(r).amount = patch[r].amount
    BY <1>1, <1>4, WholeRate DEF IInv
  <1>6. Updated(r).st = "row"
    BY <1>1, UpdatedFacts DEF IInv
  <1> QED BY <1>1, <1>2, <1>3, <1>5, <1>6

\* And the schedule it commits: the days of its body and no other ones.
LEMMA SerialSchedule ==
    ASSUME IInv, Serial, NEW r \in PatchReq, PatchCommitSchedule(r), NEW e, e = patch[r].emp,
           NEW d \in Date
    PROVE  /\ d \in patch[r].body.dates =>
                /\ sched'[e][d] # Null
                /\ sched'[e][d].type = patch[r].type /\ sched'[e][d].amount = patch[r].amount
           /\ d \notin patch[r].body.dates => sched'[e][d] = Null
  <1>1. /\ r \in Patching /\ patch[r].pc = "inserted" /\ patch[r].body.dates # Keep
        /\ sched'[e] = NewSchedule(r) /\ e \in Employee
    BY CommitScheduleFacts DEF IInv
  <1>2. writes + 1 \in Id
    BY <1>1, RoomToCommit DEF IInv
  <1>3. CASE d \in patch[r].body.dates
    BY <1>1, <1>2, <1>3, NewDay DEF IInv
  <1>4. ASSUME d \notin patch[r].body.dates, sched'[e][d] # Null
        PROVE  FALSE
    <2>1. /\ NewSchedule(r)[d] = sched[patch[r].emp][d]
          /\ <<d, sched[patch[r].emp][d].id>> \notin patch[r].rows
      BY <1>1, <1>4, KeptDay
    <2>2. SeesAll(patch[r], sched)
      BY <1>1 DEF IInv, SerialInv
    <2> QED BY <1>1, <1>4, <2>1, <2>2 DEF SeesAll
  <1> QED BY <1>3, <1>4

\* A PATCH that does not overlap another one of the employee and is answered with 200 has
\* made the record what its body says.
THEOREM AnsweredInFull == Serial => (Spec => AnsweredPatchHolds)
  <1> SUFFICES ASSUME Serial
               PROVE  Spec => AnsweredPatchHolds
    OBVIOUS
  <1> DEFINE Holds ==
        \A r \in PatchReq :
          patch[r].pc # "idle" /\ patch'[r].pc = "idle" /\ patch'[r].ok =>
            LET e == patch[r].emp
                b == patch[r].body
            IN /\ b.type # Keep => profile'[e].type = b.type
               /\ b.amount # Keep => profile'[e].amount = b.amount
               /\ b.dates # Keep => {d \in Date : sched'[e][d] # Null} = b.dates
  <1>1. ASSUME IInv, [Next]_vars
        PROVE  Holds
    <2> SUFFICES ASSUME NEW r \in PatchReq,
                        patch[r].pc # "idle", patch'[r].pc = "idle", patch'[r].ok,
                        NEW e, e = patch[r].emp, NEW b, b = patch[r].body
                 PROVE  /\ b.type # Keep => profile'[e].type = b.type
                        /\ b.amount # Keep => profile'[e].amount = b.amount
                        /\ b.dates # Keep => {d \in Date : sched'[e][d] # Null} = b.dates
      OBVIOUS
    <2>1. TypeOK /\ CapInv /\ ProfileInv /\ PatchInv
      BY <1>1 DEF IInv
    <2>2. ASSUME NEW q \in PatchReq, PatchCommitSchedule(q) \/ PatchCommitRate(q)
          PROVE  q = r
      <3>1. q \in Patching /\ Committed(q)
        BY <2>2 DEF PatchCommitSchedule, PatchCommitRate, ProfileNext, Patching
      <3>2. \A p \in PatchReq \ {q} : patch'[p].pc = patch[p].pc
        BY <2>1, <3>1, CommittedFacts
      <3> QED BY <3>2
    <2>3. PatchCommitSchedule(r) \/ PatchCommitRate(r)
      <3>1. ASSUME NEW q \in PatchReq, Moves(q)
            PROVE  FALSE
        <4>1. CASE q = r
          <5>1. patch'[r] = Idle
            BY <1>1, <2>1, <3>1, <4>1, MovesFacts
          <5> QED BY <5>1 DEF Idle
        <4>2. CASE q # r
          BY <3>1, <4>2, MovesFacts
        <4> QED BY <4>1, <4>2
      <3>2. ASSUME NEW q \in PatchReq, NEW f \in Employee, NEW c \in Bodies, Loads(q, f, c)
            PROVE  FALSE
        <4>1. CASE q = r
          BY <3>2, <4>1 DEF Loads
        <4>2. CASE q # r
          BY <3>2, <4>2 DEF Loads
        <4> QED BY <4>1, <4>2
      <3> QED BY <1>1, <2>1, <2>2, <3>1, <3>2, StepCases DEF CreateEmployee, OffCommit
    <2>4. profile'[e].type = patch[r].type /\ profile'[e].amount = patch[r].amount
      BY <1>1, <2>3, SerialCommit
    <2>5. /\ b.type # Keep => patch[r].type = b.type
          /\ b.amount # Keep => patch[r].amount = b.amount
      BY <2>1 DEF PatchInv, PatchFits
    <2>6. ASSUME b.dates # Keep
          PROVE  {d \in Date : sched'[e][d] # Null} = b.dates
      <3>1. PatchCommitSchedule(r)
        BY <2>3, <2>6 DEF PatchCommitRate
      <3>2. \A d \in Date : d \in b.dates <=> sched'[e][d] # Null
        BY <1>1, <3>1, SerialSchedule
      <3>3. b.dates \subseteq Date
        BY <2>1, <2>6 DEF TypeOK, Patch, Body
      <3> QED BY <3>2, <3>3
    <2> QED BY <2>4, <2>5, <2>6
  <1>2. IInv /\ [Next]_vars => [Holds]_vars
    BY <1>1
  <1>3. AnsweredPatchHolds <=> [][Holds]_vars
    BY DEF AnsweredPatchHolds
  <1> QED BY <1>2, <1>3, Inductive, PTL DEF Spec

----------------------------------------------------------------------------
\* The abstract record of one employee changes with the profile and the schedule.
LEMMA RateMoves ==
    ASSUME NEW e \in Employee, \A f \in Employee : f # e => profile'[f] = profile[f],
           NEW p, p = IF profile'[e].st = "row"
                      THEN <<profile'[e].type, profile'[e].amount>> ELSE Null
    PROVE  RateNow' = [RateNow EXCEPT ![e] = p]
  BY DEF RateNow

\* So do the days, by employee.
LEMMA DaysMove ==
    ASSUME NEW e \in Employee, \A f \in Employee : f # e => sched'[f] = sched[f],
           NEW p, NEW D \in SUBSET Date,
           \A d \in Date : IF d \in D THEN /\ sched'[e][d] # Null
                                           /\ p = <<sched'[e][d].type, sched'[e][d].amount>>
                           ELSE sched'[e][d] = Null
    PROVE  DaysNow' = [DaysNow EXCEPT ![e] = Pay!Plan(D, p)]
  <1>1. DaysNow'[e] = Pay!Plan(D, p)
    BY DEF DaysNow, Pay!Plan
  <1>2. \A f \in Employee : f # e => DaysNow'[f] = DaysNow[f]
    BY DEF DaysNow
  <1>3. DaysNow' = [f \in Employee |-> DaysNow'[f]] /\ DaysNow = [f \in Employee |-> DaysNow[f]]
    BY DEF DaysNow
  <1> HIDE DEF DaysNow
  <1> QED BY <1>1, <1>2, <1>3

\* An employee has a rate exactly while there is a profile.
LEMMA RateNowFacts ==
    ASSUME IInv, NEW e \in Employee
    PROVE  RateNow[e] = Null <=> profile[e].st # "row"
  <1>1. ASSUME profile[e].st = "row"
        PROVE  RateNow[e] \in Rate
    <2>1. profile[e].type \in RateType /\ profile[e].amount \in Amount
      BY <1>1 DEF IInv, ProfileInv
    <2> QED BY <1>1, <2>1 DEF RateNow, Rate
  <1> QED BY <1>1, NullAssumption DEF RateNow

\* PATCHes that do not overlap, with deletions that do: whoever reads rate and schedule sees
\* whole rates and whole schedules follow each other, as in Roster.
THEOREM RosterImplemented == Serial => (Spec => ImplementsRoster)
  <1> SUFFICES ASSUME Serial
               PROVE  Spec => ImplementsRoster
    OBVIOUS
  <1>1. Init => Pay!RosterInit
    BY DEF Init, Pay!RosterInit, Pay!Plan, RateNow, DaysNow
  <1>2. ASSUME IInv, [Next]_vars
        PROVE  [Pay!RosterNext]_<<RateNow, DaysNow>>
    <2>1. TypeOK /\ CapInv /\ ProfileInv /\ PatchInv /\ OffEmpInv
      BY <1>2 DEF IInv
    <2>2. ASSUME NEW e \in Employee, NEW t \in RateType, NEW a \in Amount, NEW D \in Plans,
                 CreateEmployee(e, t, a, D)
          PROVE  Pay!Hire(e)
      <3>1. /\ profile[e].st = "none" /\ profile'[e].st = "row"
            /\ profile'[e].type = t /\ profile'[e].amount = a
            /\ \A f \in Employee : f # e => profile'[f] = profile[f]
            /\ \A f \in Employee : f # e => sched'[f] = sched[f]
            /\ sched' \in [Employee -> [Date -> DayRow \cup {Null}]]
        BY <2>1, <2>2, CreateFacts
      <3>2. RateNow[e] = Null
        BY <1>2, <3>1, RateNowFacts
      <3> DEFINE p == <<t, a>>
      <3>3. p \in Rate /\ D \in SUBSET Date
        BY RecordsAssumption DEF Rate
      <3>4. RateNow' = [RateNow EXCEPT ![e] = p]
        BY <3>1, RateMoves
      <3>5. \A d \in Date : IF d \in D THEN /\ sched'[e][d] # Null
                                            /\ p = <<sched'[e][d].type, sched'[e][d].amount>>
                            ELSE sched'[e][d] = Null
        BY <2>1, <2>2, FirstDay
      <3> HIDE DEF p
      <3>6. DaysNow' = [DaysNow EXCEPT ![e] = Pay!Plan(D, p)]
        <4>1. D \in SUBSET Date /\ \A f \in Employee : f # e => sched'[f] = sched[f]
          BY <3>1, <3>3
        <4> QED BY <3>5, <4>1, DaysMove
      <3> QED BY <3>2, <3>3, <3>4, <3>6 DEF Pay!Hire
    <2>3. ASSUME NEW r \in PatchReq, PatchCommitSchedule(r) \/ PatchCommitRate(r)
          PROVE  Pay!Change(patch[r].emp)
      <3> DEFINE e == patch[r].emp
                 p == <<patch[r].type, patch[r].amount>>
                 D == patch[r].body.dates
      <3>1. /\ e \in Employee /\ profile[e].st = "row" /\ profile'[e].st = "row"
            /\ profile'[e].type = patch[r].type /\ profile'[e].amount = patch[r].amount
            /\ patch[r].type \in RateType /\ patch[r].amount \in Amount
            /\ \A f \in Employee : f # e => profile'[f] = profile[f]
        BY <1>2, <2>3, SerialCommit
      <3>2. RateNow[e] # Null
        BY <1>2, <3>1, RateNowFacts
      <3>3. p \in Rate
        BY <3>1 DEF Rate
      <3>4. RateNow' = [RateNow EXCEPT ![e] = p]
        BY <3>1, RateMoves
      <3>5. CASE PatchCommitRate(r)
        <4>1. DaysNow' = DaysNow
          BY <3>5 DEF PatchCommitRate, DaysNow
        <4> HIDE DEF e, p
        <4> QED BY <3>2, <3>3, <3>4, <4>1 DEF Pay!Change, e
      <3>6. CASE PatchCommitSchedule(r)
        <4>1. D # Keep /\ \A f \in Employee : f # e => sched'[f] = sched[f]
          BY <2>1, <3>6, CommitScheduleFacts
        <4>2. D \in SUBSET Date
          BY <2>1, <4>1 DEF TypeOK, Patch, Body
        <4>3. \A d \in Date : /\ d \in D => /\ sched'[e][d] # Null
                                            /\ sched'[e][d].type = patch[r].type
                                            /\ sched'[e][d].amount = patch[r].amount
                              /\ d \notin D => sched'[e][d] = Null
          BY <1>2, <3>6, SerialSchedule
        <4>4. \A d \in Date : IF d \in D THEN /\ sched'[e][d] # Null
                                              /\ p = <<sched'[e][d].type, sched'[e][d].amount>>
                              ELSE sched'[e][d] = Null
          BY <4>3
        <4> HIDE DEF p, D
        <4>5. DaysNow' = [DaysNow EXCEPT ![e] = Pay!Plan(D, p)]
          BY <3>1, <4>1, <4>2, <4>4, DaysMove
        <4> QED BY <3>2, <3>3, <3>4, <4>2, <4>5 DEF Pay!Change
      <3> QED BY <2>3, <3>5, <3>6
    <2>4. ASSUME NEW q \in OffReq, OffCommit(q)
          PROVE  Pay!Leave(off[q].emp) \/ UNCHANGED <<RateNow, DaysNow>>
      <3> DEFINE e == off[q].emp
      <3>1. e \in Employee /\ profile[e].st # "none"
        BY <2>1, <2>4 DEF OffCommit, OffEmpInv
      <3>2. /\ profile'[e].st = "gone" /\ \A d \in Date : sched'[e][d] = Null
            /\ \A f \in Employee : f # e => profile'[f] = profile[f]
            /\ \A f \in Employee : f # e => sched'[f] = sched[f]
        BY <2>1, <2>4, <3>1 DEF OffCommit, TypeOK, Profile
      <3>3. RateNow' = [RateNow EXCEPT ![e] = Null]
        BY <3>1, <3>2, RateMoves
      <3>4. DaysNow' = [DaysNow EXCEPT ![e] = Pay!Plan({}, Null)]
        <4>1. \A d \in Date : IF d \in {} THEN /\ sched'[e][d] # Null
                                               /\ Null = <<sched'[e][d].type, sched'[e][d].amount>>
                              ELSE sched'[e][d] = Null
          BY <3>2
        <4> HIDE DEF e
        <4> QED BY <3>1, <3>2, <4>1, DaysMove
      <3>5. CASE profile[e].st = "row"
        <4>1. RateNow[e] # Null
          BY <1>2, <3>1, <3>5, RateNowFacts
        <4> QED BY <3>3, <3>4, <4>1 DEF Pay!Leave
      <3>6. CASE profile[e].st # "row"
        <4>1. \A d \in Date : sched[e][d] = Null
          BY <2>1, <3>1, <3>6 DEF ProfileInv
        <4>2. RateNow' = RateNow
          BY <3>1, <3>2, <3>6 DEF RateNow
        <4>3. DaysNow' = DaysNow
          BY <3>1, <3>2, <4>1 DEF DaysNow
        <4> QED BY <4>2, <4>3
      <3> QED BY <3>5, <3>6
    <2>5. ASSUME UNCHANGED <<profile, sched>>
          PROVE  UNCHANGED <<RateNow, DaysNow>>
      BY <2>5 DEF RateNow, DaysNow
    <2>6. ASSUME NEW q \in OffReq, OffCommit(q)
          PROVE  off[q].emp \in Employee
      BY <2>1, <2>6 DEF OffCommit, OffEmpInv
    <2>7. ASSUME NEW r \in PatchReq, PatchCommitSchedule(r) \/ PatchCommitRate(r)
          PROVE  patch[r].emp \in Employee
      BY <1>2, <2>7, SerialCommit
    <2>8. ASSUME NEW r \in PatchReq, Moves(r)
          PROVE  UNCHANGED <<RateNow, DaysNow>>
      BY <2>5, <2>8, MovesFacts
    <2>9. ASSUME NEW r \in PatchReq, NEW e \in Employee, NEW b \in Bodies, Loads(r, e, b)
          PROVE  UNCHANGED <<RateNow, DaysNow>>
      BY <2>5, <2>9 DEF Loads
    <2>10. \/ \E e \in Employee : Pay!Hire(e) \/ Pay!Change(e) \/ Pay!Leave(e)
           \/ UNCHANGED <<RateNow, DaysNow>>
      BY <1>2, <2>1, <2>2, <2>3, <2>4, <2>5, <2>6, <2>7, <2>8, <2>9, StepCases
    <2> QED BY <2>10 DEF Pay!RosterNext
  <1> QED BY <1>1, <1>2, Inductive, PTL DEF Spec, ImplementsRoster, Pay!RosterSpec, Pay!rvars
----------------------------------------------------------------------------
(***************************************************************************)
(* Locks. The waits of the model are guards over what others hold; that    *)
(* they work as PostgreSQL's locks do is a theorem: nobody holds what      *)
(* another one holds.                                                      *)
(***************************************************************************)
LocksAreExclusive ==
    \A e \in Employee :
        /\ \A p, q \in UserHolders(e) : p = q
        /\ \A p, q \in Updaters(e) \cup Removers(e) : p = q
        /\ Removers(e) = {} \/ ProfileSharers(e) = {}
        /\ \A d \in Date : \A p, q \in Deleters(e, d) \cup Inserters(e, d) : p = q

\* At the end of a deletion's first statement no row that it found is left; the rows are old.
OffInv ==
    \A r \in OffReq :
        /\ off[r].pc = "rows" /\ off[r].at = Null => DatesOf(off[r].rows) \subseteq off[r].done
        /\ \A x \in off[r].rows : x[2] \in 0..writes

\* The rows of a deletion.
LEMMA OffStepInv ==
    ASSUME IInv, OffInv, [Next]_vars
    PROVE  OffInv'
  <1>1. TypeOK /\ CapInv /\ ProfileInv /\ PatchInv /\ NumbersInv
    BY DEF IInv
  <1>2. SUFFICES ASSUME NEW r \in OffReq
                 PROVE  /\ off'[r].pc = "rows" /\ off'[r].at = Null =>
                              DatesOf(off'[r].rows) \subseteq off'[r].done
                        /\ \A x \in off'[r].rows : x[2] \in 0..writes'
    BY DEF OffInv, DatesOf
  <1>3. 0..writes \subseteq 0..writes'
    BY <1>1, WritesGrow
  <1>4. CASE off'[r] = off[r]
    BY <1>3, <1>4 DEF OffInv
  <1>5. CASE OffMoves(r)
    <2>1. CASE off'[r] = IdleOff
      BY <2>1, IdleTyped
    <2>2. ASSUME NEW e \in Employee, off'[r].rows = RowsOf(e), off'[r].done = {},
                 off'[r].at = Null => off'[r].rows = {}
          PROVE  /\ off'[r].pc = "rows" /\ off'[r].at = Null =>
                       DatesOf(off'[r].rows) \subseteq off'[r].done
                 /\ \A x \in off'[r].rows : x[2] \in 0..writes'
      <3>1. \A x \in RowsOf(e) : x[2] \in 0..writes
        BY <1>1, RowsOfFacts DEF NumbersInv
      <3> QED BY <1>3, <2>2, <3>1 DEF DatesOf
    <2>3. CASE /\ off'[r].rows = off[r].rows
               /\ off'[r].pc = "rows" /\ off'[r].at = Null => DatesOf(off'[r].rows) \subseteq off'[r].done
      BY <1>3, <2>3 DEF OffInv
    <2> QED BY <1>5, <2>1, <2>2, <2>3 DEF OffMoves
  <1>6. ASSUME NEW q \in OffReq, OffMoves(q), q # r
        PROVE  off'[r] = off[r]
    BY <1>6 DEF OffMoves
  <1> QED BY <1>1, <1>4, <1>5, <1>6, OffCases

\* What a step can be for one PATCH: it stays where it is, or comes to the end or to the
\* beginning, or goes on by a step of its own.
LEMMA PatchCases ==
    ASSUME TypeOK, CapInv, ProfileInv, PatchInv, [Next]_vars, NEW q \in PatchReq
    PROVE  \/ /\ patch'[q].pc = patch[q].pc /\ patch'[q].rows = patch[q].rows
              /\ patch'[q].emp = patch[q].emp /\ patch'[q].body = patch[q].body
              /\ patch'[q].dirty = patch[q].dirty /\ patch'[q].done = patch[q].done
           \/ patch'[q].pc \in {"idle", "loaded"} /\ patch'[q].rows = {} /\ patch'[q].done = {}
           \/ Advances(q, patch[q]) /\ UNCHANGED <<sched, off>>
  <1>1. CASE patch' = patch
    BY <1>1
  <1>2. ASSUME NEW r \in PatchReq, NEW e \in Employee, NEW b \in Bodies, Loads(r, e, b)
        PROVE  \/ patch'[q] = patch[q]
               \/ patch'[q].pc = "loaded" /\ patch'[q].rows = {} /\ patch'[q].done = {}
    BY <1>2 DEF Loads
  <1>3. ASSUME NEW r \in PatchReq, Moves(r), UNCHANGED off
        PROVE  \/ patch'[q] = patch[q] \/ patch'[q] = Idle
               \/ Advances(q, patch[q]) /\ UNCHANGED <<sched, off>>
    <2>1. CASE q = r
      BY <1>3, <2>1 DEF Moves, Stops
    <2>2. CASE q # r
      BY <1>3, <2>2, MovesFacts
    <2> QED BY <2>1, <2>2
  <1>4. ASSUME NEW r \in PatchReq, PatchCommitSchedule(r) \/ PatchCommitRate(r)
        PROVE  \/ /\ patch'[q].pc = patch[q].pc /\ patch'[q].rows = patch[q].rows
                  /\ patch'[q].emp = patch[q].emp /\ patch'[q].body = patch[q].body
                  /\ patch'[q].dirty = patch[q].dirty /\ patch'[q].done = patch[q].done
               \/ patch'[q].pc = "idle" /\ patch'[q].rows = {} /\ patch'[q].done = {}
    <2>1. r \in Patching /\ Committed(r)
      BY <1>4 DEF PatchCommitSchedule, PatchCommitRate, ProfileNext, Patching
    <2>2. CASE q = r
      BY <2>1, <2>2, CommittedFacts
    <2>3. CASE q # r
      BY <2>1, <2>3, CommittedFacts
    <2> QED BY <2>2, <2>3
  <1>5. ASSUME NEW e \in Employee, NEW t \in RateType, NEW a \in Amount, NEW D \in Plans,
               CreateEmployee(e, t, a, D)
        PROVE  patch' = patch
    BY <1>5 DEF CreateEmployee
  <1>6. ASSUME NEW r \in OffReq, OffCommit(r)
        PROVE  patch' = patch
    BY <1>6 DEF OffCommit
  <1>7. CASE patch'[q] = Idle
    BY <1>7, IdleTyped
  <1> QED BY <1>1, <1>2, <1>3, <1>4, <1>5, <1>6, <1>7, StepCases

\* A row that the table has and that has been found is no new one.
LEMMA FoundBefore ==
    ASSUME TypeOK, CapInv, ProfileInv, PatchInv, OffEmpInv, [Next]_vars,
           NEW e \in Employee, NEW d \in Date, NEW rows, \A x \in rows : x[2] \in 0..writes,
           sched'[e][d] # Null, <<d, sched'[e][d].id>> \in rows
    PROVE  Found(rows, e, d)
  <1>1. sched'[e][d].id \in 0..writes /\ writes \in Nat
    BY WritesGrow
  <1>2. sched'[e][d] = sched[e][d]
    BY <1>1, DaysFacts
  <1> QED BY <1>2 DEF Found

\* How a PATCH comes by its locks.
LEMMA PatchLocks ==
    ASSUME IInv, [Next]_vars, NEW q \in PatchReq, NEW e \in Employee
    PROVE  /\ q \in UserHolders(e)' => \/ q \in UserHolders(e)
                                       \/ PatchUser(q) /\ patch[q].emp = e
           /\ q \in Updaters(e)' => \/ q \in Updaters(e)
                                    \/ PatchFlush(q) /\ patch[q].emp = e /\ patch[q].dirty # {}
           /\ q \in ProfileSharers(e)' =>
                \/ q \in ProfileSharers(e)
                \/ PatchInserted(q) /\ patch[q].emp = e /\ patch[q].body.dates # {}
           /\ \A d \in Date : q \in Deleters(e, d)' =>
                \/ q \in Deleters(e, d)
                \/ /\ PatchTakes(q) /\ patch[q].emp = e /\ patch[q].at = d
                   /\ Found(patch[q].rows, e, d)
  <1>1. /\ TypeOK /\ CapInv /\ ProfileInv /\ PatchInv /\ OffEmpInv
        /\ ProgressFits(patch[q]) /\ \A x \in patch[q].rows : x[2] \in 0..writes
        /\ q \notin OffReq
    BY RecordsAssumption DEF IInv, ProgressInv, RowsInv, RowsFit
  <1> DEFINE p == patch[q]
             n == patch'[q]
  <1>2. /\ q \in UserHolders(e)' => n.emp = e /\ n.body.active /\ n.pc \notin {"idle", "loaded"}
        /\ q \in Updaters(e)' => n.emp = e /\ n.dirty # {} /\ n.pc \notin {"idle", "loaded", "user"}
        /\ q \in ProfileSharers(e)' => n.emp = e /\ n.pc = "inserted" /\ n.body.dates # {}
    BY <1>1 DEF UserHolders, Updaters, ProfileSharers
  <1>3. /\ p.emp = e /\ p.body.active /\ p.pc \notin {"idle", "loaded"} => q \in UserHolders(e)
        /\ p.emp = e /\ p.dirty # {} /\ p.pc \notin {"idle", "loaded", "user"} => q \in Updaters(e)
        /\ p.emp = e /\ p.pc = "inserted" /\ p.body.dates # {} => q \in ProfileSharers(e)
    BY DEF UserHolders, Updaters, ProfileSharers
  <1> DEFINE Same == /\ n.pc = p.pc /\ n.rows = p.rows /\ n.emp = p.emp /\ n.body = p.body
                     /\ n.dirty = p.dirty /\ n.done = p.done
             Out == n.pc \in {"idle", "loaded"} /\ n.rows = {} /\ n.done = {}
  <1>5. Same \/ Out \/ Advances(q, p)
    BY <1>1, PatchCases
  <1>6. q \in UserHolders(e)' => q \in UserHolders(e) \/ (PatchUser(q) /\ p.emp = e)
    <2>1. Advances(q, p) => /\ n.emp = p.emp /\ n.body = p.body
                            /\ p.pc \notin {"idle", "loaded"} \/ PatchUser(q) \/ ~p.body.active
      BY DEF Advances, Becomes, PatchFlush, ProfileNext, PatchDelete, PatchTakes, PatchDeleted,
             PatchInserts, PatchInserted
    <2> HIDE DEF p, n
    <2> QED BY <1>2, <1>3, <1>5, <2>1
  <1>7. q \in Updaters(e)' => q \in Updaters(e) \/ (PatchFlush(q) /\ p.emp = e /\ p.dirty # {})
    <2>1. Advances(q, p) => /\ n.emp = p.emp /\ n.dirty = p.dirty
                            /\ \/ p.pc \notin {"idle", "loaded", "user"} \/ PatchFlush(q)
                               \/ n.pc = "user"
      BY DEF Advances, Becomes, PatchDelete, PatchTakes, PatchDeleted, PatchInserts, PatchInserted
    <2> HIDE DEF p, n
    <2> QED BY <1>2, <1>3, <1>5, <2>1
  <1>8. q \in ProfileSharers(e)' =>
           q \in ProfileSharers(e) \/ (PatchInserted(q) /\ p.emp = e /\ p.body.dates # {})
    <2>1. Advances(q, p) => /\ n.emp = p.emp /\ n.body = p.body
                            /\ n.pc # "inserted" \/ PatchInserted(q)
      BY DEF Advances, Becomes
    <2> HIDE DEF p, n
    <2> QED BY <1>2, <1>3, <1>5, <2>1
  <1>9. ASSUME NEW d \in Date, q \in Deleters(e, d)'
        PROVE  \/ q \in Deleters(e, d)
               \/ PatchTakes(q) /\ p.emp = e /\ p.at = d /\ Found(p.rows, e, d)
    <2> DEFINE x == <<d, sched'[e][d].id>>
    <2>1. Advances(q, p) =>
             /\ n.emp = p.emp
             /\ \/ n.rows = p.rows /\ p.rows = {}
                \/ n.pc = "deleting" /\ n.done = {}
                \/ n.rows = p.rows /\ p.pc # "deleting"
                \/ n.rows = p.rows /\ DatesOf(p.rows) \subseteq p.done
                \/ n.rows = p.rows /\ PatchTakes(q) /\ n.pc = "deleting" /\ n.done = p.done \cup {p.at}
      BY <1>1 DEF Advances, Becomes, PatchUser, PatchFlush, ProfileNext, PatchDelete, PatchDeleted,
             PatchInserts, PatchInserted, ProgressFits
    <2>2. x \in p.rows /\ DatesOf(p.rows) \subseteq p.done => d \in p.done
      BY DEF DatesOf
    <2>3. n.emp = e /\ sched'[e][d] # Null /\ x \in n.rows /\ (n.pc = "deleting" => d \in n.done)
      BY <1>1, <1>9 DEF Deleters, Found
    <2>4. x \in p.rows => Found(p.rows, e, d)
      BY <1>1, <2>3, FoundBefore
    <2>5. p.emp = e /\ x \in p.rows /\ (p.pc = "deleting" => d \in p.done) => q \in Deleters(e, d)
      BY <2>4 DEF Deleters
    <2> HIDE DEF p, n, x
    <2>6. CASE Same
      BY <2>3, <2>5, <2>6
    <2>7. CASE Out
      BY <2>3, <2>7
    <2>8. CASE Advances(q, p)
      BY <2>1, <2>2, <2>3, <2>4, <2>5, <2>8
    <2> QED BY <1>5, <2>6, <2>7, <2>8
  <1> QED BY <1>6, <1>7, <1>8, <1>9

\* How a deletion comes by its locks.
LEMMA OffLocks ==
    ASSUME IInv, OffInv, [Next]_vars, NEW q \in OffReq, NEW e \in Employee
    PROVE  /\ q \in Removers(e)' => \/ q \in Removers(e)
                                    \/ OffHasProfile(q) /\ off[q].emp = e
           /\ \A d \in Date : q \in Deleters(e, d)' =>
                \/ q \in Deleters(e, d)
                \/ OffTakes(q) /\ off[q].emp = e /\ off[q].at = d /\ Found(off[q].rows, e, d)
  <1>1. /\ TypeOK /\ CapInv /\ ProfileInv /\ PatchInv /\ OffEmpInv
        /\ off[q].pc = "rows" /\ off[q].at = Null => DatesOf(off[q].rows) \subseteq off[q].done
        /\ \A x \in off[q].rows : x[2] \in 0..writes
        /\ q \notin PatchReq
    BY RecordsAssumption DEF IInv, OffInv
  <1> DEFINE o == off[q]
             n == off'[q]
  <1>2. n = o \/ n = IdleOff \/ OffMoves(q)
    BY <1>1, OffCases DEF OffMoves
  <1>3. IdleOff.pc = "idle" /\ IdleOff.rows = {}
    BY IdleTyped
  <1>4. ASSUME q \in Removers(e)'
        PROVE  \/ q \in Removers(e)
               \/ OffHasProfile(q) /\ o.emp = e
    <2>1. OffMoves(q) => \/ n = IdleOff \/ n.pc \in {"rows", "profile"}
                         \/ OffHasProfile(q) /\ n.emp = o.emp
      BY DEF OffMoves
    <2>2. n.emp = e /\ n.pc = "user"
      BY <1>4 DEF Removers
    <2>3. o.emp = e /\ o.pc = "user" => q \in Removers(e)
      BY DEF Removers
    <2> HIDE DEF n, o
    <2> QED BY <1>2, <1>3, <2>1, <2>2, <2>3
  <1>5. ASSUME NEW d \in Date, q \in Deleters(e, d)'
        PROVE  \/ q \in Deleters(e, d)
               \/ OffTakes(q) /\ o.emp = e /\ o.at = d /\ Found(o.rows, e, d)
    <2> DEFINE x == <<d, sched'[e][d].id>>
    <2>1. OffMoves(q) =>
             \/ n = IdleOff
             \/ n.pc = "rows" /\ n.done = {}
             \/ /\ n.emp = o.emp /\ n.rows = o.rows
                /\ \/ OffTakes(q) /\ n.pc = "rows" /\ n.done = o.done \cup {o.at}
                   \/ o.pc # "rows"
                   \/ DatesOf(o.rows) \subseteq o.done
      BY <1>1 DEF OffMoves
    <2>2. x \in o.rows /\ DatesOf(o.rows) \subseteq o.done => d \in o.done
      BY DEF DatesOf
    <2>3. n.emp = e /\ sched'[e][d] # Null /\ x \in n.rows /\ (n.pc = "rows" => d \in n.done)
      BY <1>1, <1>5 DEF Deleters, Found
    <2>4. x \in o.rows => Found(o.rows, e, d)
      BY <1>1, <2>3, FoundBefore
    <2>5. o.emp = e /\ x \in o.rows /\ (o.pc = "rows" => d \in o.done) => q \in Deleters(e, d)
      BY <2>4 DEF Deleters
    <2> HIDE DEF n, o, x
    <2> QED BY <1>2, <1>3, <2>1, <2>2, <2>3, <2>4, <2>5
  <1> QED BY <1>4, <1>5

\* A request that takes a lock leaves the other ones as they are.
LEMMA OthersStay ==
    ASSUME IInv, NEW e \in Employee
    PROVE  /\ \A q \in PatchReq : PatchUser(q) => UserHolders(e)' \subseteq UserHolders(e) \cup {q}
           /\ \A q \in PatchReq :
                PatchFlush(q) => /\ Updaters(e)' \subseteq Updaters(e) \cup {q}
                                 /\ Removers(e)' = Removers(e)
           /\ \A q \in PatchReq : PatchInserted(q) => Removers(e)' = Removers(e)
           /\ \A q \in OffReq :
                OffHasProfile(q) => /\ Removers(e)' \subseteq Removers(e) \cup {q}
                                    /\ Updaters(e)' = Updaters(e)
                                    /\ ProfileSharers(e)' = ProfileSharers(e)
           /\ \A q \in PatchReq, d \in Date :
                PatchTakes(q) => Deleters(e, d)' \subseteq Deleters(e, d) \cup {q}
           /\ \A q \in OffReq, d \in Date :
                OffTakes(q) => Deleters(e, d)' \subseteq Deleters(e, d) \cup {q}
  <1>1. TypeOK /\ PatchInv /\ PatchReq \cap OffReq = {}
    BY RecordsAssumption DEF IInv
  <1>2. ASSUME NEW q \in PatchReq,
               PatchUser(q) \/ PatchFlush(q) \/ PatchTakes(q) \/ PatchInserted(q)
        PROVE  /\ \A x \in PatchReq : x # q => patch'[x] = patch[x]
               /\ off' = off /\ sched' = sched
    <2>1. Moves(q)
      BY <1>1, <1>2, MoveSteps
    <2>2. off' = off
      BY <1>2 DEF PatchUser, PatchFlush, PatchTakes, PatchInserted
    <2> QED BY <2>1, <2>2, MovesFacts
  <1>3. ASSUME NEW q \in OffReq, OffHasProfile(q) \/ OffTakes(q)
        PROVE  /\ \A x \in OffReq : x # q => off'[x] = off[x]
               /\ patch' = patch /\ sched' = sched
    <2>1. OffMoves(q)
      BY <1>1, <1>3, OffSteps DEF OffStep
    <2>2. patch' = patch /\ sched' = sched
      BY <1>3 DEF OffHasProfile, OffTakes
    <2> QED BY <2>1, <2>2 DEF OffMoves
  <1>4. ASSUME NEW q \in PatchReq, PatchUser(q)
        PROVE  UserHolders(e)' \subseteq UserHolders(e) \cup {q}
    BY <1>2, <1>4 DEF UserHolders
  <1>5. ASSUME NEW q \in PatchReq, PatchFlush(q)
        PROVE  Updaters(e)' \subseteq Updaters(e) \cup {q} /\ Removers(e)' = Removers(e)
    BY <1>2, <1>5 DEF Updaters, Removers
  <1>6. ASSUME NEW q \in PatchReq, PatchInserted(q)
        PROVE  Removers(e)' = Removers(e)
    BY <1>2, <1>6 DEF Removers
  <1>7. ASSUME NEW q \in OffReq, OffHasProfile(q)
        PROVE  /\ Removers(e)' \subseteq Removers(e) \cup {q} /\ Updaters(e)' = Updaters(e)
               /\ ProfileSharers(e)' = ProfileSharers(e)
    BY <1>3, <1>7 DEF Updaters, Removers, ProfileSharers
  <1>8. ASSUME NEW q \in PatchReq, NEW d \in Date, PatchTakes(q)
        PROVE  Deleters(e, d)' \subseteq Deleters(e, d) \cup {q}
    <2>1. /\ off' = off /\ sched' = sched
          /\ \A x \in PatchReq : x # q => patch'[x] = patch[x]
      BY <1>2, <1>8
    <2> QED BY <2>1 DEF Deleters, Found
  <1>9. ASSUME NEW q \in OffReq, NEW d \in Date, OffTakes(q)
        PROVE  Deleters(e, d)' \subseteq Deleters(e, d) \cup {q}
    <2>1. /\ patch' = patch /\ sched' = sched
          /\ \A x \in OffReq : x # q => off'[x] = off[x]
      BY <1>3, <1>9
    <2> QED BY <2>1 DEF Deleters, Found
  <1> QED BY <1>4, <1>5, <1>6, <1>7, <1>8, <1>9

\* The locks of the rows of the user, the profile and the schedule.
Apart ==
    \A e \in Employee :
        /\ \A p, q \in UserHolders(e) : p = q
        /\ \A p, q \in Updaters(e) \cup Removers(e) : p = q
        /\ Removers(e) = {} \/ ProfileSharers(e) = {}
        /\ \A d \in Date : \A p, q \in Deleters(e, d) : p = q

\* Locks are taken where nobody has them.
LEMMA ApartStep ==
    ASSUME IInv, OffInv, Apart, [Next]_vars
    PROVE  Apart'
  <1>1. SUFFICES ASSUME NEW e \in Employee
                 PROVE  /\ \A p, q \in UserHolders(e)' : p = q
                        /\ \A p, q \in (Updaters(e) \cup Removers(e))' : p = q
                        /\ (Removers(e) = {} \/ ProfileSharers(e) = {})'
                        /\ \A d \in Date : \A p, q \in Deleters(e, d)' : p = q
    BY DEF Apart
  <1>2. /\ \A p, q \in UserHolders(e) : p = q
        /\ \A p, q \in Updaters(e) \cup Removers(e) : p = q
        /\ Removers(e) = {} \/ ProfileSharers(e) = {}
        /\ \A d \in Date : \A p, q \in Deleters(e, d) : p = q
    BY DEF Apart
  <1>3. /\ UserHolders(e) \subseteq Request /\ UserHolders(e)' \subseteq PatchReq
        /\ Updaters(e) \subseteq PatchReq /\ Removers(e) \subseteq OffReq
        /\ ProfileSharers(e) \subseteq PatchReq
        /\ Updaters(e)' \subseteq PatchReq /\ ProfileSharers(e)' \subseteq PatchReq
        /\ Removers(e)' \subseteq OffReq
        /\ \A d \in Date : Deleters(e, d) \subseteq Request /\ Deleters(e, d)' \subseteq Request
    BY DEF UserHolders, Updaters, Removers, ProfileSharers, Deleters, Request
  <1>4. PatchReq \cap OffReq = {} /\ Request = PatchReq \cup OffReq
    BY RecordsAssumption DEF Request
  \* Who has not had the lock before waits for nobody.
  <1>5. ASSUME NEW x \in UserHolders(e)', x \notin UserHolders(e)
        PROVE  UserHolders(e)' \subseteq {x}
    <2>1. x \in PatchReq /\ PatchUser(x) /\ patch[x].emp = e
      BY <1>3, <1>5, PatchLocks
    <2>2. UserHolders(e) \subseteq {x}
      BY <1>3, <2>1 DEF PatchUser, PatchWaitsFor
    <2> QED BY <2>1, <2>2, OthersStay
  <1>6. ASSUME NEW x \in Updaters(e)', x \notin Updaters(e)
        PROVE  Updaters(e)' \subseteq {x} /\ Removers(e)' = {}
    <2>1. x \in PatchReq /\ PatchFlush(x) /\ patch[x].emp = e /\ patch[x].dirty # {}
      BY <1>3, <1>6, PatchLocks
    <2>2. Updaters(e) \cup Removers(e) \subseteq {x}
      BY <1>3, <1>4, <2>1 DEF PatchFlush, PatchWaitsFor
    <2> QED BY <1>3, <1>4, <2>1, <2>2, OthersStay
  <1>7. ASSUME NEW x \in ProfileSharers(e)', x \notin ProfileSharers(e)
        PROVE  Removers(e)' = {}
    <2>1. x \in PatchReq /\ PatchInserted(x) /\ patch[x].emp = e /\ patch[x].body.dates # {}
      BY <1>3, <1>7, PatchLocks
    <2>2. Removers(e) \subseteq {x}
      BY <1>3, <1>4, <2>1 DEF PatchInserted, PatchWaitsFor
    <2> QED BY <1>3, <1>4, <2>1, <2>2, OthersStay
  <1>8. ASSUME NEW x \in Removers(e)', x \notin Removers(e)
        PROVE  Removers(e)' \subseteq {x} /\ Updaters(e)' = {} /\ ProfileSharers(e)' = {}
    <2>1. x \in OffReq /\ OffHasProfile(x) /\ off[x].emp = e
      BY <1>3, <1>8, OffLocks
    <2>2. Updaters(e) \cup Removers(e) \cup ProfileSharers(e) \subseteq {x}
      BY <1>3, <1>4, <2>1 DEF OffHasProfile, OffWaitsFor
    <2> QED BY <1>3, <1>4, <2>1, <2>2, OthersStay
  <1>9. ASSUME NEW d \in Date, NEW x \in Deleters(e, d)', x \notin Deleters(e, d)
        PROVE  Deleters(e, d)' \subseteq {x}
    <2>1. CASE x \in PatchReq
      <3>1. PatchTakes(x) /\ patch[x].emp = e /\ patch[x].at = d /\ Found(patch[x].rows, e, d)
        BY <1>9, <2>1, PatchLocks
      <3>2. Deleters(e, d) \subseteq {x}
        BY <1>3, <2>1, <3>1 DEF PatchTakes, PatchWaitsFor
      <3> QED BY <2>1, <3>1, <3>2, OthersStay
    <2>2. CASE x \in OffReq
      <3>1. OffTakes(x) /\ off[x].emp = e /\ off[x].at = d /\ Found(off[x].rows, e, d)
        BY <1>9, <2>2, OffLocks
      <3>2. Deleters(e, d) \subseteq {x}
        BY <1>3, <2>2, <3>1 DEF OffTakes, OffWaitsFor
      <3> QED BY <2>2, <3>1, <3>2, OthersStay
    <2> QED BY <1>3, <1>4, <2>1, <2>2
  <1>10. \A p, q \in UserHolders(e)' : p = q
    BY <1>2, <1>5
  <1>11. \A p, q \in (Updaters(e) \cup Removers(e))' : p = q
    BY <1>2, <1>6, <1>8
  <1>12. (Removers(e) = {} \/ ProfileSharers(e) = {})'
    BY <1>2, <1>7, <1>8
  <1>13. \A d \in Date : \A p, q \in Deleters(e, d)' : p = q
    BY <1>2, <1>9
  <1> QED BY <1>10, <1>11, <1>12, <1>13

\* The rows of the user, the profile and the schedule, and the entries of the unique index,
\* are locked by one request at a time, however many PATCHes and deletions overlap.
THEOREM LocksStayExclusive == Spec => []LocksAreExclusive
  <1>1. Init => OffInv /\ Apart
    <2> SUFFICES ASSUME Init
                 PROVE  OffInv /\ Apart
      OBVIOUS
    <2>1. /\ \A r \in PatchReq : patch[r].pc = "idle" /\ patch[r].rows = {}
          /\ \A r \in OffReq : off[r].pc = "idle" /\ off[r].rows = {}
      <3> HIDE DEF Idle, IdleOff
      <3> QED BY IdleTyped DEF Init
    <2> QED BY <2>1 DEF OffInv, Apart, UserHolders, Updaters, Removers, Deleters, Found
  <1>2. IInv /\ OffInv /\ Apart /\ [Next]_vars => OffInv' /\ Apart'
    BY OffStepInv, ApartStep
  <1>3. ASSUME IInv, Apart
        PROVE  LocksAreExclusive
    <2>1. SUFFICES ASSUME NEW e \in Employee, NEW d \in Date,
                          NEW p \in Inserters(e, d), NEW q \in Deleters(e, d) \cup Inserters(e, d)
                   PROVE  p = q
      BY <1>3 DEF LocksAreExclusive, Apart
    <2>2. p \in PatchReq /\ patch[p].emp = e /\ Inserted(patch[p], d)
      BY DEF Inserters, Inserted
    <2>3. IndexInv
      BY <1>3 DEF IInv
    <2>4. CASE q \in Inserters(e, d)
      BY <2>2, <2>3, <2>4 DEF IndexInv, Inserters, Inserted
    <2>5. CASE q \in Deleters(e, d)
      <3>1. sched[e][d] # Null
        BY <2>5 DEF Deleters, Found
      <3>2. Found(patch[p].rows, e, d) /\ patch[p].pc \in {"inserting", "inserted"}
        BY <2>2, <2>3, <3>1 DEF IndexInv, Found, Inserted
      <3>3. p \in Deleters(e, d)
        BY <2>2, <3>2 DEF Deleters
      <3> QED BY <1>3, <2>5, <3>3 DEF Apart
    <2> QED BY <2>4, <2>5
  <1>4. IInv /\ Apart => LocksAreExclusive
    BY <1>3
  <1> QED BY <1>1, <1>2, <1>4, Inductive, PTL DEF Spec

----------------------------------------------------------------------------
\* PATCHes take the user row first, then the profile, and go through the schedule in orders of
\* their own. In a circle of requests that wait for each other, a PATCH is at a row of the
\* schedule, or waits for the profile while a deletion that has it waits for the user row;
\* a circle of PATCHes alone is one over rows of the schedule and entries of its index.
CirclesAreOverRows ==
    \A S \in SUBSET Waiting :
        Deadlocked(S) =>
            /\ \A r \in S \cap PatchReq :
                  \/ patch[r].pc \in {"deleting", "inserting"}
                  \/ /\ patch[r].pc = "user"
                     /\ \E q \in S \cap OffReq : off[q].pc = "user" /\ off[q].emp = patch[r].emp
            /\ S \subseteq PatchReq =>
                  \A r \in S : patch[r].pc \in {"deleting", "inserting"} /\ patch[r].at # Null

\* A PATCH that is waited for has come further than its first lock.
LEMMA WaitedFor ==
    ASSUME TypeOK, ProgressInv, NEW q \in Request, NEW r \in WaitsFor(q), r \in PatchReq
    PROVE  \/ patch[r].pc \in {"flushed", "deleting", "inserting", "inserted"}
           \/ /\ patch[r].pc = "user"
              /\ \/ q \in PatchReq /\ patch[q].pc = "loaded"
                 \/ q \in OffReq /\ off[q].pc = "user" /\ off[q].emp = patch[r].emp
  <1>1. r \notin OffReq /\ Request = PatchReq \cup OffReq
    BY RecordsAssumption DEF Request
  <1>2. patch[r].pc \in {"idle", "loaded", "user", "flushed"} =>
            patch[r].rows = {} /\ patch[r].done = {}
    BY DEF ProgressInv, ProgressFits
  <1>3. patch[r].pc \in {"idle", "loaded", "user", "flushed", "deleting", "inserting", "inserted"}
    BY DEF TypeOK, Patch
  \* Who has a row of the schedule.
  <1>4. ASSUME NEW e, NEW d, r \in Deleters(e, d)
        PROVE  patch[r].pc \notin {"idle", "loaded", "user", "flushed"}
    <2>1. <<d, sched[e][d].id>> \in patch[r].rows
      BY <1>1, <1>4 DEF Deleters, Found
    <2> QED BY <1>2, <2>1
  <1>5. ASSUME NEW e, NEW d, r \in Inserters(e, d)
        PROVE  patch[r].pc \notin {"idle", "loaded", "user", "flushed"}
    BY <1>2, <1>5 DEF Inserters
  <1>6. \A e : r \in UserHolders(e) => patch[r].pc \notin {"idle", "loaded"} /\ patch[r].emp = e
    BY DEF UserHolders
  <1>7. \A e : r \in Updaters(e) => patch[r].pc \notin {"idle", "loaded", "user"}
    BY DEF Updaters
  <1>8. \A e : r \in ProfileSharers(e) => patch[r].pc = "inserted"
    BY DEF ProfileSharers
  <1>9. \A e : r \notin Removers(e)
    BY <1>1 DEF Removers
  <1>10. CASE q \in PatchReq
    <2>1. r \in PatchWaitsFor(q)
      BY <1>10 DEF WaitsFor
    <2> HIDE DEF WaitsFor
    <2> QED BY <1>3, <1>4, <1>5, <1>6, <1>7, <1>9, <1>10, <2>1 DEF PatchWaitsFor
  <1>11. CASE q \in OffReq
    <2>1. q \notin PatchReq /\ r \in OffWaitsFor(q)
      BY RecordsAssumption, <1>11 DEF WaitsFor
    <2> QED BY <1>3, <1>4, <1>6, <1>7, <1>8, <1>9, <1>11, <2>1 DEF OffWaitsFor
  <1> QED BY <1>1, <1>10, <1>11

\* In a circle of waiting requests a PATCH is at a row of the schedule, or waits for the
\* profile of a deletion that waits for the user row; without deletions it is at a row.
THEOREM CirclesStayOverRows == Spec => []CirclesAreOverRows
  <1>1. SUFFICES ASSUME IInv
                 PROVE  CirclesAreOverRows
    BY Inductive, PTL DEF Spec
  <1>2. TypeOK /\ ProgressInv /\ PatchReq \cap OffReq = {}
    BY <1>1, RecordsAssumption DEF IInv
  <1>3. ASSUME NEW S \in SUBSET Waiting, Deadlocked(S), NEW r \in S, r \in PatchReq
        PROVE  /\ \/ patch[r].pc \in {"deleting", "inserting"}
                  \/ /\ patch[r].pc = "user"
                     /\ \E q \in S \cap OffReq : off[q].pc = "user" /\ off[q].emp = patch[r].emp
               /\ S \subseteq PatchReq =>
                     patch[r].pc \in {"deleting", "inserting"} /\ patch[r].at # Null
    <2>1. PICK f \in [S -> S] : \A x \in S : f[x] \in WaitsFor(x) /\ \E q \in S : f[q] = x
      BY <1>3 DEF Deadlocked
    <2>2. ASSUME NEW x \in S, x \in PatchReq
          PROVE  \E q \in S :
                   /\ q \in Request
                   /\ \/ patch[x].pc \in {"flushed", "deleting", "inserting", "inserted"}
                      \/ /\ patch[x].pc = "user"
                         /\ \/ q \in PatchReq /\ patch[q].pc = "loaded"
                            \/ q \in OffReq /\ off[q].pc = "user" /\ off[q].emp = patch[x].emp
      <3>1. PICK q \in S : f[q] = x
        BY <2>1, <2>2
      <3>2. q \in Request /\ x \in WaitsFor(q)
        BY <2>1, <3>1 DEF Waiting
      <3> QED BY <1>2, <2>2, <3>2, WaitedFor
    <2>3. ASSUME NEW x \in S, x \in PatchReq
          PROVE  patch[x].pc # "loaded"
      BY <2>2, <2>3
    <2>4. PICK q \in S :
             \/ patch[r].pc \in {"flushed", "deleting", "inserting", "inserted"}
             \/ /\ patch[r].pc = "user"
                /\ \/ q \in PatchReq /\ patch[q].pc = "loaded"
                   \/ q \in OffReq /\ off[q].pc = "user" /\ off[q].emp = patch[r].emp
      BY <1>3, <2>2
    <2>5. PICK x \in S : x \in Request /\ x \in PatchWaitsFor(r)
      <3>1. f[r] \in S /\ f[r] \in WaitsFor(r)
        BY <1>3, <2>1
      <3> QED BY <1>3, <3>1 DEF WaitsFor, PatchWaitsFor
    <2>6. patch[r].pc \notin {"flushed", "inserted"}
      BY <2>5 DEF PatchWaitsFor, ProfileNext
    <2>7. S \subseteq PatchReq => x \notin Removers(patch[r].emp)
      BY <1>2, <2>5 DEF Removers
    <2>8. S \subseteq PatchReq => patch[r].pc \in {"deleting", "inserting"}
      BY <1>2, <2>3, <2>4, <2>6
    <2>9. S \subseteq PatchReq /\ patch[r].pc \in {"deleting", "inserting"} => patch[r].at # Null
      BY <2>5, <2>7 DEF PatchWaitsFor, ProfileNext
    <2> QED BY <2>3, <2>4, <2>6, <2>8, <2>9
  <1> QED BY <1>3 DEF CirclesAreOverRows
=============================================================================
