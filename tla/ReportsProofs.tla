--------------------------- MODULE ReportsProofs ---------------------------
(***************************************************************************)
(* Proofs about Reports: its types, that a report is exact about everybody *)
(* who is not written meanwhile, and that what it shows of the others are  *)
(* parts in the order in which they were committed.                        *)
(***************************************************************************)
EXTENDS Reports, TLAPS

\* What reports show: a sum for each of some employees.
Rows == UNION {[S -> Due] : S \in SUBSET Employee}

Rep == [pc : {"idle", "select", "base", "bonus", "fine", "adjs", "done", "404"},
        kind : OfAll \cup OfOne \cup Own, company : Company \cup {Absent},
        of : SUBSET Employee, todo : SUBSET Employee, cur : SUBSET Employee,
        sum : Due, rows : Rows,
        touched : SUBSET Employee, seen : Seq([Employee -> Due])]

\* Which employees a request holds at each of its steps.
Shape(p) ==
    /\ p.cur \subseteq p.todo /\ p.todo \subseteq p.of
    /\ p.pc = "idle" => p.of = {}
    /\ p.pc = "select" => p.todo = {} /\ DOMAIN p.rows = {}
    /\ p.pc \in {"bonus", "fine"} => p.kind \in Calculated /\ \A e, f \in p.cur : e = f
    /\ p.pc = "adjs" => p.kind \in Batched /\ DOMAIN p.rows = p.cur
    /\ p.pc = "base" /\ p.kind \notin Calculated => DOMAIN p.rows = {}
    /\ p.pc \in {"base", "adjs"} /\ p.kind \in Batched => p.cur = p.todo
    /\ p.pc = "done" => p.todo \subseteq DOMAIN p.rows

\* Of employees whom nobody writes: who is still to be read or read belongs in the
\* report, and what is read of them is what is due.
Exact(p) ==
    \A e \in p.of \ p.touched :
        /\ p.kind \in Own => Works(e, p.company)
        /\ p.pc # "select" => (e \in p.todo \cup DOMAIN p.rows <=> Found(p.kind, p.company, e))
        /\ e \in p.cur /\ p.pc \in {"bonus", "fine"} => p.sum.base = due[e].base
        /\ e \in p.cur /\ p.pc = "fine" => p.sum.bonus = due[e].bonus
        /\ e \in DOMAIN p.rows =>
              /\ p.rows[e].base = due[e].base
              /\ p.kind = "grid" \/ p.kind \in Slotted =>
                    p.rows[e].bonus = 0 /\ p.rows[e].fine = 0
              /\ p.kind \in Calculated \/ (p.kind \in Batched /\ p.pc = "done") =>
                    p.rows[e].bonus = due[e].bonus /\ p.rows[e].fine = due[e].fine

Moments(p) == 1..Len(p.seen)

\* What is due now is the last that the request has seen, and every part that it
\* has read is of one of the moments that it has seen, in their order.
Ordered(p) ==
    /\ p.pc # "idle" => Len(p.seen) > 0 /\ p.seen[Len(p.seen)] = due
    /\ p.pc = "bonus" => \A e \in p.cur : \E i \in Moments(p) : p.sum.base = p.seen[i][e].base
    /\ p.pc = "fine" => \A e \in p.cur : \E i, j \in Moments(p) :
          i <= j /\ p.sum.base = p.seen[i][e].base /\ p.sum.bonus = p.seen[j][e].bonus
    /\ \A e \in DOMAIN p.rows : \E i, j, k \in Moments(p) :
          /\ i <= j /\ j <= k
          /\ p.rows[e].base = p.seen[i][e].base
          /\ p.kind \in Calculated \/ (p.kind \in Batched /\ p.pc = "done") =>
                p.rows[e].bonus = p.seen[j][e].bonus /\ p.rows[e].fine = p.seen[k][e].fine
          /\ p.kind \in Batched => j = k

Tables ==
    /\ user \in [Employee -> User \cup {Absent}]
    /\ profile \subseteq {e \in Employee : user[e] # Absent}
    /\ due \in [Employee -> Due]
    /\ \A e \in Employee \ profile : due[e] = Nothing
    /\ gone \subseteq Employee \ profile /\ writes \in 0..MaxWrites

Fits(p) == p \in Rep /\ Shape(p) /\ Exact(p) /\ Ordered(p)

IInv ==
    /\ Tables
    /\ rep \in [Report -> Rep]
    /\ \A r \in Report : Fits(rep[r])
-----------------------------------------------------------------------------
(***************************************************************************)
(* Sums and the functions that reports make of them                        *)
(***************************************************************************)
\* Nothing is a sum.
LEMMA NothingIsDue == Nothing \in Due /\ Nothing.base = 0 /\ Nothing.bonus = 0 /\ Nothing.fine = 0
  BY ReportsAssumption DEF Nothing, Due

\* A sum is its three parts.
LEMMA SumsAreParts ==
    ASSUME NEW x \in Due, NEW y \in Due, x.base = y.base, x.bonus = y.bonus, x.fine = y.fine
    PROVE  x = y
  BY DEF Due

\* The parts of a sum are amounts.
LEMMA PartsAreAmounts ==
    ASSUME NEW x \in Due PROVE x.base \in Amounts /\ x.bonus \in Amounts /\ x.fine \in Amounts
  BY DEF Due

\* What a report shows is a sum for each of its employees, and a sum for each of
\* some employees may be shown.
LEMMA RowsShown ==
    ASSUME NEW f \in Rows
    PROVE  DOMAIN f \subseteq Employee /\ \A e \in DOMAIN f : f[e] \in Due
  BY DEF Rows

\* What a report makes of some employees are rows of it.
LEMMA RowsMade ==
    ASSUME NEW S \in SUBSET Employee, NEW f \in [S -> Due]
    PROVE  f \in Rows
  BY DEF Rows

\* The report of nobody.
LEMMA NoRows == <<>> \in Rows /\ DOMAIN <<>> = {}
<1>1. DOMAIN <<>> = {}
  OBVIOUS
<1>2. <<>> \in [{} -> Due]
  OBVIOUS
<1> QED
  BY <1>1, <1>2, RowsMade

-----------------------------------------------------------------------------
(***************************************************************************)
(* Steps of a request                                                      *)
(***************************************************************************)
\* A request that goes on, and changes nothing else, has to fit only itself.
LEMMA OneGoesOn ==
    ASSUME IInv, NEW r \in Report, NEW p, Fits(p), Becomes(r, p)
    PROVE  IInv'
<1>1. /\ user' = user /\ profile' = profile /\ due' = due /\ gone' = gone /\ writes' = writes
      /\ rep' = [rep EXCEPT ![r] = p] /\ rep \in [Report -> Rep] /\ p \in Rep
  BY DEF Becomes, IInv, Fits
<1>2. Tables'
  BY <1>1 DEF IInv, Tables
<1>3. rep' \in [Report -> Rep]
  BY <1>1
<1>4. ASSUME NEW s \in Report PROVE Fits(rep[s])'
  <2> DEFINE x == rep'[s]
  <2>1. Fits(x)
    BY <1>1 DEF IInv
  <2> HIDE DEF x
  <2>2. x \in Rep /\ Shape(x) /\ Exact(x) /\ Ordered(x)
    BY <2>1 DEF Fits
  <2>3. Shape(rep[s])'
    BY <2>2 DEF Shape, x
  <2>4. Exact(rep[s])'
    BY <1>1, <2>2 DEF Exact, Found, Works, x
  <2>5. Ordered(rep[s])'
    BY <1>1, <2>2 DEF Ordered, Moments, x
  <2> QED
    BY <2>2, <2>3, <2>4, <2>5 DEF Fits, x
<1> QED
  BY <1>2, <1>3, <1>4 DEF IInv

\* A request that is free fits everything.
LEMMA IdleFits == Fits(IdleRep)
<1>1. /\ IdleRep.pc = "idle" /\ IdleRep.of = {} /\ IdleRep.todo = {} /\ IdleRep.cur = {}
      /\ IdleRep.rows = <<>>
  BY DEF IdleRep
<1>2. IdleRep \in Rep
  <2>1. <<>> \in Seq([Employee -> Due]) /\ <<>> \in Rows /\ Nothing \in Due
    BY NoRows, NothingIsDue
  <2> QED
    BY <2>1 DEF IdleRep, Rep, OfAll
<1>3. DOMAIN IdleRep.rows = {}
  BY <1>1, NoRows
<1> QED
  BY <1>1, <1>2, <1>3 DEF Fits, Shape, Exact, Ordered

\* Init
LEMMA InitIInv == Init => IInv
<1> SUFFICES ASSUME Init PROVE IInv
  OBVIOUS
<1>1. Tables
  <2>1. \A c \in Company : NewUser(c) \in User
    BY DEF NewUser, User
  <2>2. Absent \notin User
    BY ReportsAssumption DEF User
  <2> QED
    BY <2>1, <2>2, ReportsAssumption DEF Init, Tables
<1>2. \A r \in Report : rep[r] = IdleRep
  BY DEF Init
<1> QED
  BY <1>1, <1>2, IdleFits DEF IInv, Fits, Init

\* An admin asks, or an employee about himself: the request is about employees of
\* whom it has read nothing, and what is due now is all that it has seen.
LEMMA StartKeeps ==
    ASSUME IInv, NEW r \in Report, NEW kind \in OfAll \cup OfOne \cup Own,
           NEW c \in Company, NEW S \in SUBSET Employee, Start(r, kind, c, S),
           kind \in Own => \A e \in S : Works(e, c)
    PROVE  IInv'
<1> DEFINE q == [IdleRep EXCEPT !.pc = "select", !.kind = kind, !.company = c, !.of = S,
                                !.seen = <<due>>]
<1>1. IdleRep \in Rep /\ IdleRep.todo = {} /\ IdleRep.cur = {} /\ DOMAIN IdleRep.rows = {}
  BY IdleFits, NoRows DEF Fits, IdleRep
<1>2. /\ <<due>> \in Seq([Employee -> Due]) /\ Len(<<due>>) = 1 /\ <<due>>[1] = due
  BY DEF IInv, Tables
<1>3. /\ q \in Rep /\ q.pc = "select" /\ q.kind = kind /\ q.company = c /\ q.of = S
      /\ q.todo = {} /\ q.cur = {} /\ DOMAIN q.rows = {} /\ q.seen = <<due>>
  BY <1>1, <1>2 DEF Rep
<1>4. Becomes(r, q)
  BY DEF Start
<1> HIDE DEF q
<1>5. Shape(q) /\ Exact(q)
  BY <1>3 DEF Shape, Exact
<1>6. Ordered(q)
  BY <1>2, <1>3 DEF Ordered
<1> QED
  BY <1>3, <1>4, <1>5, <1>6, OneGoesOn DEF Fits

\* The answer is sent.
LEMMA AnswerKeeps == ASSUME IInv, NEW r \in Report, Answer(r) PROVE IInv'
  BY IdleFits, OneGoesOn DEF Answer

\* What is known of the request that a step reads for.
LEMMA Reading ==
    ASSUME IInv, NEW r \in Report
    PROVE  /\ rep[r] \in Rep /\ Shape(rep[r]) /\ Exact(rep[r]) /\ Ordered(rep[r])
           /\ rep[r].of \subseteq Employee /\ rep[r].todo \subseteq Employee
           /\ rep[r].cur \subseteq Employee /\ rep[r].sum \in Due /\ rep[r].rows \in Rows
           /\ rep[r].seen \in Seq([Employee -> Due])
           /\ due \in [Employee -> Due]
<1>1. rep[r] \in Rep
  BY DEF IInv
<1> QED
  BY <1>1 DEF IInv, Fits, Tables, Rep

\* The last moment that a request under way has seen is now.
LEMMA LastMoment ==
    ASSUME IInv, NEW r \in Report, rep[r].pc # "idle"
    PROVE  \E n \in Moments(rep[r]) :
              /\ rep[r].seen[n] = due
              /\ \A i \in Moments(rep[r]) : i \in Nat /\ i <= n
<1>1. Len(rep[r].seen) \in Nat
  BY Reading
<1>2. Len(rep[r].seen) > 0 /\ rep[r].seen[Len(rep[r].seen)] = due
  BY Reading DEF Ordered
<1> DEFINE n == Len(rep[r].seen)
<1>3. n \in 1..n
  BY <1>1, <1>2
<1> QED
  BY <1>1, <1>2, <1>3 DEF Moments

\* The first SELECT: those it finds are still to be read, or, for the grid, shown.
LEMMA SelectsKeeps == ASSUME IInv, NEW r \in Report, Selects(r) PROVE IInv'
<1> DEFINE p == rep[r]
           S == {e \in p.of : Found(p.kind, p.company, e)}
<1>1. /\ p.pc = "select" /\ p.todo = {} /\ p.cur = {} /\ DOMAIN p.rows = {}
      /\ p \in Rep /\ S \subseteq p.of /\ p.of \subseteq Employee
  BY Reading DEF Selects, Shape
<1>2. Exact(p) /\ Ordered(p)
  BY Reading
<1>3. CASE p.kind \notin OfAll /\ S = {}
  <2> DEFINE q == [p EXCEPT !.pc = "404"]
  <2>1. Becomes(r, q)
    BY <1>3 DEF Selects
  <2>2. /\ q \in Rep /\ q.pc = "404" /\ q.kind = p.kind /\ q.company = p.company
        /\ q.of = p.of /\ q.todo = {} /\ q.cur = {} /\ DOMAIN q.rows = {}
        /\ q.touched = p.touched /\ q.seen = p.seen
    BY <1>1 DEF Rep
  <2> HIDE DEF q
  <2>3. Shape(q) /\ Exact(q)
    BY <1>2, <1>3, <2>2 DEF Shape, Exact
  <2>4. Ordered(q)
    BY <1>1, <1>2, <2>2 DEF Ordered
  <2> QED
    BY <2>1, <2>2, <2>3, <2>4, OneGoesOn DEF Fits
<1>4. CASE (p.kind \in OfAll \/ S # {}) /\ p.kind = "grid"
  <2> DEFINE rows == [e \in S |-> [Nothing EXCEPT !.base = due[e].base]]
             q == [p EXCEPT !.pc = "done", !.rows = rows]
  <2>1. Becomes(r, q)
    BY <1>4 DEF Selects
  <2>2. \A e \in S : /\ due[e] \in Due
                     /\ rows[e] \in Due /\ rows[e].base = due[e].base
                     /\ rows[e].bonus = 0 /\ rows[e].fine = 0
    <3>1. \A e \in S : due[e] \in Due /\ due[e].base \in Amounts
      BY <1>1, Reading, PartsAreAmounts
    <3> QED
      BY <3>1, NothingIsDue DEF Due
  <2>3. rows \in Rows /\ DOMAIN rows = S
    <3>1. rows \in [S -> Due]
      BY <2>2
    <3> QED
      BY <1>1, <3>1, RowsMade
  <2> HIDE DEF rows
  <2>4. /\ q \in Rep /\ q.pc = "done" /\ q.kind = "grid" /\ q.company = p.company
        /\ q.of = p.of /\ q.todo = {} /\ q.cur = {} /\ q.rows = rows
        /\ q.touched = p.touched /\ q.seen = p.seen
    BY <1>1, <1>4, <2>3 DEF Rep
  <2> HIDE DEF q
  <2>5. Shape(q)
    BY <2>4 DEF Shape
  <2>6. Exact(q)
    <3>1. "grid" \notin Own /\ "grid" \notin Calculated /\ "grid" \notin Batched
      BY DEF Own, Calculated, Batched
    <3> QED
      BY <1>4, <2>2, <2>3, <2>4, <3>1 DEF Exact
  <2>7. Ordered(q)
    <3>1. "grid" \notin Calculated /\ "grid" \notin Batched
      BY DEF Calculated, Batched
    <3>2. PICK n \in Moments(p) : p.seen[n] = due /\ n \in Nat
      BY <1>1, LastMoment
    <3>3. Moments(q) = Moments(p)
      BY <2>4 DEF Moments
    <3>4. q.pc # "idle" => Len(q.seen) > 0 /\ q.seen[Len(q.seen)] = due
      BY <1>1, <1>2, <2>4 DEF Ordered
    <3>5. \A e \in DOMAIN q.rows : q.rows[e].base = q.seen[n][e].base
      BY <2>2, <2>3, <2>4, <3>2
    <3>6. n <= n
      BY <3>2
    <3> QED
      BY <2>4, <3>1, <3>2, <3>3, <3>4, <3>5, <3>6 DEF Ordered
  <2> QED
    BY <2>1, <2>4, <2>5, <2>6, <2>7, OneGoesOn DEF Fits
<1>5. CASE (p.kind \in OfAll \/ S # {}) /\ p.kind # "grid"
  <2> DEFINE pc == IF S = {} THEN "done" ELSE "base"
             cur == IF p.kind \in Batched THEN S ELSE {}
             q == [p EXCEPT !.pc = pc, !.todo = S, !.cur = cur]
  <2>1. Becomes(r, q)
    BY <1>5 DEF Selects
  <2>2. /\ pc \in {"done", "base"} /\ cur \subseteq S
        /\ pc = "done" => S = {}
        /\ p.kind \in Batched => cur = S
    OBVIOUS
  <2> HIDE DEF pc, cur
  <2>3. /\ q \in Rep /\ q.pc = pc /\ q.kind = p.kind /\ q.company = p.company
        /\ q.of = p.of /\ q.todo = S /\ q.cur = cur /\ DOMAIN q.rows = {}
        /\ q.touched = p.touched /\ q.seen = p.seen
    BY <1>1, <2>2 DEF Rep
  <2> HIDE DEF q
  <2>4. Shape(q)
    BY <1>1, <2>2, <2>3 DEF Shape
  <2>5. Exact(q)
    BY <1>2, <2>2, <2>3 DEF Exact
  <2>6. Ordered(q)
    BY <1>1, <1>2, <2>2, <2>3 DEF Ordered
  <2> QED
    BY <2>1, <2>3, <2>4, <2>5, <2>6, OneGoesOn DEF Fits
<1> QED
  BY <1>3, <1>4, <1>5

\* calculate_salary reads the schedule of one employee.
LEMMA BaseKeeps ==
    ASSUME IInv, NEW r \in Report, NEW e \in Employee, ReadsBase(r, e) PROVE IInv'
<1> DEFINE p == rep[r]
           sum == [p.sum EXCEPT !.base = due[e].base]
           q == [p EXCEPT !.pc = "bonus", !.cur = {e}, !.sum = sum]
<1>1. /\ p.pc = "base" /\ p.kind \in Calculated /\ e \in p.todo /\ Becomes(r, q)
      /\ p \in Rep /\ p.sum \in Due /\ p.todo \subseteq p.of
      /\ due[e] \in Due /\ due[e].base \in Amounts
  BY Reading, PartsAreAmounts DEF ReadsBase, Shape
<1>2. Exact(p) /\ Ordered(p)
  BY Reading
<1>3. sum \in Due /\ sum.base = due[e].base
  BY <1>1 DEF Due
<1> HIDE DEF sum
<1>4. /\ q \in Rep /\ q.pc = "bonus" /\ q.kind = p.kind /\ q.company = p.company
      /\ q.of = p.of /\ q.todo = p.todo /\ q.cur = {e} /\ q.sum = sum /\ q.rows = p.rows
      /\ q.touched = p.touched /\ q.seen = p.seen
  BY <1>1, <1>3 DEF Rep
<1> HIDE DEF q
<1>5. Shape(q)
  BY <1>1, <1>4 DEF Shape
<1>6. Exact(q)
  BY <1>1, <1>2, <1>3, <1>4 DEF Exact
<1>7. Ordered(q)
  <2>1. PICK n \in Moments(p) : p.seen[n] = due
    BY <1>1, LastMoment
  <2>2. \A f \in q.cur : \E i \in Moments(q) : q.sum.base = q.seen[i][f].base
    BY <1>3, <1>4, <2>1 DEF Moments
  <2>3. ~(p.kind \in Batched)
    BY <1>1 DEF Calculated, Batched
  <2> QED
    BY <1>1, <1>2, <1>4, <2>2, <2>3 DEF Ordered, Moments
<1> QED
  BY <1>1, <1>4, <1>5, <1>6, <1>7, OneGoesOn DEF Fits

\* Then the bonuses.
LEMMA BonusKeeps == ASSUME IInv, NEW r \in Report, ReadsBonus(r) PROVE IInv'
<1> DEFINE p == rep[r]
<1>1. PICK e \in p.cur :
        Becomes(r, [p EXCEPT !.pc = "fine", !.sum = [p.sum EXCEPT !.bonus = due[e].bonus]])
  BY Reading DEF ReadsBonus, Rep
<1> DEFINE sum == [p.sum EXCEPT !.bonus = due[e].bonus]
           q == [p EXCEPT !.pc = "fine", !.sum = sum]
<1>2. /\ p.pc = "bonus" /\ p.kind \in Calculated /\ Becomes(r, q)
      /\ p \in Rep /\ p.sum \in Due /\ e \in Employee
      /\ due[e] \in Due /\ due[e].bonus \in Amounts
  BY <1>1, Reading, PartsAreAmounts DEF ReadsBonus, Shape
<1>3. Shape(p) /\ Exact(p) /\ Ordered(p)
  BY Reading
<1>4. sum \in Due /\ sum.base = p.sum.base /\ sum.bonus = due[e].bonus
  BY <1>2 DEF Due
<1> HIDE DEF sum
<1>5. /\ q \in Rep /\ q.pc = "fine" /\ q.kind = p.kind /\ q.company = p.company
      /\ q.of = p.of /\ q.todo = p.todo /\ q.cur = p.cur /\ q.sum = sum /\ q.rows = p.rows
      /\ q.touched = p.touched /\ q.seen = p.seen
  BY <1>2, <1>4 DEF Rep
<1> HIDE DEF q
<1>6. Shape(q)
  BY <1>2, <1>3, <1>5 DEF Shape
<1>7. \A f \in p.cur : f = e
  BY <1>2, <1>3 DEF Shape
<1>8. Exact(q)
  BY <1>2, <1>3, <1>4, <1>5, <1>7 DEF Exact
<1>9. Ordered(q)
  <2>1. PICK n \in Moments(p) : p.seen[n] = due /\ \A i \in Moments(p) : i <= n
    BY <1>2, LastMoment
  <2>2. \A f \in q.cur : \E i, j \in Moments(q) :
           i <= j /\ q.sum.base = q.seen[i][f].base /\ q.sum.bonus = q.seen[j][f].bonus
    <3>1. PICK i \in Moments(p) : p.sum.base = p.seen[i][e].base
      BY <1>2, <1>3 DEF Ordered
    <3>2. i <= n /\ sum.base = p.seen[i][e].base /\ sum.bonus = p.seen[n][e].bonus
      BY <1>4, <2>1, <3>1
    <3>3. Moments(q) = Moments(p)
      BY <1>5 DEF Moments
    <3> QED
      BY <1>5, <1>7, <2>1, <3>1, <3>2, <3>3
  <2>3. ~(p.kind \in Batched)
    BY <1>2 DEF Calculated, Batched
  <2>4. Len(q.seen) > 0 /\ q.seen[Len(q.seen)] = due
    BY <1>2, <1>3, <1>5 DEF Ordered
  <2>5. \A f \in DOMAIN q.rows : \E x, y, z \in Moments(q) :
          /\ x <= y /\ y <= z
          /\ q.rows[f].base = q.seen[x][f].base
          /\ q.rows[f].bonus = q.seen[y][f].bonus /\ q.rows[f].fine = q.seen[z][f].fine
    BY <1>2, <1>3, <1>5 DEF Ordered, Moments
  <2> QED
    BY <1>5, <2>2, <2>3, <2>4, <2>5 DEF Ordered
<1> QED
  BY <1>2, <1>5, <1>6, <1>8, <1>9, OneGoesOn DEF Fits

\* Then the fines: the employee's sum is complete.
LEMMA FineKeeps == ASSUME IInv, NEW r \in Report, ReadsFine(r) PROVE IInv'
<1> DEFINE p == rep[r]
<1>1. /\ p \in Rep /\ Shape(p) /\ Exact(p) /\ Ordered(p)
      /\ p.cur \subseteq Employee /\ p.sum \in Due /\ p.rows \in Rows
  BY Reading
<1>2. PICK e \in p.cur :
        Becomes(r, [p EXCEPT !.pc = IF p.todo = {e} THEN "done" ELSE "base",
                             !.rows = [f \in {e} \cup DOMAIN p.rows |->
                                IF f = e THEN [p.sum EXCEPT !.fine = due[e].fine]
                                ELSE p.rows[f]],
                             !.todo = p.todo \ {e}, !.cur = {}, !.sum = Nothing])
  BY <1>1 DEF ReadsFine, Rep
<1> DEFINE pc == IF p.todo = {e} THEN "done" ELSE "base"
           sum == [p.sum EXCEPT !.fine = due[e].fine]
           rows == [f \in {e} \cup DOMAIN p.rows |-> IF f = e THEN sum ELSE p.rows[f]]
           q == [p EXCEPT !.pc = pc, !.rows = rows, !.todo = p.todo \ {e}, !.cur = {},
                          !.sum = Nothing]
<1>3. /\ p.pc = "fine" /\ p.kind \in Calculated /\ Becomes(r, q)
      /\ e \in Employee /\ e \in p.todo /\ due[e].fine \in Amounts
      /\ pc \in {"done", "base"} /\ (pc = "done" => p.todo \ {e} = {})
  BY <1>1, <1>2, Reading, PartsAreAmounts DEF ReadsFine, Shape
<1>4. p.kind \notin Batched /\ p.kind \notin Slotted /\ p.kind # "grid"
  BY <1>3 DEF Calculated, Batched, Slotted
<1>5. /\ sum \in Due /\ sum.base = p.sum.base /\ sum.bonus = p.sum.bonus
      /\ sum.fine = due[e].fine
  <2> DEFINE x == p.sum
             a == due[e].fine
  <2>1. x \in Due /\ a \in Amounts /\ sum = [x EXCEPT !.fine = a]
    BY <1>1, <1>3
  <2> HIDE DEF x, a, sum
  <2>2. sum \in Due /\ sum.base = x.base /\ sum.bonus = x.bonus /\ sum.fine = a
    BY <2>1 DEF Due
  <2> QED
    BY <2>2 DEF x, a
<1> HIDE DEF sum, pc
<1>6. /\ DOMAIN rows = {e} \cup DOMAIN p.rows /\ rows[e] = sum
      /\ \A f \in DOMAIN p.rows : f # e => rows[f] = p.rows[f]
  OBVIOUS
<1>7. rows \in Rows
  <2>1. DOMAIN p.rows \subseteq Employee /\ \A f \in DOMAIN p.rows : p.rows[f] \in Due
    BY <1>1, RowsShown
  <2>2. rows \in [{e} \cup DOMAIN p.rows -> Due]
    BY <1>5, <2>1
  <2>3. ({e} \cup DOMAIN p.rows) \in SUBSET Employee
    BY <1>3, <2>1
  <2> QED
    BY <2>2, <2>3, RowsMade
<1> HIDE DEF rows
<1>8. /\ q \in Rep /\ q.pc = pc /\ q.kind = p.kind /\ q.company = p.company
      /\ q.of = p.of /\ q.todo = p.todo \ {e} /\ q.cur = {} /\ q.rows = rows
      /\ q.touched = p.touched /\ q.seen = p.seen
  BY <1>1, <1>3, <1>7, NothingIsDue DEF Rep
<1> HIDE DEF q
<1>9. Shape(q)
  BY <1>1, <1>3, <1>4, <1>8 DEF Shape
<1>10. Exact(q)
  <2> SUFFICES ASSUME NEW f \in p.of \ p.touched
               PROVE  /\ q.kind \in Own => Works(f, q.company)
                      /\ f \in q.todo \cup DOMAIN q.rows <=> Found(q.kind, q.company, f)
                      /\ f \in DOMAIN q.rows =>
                            /\ q.rows[f].base = due[f].base
                            /\ q.rows[f].bonus = due[f].bonus /\ q.rows[f].fine = due[f].fine
    BY <1>3, <1>4, <1>8 DEF Exact
  <2>1. q.kind \in Own => Works(f, q.company)
    BY <1>1, <1>8 DEF Exact
  <2>2. f \in q.todo \cup DOMAIN q.rows <=> Found(q.kind, q.company, f)
    <3>1. q.todo \cup DOMAIN q.rows = p.todo \cup DOMAIN p.rows
      BY <1>3, <1>6, <1>8
    <3> QED
      BY <1>1, <1>3, <1>8, <3>1 DEF Exact
  <2>3. f \in DOMAIN q.rows =>
           /\ q.rows[f].base = due[f].base
           /\ q.rows[f].bonus = due[f].bonus /\ q.rows[f].fine = due[f].fine
    BY <1>1, <1>2, <1>3, <1>5, <1>6, <1>8 DEF Exact
  <2> QED
    BY <2>1, <2>2, <2>3
<1>11. Ordered(q)
  <2>1. PICK n \in Moments(p) : p.seen[n] = due /\ \A i \in Moments(p) : i <= n
    BY <1>3, LastMoment
  <2>2. PICK i, j \in Moments(p) :
           i <= j /\ p.sum.base = p.seen[i][e].base /\ p.sum.bonus = p.seen[j][e].bonus
    BY <1>1, <1>2, <1>3 DEF Ordered
  <2>3. /\ j <= n /\ rows[e].base = p.seen[i][e].base /\ rows[e].bonus = p.seen[j][e].bonus
        /\ rows[e].fine = p.seen[n][e].fine
    BY <1>5, <1>6, <2>1, <2>2
  <2>4. Moments(q) = Moments(p)
    BY <1>8 DEF Moments
  <2>5. \A f \in DOMAIN q.rows : \E x, y, z \in Moments(q) :
          /\ x <= y /\ y <= z
          /\ q.rows[f].base = q.seen[x][f].base
          /\ q.rows[f].bonus = q.seen[y][f].bonus /\ q.rows[f].fine = q.seen[z][f].fine
    <3>1. ASSUME NEW f \in DOMAIN p.rows, f # e
          PROVE  \E x, y, z \in Moments(p) :
                   /\ x <= y /\ y <= z
                   /\ rows[f].base = p.seen[x][f].base
                   /\ rows[f].bonus = p.seen[y][f].bonus /\ rows[f].fine = p.seen[z][f].fine
      BY <1>1, <1>3, <1>6, <3>1 DEF Ordered
    <3>2. \E x, y, z \in Moments(p) :
            /\ x <= y /\ y <= z
            /\ rows[e].base = p.seen[x][e].base
            /\ rows[e].bonus = p.seen[y][e].bonus /\ rows[e].fine = p.seen[z][e].fine
      <4> WITNESS i \in Moments(p), j \in Moments(p), n \in Moments(p)
      <4> QED
        BY <2>2, <2>3
    <3>3. q.rows = rows /\ q.seen = p.seen /\ DOMAIN q.rows = {e} \cup DOMAIN p.rows
      BY <1>6, <1>8
    <3> SUFFICES ASSUME NEW f \in DOMAIN q.rows
                 PROVE  \E x, y, z \in Moments(p) :
                          /\ x <= y /\ y <= z
                          /\ rows[f].base = p.seen[x][f].base
                          /\ rows[f].bonus = p.seen[y][f].bonus
                          /\ rows[f].fine = p.seen[z][f].fine
      BY <2>4, <3>3
    <3>4. CASE f = e
      BY <3>2, <3>4
    <3>5. CASE f # e
      <4>1. f \in DOMAIN p.rows
        BY <3>3, <3>5
      <4> QED
        BY <3>1, <3>5, <4>1
    <3> QED
      BY <3>4, <3>5
  <2>6. q.pc # "idle" => Len(q.seen) > 0 /\ q.seen[Len(q.seen)] = due
    BY <1>1, <1>3, <1>8 DEF Ordered
  <2> QED
    BY <1>3, <1>4, <1>8, <2>5, <2>6 DEF Ordered
<1> QED
  BY <1>3, <1>8, <1>9, <1>10, <1>11, OneGoesOn DEF Fits

\* A list reads the schedules of all its employees.
LEMMA SchedulesKeep == ASSUME IInv, NEW r \in Report, ReadsSchedules(r) PROVE IInv'
<1> DEFINE p == rep[r]
           rows == [e \in p.cur |-> [Nothing EXCEPT !.base = due[e].base]]
           q == [p EXCEPT !.pc = "adjs", !.rows = rows]
<1>1. /\ p \in Rep /\ Shape(p) /\ Exact(p) /\ Ordered(p)
      /\ p.cur \subseteq Employee
      /\ p.pc = "base" /\ p.kind \in Batched /\ Becomes(r, q)
  BY Reading DEF ReadsSchedules
<1>2. /\ p.kind \notin Calculated /\ p.kind \notin Slotted /\ DOMAIN p.rows = {}
  BY <1>1 DEF Calculated, Batched, Slotted, Shape
<1>3. \A e \in p.cur : /\ rows[e] \in Due /\ rows[e].base = due[e].base
                     /\ rows[e].bonus = 0 /\ rows[e].fine = 0
  <2>1. \A e \in p.cur : due[e] \in Due /\ due[e].base \in Amounts
    BY <1>1, Reading, PartsAreAmounts
  <2> QED
    BY <2>1, NothingIsDue DEF Due
<1>4. rows \in Rows /\ DOMAIN rows = p.cur
  <2>1. rows \in [p.cur -> Due]
    BY <1>3
  <2> QED
    BY <1>1, <2>1, RowsMade
<1> HIDE DEF rows
<1>5. /\ q \in Rep /\ q.pc = "adjs" /\ q.kind = p.kind /\ q.company = p.company
      /\ q.of = p.of /\ q.todo = p.todo /\ q.cur = p.cur /\ q.rows = rows
      /\ q.touched = p.touched /\ q.seen = p.seen
  BY <1>1, <1>4 DEF Rep
<1> HIDE DEF q
<1>6. Shape(q)
  BY <1>1, <1>2, <1>4, <1>5 DEF Shape
<1>7. Exact(q)
  BY <1>1, <1>2, <1>3, <1>4, <1>5 DEF Exact, Shape
<1>8. Ordered(q)
  <2>1. PICK n \in Moments(p) : p.seen[n] = due /\ n \in Nat
    BY <1>1, LastMoment
  <2>2. n <= n /\ Moments(q) = Moments(p)
    BY <1>5, <2>1 DEF Moments
  <2>3. \A e \in DOMAIN q.rows : q.rows[e].base = q.seen[n][e].base
    BY <1>3, <1>4, <1>5, <2>1
  <2>4. q.pc # "idle" => Len(q.seen) > 0 /\ q.seen[Len(q.seen)] = due
    BY <1>1, <1>5 DEF Ordered
  <2> QED
    BY <1>2, <1>5, <2>1, <2>2, <2>3, <2>4 DEF Ordered
<1> QED
  BY <1>1, <1>5, <1>6, <1>7, <1>8, OneGoesOn DEF Fits

\* The slots of one employee are all that is read.
LEMMA SlotsKeep == ASSUME IInv, NEW r \in Report, ReadsSlots(r) PROVE IInv'
<1> DEFINE p == rep[r]
           rows == [e \in p.todo |-> [Nothing EXCEPT !.base = due[e].base]]
           q == [p EXCEPT !.pc = "done", !.rows = rows]
<1>1. /\ p \in Rep /\ Shape(p) /\ Exact(p) /\ Ordered(p)
      /\ p.todo \subseteq Employee
      /\ p.pc = "base" /\ p.kind \in Slotted /\ Becomes(r, q)
  BY Reading DEF ReadsSlots
<1>2. /\ p.kind \notin Calculated /\ p.kind \notin Batched /\ DOMAIN p.rows = {}
  BY <1>1 DEF Calculated, Batched, Slotted, Shape
<1>3. \A e \in p.todo : /\ rows[e] \in Due /\ rows[e].base = due[e].base
                     /\ rows[e].bonus = 0 /\ rows[e].fine = 0
  <2>1. \A e \in p.todo : due[e] \in Due /\ due[e].base \in Amounts
    BY <1>1, Reading, PartsAreAmounts
  <2> QED
    BY <2>1, NothingIsDue DEF Due
<1>4. rows \in Rows /\ DOMAIN rows = p.todo
  <2>1. rows \in [p.todo -> Due]
    BY <1>3
  <2> QED
    BY <1>1, <2>1, RowsMade
<1> HIDE DEF rows
<1>5. /\ q \in Rep /\ q.pc = "done" /\ q.kind = p.kind /\ q.company = p.company
      /\ q.of = p.of /\ q.todo = p.todo /\ q.cur = p.cur /\ q.rows = rows
      /\ q.touched = p.touched /\ q.seen = p.seen
  BY <1>1, <1>4 DEF Rep
<1> HIDE DEF q
<1>6. Shape(q)
  BY <1>1, <1>2, <1>4, <1>5 DEF Shape
<1>7. Exact(q)
  BY <1>1, <1>2, <1>3, <1>4, <1>5 DEF Exact, Shape
<1>8. Ordered(q)
  <2>1. PICK n \in Moments(p) : p.seen[n] = due /\ n \in Nat
    BY <1>1, LastMoment
  <2>2. n <= n /\ Moments(q) = Moments(p)
    BY <1>5, <2>1 DEF Moments
  <2>3. \A e \in DOMAIN q.rows : q.rows[e].base = q.seen[n][e].base
    BY <1>3, <1>4, <1>5, <2>1
  <2>4. q.pc # "idle" => Len(q.seen) > 0 /\ q.seen[Len(q.seen)] = due
    BY <1>1, <1>5 DEF Ordered
  <2> QED
    BY <1>2, <1>5, <2>1, <2>2, <2>3, <2>4 DEF Ordered
<1> QED
  BY <1>1, <1>5, <1>6, <1>7, <1>8, OneGoesOn DEF Fits

\* A list reads the adjustments of all: both parts are of this moment.
LEMMA AdjustmentsKeep == ASSUME IInv, NEW r \in Report, ReadsAdjustments(r) PROVE IInv'
<1> DEFINE p == rep[r]
           rows == [e \in p.cur |-> [due[e] EXCEPT !.base = p.rows[e].base]]
           q == [p EXCEPT !.pc = "done", !.rows = rows]
<1>1. /\ p \in Rep /\ Shape(p) /\ Exact(p) /\ Ordered(p) /\ p.rows \in Rows
      /\ p.cur \subseteq Employee
      /\ p.pc = "adjs" /\ Becomes(r, q)
  BY Reading DEF ReadsAdjustments
<1>2. /\ p.kind \in Batched /\ p.kind \notin Slotted /\ p.kind # "grid"
      /\ p.kind \notin Calculated /\ DOMAIN p.rows = p.cur /\ p.cur = p.todo
  BY <1>1 DEF Calculated, Batched, Slotted, Shape
<1>3. \A e \in p.cur : /\ rows[e] \in Due /\ rows[e].base = p.rows[e].base
                       /\ rows[e].bonus = due[e].bonus /\ rows[e].fine = due[e].fine
  <2> SUFFICES ASSUME NEW e \in p.cur
               PROVE  /\ rows[e] \in Due /\ rows[e].base = p.rows[e].base
                      /\ rows[e].bonus = due[e].bonus /\ rows[e].fine = due[e].fine
    OBVIOUS
  <2> DEFINE x == due[e]
             a == p.rows[e].base
  <2>1. x \in Due /\ a \in Amounts
    BY <1>1, <1>2, Reading, RowsShown, PartsAreAmounts
  <2>2. rows[e] = [x EXCEPT !.base = a]
    OBVIOUS
  <2> HIDE DEF x, a, rows
  <2>3. /\ rows[e] \in Due /\ rows[e].base = a
        /\ rows[e].bonus = x.bonus /\ rows[e].fine = x.fine
    BY <2>1, <2>2 DEF Due
  <2> QED
    BY <2>3 DEF x, a
<1>4. rows \in Rows /\ DOMAIN rows = p.cur
  <2>1. rows \in [p.cur -> Due]
    BY <1>3
  <2> QED
    BY <1>1, <2>1, RowsMade
<1> HIDE DEF rows
<1>5. /\ q \in Rep /\ q.pc = "done" /\ q.kind = p.kind /\ q.company = p.company
      /\ q.of = p.of /\ q.todo = p.todo /\ q.cur = p.cur /\ q.rows = rows
      /\ q.touched = p.touched /\ q.seen = p.seen
  BY <1>1, <1>4 DEF Rep
<1> HIDE DEF q
<1>6. Shape(q)
  BY <1>1, <1>2, <1>4, <1>5 DEF Shape
<1>7. Exact(q)
  BY <1>1, <1>2, <1>3, <1>4, <1>5 DEF Exact
<1>8. Ordered(q)
  <2>1. PICK n \in Moments(p) :
          p.seen[n] = due /\ n \in Nat /\ \A i \in Moments(p) : i <= n
    BY <1>1, LastMoment
  <2>2. n <= n /\ Moments(q) = Moments(p)
    BY <1>5, <2>1 DEF Moments
  <2>3. ASSUME NEW e \in p.cur
        PROVE  \E i \in Moments(p) :
                 /\ i <= n /\ rows[e].base = p.seen[i][e].base
                 /\ rows[e].bonus = p.seen[n][e].bonus /\ rows[e].fine = p.seen[n][e].fine
    <3>1. PICK i \in Moments(p) : p.rows[e].base = p.seen[i][e].base
      BY <1>1, <1>2 DEF Ordered
    <3> QED
      BY <1>3, <2>1, <3>1
  <2>4. q.pc # "idle" => Len(q.seen) > 0 /\ q.seen[Len(q.seen)] = due
    BY <1>1, <1>5 DEF Ordered
  <2> QED
    BY <1>2, <1>4, <1>5, <2>1, <2>2, <2>3, <2>4 DEF Ordered
<1> QED
  BY <1>1, <1>5, <1>6, <1>7, <1>8, OneGoesOn DEF Fits

\* Every step of a request keeps the invariant.
LEMMA ReadKeeps == ASSUME IInv, NEW r \in Report, Read(r) PROVE IInv'
  BY SelectsKeeps, BaseKeeps, BonusKeeps, FineKeeps, SchedulesKeep, AdjustmentsKeep,
     SlotsKeep, AnswerKeeps DEF Read

-----------------------------------------------------------------------------
(***************************************************************************)
(* Steps of the writers                                                    *)
(***************************************************************************)
\* A moment is added to those that a request has seen.
LEMMA MomentAdded ==
    ASSUME NEW s \in Seq([Employee -> Due]), NEW d \in [Employee -> Due]
    PROVE  /\ Append(s, d) \in Seq([Employee -> Due])
           /\ Len(Append(s, d)) > 0 /\ Append(s, d)[Len(Append(s, d))] = d
           /\ 1..Len(s) \subseteq 1..Len(Append(s, d))
           /\ \A i \in 1..Len(s) : Append(s, d)[i] = s[i]
  OBVIOUS

\* Whoever writes writes of one employee, whom the reports in flight no longer
\* count as untouched, and adds one moment to what they have seen.
LEMMA WritesKeeps ==
    ASSUME IInv, NEW e \in Employee, NEW u \in User \cup {Absent},
           NEW S \in SUBSET Employee, NEW d \in Due, Writes(e, u, S, d),
           S \ {e} = profile \ {e}, e \in S => u # Absent, e \notin S => d = Nothing,
           gone' = gone \/ gone' = gone \cup {e}, e \in gone' => e \notin S
    PROVE  IInv'
<1>1. /\ writes < MaxWrites /\ writes' = writes + 1 /\ profile' = S
      /\ user' = [user EXCEPT ![e] = u] /\ due' = [due EXCEPT ![e] = d]
      /\ rep' = [r \in Report |-> IF rep[r].pc = "idle" THEN rep[r] ELSE
                   [rep[r] EXCEPT !.touched = rep[r].touched \cup {e},
                                  !.seen = Append(rep[r].seen, due')]]
  <2>1. \A r \in Report :
           [rep[r] EXCEPT !.touched = @ \cup {e}, !.seen = Append(@, due')]
         = [rep[r] EXCEPT !.touched = rep[r].touched \cup {e},
                          !.seen = Append(rep[r].seen, due')]
    BY DEF IInv, Rep
  <2> QED
    BY <2>1 DEF Writes
<1>2. Tables
  BY DEF IInv
<1>3. /\ user' \in [Employee -> User \cup {Absent}] /\ due' \in [Employee -> Due]
      /\ user'[e] = u /\ due'[e] = d
      /\ \A f \in Employee : f # e => user'[f] = user[f] /\ due'[f] = due[f]
      /\ \A f \in Employee : f # e => (f \in profile' <=> f \in profile)
  BY <1>1, <1>2 DEF Tables
<1>4. Tables'
  <2>1. writes' \in 0..MaxWrites
    <3>1. writes \in 0..MaxWrites /\ MaxWrites \in Nat /\ writes < MaxWrites /\ writes' = writes + 1
      BY <1>1, <1>2, ReportsAssumption DEF Tables
    <3> QED
      BY <3>1
  <2>2. profile' \subseteq {f \in Employee : user'[f] # Absent}
    BY <1>1, <1>2, <1>3 DEF Tables
  <2>3. ASSUME NEW f \in Employee \ profile' PROVE due'[f] = Nothing
    <3>1. CASE f = e
      BY <1>1, <1>3, <3>1
    <3>2. CASE f # e
      BY <1>2, <1>3, <3>2 DEF Tables
    <3> QED
      BY <3>1, <3>2
  <2>4. gone' \subseteq Employee \ profile'
    <3>1. gone \subseteq Employee \ profile
      BY <1>2 DEF Tables
    <3>2. gone' \subseteq gone \cup {e} /\ (e \in gone' => e \notin profile')
      BY <1>1
    <3>3. ASSUME NEW f \in gone' PROVE f \in Employee \ profile'
      BY <1>3, <3>1, <3>2, <3>3
    <3> QED
      BY <3>3
  <2> QED
    BY <1>3, <2>1, <2>2, <2>3, <2>4 DEF Tables
<1>5. ASSUME NEW r \in Report PROVE rep'[r] \in Rep /\ Fits(rep[r])'
  <2> DEFINE p == rep[r]
             q == rep'[r]
  <2>1. /\ p \in Rep /\ Shape(p) /\ Exact(p) /\ Ordered(p)
        /\ p.seen \in Seq([Employee -> Due]) /\ p.rows \in Rows /\ p.of \subseteq Employee
        /\ p.cur \subseteq Employee /\ DOMAIN p.rows \subseteq Employee
    BY Reading, RowsShown
  <2>2. CASE p.pc = "idle"
    <3>1. q = p
      BY <1>1, <2>2
    <3>2. p.of = {} /\ p.cur = {}
      BY <2>1, <2>2 DEF Shape
    <3> HIDE DEF q
    <3>3. Shape(q) /\ q \in Rep
      BY <2>1, <3>1
    <3>4. Exact(rep[r])' /\ Ordered(rep[r])'
      BY <2>1, <2>2, <3>1, <3>2 DEF Exact, Ordered, Moments, q
    <3>5. Shape(rep[r])'
      BY <3>3 DEF Shape, q
    <3> QED
      BY <3>3, <3>4, <3>5 DEF Fits, q
  <2>3. CASE p.pc # "idle"
    <3> DEFINE seen == Append(p.seen, due')
    <3>1. /\ seen \in Seq([Employee -> Due]) /\ Len(seen) > 0 /\ seen[Len(seen)] = due'
          /\ 1..Len(p.seen) \subseteq 1..Len(seen)
          /\ \A i \in 1..Len(p.seen) : seen[i] = p.seen[i]
      BY <1>3, <2>1, MomentAdded
    <3>2. q = [p EXCEPT !.touched = p.touched \cup {e}, !.seen = seen]
      BY <1>1, <2>3
    <3> HIDE DEF seen
    <3> HIDE DEF q
    <3>3. /\ q \in Rep /\ q.pc = p.pc /\ q.kind = p.kind /\ q.company = p.company
          /\ q.of = p.of /\ q.todo = p.todo /\ q.cur = p.cur /\ q.sum = p.sum
          /\ q.rows = p.rows /\ q.touched = p.touched \cup {e} /\ q.seen = seen
      BY <2>1, <3>1, <3>2 DEF Rep
    <3>4. Shape(rep[r])'
      <4>1. Shape(q)
        BY <2>1, <3>3 DEF Shape
      <4> QED
        BY <4>1 DEF Shape, q
    <3>5. Exact(rep[r])'
      <4> SUFFICES ASSUME NEW f \in q.of \ q.touched
                   PROVE  /\ q.kind \in Own => Works(f, rep[r].company)'
                          /\ q.pc # "select" =>
                               (f \in q.todo \cup DOMAIN q.rows
                                  <=> Found(rep[r].kind, rep[r].company, f)')
                          /\ f \in q.cur /\ q.pc \in {"bonus", "fine"} => q.sum.base = due'[f].base
                          /\ f \in q.cur /\ q.pc = "fine" => q.sum.bonus = due'[f].bonus
                          /\ f \in DOMAIN q.rows =>
                                /\ q.rows[f].base = due'[f].base
                                /\ q.kind = "grid" \/ q.kind \in Slotted =>
                                      q.rows[f].bonus = 0 /\ q.rows[f].fine = 0
                                /\ q.kind \in Calculated \/ (q.kind \in Batched /\ q.pc = "done") =>
                                      /\ q.rows[f].bonus = due'[f].bonus
                                      /\ q.rows[f].fine = due'[f].fine
        BY DEF Exact, q
      <4>1. f \in p.of \ p.touched /\ f # e /\ f \in Employee /\ due'[f] = due[f]
        BY <1>3, <2>1, <3>3
      <4>2. Works(f, rep[r].company)' <=> Works(f, p.company)
        BY <1>3, <3>3, <4>1 DEF Works, q
      <4>3. Found(rep[r].kind, rep[r].company, f)' <=> Found(p.kind, p.company, f)
        BY <1>3, <3>3, <4>1 DEF Found, Works, q
      <4> QED
        BY <2>1, <3>3, <4>1, <4>2, <4>3 DEF Exact
    <3>6. Ordered(rep[r])'
      <4>1. \A i \in 1..Len(p.seen) : i \in 1..Len(seen) /\ seen[i] = p.seen[i]
        BY <3>1
      <4>2. ASSUME p.pc = "bonus", NEW f \in p.cur
            PROVE  \E i \in 1..Len(seen) : p.sum.base = seen[i][f].base
        <5>1. PICK i \in Moments(p) : p.sum.base = p.seen[i][f].base
          BY <2>1, <4>2 DEF Ordered
        <5>2. i \in 1..Len(seen) /\ seen[i] = p.seen[i]
          BY <4>1 DEF Moments
        <5> QED
          BY <5>1, <5>2
      <4>3. ASSUME p.pc = "fine", NEW f \in p.cur
            PROVE  \E i, j \in 1..Len(seen) :
              i <= j /\ p.sum.base = seen[i][f].base /\ p.sum.bonus = seen[j][f].bonus
        <5>1. PICK i, j \in Moments(p) :
                i <= j /\ p.sum.base = p.seen[i][f].base /\ p.sum.bonus = p.seen[j][f].bonus
          BY <2>1, <4>3 DEF Ordered
        <5>2. /\ i \in 1..Len(seen) /\ j \in 1..Len(seen)
              /\ seen[i] = p.seen[i] /\ seen[j] = p.seen[j]
          BY <4>1 DEF Moments
        <5> QED
          BY <5>1, <5>2
      <4>4. \A f \in DOMAIN p.rows : \E i, j, k \in 1..Len(seen) :
              /\ i <= j /\ j <= k
              /\ p.rows[f].base = seen[i][f].base
              /\ p.kind \in Calculated \/ (p.kind \in Batched /\ p.pc = "done") =>
                    p.rows[f].bonus = seen[j][f].bonus /\ p.rows[f].fine = seen[k][f].fine
              /\ p.kind \in Batched => j = k
        <5> SUFFICES ASSUME NEW f \in DOMAIN p.rows
                     PROVE  \E i, j, k \in 1..Len(seen) :
                       /\ i <= j /\ j <= k
                       /\ p.rows[f].base = seen[i][f].base
                       /\ p.kind \in Calculated \/ (p.kind \in Batched /\ p.pc = "done") =>
                             p.rows[f].bonus = seen[j][f].bonus /\ p.rows[f].fine = seen[k][f].fine
                       /\ p.kind \in Batched => j = k
          OBVIOUS
        <5>1. PICK i, j, k \in Moments(p) :
                /\ i <= j /\ j <= k
                /\ p.rows[f].base = p.seen[i][f].base
                /\ p.kind \in Calculated \/ (p.kind \in Batched /\ p.pc = "done") =>
                      p.rows[f].bonus = p.seen[j][f].bonus /\ p.rows[f].fine = p.seen[k][f].fine
                /\ p.kind \in Batched => j = k
          BY <2>1 DEF Ordered
        <5>2. /\ i \in 1..Len(seen) /\ j \in 1..Len(seen) /\ k \in 1..Len(seen)
              /\ seen[i] = p.seen[i] /\ seen[j] = p.seen[j] /\ seen[k] = p.seen[k]
          BY <4>1 DEF Moments
        <5> QED
          BY <5>1, <5>2
      <4> QED
        BY <3>1, <3>3, <4>2, <4>3, <4>4 DEF Ordered, Moments, q
    <3> QED
      BY <3>3, <3>4, <3>5, <3>6 DEF Fits, q
  <2> QED
    BY <2>2, <2>3
<1>6. rep' \in [Report -> Rep]
  BY <1>1, <1>5
<1> QED
  BY <1>4, <1>5, <1>6 DEF IInv

\* What the writers start from.
LEMMA TableFacts ==
    ASSUME IInv, NEW e \in Employee
    PROVE  /\ profile \subseteq Employee
           /\ user[e] \in User \cup {Absent} /\ due[e] \in Due /\ Absent \notin User
           /\ e \in profile => user[e] \in User
           /\ e \in gone => e \notin profile
           /\ e \notin profile => due[e] = Nothing
<1>1. Absent \notin User
  BY ReportsAssumption DEF User
<1> QED
  BY <1>1 DEF IInv, Tables

\* Each writer writes one employee's rows as the tables allow.
LEMMA WriteKeeps == ASSUME IInv, NEW e \in Employee, Write(e) PROVE IInv'
<1> DEFINE with == profile \cup {e}
           without == profile \ {e}
<1>1. /\ with \in SUBSET Employee /\ without \in SUBSET Employee /\ profile \in SUBSET Employee
      /\ with \ {e} = profile \ {e} /\ without \ {e} = profile \ {e}
      /\ e \in with /\ e \notin without
  BY TableFacts
<1> HIDE DEF with, without
<1>2. ASSUME NEW c \in Company, NEW base \in Amounts, Hire(e, c, base) PROVE IInv'
  <2>1. NewUser(c) \in User
    BY DEF NewUser, User
  <2>2. [Nothing EXCEPT !.base = base] \in Due
    BY NothingIsDue DEF Due
  <2>3. Writes(e, NewUser(c), with, [Nothing EXCEPT !.base = base]) /\ gone' = gone /\ e \notin gone
    BY <1>2 DEF Hire, Fresh, with
  <2> QED
    BY <1>1, <2>1, <2>2, <2>3, TableFacts, WritesKeeps
<1>3. CASE SetActive(e)
  <2>1. [user[e] EXCEPT !.active = ~@] \in User
    BY <1>3, TableFacts DEF SetActive, User
  <2>2. Writes(e, [user[e] EXCEPT !.active = ~@], profile, due[e]) /\ gone' = gone /\ e \in profile
    BY <1>3 DEF SetActive
  <2> QED
    BY <1>1, <2>1, <2>2, TableFacts, WritesKeeps
<1>4. ASSUME Dismiss(e) \/ PanelDeletesUser(e) PROVE IInv'
  <2>1. Writes(e, Absent, without, Nothing) /\ gone' = gone \cup {e}
    BY <1>4 DEF Dismiss, PanelDeletesUser, without
  <2> QED
    BY <1>1, <2>1, NothingIsDue, WritesKeeps
<1>5. ASSUME NEW base \in Amounts, Reschedule(e, base)
      PROVE  IInv'
  <2>1. [due[e] EXCEPT !.base = base] \in Due
    BY TableFacts DEF Due
  <2>2. /\ Writes(e, user[e], profile, [due[e] EXCEPT !.base = base]) /\ gone' = gone
        /\ e \in profile
    BY <1>5 DEF Reschedule
  <2> QED
    BY <1>1, <2>1, <2>2, TableFacts, WritesKeeps
<1>6. ASSUME NEW bonus \in Amounts, NEW fine \in Amounts, Adjust(e, bonus, fine)
      PROVE  IInv'
  <2>1. [due[e] EXCEPT !.bonus = bonus, !.fine = fine] \in Due
    BY TableFacts DEF Due
  <2>2. /\ Writes(e, user[e], profile, [due[e] EXCEPT !.bonus = bonus, !.fine = fine])
        /\ gone' = gone /\ e \in profile
    BY <1>6 DEF Adjust
  <2> QED
    BY <1>1, <2>1, <2>2, TableFacts, WritesKeeps
<1>7. ASSUME NEW u \in User, PanelSavesUser(e, u) PROVE IInv'
  <2>1. Writes(e, u, profile, due[e]) /\ gone' = gone
    BY <1>7 DEF PanelSavesUser
  <2> QED
    BY <1>1, <2>1, TableFacts, WritesKeeps
<1>8. CASE PanelAddsProfile(e)
  <2>1. Writes(e, user[e], with, Nothing) /\ gone' = gone /\ e \notin gone /\ user[e] # Absent
    BY <1>8 DEF PanelAddsProfile, with
  <2> QED
    BY <1>1, <2>1, TableFacts, NothingIsDue, WritesKeeps
<1>9. CASE PanelDeletesProfile(e)
  <2>1. Writes(e, user[e], without, Nothing) /\ gone' = gone \cup {e}
    BY <1>9 DEF PanelDeletesProfile, without
  <2> QED
    BY <1>1, <2>1, TableFacts, NothingIsDue, WritesKeeps
<1> QED
  BY <1>2, <1>3, <1>4, <1>5, <1>6, <1>7, <1>8, <1>9 DEF Write

\* Every step of the specification keeps the invariant.
LEMMA NextIInv == IInv /\ [Next]_vars => IInv'
<1> SUFFICES ASSUME IInv, [Next]_vars PROVE IInv'
  OBVIOUS
<1>1. CASE UNCHANGED vars
  <2>1. /\ user' = user /\ profile' = profile /\ due' = due /\ gone' = gone
        /\ writes' = writes /\ rep' = rep
    BY <1>1 DEF vars
  <2>2. Tables' /\ rep' \in [Report -> Rep]
    BY <2>1 DEF IInv, Tables
  <2>3. ASSUME NEW r \in Report PROVE Fits(rep[r])'
    <3>1. Fits(rep[r])
      BY DEF IInv
    <3> DEFINE x == rep[r]
    <3>2. Shape(rep[r])'
      BY <2>1, <3>1 DEF Fits, Shape
    <3>3. Exact(rep[r])'
      BY <2>1, <3>1 DEF Fits, Exact, Found, Works
    <3>4. Ordered(rep[r])'
      BY <2>1, <3>1 DEF Fits, Ordered, Moments
    <3> QED
      BY <2>1, <3>1, <3>2, <3>3, <3>4 DEF Fits
  <2> QED
    BY <2>2, <2>3 DEF IInv
<1>2. ASSUME NEW r \in Report, NEW c \in Company, NEW kind \in OfAll, Start(r, kind, c, Employee)
      PROVE  IInv'
  <2>1. kind \notin Own
    BY DEF OfAll, Own
  <2> QED
    BY <1>2, <2>1, StartKeeps
<1>3. ASSUME NEW r \in Report, NEW c \in Company, NEW kind \in OfOne, NEW e \in Employee,
             Start(r, kind, c, {e})
      PROVE  IInv'
  <2>1. kind \notin Own
    BY DEF OfOne, Own
  <2> QED
    BY <1>3, <2>1, StartKeeps
<1>4. ASSUME NEW r \in Report, NEW kind \in Own, NEW e \in Employee, StartOwn(r, kind, e)
      PROVE  IInv'
  <2>1. user[e] \in User /\ Start(r, kind, user[e].company, {e})
    BY <1>4, TableFacts DEF StartOwn
  <2>2. user[e].company \in Company /\ \A f \in {e} : Works(f, user[e].company)
    BY <1>4, <2>1 DEF User, Works, StartOwn
  <2> QED
    BY <2>1, <2>2, StartKeeps
<1>5. ASSUME NEW r \in Report, Read(r) PROVE IInv'
  BY <1>5, ReadKeeps
<1>6. ASSUME NEW e \in Employee, Write(e) PROVE IInv'
  BY <1>6, WriteKeeps
<1> QED
  BY <1>1, <1>2, <1>3, <1>4, <1>5, <1>6 DEF Next

\* The invariant holds in every state.
LEMMA AlwaysIInv == Spec => []IInv
  BY InitIInv, NextIInv, PTL DEF Spec

-----------------------------------------------------------------------------
\* Users, profiles and what is due stay consistent whatever the API and the panel
\* write, and every report has sums of employees only.
THEOREM ReportsTyped == Spec => []TypeOK
<1>1. IInv => TypeOK
  <2> SUFFICES ASSUME IInv PROVE TypeOK
    OBVIOUS
  <2>1. ASSUME NEW r \in Report
        PROVE  /\ rep[r].pc \in {"idle", "select", "base", "bonus", "fine", "adjs", "done", "404"}
               /\ rep[r].kind \in OfAll \cup OfOne \cup Own
               /\ rep[r].cur \subseteq rep[r].todo /\ rep[r].todo \subseteq Employee
               /\ DOMAIN rep[r].rows \subseteq Employee
               /\ \A e \in DOMAIN rep[r].rows : rep[r].rows[e] \in Due
    <3>1. rep[r].cur \subseteq rep[r].todo /\ rep[r].rows \in Rows
      BY Reading DEF Shape
    <3> QED
      BY <3>1, RowsShown, Reading DEF Rep
  <2> QED
    BY <2>1 DEF IInv, Tables, TypeOK
<1> QED
  BY <1>1, AlwaysIInv, PTL

\* A report is exact about everybody who is not written while it is made, whatever
\* the API and the panel write of others, for any number of employees, companies,
\* reports and writes.
THEOREM UntouchedAreExactAlways == Spec => []UntouchedAreExact
<1>1. IInv => UntouchedAreExact
  <2> SUFFICES ASSUME IInv, NEW r \in Report, rep[r].pc = "done",
                      NEW e \in rep[r].of \ rep[r].touched
               PROVE  LET k == rep[r].kind
                          shown == e \in profile /\ user[e].company = rep[r].company
                                   /\ ~(k \in {"table", "summary", "grid"} /\ ~user[e].active)
                                   /\ ~(k \in {"list", "one"} /\ user[e].role # "employee")
                                   /\ ~(k = "grid" /\ due[e].base = 0)
                      IN /\ e \in DOMAIN rep[r].rows <=> shown
                         /\ shown => rep[r].rows[e] =
                               IF k = "grid" \/ k \in Slotted
                               THEN [Nothing EXCEPT !.base = due[e].base]
                               ELSE due[e]
    BY DEF UntouchedAreExact
  <2> DEFINE p == rep[r]
             k == p.kind
             shown == e \in profile /\ user[e].company = p.company
                      /\ ~(k \in {"table", "summary", "grid"} /\ ~user[e].active)
                      /\ ~(k \in {"list", "one"} /\ user[e].role # "employee")
                      /\ ~(k = "grid" /\ due[e].base = 0)
  <2>1. /\ p \in Rep /\ Shape(p) /\ Exact(p) /\ p.rows \in Rows /\ p.of \subseteq Employee
        /\ k \in OfAll \cup OfOne \cup Own
    BY Reading DEF Rep
  <2>2. e \in profile => user[e] # Absent
    BY <2>1, ReportsAssumption DEF IInv, Tables
  <2>3. k \in Own => Works(e, p.company)
    BY <2>1 DEF Exact
  <2>4. Found(k, p.company, e) <=> shown
    BY <2>1, <2>2, <2>3 DEF Found, Works, OfAll, OfOne, Own, Batched
  <2>5. e \in DOMAIN p.rows <=> Found(k, p.company, e)
    BY <2>1 DEF Exact, Shape
  <2>6. ASSUME e \in DOMAIN p.rows
        PROVE  p.rows[e] = IF k = "grid" \/ k \in Slotted
                           THEN [Nothing EXCEPT !.base = due[e].base] ELSE due[e]
    <3>1. p.rows[e] \in Due /\ due[e] \in Due /\ due[e].base \in Amounts
      BY <2>1, <2>6, RowsShown, Reading, PartsAreAmounts
    <3>2. /\ p.rows[e].base = due[e].base
          /\ k = "grid" \/ k \in Slotted => p.rows[e].bonus = 0 /\ p.rows[e].fine = 0
          /\ k \in Calculated \cup Batched =>
                p.rows[e].bonus = due[e].bonus /\ p.rows[e].fine = due[e].fine
      BY <2>1, <2>6 DEF Exact
    <3>3. CASE k = "grid" \/ k \in Slotted
      <4> DEFINE x == [Nothing EXCEPT !.base = due[e].base]
      <4>1. x \in Due /\ x.base = due[e].base /\ x.bonus = 0 /\ x.fine = 0
        BY <3>1, NothingIsDue DEF Due
      <4> HIDE DEF x
      <4>2. p.rows[e] = x
        BY <3>1, <3>2, <3>3, <4>1, SumsAreParts
      <4> QED
        BY <3>3, <4>2 DEF x
    <3>4. CASE ~(k = "grid" \/ k \in Slotted)
      <4>1. k \in Calculated \cup Batched
        BY <2>1, <3>4 DEF OfAll, OfOne, Own, Slotted, Calculated, Batched
      <4> QED
        BY <3>1, <3>2, <3>4, <4>1, SumsAreParts
    <3> QED
      BY <3>3, <3>4
  <2> QED
    BY <2>4, <2>5, <2>6
<1> QED
  BY <1>1, AlwaysIInv, PTL

\* Of an employee who is written meanwhile a report shows parts that were all
\* committed since the request came in, none from before the part it read earlier.
THEOREM PartsAlwaysInOrder == Spec => []PartsInOrder
<1>1. IInv => PartsInOrder
  <2> SUFFICES ASSUME IInv, NEW r \in Report, rep[r].pc = "done",
                      NEW e \in DOMAIN rep[r].rows
               PROVE  \E i, j, k \in 1..Len(rep[r].seen) :
                        /\ i <= j /\ j <= k
                        /\ rep[r].rows[e].base = rep[r].seen[i][e].base
                        /\ rep[r].kind \in Calculated \cup Batched =>
                              /\ rep[r].rows[e].bonus = rep[r].seen[j][e].bonus
                              /\ rep[r].rows[e].fine = rep[r].seen[k][e].fine
                        /\ rep[r].kind \in Batched => j = k
    BY DEF PartsInOrder
  <2>1. Ordered(rep[r])
    BY Reading
  <2> QED
    BY <2>1 DEF Ordered, Moments
<1> QED
  BY <1>1, AlwaysIInv, PTL
=============================================================================
