-------------------------- MODULE DismissalProofs --------------------------
(***************************************************************************)
(* Theorems about Dismissal, for any number of deletions and inserts.      *)
(*                                                                         *)
(* Types leaves out how many ids there are: what follows needs no bound.   *)
(* FoundInv is about a deletion that nobody has overtaken: its DELETEs     *)
(* have all that is in their tables. ReferInv is what the database keeps:  *)
(* rows refer to a profile that is there, and who inserts a row and who    *)
(* deletes the profile exclude each other. HeldInv and WaitInv are about   *)
(* the row locks: who waits for whom, and that it ends.                    *)
(***************************************************************************)
EXTENDS Dismissal, TLAPS, FiniteSetTheorems

Ids == [Table -> SUBSET Nat]

DelType == [pc : {"idle", "avatar", "revoke", "taking", "profile", "commit"},
            i : 1..4, got : Ids, whole : BOOLEAN, overtaken : BOOLEAN]

AddType == [pc : {"idle", "checked", "inserted"}, table : Table, id : Nat, panel : BOOLEAN]

Types ==
    /\ user \in BOOLEAN /\ profile \in BOOLEAN
    /\ rows \in Ids /\ added \in Nat
    /\ avatar \in {"none", "stored", "deleted"}
    /\ del \in [Deletion -> DelType]
    /\ add \in [Adder -> AddType]
    /\ dismissed \in BOOLEAN

\* Where a deletion is in its order, how much the API deletes, and that the avatar goes
\* before anything else: of a deletion d with record x while the avatar is v.
Placed(d, x, v) ==
    /\ x.pc \in {"avatar", "revoke"} => x.i = 1
    /\ x.pc = "taking" => x.i \in 1..3
    /\ x.pc \in {"profile", "commit"} => x.i = 4
    /\ d \in ApiDel => x.whole
    /\ d \in ApiDel /\ x.pc \in {"revoke", "taking", "profile", "commit"} => v # "stored"

PlaceInv == \A d \in Deletion : Placed(d, del[d], avatar)

\* A deletion d with record x that nobody has overtaken: of each table whose DELETE has
\* begun it has all the rows there are in r.
FoundBy(d, x, r) ==
    x.pc \in {"taking", "profile", "commit"} /\ ~x.overtaken =>
        \A k \in 1..3 :
            (k < x.i \/ (x.pc = "taking" /\ k = x.i)) => r[Order(d)[k]] \subseteq x.got[Order(d)[k]]

FoundInv == \A d \in Deletion : FoundBy(d, del[d], rows)

ReferInv ==
    /\ \A d \in Deletion : del[d].pc = "commit" => \A t \in Table : rows[t] \subseteq del[d].got[t]
    /\ \A d \in Deletion, a \in Adder : ~(del[d].pc = "commit" /\ add[a].pc = "inserted")
    /\ ~profile => (\A t \in Table : rows[t] = {}) /\ \A a \in Adder : add[a].pc # "inserted"

----------------------------------------------------------------------------
\* Each order names the three tables.
LEMMA OrderFacts ==
    ASSUME NEW d
    PROVE  /\ Order(d) \in Seq(Table) /\ Len(Order(d)) = 3
           /\ \A k \in 1..3 : Order(d)[k] \in Table
           /\ \A t \in Table : \E k \in 1..3 : Order(d)[k] = t
  <1>1. CASE d \in ApiDel
    BY <1>1 DEF Order, ApiOrder, Table
  <1>2. CASE d \notin ApiDel
    BY <1>2 DEF Order, PanelOrder, Table
  <1> QED BY <1>1, <1>2

\* What Finds makes of a deletion.
LEMMA FindsFacts ==
    ASSUME Types, NEW d \in Deletion, NEW i \in 1..3
    PROVE  /\ Finds(d, i) \in DelType
           /\ Finds(d, i).pc = "taking" /\ Finds(d, i).i = i
           /\ Finds(d, i).whole = del[d].whole
           /\ Finds(d, i).overtaken = del[d].overtaken
           /\ Finds(d, i).got[Order(d)[i]] = rows[Order(d)[i]]
           /\ \A t \in Table : t # Order(d)[i] => Finds(d, i).got[t] = del[d].got[t]
  <1>1. Order(d)[i] \in Table
    BY OrderFacts
  <1>2. del[d] \in DelType /\ rows \in Ids
    BY DEF Types
  <1> DEFINE t == Order(d)[i]
             g == [del[d].got EXCEPT ![t] = rows[t]]
  <1>3. g \in Ids /\ g[t] = rows[t] /\ \A u \in Table : u # t => g[u] = del[d].got[u]
    BY <1>1, <1>2 DEF DelType, Ids
  <1>4. Finds(d, i) = [del[d] EXCEPT !.pc = "taking", !.i = i, !.got = g]
    BY DEF Finds
  <1>5. t = Order(d)[i]
    OBVIOUS
  <1> HIDE DEF t, g
  <1>6. /\ Finds(d, i) \in DelType
        /\ Finds(d, i).pc = "taking" /\ Finds(d, i).i = i /\ Finds(d, i).got = g
        /\ Finds(d, i).whole = del[d].whole /\ Finds(d, i).overtaken = del[d].overtaken
    <2>1. i \in 1..4
      OBVIOUS
    <2> QED BY <1>2, <1>3, <1>4, <2>1 DEF DelType
  <1> QED BY <1>3, <1>5, <1>6

\* All that a deletion at the profile has not taken, it was overtaken by.
LEMMA NothingLeft ==
    ASSUME Types, PlaceInv, FoundInv, NEW d \in Deletion,
           del[d].pc = "profile", ~del[d].overtaken
    PROVE  ~StillReferred(d)
  <1>1. SUFFICES ASSUME NEW t \in Table
        PROVE  t \in Taken(d) /\ rows[t] \subseteq del[d].got[t]
    BY DEF StillReferred
  <1>2. PICK k \in 1..3 : Order(d)[k] = t
    BY OrderFacts
  <1>3. del[d].i = 4
    BY DEF PlaceInv, Placed
  <1>4. t \in Taken(d)
    BY <1>2, <1>3 DEF Taken
  <1>5. rows[Order(d)[k]] \subseteq del[d].got[Order(d)[k]]
    BY <1>3 DEF FoundInv, FoundBy
  <1> QED BY <1>2, <1>4, <1>5

\* Requests that are not under way are typed.
LEMMA IdleTypes == IdleDel \in DelType /\ IdleAdd \in AddType
  BY DEF IdleDel, IdleAdd, DelType, AddType, Ids, Table

\* A deletion that is through with the tables.
LEMMA LastTable ==
    ASSUME NEW p \in DelType, NEW q, q = [p EXCEPT !.i = 4, !.pc = "profile"]
    PROVE  q \in DelType /\ q.pc = "profile" /\ q.i = 4 /\ q.got = p.got
           /\ q.whole = p.whole /\ q.overtaken = p.overtaken
  <1>1. 4 \in 1..4
    OBVIOUS
  <1> QED BY <1>1 DEF DelType

----------------------------------------------------------------------------
(***************************************************************************)
(* Types and places.                                                       *)
(***************************************************************************)
\* What concerns one deletion at a time.
Local == Types /\ PlaceInv

\* A step that replaces one deletion's record by another and leaves the avatar.
LEMMA OneDeletion ==
    ASSUME Local, NEW d \in Deletion, NEW x \in DelType,
           del' = [del EXCEPT ![d] = x], avatar' = avatar, Placed(d, x, avatar)
    PROVE  del' \in [Deletion -> DelType] /\ PlaceInv'
  <1>1. \A e \in Deletion : del'[e] = IF e = d THEN x ELSE del[e]
    BY DEF Local, Types
  <1>2. del' \in [Deletion -> DelType]
    BY DEF Local, Types
  <1>3. PlaceInv'
    BY <1>1 DEF Local, PlaceInv
  <1> QED BY <1>2, <1>3

\* Every step keeps the types and the places: one case per action.
LEMMA LocalStep ==
    ASSUME DismissalAssumption, Local, [Next]_vars
    PROVE  Local'
  <1> USE IdleTypes
  <1>t. /\ user \in BOOLEAN /\ profile \in BOOLEAN /\ rows \in Ids /\ added \in Nat
        /\ avatar \in {"none", "stored", "deleted"} /\ dismissed \in BOOLEAN
        /\ del \in [Deletion -> DelType] /\ add \in [Adder -> AddType]
    BY DEF Local, Types
  <1>i. /\ IdleDel.pc = "idle" /\ IdleDel.whole /\ IdleDel.i = 1
        /\ \A d : Placed(d, IdleDel, avatar)
    BY DEF IdleDel, Placed
  <1>1. ASSUME NEW d \in ApiDel, DelLoads(d) PROVE Local'
    <2> DEFINE x == [IdleDel EXCEPT !.pc = IF avatar = "none" THEN "revoke" ELSE "avatar"]
    <2>1. x \in DelType /\ x.whole /\ x.pc \in {"revoke", "avatar"}
          /\ Placed(d, x, avatar)
      BY <1>i DEF DelType, Placed
    <2>2. del' = [del EXCEPT ![d] = x] /\ d \in Deletion
      BY <1>1 DEF DelLoads, Deletion
    <2> HIDE DEF x
    <2>3. del' \in [Deletion -> DelType] /\ PlaceInv'
      BY <1>1, <2>1, <2>2, OneDeletion DEF DelLoads
    <2> QED BY <1>1, <1>t, <2>3 DEF DelLoads, store, Local, Types
  <1>2. ASSUME NEW d \in ApiDel, DelStoreFails(d) PROVE Local'
    <2>1. del' \in [Deletion -> DelType] /\ PlaceInv'
      BY <1>2, <1>i, OneDeletion DEF DelStoreFails, Deletion
    <2> QED BY <1>2, <1>t, <2>1 DEF DelStoreFails, store, Local, Types
  <1>3. ASSUME NEW d \in PanelDel, NEW whole \in BOOLEAN, PanelCollects(d, whole) PROVE Local'
    <2> DEFINE x == [Finds(d, 1) EXCEPT !.whole = whole]
    <2>d. d \in Deletion /\ d \notin ApiDel
      BY DismissalAssumption DEF Deletion
    <2>1. x \in DelType /\ x.pc = "taking" /\ x.i = 1
      BY <2>d, FindsFacts DEF Local, DelType
    <2>2. del' = [del EXCEPT ![d] = x] /\ avatar' = avatar
      BY <1>3 DEF PanelCollects
    <2> HIDE DEF x
    <2>3. Placed(d, x, avatar)
      BY <2>d, <2>1 DEF Placed
    <2>4. del' \in [Deletion -> DelType] /\ PlaceInv'
      BY <2>d, <2>1, <2>2, <2>3, OneDeletion
    <2> QED BY <1>3, <1>t, <2>4 DEF PanelCollects, store, Local, Types
  <1>4. ASSUME NEW d \in Deletion, DelAvatar(d) PROVE Local'
    <2>1. del' \in [Deletion -> DelType]
      BY <1>4, <1>t DEF DelAvatar, DelType
    <2>2. PlaceInv'
      BY <1>4, <1>t DEF DelAvatar, DelType, Local, PlaceInv, Placed
    <2> QED BY <1>4, <1>t, <2>1, <2>2 DEF DelAvatar, store, Local, Types
  <1>5. ASSUME NEW d \in Deletion, DelRevokes(d) PROVE Local'
    <2>1. Finds(d, 1) \in DelType /\ Finds(d, 1).pc = "taking" /\ Finds(d, 1).i = 1
          /\ Finds(d, 1).whole = del[d].whole
      BY FindsFacts DEF Local
    <2>2. Placed(d, Finds(d, 1), avatar)
      BY <1>5, <2>1 DEF DelRevokes, Local, PlaceInv, Placed
    <2>3. del' = [del EXCEPT ![d] = Finds(d, 1)] /\ avatar' = avatar
      BY <1>5 DEF DelRevokes
    <2>4. del' \in [Deletion -> DelType] /\ PlaceInv'
      BY <2>1, <2>2, <2>3, OneDeletion
    <2> QED BY <1>5, <1>t, <2>4 DEF DelRevokes, store, Local, Types
  <1>6. ASSUME NEW d \in Deletion, DelTakesRows(d) PROVE Local'
    <2>1. del[d].i \in 1..3 /\ del[d].pc = "taking" /\ Len(Order(d)) = 3
      BY <1>6, OrderFacts DEF DelTakesRows, Local, PlaceInv, Placed
    <2>2. ASSUME del[d].i < 3 PROVE del' \in [Deletion -> DelType] /\ PlaceInv'
      <3>1. del[d].i + 1 \in 1..3
        BY <2>1, <2>2
      <3> DEFINE x == Finds(d, del[d].i + 1)
      <3>2. x \in DelType /\ x.pc = "taking" /\ x.i \in 1..3 /\ x.whole = del[d].whole
        BY <3>1, FindsFacts DEF Local
      <3>3. del' = [del EXCEPT ![d] = x] /\ avatar' = avatar
        BY <1>6, <2>1, <2>2 DEF DelTakesRows
      <3> HIDE DEF x
      <3>4. Placed(d, x, avatar)
        BY <2>1, <3>2 DEF Local, PlaceInv, Placed
      <3> QED BY <3>2, <3>3, <3>4, OneDeletion
    <2>3. ASSUME ~(del[d].i < 3) PROVE del' \in [Deletion -> DelType] /\ PlaceInv'
      <3> DEFINE x == [del[d] EXCEPT !.i = @ + 1, !.pc = "profile"]
      <3>1. x \in DelType /\ x.pc = "profile" /\ x.i = 4 /\ x.whole = del[d].whole
        <4>1. del[d].i = 3 /\ del[d] \in DelType
          BY <1>t, <2>1, <2>3
        <4>2. del[d].i + 1 = 4
          BY <4>1
        <4>3. x = [del[d] EXCEPT !.i = 4, !.pc = "profile"]
          BY <4>2
        <4> QED BY <4>1, <4>3, LastTable
      <3>2. del' = [del EXCEPT ![d] = x] /\ avatar' = avatar
        BY <1>6, <2>1, <2>3 DEF DelTakesRows
      <3> HIDE DEF x
      <3>3. Placed(d, x, avatar)
        BY <2>1, <3>1 DEF Local, PlaceInv, Placed
      <3> QED BY <3>1, <3>2, <3>3, OneDeletion
    <2>4. del' \in [Deletion -> DelType] /\ PlaceInv'
      BY <2>2, <2>3
    <2> QED BY <1>6, <1>t, <2>4 DEF DelTakesRows, store, Local, Types
  <1>7. ASSUME NEW d \in Deletion, DelTakesProfile(d) PROVE Local'
    <2> DEFINE x == [del[d] EXCEPT !.pc = "commit"]
    <2>1. x \in DelType /\ x.pc = "commit" /\ x.i = 4 /\ x.whole = del[d].whole
      BY <1>7, <1>t DEF DelTakesProfile, DelType, Local, PlaceInv, Placed
    <2>2. del' = [del EXCEPT ![d] = x] /\ avatar' = avatar
      BY <1>7 DEF DelTakesProfile
    <2> HIDE DEF x
    <2>3. Placed(d, x, avatar)
      BY <1>7, <2>1 DEF DelTakesProfile, Local, PlaceInv, Placed
    <2>4. del' \in [Deletion -> DelType] /\ PlaceInv'
      BY <2>1, <2>2, <2>3, OneDeletion
    <2> QED BY <1>7, <1>t, <2>4 DEF DelTakesProfile, store, Local, Types
  <1>8. ASSUME NEW d \in Deletion, DelFails(d) PROVE Local'
    <2>1. del' \in [Deletion -> DelType] /\ PlaceInv'
      BY <1>8, <1>i, OneDeletion DEF DelFails
    <2> QED BY <1>8, <1>t, <2>1 DEF DelFails, store, Local, Types
  <1>9. ASSUME NEW d \in Deletion, DelCommits(d) PROVE Local'
    <2>1. del' \in [Deletion -> DelType] /\ PlaceInv'
      BY <1>9, <1>i, OneDeletion DEF DelCommits
    <2>2. rows' \in Ids
      BY <1>9, <1>t DEF DelCommits, Ids
    <2>3. profile' \in BOOLEAN /\ user' \in BOOLEAN /\ dismissed' \in BOOLEAN
      BY <1>9, <1>t DEF DelCommits
    <2> QED BY <1>9, <1>t, <2>1, <2>2, <2>3 DEF DelCommits, Local, Types
  <1>10. ASSUME NEW d \in Deletion, NEW e \in Deletion, BreakDeadlock(d, e) PROVE Local'
    <2>1. del' \in [Deletion -> DelType] /\ PlaceInv'
      BY <1>10, <1>i, OneDeletion DEF BreakDeadlock
    <2> QED BY <1>10, <1>t, <2>1 DEF BreakDeadlock, store, Local, Types
  <1>11. ASSUME NEW a \in Adder, NEW t \in Table, NEW panel \in BOOLEAN, AddChecks(a, t, panel)
         PROVE Local'
    <2>1. add' \in [Adder -> AddType]
      BY <1>11, <1>t DEF AddChecks, AddType
    <2> QED BY <1>11, <1>t, <2>1 DEF AddChecks, store, Local, Types, PlaceInv
  <1>12. ASSUME NEW a \in Adder, AddInserts(a) PROVE Local'
    <2>1. add' \in [Adder -> AddType]
      <3>1. add[a] \in AddType /\ added + 1 \in Nat
        BY <1>t
      <3>2. [add[a] EXCEPT !.pc = "inserted", !.id = added + 1] \in AddType
        BY <3>1 DEF AddType
      <3> QED BY <1>12, <1>t, <3>2 DEF AddInserts
    <2> QED BY <1>12, <1>t, <2>1 DEF AddInserts, Local, Types, PlaceInv
  <1>13. ASSUME NEW a \in Adder, AddFails(a) PROVE Local'
    <2>1. add' \in [Adder -> AddType]
      BY <1>13, <1>t DEF AddFails
    <2> QED BY <1>13, <1>t, <2>1 DEF AddFails, store, Local, Types, PlaceInv
  <1>14. ASSUME NEW a \in Adder, AddCommits(a) PROVE Local'
    <2>1. add' \in [Adder -> AddType]
      BY <1>14, <1>t DEF AddCommits
    <2>2. add[a].table \in Table /\ add[a].id \in Nat
      BY <1>t DEF AddType
    <2>3. rows' \in Ids
      BY <1>14, <1>t, <2>2 DEF AddCommits, Ids
    <2>4. \A d \in Deletion :
            /\ del'[d] \in DelType
            /\ del'[d].pc = del[d].pc /\ del'[d].i = del[d].i /\ del'[d].whole = del[d].whole
      BY <1>14, <1>t DEF AddCommits, DelType
    <2>5. del' \in [Deletion -> DelType]
      BY <1>14, <2>4 DEF AddCommits
    <2>6. PlaceInv'
      BY <1>14, <2>4 DEF AddCommits, Local, PlaceInv, Placed
    <2> QED BY <1>14, <1>t, <2>1, <2>3, <2>5, <2>6 DEF AddCommits, Local, Types
  <1>15. CASE Crash
    <2>1. \A d \in Deletion : del'[d] \in {IdleDel, del[d]}
      BY <1>15 DEF Crash
    <2>2. del' \in [Deletion -> DelType] /\ add' \in [Adder -> AddType]
      BY <1>15, <1>t DEF Crash
    <2>3. PlaceInv'
      BY <1>15, <1>i, <2>1 DEF Crash, Local, PlaceInv
    <2> QED BY <1>15, <1>t, <2>2, <2>3 DEF Crash, store, Local, Types
  <1>16. CASE UNCHANGED vars
    BY <1>16 DEF vars, Local, Types, PlaceInv
  <1> QED
    BY <1>1, <1>2, <1>3, <1>4, <1>5, <1>6, <1>7, <1>8, <1>9, <1>10, <1>11, <1>12, <1>13,
       <1>14, <1>15, <1>16 DEF Next, DelStep, AddStep

----------------------------------------------------------------------------
(***************************************************************************)
(* What DELETEs have found.                                                *)
(***************************************************************************)
\* Every step keeps FoundInv: a commit only removes rows, an insert marks all deletions
\* under way as overtaken, and a DELETE that begins takes what there is.
LEMMA FoundStep ==
    ASSUME Local, FoundInv, [Next]_vars
    PROVE  FoundInv'
  <1>t. del \in [Deletion -> DelType] /\ rows \in Ids
    BY DEF Local, Types
  <1>o. ASSUME NEW d \in Deletion, NEW x, del' = [del EXCEPT ![d] = x], rows' = rows,
               FoundBy(d, x, rows)
        PROVE  FoundInv'
    <2>1. \A e \in Deletion : del'[e] = IF e = d THEN x ELSE del[e]
      BY <1>o, <1>t
    <2> QED BY <1>o, <2>1 DEF FoundInv
  <1>i. \A d : FoundBy(d, IdleDel, rows)
    BY DEF FoundBy, IdleDel
  <1>f. \A d \in Deletion : FoundBy(d, Finds(d, 1), rows)
    BY FindsFacts DEF Local, FoundBy
  <1>1. ASSUME NEW d \in ApiDel, DelLoads(d) PROVE FoundInv'
    <2> DEFINE x == [IdleDel EXCEPT !.pc = IF avatar = "none" THEN "revoke" ELSE "avatar"]
    <2>1. FoundBy(d, x, rows)
      BY DEF FoundBy, IdleDel
    <2>2. del' = [del EXCEPT ![d] = x] /\ rows' = rows /\ d \in Deletion
      BY <1>1 DEF DelLoads, store, Deletion
    <2> HIDE DEF x
    <2> QED BY <1>o, <2>1, <2>2
  <1>2. ASSUME NEW d \in ApiDel, DelStoreFails(d) PROVE FoundInv'
    BY <1>2, <1>o, <1>i DEF DelStoreFails, store, Deletion
  <1>3. ASSUME NEW d \in PanelDel, NEW whole \in BOOLEAN, PanelCollects(d, whole) PROVE FoundInv'
    <2> DEFINE x == [Finds(d, 1) EXCEPT !.whole = whole]
    <2>1. d \in Deletion /\ Finds(d, 1) \in DelType
      BY FindsFacts DEF Local, Deletion
    <2>2. x.pc = Finds(d, 1).pc /\ x.i = Finds(d, 1).i /\ x.got = Finds(d, 1).got
          /\ x.overtaken = Finds(d, 1).overtaken
      BY <2>1 DEF DelType
    <2>3. del' = [del EXCEPT ![d] = x] /\ rows' = rows
      BY <1>3 DEF PanelCollects, store
    <2> HIDE DEF x
    <2>4. FoundBy(d, x, rows)
      BY <2>1, <2>2, <1>f DEF FoundBy
    <2> QED BY <1>o, <2>1, <2>3, <2>4
  <1>4. ASSUME NEW d \in Deletion, DelAvatar(d) PROVE FoundInv'
    <2> DEFINE x == [del[d] EXCEPT !.pc = "revoke"]
    <2>1. x.pc = "revoke"
      BY <1>t DEF DelType
    <2>2. del' = [del EXCEPT ![d] = x] /\ rows' = rows
      BY <1>4 DEF DelAvatar, store
    <2> HIDE DEF x
    <2> QED BY <1>o, <2>1, <2>2 DEF FoundBy
  <1>5. ASSUME NEW d \in Deletion, DelRevokes(d) PROVE FoundInv'
    BY <1>5, <1>o, <1>f DEF DelRevokes, store
  <1>6. ASSUME NEW d \in Deletion, DelTakesRows(d) PROVE FoundInv'
    <2>1. del[d].i \in 1..3 /\ del[d].pc = "taking" /\ Len(Order(d)) = 3 /\ rows' = rows
      BY <1>6, OrderFacts DEF DelTakesRows, Local, PlaceInv, Placed, store
    <2>2. \A k \in 1..3 : k <= del[d].i /\ ~del[d].overtaken =>
              rows[Order(d)[k]] \subseteq del[d].got[Order(d)[k]]
      BY <2>1 DEF FoundInv, FoundBy
    <2>3. ASSUME del[d].i < 3 PROVE FoundInv'
      <3> DEFINE x == Finds(d, del[d].i + 1)
      <3>1. del[d].i + 1 \in 1..3 /\ \A k \in 1..3 : Order(d)[k] \in Table
        BY <2>1, <2>3, OrderFacts
      <3>2. /\ x.pc = "taking" /\ x.i = del[d].i + 1 /\ x.overtaken = del[d].overtaken
            /\ x.got[Order(d)[x.i]] = rows[Order(d)[x.i]]
            /\ \A t \in Table : t # Order(d)[x.i] => x.got[t] = del[d].got[t]
        BY <3>1, FindsFacts DEF Local
      <3>3. del' = [del EXCEPT ![d] = x]
        BY <1>6, <2>1, <2>3 DEF DelTakesRows
      <3> HIDE DEF x
      <3>4. FoundBy(d, x, rows)
        <4>1. SUFFICES ASSUME ~x.overtaken, NEW k \in 1..3, k <= x.i
              PROVE  rows[Order(d)[k]] \subseteq x.got[Order(d)[k]]
          BY <2>1, <3>2 DEF FoundBy
        <4>2. CASE Order(d)[k] = Order(d)[x.i]
          BY <4>2, <3>2
        <4>3. CASE Order(d)[k] # Order(d)[x.i]
          <5>1. k <= del[d].i
            BY <4>3, <4>1, <3>2, <2>1
          <5> QED BY <5>1, <4>1, <4>3, <3>1, <3>2, <2>2
        <4> QED BY <4>2, <4>3
      <3> QED BY <1>o, <2>1, <3>3, <3>4
    <2>4. ASSUME ~(del[d].i < 3) PROVE FoundInv'
      <3> DEFINE x == [del[d] EXCEPT !.i = 4, !.pc = "profile"]
      <3>1. x.i = 4 /\ x.pc = "profile" /\ x.got = del[d].got /\ x.overtaken = del[d].overtaken
        BY <1>t, LastTable
      <3>2. del[d].i + 1 = 4
        BY <2>1, <2>4
      <3>3. del' = [del EXCEPT ![d] = x]
        BY <1>6, <2>1, <2>4, <3>2 DEF DelTakesRows
      <3> HIDE DEF x
      <3>4. FoundBy(d, x, rows)
        BY <2>1, <2>2, <2>4, <3>1 DEF FoundBy
      <3> QED BY <1>o, <2>1, <3>3, <3>4
    <2> QED BY <2>3, <2>4
  <1>7. ASSUME NEW d \in Deletion, DelTakesProfile(d) PROVE FoundInv'
    <2> DEFINE x == [del[d] EXCEPT !.pc = "commit"]
    <2>1. x.pc = "commit" /\ x.i = del[d].i /\ x.got = del[d].got
          /\ x.overtaken = del[d].overtaken
      BY <1>t DEF DelType
    <2>2. del' = [del EXCEPT ![d] = x] /\ rows' = rows /\ del[d].pc = "profile"
      BY <1>7 DEF DelTakesProfile, store
    <2> HIDE DEF x
    <2>3. FoundBy(d, x, rows)
      BY <2>1, <2>2 DEF FoundInv, FoundBy
    <2> QED BY <1>o, <2>2, <2>3
  <1>8. ASSUME NEW d \in Deletion, DelFails(d) PROVE FoundInv'
    BY <1>8, <1>o, <1>i DEF DelFails, store
  <1>9. ASSUME NEW d \in Deletion, DelCommits(d) PROVE FoundInv'
    <2>1. \A e \in Deletion : del'[e] \in {IdleDel, del[e]}
      BY <1>9, <1>t DEF DelCommits
    <2>2. \A t \in Table : rows'[t] \subseteq rows[t]
      BY <1>9 DEF DelCommits
    <2>3. \A e \in Deletion : FoundBy(e, del'[e], rows')
      <3>1. SUFFICES ASSUME NEW e \in Deletion, del'[e] = del[e]
            PROVE  FoundBy(e, del[e], rows')
        BY <2>1 DEF FoundBy, IdleDel
      <3> QED BY <2>2, OrderFacts DEF FoundInv, FoundBy
    <2> QED BY <2>3 DEF FoundInv
  <1>10. ASSUME NEW d \in Deletion, NEW e \in Deletion, BreakDeadlock(d, e) PROVE FoundInv'
    BY <1>10, <1>o, <1>i DEF BreakDeadlock, store
  <1>11. ASSUME NEW a \in Adder, AddCommits(a) PROVE FoundInv'
    <2>1. ASSUME NEW e \in Deletion, del'[e].pc \in {"taking", "profile", "commit"}
          PROVE  del'[e].overtaken
      BY <1>11, <1>t, <2>1 DEF AddCommits, DelType
    <2> QED BY <2>1 DEF FoundInv, FoundBy
  <1>12. CASE Crash
    <2>1. \A e \in Deletion : del'[e] \in {IdleDel, del[e]}
      BY <1>12 DEF Crash
    <2> QED BY <1>12, <1>i, <2>1 DEF Crash, store, FoundInv
  <1>13. CASE del' = del /\ rows' = rows
    BY <1>13 DEF FoundInv
  <1> QED
    BY <1>1, <1>2, <1>3, <1>4, <1>5, <1>6, <1>7, <1>8, <1>9, <1>10, <1>11, <1>12, <1>13
    DEF Next, DelStep, AddStep, AddChecks, AddInserts, AddFails, store, vars

----------------------------------------------------------------------------
(***************************************************************************)
(* What refers to the profile.                                             *)
(***************************************************************************)
\* Every step keeps ReferInv: the DELETE of the profile waits for inserts and then has
\* every row, and an insert waits for it.
LEMMA ReferStep ==
    ASSUME Local, ReferInv, [Next]_vars
    PROVE  ReferInv'
  <1>t. del \in [Deletion -> DelType] /\ rows \in Ids /\ add \in [Adder -> AddType]
    BY DEF Local, Types
  <1>o. ASSUME NEW d \in Deletion, NEW x, del' = [del EXCEPT ![d] = x], x.pc # "commit",
               rows' = rows, profile' = profile, add' = add
        PROVE  ReferInv'
    <2>1. \A e \in Deletion : del'[e] = IF e = d THEN x ELSE del[e]
      BY <1>o, <1>t
    <2> QED BY <1>o, <2>1 DEF ReferInv
  <1>i. IdleDel.pc # "commit" /\ IdleAdd.pc # "inserted"
    BY DEF IdleDel, IdleAdd
  <1>f. \A d \in Deletion : \A n \in 1..3 : Finds(d, n).pc # "commit"
    BY FindsFacts DEF Local
  <1>1. ASSUME NEW d \in ApiDel, DelLoads(d) PROVE ReferInv'
    <2> DEFINE x == [IdleDel EXCEPT !.pc = IF avatar = "none" THEN "revoke" ELSE "avatar"]
    <2>1. x.pc # "commit"
      BY DEF IdleDel
    <2>2. /\ del' = [del EXCEPT ![d] = x] /\ d \in Deletion
          /\ rows' = rows /\ profile' = profile /\ add' = add
      BY <1>1 DEF DelLoads, store, Deletion
    <2> HIDE DEF x
    <2> QED BY <1>o, <2>1, <2>2
  <1>2. ASSUME NEW d \in ApiDel, DelStoreFails(d) PROVE ReferInv'
    BY <1>2, <1>o, <1>i DEF DelStoreFails, store, Deletion
  <1>3. ASSUME NEW d \in PanelDel, NEW whole \in BOOLEAN, PanelCollects(d, whole) PROVE ReferInv'
    <2> DEFINE x == [Finds(d, 1) EXCEPT !.whole = whole]
    <2>1. d \in Deletion /\ Finds(d, 1) \in DelType
      BY FindsFacts DEF Local, Deletion
    <2>2. x.pc # "commit"
      BY <2>1, <1>f DEF DelType
    <2>3. /\ del' = [del EXCEPT ![d] = x]
          /\ rows' = rows /\ profile' = profile /\ add' = add
      BY <1>3 DEF PanelCollects, store
    <2> HIDE DEF x
    <2> QED BY <1>o, <2>1, <2>2, <2>3
  <1>4. ASSUME NEW d \in Deletion, DelAvatar(d) PROVE ReferInv'
    <2> DEFINE x == [del[d] EXCEPT !.pc = "revoke"]
    <2>1. x.pc # "commit"
      BY <1>t DEF DelType
    <2>2. del' = [del EXCEPT ![d] = x] /\ rows' = rows /\ profile' = profile /\ add' = add
      BY <1>4 DEF DelAvatar, store
    <2> HIDE DEF x
    <2> QED BY <1>o, <2>1, <2>2
  <1>5. ASSUME NEW d \in Deletion, DelRevokes(d) PROVE ReferInv'
    <2>1. Finds(d, 1).pc # "commit"
      BY <1>f
    <2> QED BY <1>5, <1>o, <2>1 DEF DelRevokes, store
  <1>6. ASSUME NEW d \in Deletion, DelTakesRows(d) PROVE ReferInv'
    <2>1. del[d].i \in 1..3 /\ Len(Order(d)) = 3
      BY <1>6, OrderFacts DEF DelTakesRows, Local, PlaceInv, Placed
    <2> DEFINE x == [del[d] EXCEPT !.i = @ + 1, !.pc = "profile"]
    <2>2. x.pc # "commit"
      BY <1>t DEF DelType
    <2>3. del' = [del EXCEPT ![d] = IF del[d].i < Len(Order(d)) THEN Finds(d, del[d].i + 1) ELSE x]
          /\ rows' = rows /\ profile' = profile /\ add' = add
      BY <1>6 DEF DelTakesRows, store
    <2> HIDE DEF x
    <2>4. CASE del[d].i < 3
      <3>1. del[d].i + 1 \in 1..3 /\ del' = [del EXCEPT ![d] = Finds(d, del[d].i + 1)]
        BY <2>1, <2>3, <2>4
      <3>2. Finds(d, del[d].i + 1).pc # "commit"
        BY <1>f, <3>1
      <3> QED BY <1>o, <2>3, <3>1, <3>2
    <2>5. CASE ~(del[d].i < 3)
      <3>1. del' = [del EXCEPT ![d] = x]
        BY <2>1, <2>3, <2>5
      <3> QED BY <1>o, <2>2, <2>3, <3>1
    <2> QED BY <2>4, <2>5
  <1>7. ASSUME NEW d \in Deletion, DelTakesProfile(d) PROVE ReferInv'
    <2> DEFINE x == [del[d] EXCEPT !.pc = "commit"]
    <2>1. x.pc = "commit" /\ x.got = del[d].got
      BY <1>t DEF DelType
    <2>2. /\ del' = [del EXCEPT ![d] = x]
          /\ rows' = rows /\ profile' = profile /\ add' = add
      BY <1>7 DEF DelTakesProfile, store
    <2> HIDE DEF x
    <2>3. \A e \in Deletion : del'[e] = IF e = d THEN x ELSE del[e]
      BY <1>t, <2>2
    <2>4. \A a \in Adder : add[a].pc # "inserted"
      BY <1>7 DEF DelTakesProfile, ProfileSharers
    <2>5. \A t \in Table : rows[t] \subseteq del[d].got[t]
      BY <1>7 DEF DelTakesProfile, StillReferred, ReferInv
    <2> QED BY <2>1, <2>2, <2>3, <2>4, <2>5 DEF ReferInv
  <1>8. ASSUME NEW d \in Deletion, DelFails(d) PROVE ReferInv'
    BY <1>8, <1>o, <1>i DEF DelFails, store
  <1>9. ASSUME NEW d \in Deletion, DelCommits(d) PROVE ReferInv'
    <2>1. \A e \in Deletion : del'[e] = IF e = d THEN IdleDel ELSE del[e]
      BY <1>9, <1>t DEF DelCommits
    <2>2. \A t \in Table : rows'[t] = rows[t] \ del[d].got[t]
      BY <1>9 DEF DelCommits
    <2>3. \A t \in Table : rows[t] \subseteq del[d].got[t]
      BY <1>9 DEF DelCommits, ReferInv
    <2>4. \A t \in Table : rows'[t] = {}
      BY <2>2, <2>3
    <2>5. add' = add /\ \A a \in Adder : add[a].pc # "inserted"
      BY <1>9 DEF DelCommits, ReferInv
    <2> QED BY <1>i, <2>1, <2>4, <2>5 DEF ReferInv
  <1>10. ASSUME NEW d \in Deletion, NEW e \in Deletion, BreakDeadlock(d, e) PROVE ReferInv'
    BY <1>10, <1>o, <1>i DEF BreakDeadlock, store
  <1>11. ASSUME NEW a \in Adder, NEW t \in Table, NEW panel \in BOOLEAN, AddChecks(a, t, panel)
         PROVE ReferInv'
    <2>1. \A b \in Adder : add'[b].pc = "inserted" => add[b].pc = "inserted"
      BY <1>11, <1>t DEF AddChecks
    <2> QED BY <1>11, <2>1 DEF AddChecks, store, ReferInv
  <1>12. ASSUME NEW a \in Adder, AddInserts(a) PROVE ReferInv'
    <2>1. \A d \in Deletion : del[d].pc # "commit"
      BY <1>12 DEF AddInserts, ProfileTakers
    <2> QED BY <1>12, <2>1 DEF AddInserts, ReferInv
  <1>13. ASSUME NEW a \in Adder, AddFails(a) PROVE ReferInv'
    <2>1. \A b \in Adder : add'[b].pc = "inserted" => add[b].pc = "inserted"
      BY <1>13, <1>t, <1>i DEF AddFails
    <2> QED BY <1>13, <2>1 DEF AddFails, store, ReferInv
  <1>14. ASSUME NEW a \in Adder, AddCommits(a) PROVE ReferInv'
    <2>1. \A d \in Deletion : del'[d].pc # "commit"
      BY <1>14, <1>t DEF AddCommits, DelType, ReferInv
    <2>2. profile /\ profile' = profile
      BY <1>14 DEF AddCommits, ReferInv
    <2> QED BY <2>1, <2>2 DEF ReferInv
  <1>15. CASE Crash
    <2>1. /\ \A d \in Deletion : del'[d] \in {IdleDel, del[d]}
          /\ \A a \in Adder : add'[a] \in {IdleAdd, add[a]}
          /\ rows' = rows /\ profile' = profile
      BY <1>15 DEF Crash, store
    <2> QED BY <1>i, <2>1 DEF ReferInv
  <1>16. CASE UNCHANGED vars
    BY <1>16 DEF vars, ReferInv
  <1> QED
    BY <1>1, <1>2, <1>3, <1>4, <1>5, <1>6, <1>7, <1>8, <1>9, <1>10, <1>11, <1>12, <1>13,
       <1>14, <1>15, <1>16 DEF Next, DelStep, AddStep

\* A deletion by the API that commits leaves nothing, and nothing comes back.
LEMMA DoneStep ==
    ASSUME Local, ReferInv, DismissedForGood, [Next]_vars, ReferInv'
    PROVE  DismissedForGood'
  <1>1. ASSUME NEW d \in Deletion, DelCommits(d) PROVE DismissedForGood'
    <2>1. /\ ~profile' /\ avatar' = avatar
          /\ user' = (user /\ ~del[d].whole) /\ dismissed' = (dismissed \/ d \in ApiDel)
      BY <1>1 DEF DelCommits
    <2>2. \A t \in Table : rows'[t] = {}
      BY <2>1 DEF ReferInv
    <2>3. d \in ApiDel => del[d].whole /\ avatar # "stored"
      BY <1>1 DEF DelCommits, Local, PlaceInv, Placed
    <2> QED BY <2>1, <2>2, <2>3 DEF DismissedForGood
  <1>2. ASSUME NEW a \in Adder, AddCommits(a) PROVE DismissedForGood'
    <2>1. profile /\ dismissed' = dismissed
      BY <1>2 DEF AddCommits, ReferInv
    <2> QED BY <2>1 DEF DismissedForGood
  <1>3. CASE /\ user' = user /\ profile' = profile /\ rows' = rows /\ dismissed' = dismissed
             /\ avatar' \in {avatar, "deleted"}
    BY <1>3 DEF DismissedForGood
  <1> QED
    BY <1>1, <1>2, <1>3
    DEF Next, DelStep, AddStep, DelLoads, DelStoreFails, PanelCollects, DelAvatar, DelRevokes,
        DelTakesRows, DelTakesProfile, DelFails, BreakDeadlock, AddChecks, AddInserts, AddFails,
        Crash, store, vars

----------------------------------------------------------------------------
(***************************************************************************)
(* The theorems.                                                           *)
(***************************************************************************)
\* The inductive invariant.
IInv == Local /\ FoundInv /\ ReferInv /\ DismissedForGood

\* An employee with rows, nobody at work.
LEMMA InitHolds == ASSUME Init PROVE IInv
  <1> USE IdleTypes
  <1>1. Types
    <2>1. rows \in Ids
      BY DEF Init, Ids
    <2>2. del \in [Deletion -> DelType] /\ add \in [Adder -> AddType]
      BY DEF Init
    <2> QED BY <2>1, <2>2 DEF Init, Types
  <1>2. PlaceInv
    BY DEF Init, PlaceInv, Placed, IdleDel
  <1>3. FoundInv
    BY DEF Init, FoundInv, FoundBy, IdleDel
  <1>4. ReferInv
    BY DEF Init, ReferInv, IdleDel, IdleAdd
  <1>5. DismissedForGood
    BY DEF Init, DismissedForGood
  <1> QED BY <1>1, <1>2, <1>3, <1>4, <1>5 DEF IInv, Local

\* The invariant holds in every behaviour.
LEMMA Inductive == Spec => []IInv
  <1>1. Init => IInv
    BY InitHolds
  <1>2. IInv /\ [Next]_vars => IInv'
    BY DismissalAssumption, LocalStep, FoundStep, ReferStep, DoneStep DEF IInv
  <1> QED BY <1>1, <1>2, PTL DEF Spec

\* However many deletions and inserts there are, after a deletion was answered with
\* 204 nothing of the employee is in the tables, nor the avatar in S3, or comes back
\* (delete_employee next to the cascade of the panel and to inserts).
THEOREM DismissalIsForGood == Spec => []DismissedForGood
  <1>1. IInv => DismissedForGood
    BY DEF IInv
  <1> QED BY <1>1, Inductive, PTL

\* A deletion whose DELETE of the profile fails on a foreign key was overtaken by an
\* insert: of the rows that were there when it began it has forgotten none.
THEOREM OnlyTheOvertakenFail == Spec => []FailsOnlyWhenOvertaken
  <1>1. IInv => FailsOnlyWhenOvertaken
    BY NothingLeft DEF IInv, Local, FailsOnlyWhenOvertaken
  <1> QED BY <1>1, Inductive, PTL
----------------------------------------------------------------------------
(***************************************************************************)
(* Ids: an INSERT's is one more than the last, and no request is accepted  *)
(* for which none is left.                                                 *)
(***************************************************************************)
Checked == {a \in Adder : add[a].pc = "checked"}

RoomInv == added + Cardinality(Checked) <= MaxAdds

IdsInv ==
    /\ \A t \in Table : \A n \in rows[t] : n <= added
    /\ \A d \in Deletion, t \in Table : \A n \in del[d].got[t] : n <= added
    /\ \A a \in Adder : add[a].id <= added

FreshInv == \A d \in Deletion : del[d].pc = "idle" => del[d] = IdleDel

IdInv == RoomInv /\ IdsInv /\ FreshInv

\* What a step makes of one deletion: it ends, or goes on with the rows it had or with
\* those that are committed.
LEMMA DeletionSteps ==
    ASSUME Local, FreshInv, [Next]_vars, NEW d \in Deletion
    PROVE  \/ del'[d] = IdleDel
           \/ /\ del'[d].pc # "idle"
              /\ \A t \in Table : del'[d].got[t] = del[d].got[t] \/ del'[d].got[t] = rows[t]
                                    \/ del'[d].got[t] = {}
  <1> DEFINE Goal == \/ del'[d] = IdleDel
                     \/ /\ del'[d].pc # "idle"
                        /\ \A t \in Table : \/ del'[d].got[t] = del[d].got[t]
                                            \/ del'[d].got[t] = rows[t]
                                            \/ del'[d].got[t] = {}
  <1>t. del \in [Deletion -> DelType] /\ IdleDel \in DelType
    BY IdleTypes DEF Local, Types
  <1>0. ASSUME del'[d] = del[d] PROVE Goal
    BY <1>0 DEF FreshInv
  <1>f. ASSUME NEW i \in 1..3, NEW x, x = Finds(d, i)
        PROVE  /\ x.pc = "taking" /\ x \in DelType
               /\ \A t \in Table : x.got[t] = del[d].got[t] \/ x.got[t] = rows[t]
    BY <1>f, FindsFacts, OrderFacts DEF Local
  <1>1. ASSUME NEW e \in ApiDel, DelLoads(e) PROVE Goal
    <2> DEFINE x == [IdleDel EXCEPT !.pc = IF avatar = "none" THEN "revoke" ELSE "avatar"]
    <2>1. x.pc # "idle" /\ x.got = IdleDel.got
      BY DEF IdleDel
    <2>2. \A t \in Table : x.got[t] = {}
      BY <2>1 DEF IdleDel
    <2>3. del' = [del EXCEPT ![e] = x]
      BY <1>1 DEF DelLoads
    <2> HIDE DEF x
    <2> QED BY <1>0, <1>t, <2>1, <2>2, <2>3
  <1>2. ASSUME NEW e \in Deletion, del' = [del EXCEPT ![e] = IdleDel] PROVE Goal
    BY <1>0, <1>2, <1>t
  <1>3. ASSUME NEW e \in PanelDel, NEW whole \in BOOLEAN, PanelCollects(e, whole) PROVE Goal
    <2> DEFINE x == [Finds(e, 1) EXCEPT !.whole = whole]
    <2>1. CASE e = d
      <3> DEFINE y == Finds(d, 1)
      <3>1. /\ y.pc = "taking" /\ y \in DelType
            /\ \A t \in Table : y.got[t] = del[d].got[t] \/ y.got[t] = rows[t]
        BY <1>f
      <3>2. del' = [del EXCEPT ![e] = [y EXCEPT !.whole = whole]]
        BY <1>3, <2>1 DEF PanelCollects
      <3> HIDE DEF y
      <3>3. del'[d].pc = y.pc /\ del'[d].got = y.got
        BY <1>t, <2>1, <3>1, <3>2 DEF DelType
      <3> QED BY <3>1, <3>3
    <2>2. CASE e # d
      BY <1>0, <1>3, <1>t, <2>2 DEF PanelCollects
    <2> QED BY <2>1, <2>2
  <1>4. ASSUME NEW e \in Deletion, DelAvatar(e) \/ DelTakesProfile(e) PROVE Goal
    <2>1. CASE e = d
      <3>1. del'[d].pc # "idle" /\ del'[d].got = del[d].got
        BY <1>4, <1>t, <2>1 DEF DelAvatar, DelTakesProfile, DelType
      <3> QED BY <3>1
    <2>2. CASE e # d
      BY <1>0, <1>4, <1>t, <2>2 DEF DelAvatar, DelTakesProfile
    <2> QED BY <2>1, <2>2
  <1>5. ASSUME NEW e \in Deletion, DelRevokes(e) \/ DelTakesRows(e) PROVE Goal
    <2>1. CASE e # d
      BY <1>0, <1>5, <1>t, <2>1 DEF DelRevokes, DelTakesRows
    <2>2. CASE e = d
      <3>1. CASE DelRevokes(e)
        <4>1. del'[d] = Finds(d, 1)
          BY <1>t, <2>2, <3>1 DEF DelRevokes
        <4> QED BY <1>f, <4>1
      <3>2. CASE DelTakesRows(e)
        <4>1. del[d].i \in 1..3 /\ Len(Order(d)) = 3 /\ del[d] \in DelType
          BY <1>t, <2>2, <3>2, OrderFacts DEF DelTakesRows, Local, PlaceInv, Placed
        <4>2. CASE del[d].i < 3
          <5>1. del'[d] = Finds(d, del[d].i + 1) /\ del[d].i + 1 \in 1..3
            BY <1>t, <2>2, <3>2, <4>1, <4>2 DEF DelTakesRows
          <5> QED BY <1>f, <5>1
        <4>3. CASE ~(del[d].i < 3)
          <5>1. del'[d] = [del[d] EXCEPT !.i = @ + 1, !.pc = "profile"]
            BY <1>t, <2>2, <3>2, <4>1, <4>3 DEF DelTakesRows
          <5>2. del'[d].pc # "idle" /\ del'[d].got = del[d].got
            BY <4>1, <5>1 DEF DelType
          <5> QED BY <5>2
        <4> QED BY <4>2, <4>3
      <3> QED BY <1>5, <3>1, <3>2
    <2> QED BY <2>1, <2>2
  <1>6. ASSUME NEW a \in Adder, AddCommits(a) PROVE Goal
    <2>1. del'[d] = [del[d] EXCEPT
             !.overtaken = del[d].overtaken \/ del[d].pc \in {"taking", "profile", "commit"}]
      BY <1>6, <1>t DEF AddCommits, DelType
    <2>2. del'[d].pc = del[d].pc /\ del'[d].got = del[d].got
      BY <1>t, <2>1 DEF DelType
    <2>3. CASE del[d].pc = "idle"
      <3>1. del[d] = IdleDel /\ IdleDel.overtaken = FALSE
        BY <2>3 DEF FreshInv, IdleDel
      <3>2. (del[d].overtaken \/ del[d].pc \in {"taking", "profile", "commit"}) = FALSE
        BY <2>3, <3>1
      <3>3. [IdleDel EXCEPT !.overtaken = FALSE] = IdleDel
        BY <1>t, <3>1 DEF DelType
      <3> QED BY <2>1, <3>1, <3>2, <3>3
    <2>4. CASE del[d].pc # "idle"
      BY <2>2, <2>4
    <2> QED BY <2>3, <2>4
  <1>7. ASSUME Crash PROVE Goal
    BY <1>0, <1>7 DEF Crash
  <1>8. ASSUME NEW a \in Adder,
               \/ AddInserts(a) \/ AddFails(a)
               \/ \E t \in Table, panel \in BOOLEAN : AddChecks(a, t, panel)
        PROVE  Goal
    BY <1>0, <1>8 DEF AddInserts, AddFails, AddChecks
  <1>9. ASSUME UNCHANGED vars PROVE Goal
    BY <1>0, <1>9 DEF vars
  <1>10. ASSUME NEW e \in Deletion,
                \/ DelFails(e) \/ DelCommits(e)
                \/ \E g \in Deletion : BreakDeadlock(e, g)
         PROVE  Goal
    <2>1. del' = [del EXCEPT ![e] = IdleDel]
      BY <1>10 DEF DelFails, DelCommits, BreakDeadlock
    <2> QED BY <1>2, <2>1
  <1>11. ASSUME NEW e \in ApiDel, DelStoreFails(e) PROVE Goal
    BY <1>2, <1>11 DEF DelStoreFails, Deletion
  <1> HIDE DEF Goal
  <1>12. Goal
    BY <1>1, <1>2, <1>3, <1>4, <1>5, <1>6, <1>7, <1>8, <1>9, <1>10, <1>11
       DEF Next, DelStep, AddStep
  <1> QED BY <1>12 DEF Goal

\* What the steps make of ids, rows and inserts.
LEMMA RowSteps ==
    ASSUME Local, [Next]_vars
    PROVE  \/ UNCHANGED <<added, add>> /\ \A t \in Table : rows'[t] \subseteq rows[t]
           \/ UNCHANGED <<added, rows>> /\ \A a \in Adder : add'[a] \in {add[a], IdleAdd}
           \/ \E a \in Adder, t \in Table, panel \in BOOLEAN : AddChecks(a, t, panel)
           \/ \E a \in Adder : AddInserts(a) \/ AddCommits(a)
  <1>1. ASSUME NEW d \in Deletion,
               \/ DelLoads(d) \/ DelStoreFails(d) \/ DelAvatar(d) \/ DelRevokes(d)
               \/ DelTakesRows(d) \/ DelTakesProfile(d) \/ DelFails(d)
               \/ \E whole \in BOOLEAN : PanelCollects(d, whole)
               \/ \E e \in Deletion : BreakDeadlock(d, e)
        PROVE  UNCHANGED <<added, add, rows>>
    BY <1>1 DEF DelLoads, DelStoreFails, DelAvatar, DelRevokes, DelTakesRows, DelTakesProfile,
                DelFails, PanelCollects, BreakDeadlock, store
  <1>2. ASSUME NEW d \in Deletion, DelCommits(d)
        PROVE  UNCHANGED <<added, add>> /\ \A t \in Table : rows'[t] \subseteq rows[t]
    BY <1>2 DEF DelCommits
  <1>3. ASSUME NEW a \in Adder, AddFails(a)
        PROVE  UNCHANGED <<added, rows>> /\ \A b \in Adder : add'[b] \in {add[b], IdleAdd}
    BY <1>3 DEF AddFails, store, Local, Types
  <1>4. ASSUME Crash
        PROVE  UNCHANGED <<added, rows>> /\ \A b \in Adder : add'[b] \in {add[b], IdleAdd}
    BY <1>4 DEF Crash, store
  <1>5. CASE UNCHANGED vars
    BY <1>5 DEF vars
  <1>6. ApiDel \subseteq Deletion /\ PanelDel \subseteq Deletion
    BY DEF Deletion
  <1> QED BY <1>1, <1>2, <1>3, <1>4, <1>5, <1>6 DEF Next, DelStep, AddStep

\* The last id never goes down, and leaves one for each request that was accepted.
LEMMA RoomStep ==
    ASSUME Local, RoomInv, [Next]_vars
    PROVE  RoomInv' /\ added <= added'
  <1>t. added \in Nat /\ MaxAdds \in Nat /\ add \in [Adder -> AddType] /\ IdleAdd.pc = "idle"
    BY DismissalAssumption DEF Local, Types, IdleAdd
  <1>c. IsFiniteSet(Checked) /\ Cardinality(Checked) \in Nat
    BY DismissalAssumption, FS_Subset, FS_CardinalityType DEF Checked
  <1>1. CASE UNCHANGED <<added, add>>
    BY <1>t, <1>1 DEF RoomInv, Checked
  <1>2. CASE UNCHANGED <<added, rows>> /\ \A a \in Adder : add'[a] \in {add[a], IdleAdd}
    <2>1. Checked' \subseteq Checked
      BY <1>t, <1>2 DEF Checked
    <2>2. Cardinality(Checked') <= Cardinality(Checked) /\ Cardinality(Checked') \in Nat
      BY <1>c, <2>1, FS_Subset, FS_CardinalityType
    <2> QED BY <1>t, <1>c, <1>2, <2>2 DEF RoomInv
  <1>3. ASSUME NEW a \in Adder, NEW t \in Table, NEW panel \in BOOLEAN, AddChecks(a, t, panel)
        PROVE  RoomInv' /\ added <= added'
    <2>1. Checked' = Checked \cup {a} /\ a \notin Checked
      BY <1>t, <1>3 DEF AddChecks, Checked
    <2>2. Cardinality(Checked') = Cardinality(Checked) + 1
      BY <1>c, <2>1, FS_AddElement
    <2>3. added + Cardinality(Checked) < MaxAdds /\ added' = added
      BY <1>3 DEF AddChecks, RoomForRow, Checked, store
    <2> QED BY <1>t, <1>c, <2>2, <2>3 DEF RoomInv
  <1>4. ASSUME NEW a \in Adder, AddInserts(a)
        PROVE  RoomInv' /\ added <= added'
    <2>1. /\ add[a].pc = "checked" /\ add'[a].pc = "inserted"
          /\ \A b \in Adder \ {a} : add'[b] = add[b]
      BY <1>t, <1>4 DEF AddInserts, AddType
    <2>2. Checked' = Checked \ {a} /\ a \in Checked
      BY <2>1 DEF Checked
    <2>3. Cardinality(Checked') = Cardinality(Checked) - 1
      BY <1>c, <2>2, FS_RemoveElement
    <2>4. added' = added + 1
      BY <1>4 DEF AddInserts
    <2> QED BY <1>t, <1>c, <2>3, <2>4 DEF RoomInv
  <1>5. ASSUME NEW a \in Adder, AddCommits(a)
        PROVE  RoomInv' /\ added <= added'
    <2>1. Checked' = Checked
      BY <1>t, <1>5 DEF AddCommits, Checked
    <2> QED BY <1>t, <1>5, <2>1 DEF AddCommits, RoomInv
  <1> QED BY <1>1, <1>2, <1>3, <1>4, <1>5, RowSteps

\* Ids are not above the last one.
LEMMA IdsStep ==
    ASSUME Local, IdInv, [Next]_vars
    PROVE  IdsInv' /\ FreshInv'
  <1>t. /\ added \in Nat /\ added' \in Nat /\ added <= added'
        /\ rows \in Ids /\ rows' \in Ids
        /\ add \in [Adder -> AddType] /\ add' \in [Adder -> AddType]
        /\ del \in [Deletion -> DelType]
    BY DismissalAssumption, LocalStep, RoomStep DEF Local, Types, IdInv
  <1>1. ASSUME NEW d \in Deletion
        PROVE  /\ del'[d].pc = "idle" => del'[d] = IdleDel
               /\ \A t \in Table : \A n \in del'[d].got[t] : n <= added'
    <2>1. CASE del'[d] = IdleDel
      BY <2>1 DEF IdleDel
    <2>2. CASE /\ del'[d].pc # "idle"
               /\ \A t \in Table : del'[d].got[t] = del[d].got[t] \/ del'[d].got[t] = rows[t]
                                     \/ del'[d].got[t] = {}
      <3> SUFFICES ASSUME NEW t \in Table, NEW n \in del'[d].got[t]
                   PROVE  n <= added'
        BY <2>2
      <3>1. n \in del[d].got[t] \/ n \in rows[t]
        BY <2>2
      <3>2. n \in Nat
        BY <1>t, <3>1 DEF DelType, Ids
      <3>3. n <= added
        BY <3>1 DEF IdInv, IdsInv
      <3> QED BY <1>t, <3>2, <3>3
    <2> QED BY <2>1, <2>2, DeletionSteps DEF IdInv
  <1>2. ASSUME NEW t \in Table, NEW n \in rows'[t]
        PROVE  n <= added'
    <2>1. n \in rows[t] \/ \E a \in Adder : AddCommits(a) /\ n = add[a].id
      <3>1. ASSUME NEW a \in Adder, AddCommits(a), n \notin rows[t]
            PROVE  n = add[a].id
        BY <1>t, <1>2, <3>1 DEF AddCommits, Ids
      <3>2. ASSUME NEW a \in Adder, NEW u \in Table, NEW panel \in BOOLEAN,
                   AddChecks(a, u, panel) \/ AddInserts(a)
            PROVE  n \in rows[t]
        BY <1>2, <3>2 DEF AddChecks, AddInserts, store
      <3>3. ASSUME NEW a \in Adder, AddInserts(a)
            PROVE  n \in rows[t]
        BY <1>2, <3>3 DEF AddInserts
      <3> QED BY <1>2, <3>1, <3>2, <3>3, RowSteps
    <2>2. n \in Nat /\ n <= added
      BY <1>t, <2>1 DEF IdInv, IdsInv, Ids, AddType
    <2> QED BY <1>t, <2>2
  <1>3. ASSUME NEW a \in Adder
        PROVE  add'[a].id <= added'
    <2>1. add'[a] = add[a] \/ add'[a].id = 0 \/ add'[a].id = added'
      <3>1. ASSUME NEW b \in Adder, AddInserts(b)
            PROVE  add'[a] = add[a] \/ add'[a].id = added'
        BY <1>t, <3>1 DEF AddInserts, AddType
      <3>2. ASSUME NEW b \in Adder, NEW t \in Table, NEW panel \in BOOLEAN, AddChecks(b, t, panel)
            PROVE  add'[a] = add[a] \/ add'[a].id = 0
        BY <1>t, <3>2 DEF AddChecks
      <3>3. ASSUME NEW b \in Adder, AddCommits(b)
            PROVE  add'[a] = add[a] \/ add'[a].id = 0
        BY <1>t, <3>3 DEF AddCommits, IdleAdd
      <3>4. IdleAdd.id = 0
        BY DEF IdleAdd
      <3> QED BY <3>1, <3>2, <3>3, <3>4, RowSteps
    <2>2. add[a].id \in Nat /\ add[a].id <= added
      BY <1>t DEF IdInv, IdsInv, AddType
    <2> QED BY <1>t, <2>1, <2>2
  <1> QED BY <1>1, <1>2, <1>3 DEF IdsInv, FreshInv

\* Every variable keeps its type: the ids that there are suffice, and a deletion that is
\* over has left nothing for the next one.
THEOREM DismissalTyped == Spec => []TypeOK
  <1> DEFINE Inv == Local /\ IdInv
  <1>1. Init => Inv
    <2> SUFFICES ASSUME Init PROVE Inv
      OBVIOUS
    <2>1. Local
      BY InitHolds DEF IInv
    <2>2. Checked = {} /\ Cardinality(Checked) = 0
      BY FS_EmptySet DEF Init, Checked, IdleAdd
    <2>3. RoomInv
      BY <2>2, DismissalAssumption DEF Init, RoomInv
    <2>4. IdsInv /\ FreshInv
      BY DEF Init, IdsInv, FreshInv, IdleDel, IdleAdd
    <2> QED BY <2>1, <2>3, <2>4 DEF IdInv
  <1>2. Inv /\ [Next]_vars => Inv'
    BY DismissalAssumption, LocalStep, RoomStep, IdsStep DEF IdInv
  <1>3. Inv => TypeOK
    <2> SUFFICES ASSUME Inv PROVE TypeOK
      OBVIOUS
    <2>1. /\ added \in Nat /\ MaxAdds \in Nat /\ rows \in Ids
          /\ del \in [Deletion -> DelType] /\ add \in [Adder -> AddType]
      BY DismissalAssumption DEF Local, Types
    <2>2. added <= MaxAdds
      <3>1. Cardinality(Checked) \in Nat
        BY DismissalAssumption, FS_Subset, FS_CardinalityType DEF Checked
      <3> QED BY <2>1, <3>1 DEF IdInv, RoomInv
    <2>3. \A n \in Nat : n <= added => n \in Id
      BY <2>1, <2>2 DEF Id
    <2>4. rows \in [Table -> SUBSET Id]
      BY <2>1, <2>3 DEF Ids, IdInv, IdsInv
    <2>5. ASSUME NEW d \in Deletion PROVE del[d] \in Del
      <3>1. del[d] \in DelType /\ del[d].got \in Ids
        BY <2>1 DEF DelType
      <3>2. del[d].got \in [Table -> SUBSET Id]
        BY <2>3, <3>1 DEF Ids, IdInv, IdsInv
      <3> QED BY <3>1, <3>2 DEF DelType, Del
    <2>6. ASSUME NEW a \in Adder PROVE add[a] \in Add
      <3>1. add[a] \in AddType /\ add[a].id \in Nat
        BY <2>1 DEF AddType
      <3>2. add[a].id \in Id
        BY <2>3, <3>1 DEF IdInv, IdsInv
      <3> QED BY <3>1, <3>2 DEF AddType, Add
    <2> QED BY <2>1, <2>2, <2>3, <2>4, <2>5, <2>6
            DEF Local, Types, TypeOK, IdInv, FreshInv
  <1> HIDE DEF Inv
  <1> QED BY <1>1, <1>2, <1>3, PTL DEF Spec
----------------------------------------------------------------------------
(***************************************************************************)
(* Waits. Deletions wait for each other's rows, for the DELETE of the      *)
(* profile and for inserts, inserts for the DELETE of the profile. What    *)
(* decides who can wait for whom is the row that the employee always had:  *)
(* as long as the profile is there so is that row, every DELETE finds it,  *)
(* and only one deletion at a time can have it.                            *)
(***************************************************************************)
Active(x) == x.pc \in {"taking", "profile", "commit"}

\* The first row of each table goes with the profile.
BaseInv == profile => \A t \in Table : 0 \in rows[t]

\* A deletion d with record x, while the profile is there or not (p): every DELETE that has
\* begun found the first row, or it and all later ones found nothing.
HeldBy(d, x, p) ==
    Active(x) =>
        \A j, k \in 1..3 : j <= k /\ k <= x.i /\ (p \/ x.got[Order(d)[k]] # {}) =>
            0 \in x.got[Order(d)[j]]

HeldInv == \A d \in Deletion : HeldBy(d, del[d], profile)

\* No row is deleted by two transactions.
RowsAreExclusive ==
    \A d, e \in Deletion : d # e =>
        \A t \in Taken(d) \cap Taken(e) : del[d].got[t] \cap del[e].got[t] = {}

WaitInv == BaseInv /\ HeldInv /\ RowsAreExclusive

\* No table comes twice in an order; the two orders differ in the first two tables.
LEMMA OrdersDiffer ==
    ASSUME NEW d, NEW e
    PROVE  /\ \A j, k \in 1..3 : Order(d)[j] = Order(d)[k] => j = k
           /\ Order(d)[3] = Order(e)[3]
           /\ \/ Order(d) = Order(e)
              \/ Order(d)[1] = Order(e)[2] /\ Order(d)[2] = Order(e)[1]
  <1>1. ApiOrder[1] = "schedule" /\ ApiOrder[2] = "adjustment" /\ ApiOrder[3] = "time_entry"
    BY DEF ApiOrder
  <1>2. PanelOrder[1] = "adjustment" /\ PanelOrder[2] = "schedule" /\ PanelOrder[3] = "time_entry"
    BY DEF PanelOrder
  <1>3. \A x : Order(x) = ApiOrder \/ Order(x) = PanelOrder
    BY DEF Order
  <1>4. \A j \in 1..3 : j = 1 \/ j = 2 \/ j = 3
    OBVIOUS
  <1>5. \A j, k \in 1..3 : ApiOrder[j] = ApiOrder[k] => j = k
    BY <1>1, <1>4
  <1>6. \A j, k \in 1..3 : PanelOrder[j] = PanelOrder[k] => j = k
    BY <1>2, <1>4
  <1>7. \A j, k \in 1..3 : Order(d)[j] = Order(d)[k] => j = k
    BY <1>3, <1>5, <1>6
  <1> QED BY <1>1, <1>2, <1>3, <1>7

\* What the DELETE of a table makes of its deletion, and of nothing else.
LEMMA TakesRows ==
    ASSUME Local, NEW d \in Deletion, DelTakesRows(d)
    PROVE  /\ del[d].pc = "taking" /\ del[d].i \in 1..3 /\ WaitsFor(d) = {}
           /\ \A e \in Deletion : e # d => del'[e] = del[e]
           /\ rows' = rows /\ profile' = profile
           /\ del'[d].i = del[d].i + 1
           /\ \A k \in 1..3 : k # del'[d].i => del'[d].got[Order(d)[k]] = del[d].got[Order(d)[k]]
           /\ \A k \in 1..3 : k = del'[d].i => del'[d].got[Order(d)[k]] = rows[Order(d)[k]]
  <1>t. del \in [Deletion -> DelType]
    BY DEF Local, Types
  <1>1. /\ del[d].pc = "taking" /\ del[d].i \in 1..3 /\ WaitsFor(d) = {} /\ Len(Order(d)) = 3
        /\ rows' = rows /\ profile' = profile
    BY OrderFacts DEF DelTakesRows, Local, PlaceInv, Placed, store
  <1>2. \A e \in Deletion : e # d => del'[e] = del[e]
    BY <1>t DEF DelTakesRows
  <1>3. CASE del[d].i < 3
    <2>1. del'[d] = Finds(d, del[d].i + 1) /\ del[d].i + 1 \in 1..3
      BY <1>t, <1>1, <1>3 DEF DelTakesRows
    <2> DEFINE n == del[d].i + 1
    <2>2. /\ del'[d].i = n /\ del'[d].got[Order(d)[n]] = rows[Order(d)[n]]
          /\ \A t \in Table : t # Order(d)[n] => del'[d].got[t] = del[d].got[t]
      BY <2>1, FindsFacts DEF Local
    <2>3. \A k \in 1..3 : k # n => Order(d)[k] # Order(d)[n] /\ Order(d)[k] \in Table
      BY <2>1, OrdersDiffer, OrderFacts
    <2>4. \A k \in 1..3 : k # n => del'[d].got[Order(d)[k]] = del[d].got[Order(d)[k]]
      BY <2>2, <2>3
    <2> QED BY <1>1, <1>2, <2>2, <2>4
  <1>4. CASE ~(del[d].i < 3)
    <2>1. del[d].i + 1 = 4 /\ del[d] \in DelType
      BY <1>t, <1>1, <1>4
    <2>2. del'[d] = [del[d] EXCEPT !.i = 4, !.pc = "profile"]
      BY <1>t, <1>1, <1>4, <2>1 DEF DelTakesRows
    <2>3. del'[d].i = 4 /\ del'[d].got = del[d].got
      BY <2>1, <2>2, LastTable
    <2> QED BY <1>1, <1>2, <2>1, <2>3
  <1> QED BY <1>1, <1>3, <1>4

\* What a step makes of one deletion, as far as its rows are concerned.
LEMMA DeletionMoves ==
    ASSUME Local, [Next]_vars, NEW d \in Deletion
    PROVE  \/ ~Active(del'[d])
           \/ Active(del[d]) /\ del'[d].i = del[d].i /\ del'[d].got = del[d].got
           \/ del'[d].i = 1 /\ del'[d].got[Order(d)[1]] = rows[Order(d)[1]]
           \/ DelTakesRows(d)
  <1> DEFINE Goal == \/ ~Active(del'[d])
                     \/ Active(del[d]) /\ del'[d].i = del[d].i /\ del'[d].got = del[d].got
                     \/ del'[d].i = 1 /\ del'[d].got[Order(d)[1]] = rows[Order(d)[1]]
                     \/ DelTakesRows(d)
  <1>t. del \in [Deletion -> DelType]
    BY DEF Local, Types
  <1>i. ~Active(IdleDel)
    BY DEF IdleDel, Active
  <1>f. /\ Finds(d, 1).i = 1 /\ Finds(d, 1).got[Order(d)[1]] = rows[Order(d)[1]]
        /\ Finds(d, 1) \in DelType
    BY FindsFacts DEF Local
  <1>0. ASSUME del'[d] = del[d] PROVE Goal
    BY <1>0
  <1>1. ASSUME NEW e \in Deletion, DelLoads(e) PROVE Goal
    <2>1. CASE e = d
      <3>1. del'[d].pc \in {"revoke", "avatar"}
        BY <1>1, <1>t, <2>1 DEF DelLoads, IdleDel
      <3> QED BY <3>1 DEF Active
    <2>2. CASE e # d
      BY <1>0, <1>1, <1>t, <2>2 DEF DelLoads
    <2> QED BY <2>1, <2>2
  <1>2. ASSUME NEW e \in Deletion, del' = [del EXCEPT ![e] = IdleDel] PROVE Goal
    BY <1>0, <1>2, <1>i, <1>t
  <1>3. ASSUME NEW e \in Deletion, NEW whole \in BOOLEAN, PanelCollects(e, whole) PROVE Goal
    <2>1. CASE e = d
      <3> DEFINE y == Finds(d, 1)
      <3>1. /\ y \in DelType /\ y.i = 1 /\ y.got[Order(d)[1]] = rows[Order(d)[1]]
            /\ del' = [del EXCEPT ![e] = [y EXCEPT !.whole = whole]]
        BY <1>f, <1>3, <2>1 DEF PanelCollects
      <3> HIDE DEF y
      <3>2. del'[d].i = y.i /\ del'[d].got = y.got
        BY <1>t, <2>1, <3>1 DEF DelType
      <3> QED BY <3>1, <3>2
    <2>2. CASE e # d
      BY <1>0, <1>3, <1>t, <2>2 DEF PanelCollects
    <2> QED BY <2>1, <2>2
  <1>4. ASSUME NEW e \in Deletion, DelAvatar(e) PROVE Goal
    <2>1. CASE e = d
      <3>1. del'[d].pc = "revoke"
        BY <1>4, <1>t, <2>1 DEF DelAvatar, DelType
      <3> QED BY <3>1 DEF Active
    <2>2. CASE e # d
      BY <1>0, <1>4, <1>t, <2>2 DEF DelAvatar
    <2> QED BY <2>1, <2>2
  <1>5. ASSUME NEW e \in Deletion, DelRevokes(e) PROVE Goal
    <2>1. CASE e = d
      BY <1>5, <1>f, <1>t, <2>1 DEF DelRevokes
    <2>2. CASE e # d
      BY <1>0, <1>5, <1>t, <2>2 DEF DelRevokes
    <2> QED BY <2>1, <2>2
  <1>6. ASSUME NEW e \in Deletion, DelTakesRows(e) PROVE Goal
    BY <1>0, <1>6, TakesRows
  <1>7. ASSUME NEW e \in Deletion, DelTakesProfile(e) PROVE Goal
    <2>1. CASE e = d
      <3>1. del[d].pc = "profile" /\ del'[d].i = del[d].i /\ del'[d].got = del[d].got
        BY <1>7, <1>t, <2>1 DEF DelTakesProfile, DelType
      <3> QED BY <3>1 DEF Active
    <2>2. CASE e # d
      BY <1>0, <1>7, <1>t, <2>2 DEF DelTakesProfile
    <2> QED BY <2>1, <2>2
  <1>8. ASSUME NEW a \in Adder, AddCommits(a) PROVE Goal
    <2>1. del'[d].pc = del[d].pc /\ del'[d].i = del[d].i /\ del'[d].got = del[d].got
      BY <1>8, <1>t DEF AddCommits, DelType
    <2> QED BY <2>1 DEF Active
  <1>9. ASSUME NEW a \in Adder,
               \/ AddInserts(a) \/ AddFails(a)
               \/ \E t \in Table, panel \in BOOLEAN : AddChecks(a, t, panel)
        PROVE  Goal
    BY <1>0, <1>9 DEF AddInserts, AddFails, AddChecks
  <1>10. ASSUME Crash PROVE Goal
    BY <1>0, <1>10, <1>i DEF Crash
  <1>11. ASSUME UNCHANGED vars PROVE Goal
    BY <1>0, <1>11 DEF vars
  <1>12. ASSUME NEW e \in Deletion,
                \/ DelFails(e) \/ DelCommits(e) \/ DelStoreFails(e)
                \/ \E g \in Deletion : BreakDeadlock(e, g)
         PROVE  Goal
    <2>1. del' = [del EXCEPT ![e] = IdleDel]
      BY <1>12 DEF DelFails, DelCommits, DelStoreFails, BreakDeadlock
    <2> QED BY <1>2, <2>1
  <1>13. ApiDel \subseteq Deletion /\ PanelDel \subseteq Deletion
    BY DEF Deletion
  <1> HIDE DEF Goal
  <1>14. Goal
    BY <1>1, <1>3, <1>4, <1>5, <1>6, <1>7, <1>8, <1>9, <1>10, <1>11, <1>12, <1>13
       DEF Next, DelStep, AddStep
  <1> QED BY <1>14 DEF Goal

\* Rows go with the profile, and a profile that is gone does not come back.
LEMMA BaseStep ==
    ASSUME Local, BaseInv, [Next]_vars
    PROVE  BaseInv' /\ (profile' => profile)
  <1>t. rows \in Ids /\ add \in [Adder -> AddType]
    BY DEF Local, Types
  <1>1. ASSUME NEW d \in Deletion, DelCommits(d) PROVE ~profile'
    BY <1>1 DEF DelCommits
  <1>2. ASSUME NEW a \in Adder, AddCommits(a)
        PROVE  profile' = profile /\ \A t \in Table : rows[t] \subseteq rows'[t]
    BY <1>2, <1>t DEF AddCommits, Ids
  <1>3. \/ profile' = profile /\ rows' = rows
        \/ \E d \in Deletion : DelCommits(d)
        \/ \E a \in Adder : AddCommits(a)
    BY DEF Next, DelStep, AddStep, DelLoads, DelStoreFails, PanelCollects, DelAvatar, DelRevokes,
           DelTakesRows, DelTakesProfile, DelFails, BreakDeadlock, AddChecks, AddInserts,
           AddFails, Crash, store, vars
  <1> QED BY <1>1, <1>2, <1>3 DEF BaseInv

\* A DELETE that begins finds the first row of its table, or nothing any more.
LEMMA HeldStep ==
    ASSUME Local, ReferInv, BaseInv, HeldInv, [Next]_vars
    PROVE  HeldInv'
  <1> SUFFICES ASSUME NEW d \in Deletion PROVE HeldBy(d, del'[d], profile')
    BY DEF HeldInv
  <1>p. profile' => profile
    BY BaseStep
  <1>h. HeldBy(d, del[d], profile)
    BY DEF HeldInv
  <1>r. \A t \in Table : profile \/ rows[t] # {} => profile /\ 0 \in rows[t]
    BY DEF BaseInv, ReferInv
  <1>o. \A k \in 1..3 : Order(d)[k] \in Table
    BY OrderFacts
  <1>1. CASE ~Active(del'[d])
    BY <1>1 DEF HeldBy
  <1>2. CASE Active(del[d]) /\ del'[d].i = del[d].i /\ del'[d].got = del[d].got
    BY <1>2, <1>h, <1>p DEF HeldBy
  <1>3. CASE del'[d].i = 1 /\ del'[d].got[Order(d)[1]] = rows[Order(d)[1]]
    <2>1. SUFFICES ASSUME NEW j \in 1..3, NEW k \in 1..3, j <= k, k <= del'[d].i,
                          profile' \/ del'[d].got[Order(d)[k]] # {}
          PROVE  0 \in del'[d].got[Order(d)[j]]
      BY DEF HeldBy
    <2>2. j = 1 /\ k = 1
      BY <1>3, <2>1
    <2>3. profile \/ rows[Order(d)[1]] # {}
      BY <1>3, <1>p, <2>1, <2>2
    <2> QED BY <1>3, <1>r, <1>o, <2>2, <2>3
  <1>4. CASE DelTakesRows(d)
    <2>1. SUFFICES ASSUME NEW j \in 1..3, NEW k \in 1..3, j <= k, k <= del'[d].i,
                          profile' \/ del'[d].got[Order(d)[k]] # {}
          PROVE  0 \in del'[d].got[Order(d)[j]]
      BY DEF HeldBy
    <2>t. Active(del[d]) /\ del[d].i \in 1..3 /\ del'[d].i = del[d].i + 1
      BY <1>4, TakesRows DEF Active
    <2>2. CASE k <= del[d].i
      <3>1. k # del'[d].i /\ j # del'[d].i
        BY <2>t, <2>1, <2>2
      <3>2. /\ del'[d].got[Order(d)[k]] = del[d].got[Order(d)[k]]
            /\ del'[d].got[Order(d)[j]] = del[d].got[Order(d)[j]]
        BY <1>4, <3>1, TakesRows
      <3>3. profile \/ del[d].got[Order(d)[k]] # {}
        BY <1>p, <2>1, <3>2
      <3>4. 0 \in del[d].got[Order(d)[j]]
        BY <1>h, <2>t, <2>1, <2>2, <3>3 DEF HeldBy
      <3> QED BY <3>2, <3>4
    <2>3. CASE ~(k <= del[d].i)
      <3>1. k = del'[d].i
        BY <2>t, <2>1, <2>3
      <3>2. del'[d].got[Order(d)[k]] = rows[Order(d)[k]]
        BY <1>4, <3>1, TakesRows
      <3>3. profile /\ 0 \in rows[Order(d)[k]]
        BY <1>p, <1>r, <1>o, <2>1, <3>2
      <3>4. CASE j = k
        BY <3>2, <3>3, <3>4
      <3>5. CASE j # k
        <4>1. j <= del[d].i /\ j # del'[d].i
          BY <2>t, <2>1, <3>1, <3>5
        <4>2. 0 \in del[d].got[Order(d)[j]]
          BY <1>h, <2>t, <3>3, <4>1 DEF HeldBy
        <4> QED BY <1>4, <4>1, <4>2, TakesRows
      <3> QED BY <3>4, <3>5
    <2> QED BY <2>2, <2>3
  <1> QED BY <1>1, <1>2, <1>3, <1>4, DeletionMoves

\* Who has a row of a table after a step had it before, or has just had nobody to wait for.
LEMMA TakenMoves ==
    ASSUME Local, [Next]_vars, NEW d \in Deletion, NEW t \in Taken(d)'
    PROVE  /\ del'[d].got[t] = del[d].got[t]
           /\ t \in Taken(d) \/ (DelTakesRows(d) /\ t = Order(d)[del[d].i])
  <1>1. del'[d].pc # "idle" /\ \E k \in 1..(del'[d].i - 1) : t = Order(d)[k]
    BY DEF Taken
  <1>2. PICK k \in 1..(del'[d].i - 1) : t = Order(d)[k]
    BY <1>1
  <1>3. del' \in [Deletion -> DelType] /\ Local'
    BY LocalStep, DismissalAssumption DEF Local, Types
  <1>4. del'[d].i \in 1..4 /\ k \in 1..3 /\ k < del'[d].i
    BY <1>2, <1>3 DEF DelType
  <1>5. CASE Active(del[d]) /\ del'[d].i = del[d].i /\ del'[d].got = del[d].got
    BY <1>2, <1>5 DEF Active, Taken
  <1>6. CASE del'[d].i = 1
    BY <1>4, <1>6
  <1>7. CASE DelTakesRows(d)
    <2>1. del[d].pc = "taking" /\ del[d].i \in 1..3 /\ del'[d].i = del[d].i + 1
      BY <1>7, TakesRows
    <2>2. del'[d].got[Order(d)[k]] = del[d].got[Order(d)[k]]
      BY <1>4, <1>7, TakesRows
    <2>3. k = del[d].i \/ k \in 1..(del[d].i - 1)
      BY <1>4, <2>1
    <2> QED BY <1>2, <1>7, <2>1, <2>2, <2>3 DEF Taken
  <1>8. CASE ~Active(del'[d])
    <2>1. del'[d].pc \in {"avatar", "revoke"}
      BY <1>1, <1>3, <1>8 DEF Active, DelType
    <2>2. del'[d].i = 1
      BY <1>3, <2>1 DEF Local, PlaceInv, Placed
    <2> QED BY <2>2, <1>4
  <1> QED BY <1>5, <1>6, <1>7, <1>8, DeletionMoves

\* A deletion takes the rows of a table when nobody has any of those it found.
LEMMA ExclusiveStep ==
    ASSUME Local, RowsAreExclusive, [Next]_vars
    PROVE  RowsAreExclusive'
  <1> SUFFICES ASSUME NEW d \in Deletion, NEW e \in Deletion, d # e,
                      NEW t, t \in Taken(d)', t \in Taken(e)'
               PROVE  del'[d].got[t] \cap del'[e].got[t] = {}
    BY DEF RowsAreExclusive
  <1>1. /\ del'[d].got[t] = del[d].got[t] /\ del'[e].got[t] = del[e].got[t]
        /\ t \in Taken(d) \/ (DelTakesRows(d) /\ t = Order(d)[del[d].i])
        /\ t \in Taken(e) \/ (DelTakesRows(e) /\ t = Order(e)[del[e].i])
    BY TakenMoves
  <1>2. CASE t \in Taken(d) /\ t \in Taken(e)
    BY <1>1, <1>2 DEF RowsAreExclusive
  <1>3. ASSUME NEW x \in Deletion, NEW y \in Deletion, x # y,
               DelTakesRows(x), t = Order(x)[del[x].i], t \in Taken(y)
        PROVE  del[x].got[t] \cap del[y].got[t] = {}
    <2>1. del[x].pc = "taking" /\ WaitsFor(x) = {}
      BY <1>3, TakesRows
    <2> QED BY <1>3, <2>1 DEF WaitsFor
  \* Only one deletion moves: the other one has what it had.
  <1>4. ASSUME NEW x \in Deletion, NEW y \in Deletion, x # y, DelTakesRows(x), t \in Taken(y)'
        PROVE  t \in Taken(y)
    BY <1>4, TakesRows DEF Taken
  <1> QED BY <1>1, <1>2, <1>3, <1>4

\* These hold in every behaviour.
LEMMA WaitsHold == Spec => [](IInv /\ WaitInv)
  <1>1. Init => WaitInv
    <2> SUFFICES ASSUME Init PROVE WaitInv
      OBVIOUS
    <2>1. \A d \in Deletion : del[d].pc = "idle"
      BY DEF Init, IdleDel
    <2>2. BaseInv
      BY DEF Init, BaseInv
    <2> QED BY <2>1, <2>2 DEF WaitInv, HeldInv, HeldBy, Active, RowsAreExclusive, Taken
  <1>2. IInv /\ WaitInv /\ [Next]_vars => WaitInv'
    BY BaseStep, HeldStep, ExclusiveStep DEF IInv, WaitInv
  <1> QED BY <1>1, <1>2, Inductive, PTL DEF Spec

\* The guards of a request's own steps: the requests that wait for nobody.
DelGoesOn(d) ==
    \/ del[d].pc \in {"avatar", "revoke", "commit"}
    \/ del[d].pc \in {"taking", "profile"} /\ WaitsFor(d) = {}
         /\ (del[d].pc = "profile" => ProfileSharers = {})

AddGoesOn(a) ==
    \/ add[a].pc = "inserted"
    \/ add[a].pc = "checked" /\ (profile => ProfileTakers = {})

\* Three waits in a row come back to where they were two waits before, or end at a deletion
\* that commits: the cycles of BreakDeadlock are all there are.
WaitsAreShort ==
    \A d \in Deletion : \A e \in WaitsFor(d) : \A f \in WaitsFor(e) : \A g \in WaitsFor(f) :
        g = e \/ DelGoesOn(g)

\* As long as a request is under way one of them goes on, or two deletions wait for each
\* other, as in BreakDeadlock.
WaitsEnd ==
    \/ \E d \in Deletion : del[d].pc # "idle"
    \/ \E a \in Adder : add[a].pc # "idle"
    => \/ \E d \in Deletion : DelGoesOn(d)
       \/ \E a \in Adder : AddGoesOn(a)
       \/ \E d, e \in Deletion : d \in WaitsFor(e) /\ e \in WaitsFor(d)

\* Who waits for a deletion's rows, and who is waited for.
LEMMA WaitKinds ==
    ASSUME Local, WaitInv, NEW d \in Deletion, NEW e \in WaitsFor(d)
    PROVE  /\ e \in Deletion
           /\ \/ del[d].pc = "profile" /\ del[e].pc = "commit"
              \/ /\ del[d].pc = "taking" /\ del[d].i \in 1..3 /\ e # d /\ Active(del[e])
                 /\ \E k \in 1..3 :
                      /\ k < del[e].i /\ Order(e)[k] = Order(d)[del[d].i]
                      /\ \A j \in 1..3 : j <= k => 0 \in del[e].got[Order(e)[j]]
                 /\ \A j \in 1..3 : j <= del[d].i => 0 \in del[d].got[Order(d)[j]]
  <1>t. del \in [Deletion -> DelType]
    BY DEF Local, Types
  <1>1. CASE del[d].pc = "profile"
    BY <1>1 DEF WaitsFor, ProfileTakers
  <1>2. CASE del[d].pc = "taking"
    <2> DEFINE t == Order(d)[del[d].i]
    <2>1. /\ e \in Deletion /\ e # d /\ t \in Taken(e) /\ del[e].got[t] # {} /\ del[d].got[t] # {}
      BY <1>2 DEF WaitsFor
    <2>2. del[d].i \in 1..3
      BY <1>2 DEF Local, PlaceInv, Placed
    <2>3. \A j \in 1..3 : j <= del[d].i => 0 \in del[d].got[Order(d)[j]]
      BY <1>2, <2>1, <2>2 DEF WaitInv, HeldInv, HeldBy, Active
    <2>4. del[e].pc # "idle" /\ \E k \in 1..(del[e].i - 1) : t = Order(e)[k]
      BY <2>1 DEF Taken
    <2>5. PICK k \in 1..(del[e].i - 1) : t = Order(e)[k]
      BY <2>4
    <2>6. del[e].i \in 1..4 /\ k \in 1..3 /\ k < del[e].i
      BY <1>t, <2>1, <2>5 DEF DelType
    <2>7. Active(del[e])
      <3>1. del[e].pc \notin {"avatar", "revoke"}
        BY <2>1, <2>6 DEF Local, PlaceInv, Placed
      <3> QED BY <1>t, <2>1, <2>4, <3>1 DEF DelType, Active
    <2>8. \A j \in 1..3 : j <= k => 0 \in del[e].got[Order(e)[j]]
      BY <2>1, <2>5, <2>6, <2>7 DEF WaitInv, HeldInv, HeldBy
    <2> QED BY <1>2, <2>1, <2>2, <2>3, <2>5, <2>6, <2>7, <2>8
  <1>3. CASE del[d].pc \notin {"taking", "profile"}
    BY <1>3 DEF WaitsFor
  <1> QED BY <1>1, <1>2, <1>3

\* The first row of a table has been deleted by one deletion.
LEMMA OneHolder ==
    ASSUME WaitInv, NEW d \in Deletion, NEW e \in Deletion, Active(del[d]), Active(del[e]),
           NEW j \in 1..3, NEW k \in 1..3, j < del[d].i, k < del[e].i, Local,
           Order(d)[j] = Order(e)[k], 0 \in del[d].got[Order(d)[j]], 0 \in del[e].got[Order(e)[k]]
    PROVE  d = e
  <1>1. del[d].i \in 1..4 /\ del[e].i \in 1..4
    BY DEF Local, Types, DelType
  <1>2. j \in 1..(del[d].i - 1) /\ k \in 1..(del[e].i - 1)
    BY <1>1
  <1>3. Order(d)[j] \in Taken(d) \cap Taken(e)
    BY <1>2 DEF Taken, Active
  <1> QED BY <1>3 DEF WaitInv, RowsAreExclusive

\* Two waits after a deletion that has rows: the last one waits for the first, or ends.
LEMMA WaitsComeBack ==
    ASSUME Local, WaitInv, NEW e \in Deletion, Active(del[e]), del[e].i # 1,
           NEW f \in WaitsFor(e), NEW g \in WaitsFor(f)
    PROVE  g = e \/ del[g].pc = "commit"
  <1>0. ASSUME NEW x \in Deletion, del[x].pc = "commit" PROVE WaitsFor(x) = {}
    BY <1>0 DEF WaitsFor
  <1>1. f \in Deletion
    BY WaitKinds
  <1>2. CASE del[f].pc = "profile"
    BY <1>1, <1>2, WaitKinds
  <1>3. CASE del[f].pc # "profile"
    <2>1. /\ del[f].pc = "taking" /\ del[f].i \in 1..3 /\ g \in Deletion /\ Active(del[g])
          /\ \A j \in 1..3 : j <= del[f].i => 0 \in del[f].got[Order(f)[j]]
      BY <1>1, <1>3, WaitKinds
    <2>2. PICK m \in 1..3 : /\ m < del[g].i /\ Order(g)[m] = Order(f)[del[f].i]
                            /\ \A j \in 1..3 : j <= m => 0 \in del[g].got[Order(g)[j]]
      BY <1>1, <1>3, WaitKinds
    <2>3. /\ del[e].pc = "taking" /\ del[e].i \in 2..3 /\ f # e
          /\ \A j \in 1..3 : j <= del[e].i => 0 \in del[e].got[Order(e)[j]]
      BY <2>1, WaitKinds
    <2>4. PICK k \in 1..3 : /\ k < del[f].i /\ Order(f)[k] = Order(e)[del[e].i]
                            /\ \A j \in 1..3 : j <= k => 0 \in del[f].got[Order(f)[j]]
      BY <2>1, WaitKinds
    <2>5. k \in 1..2 /\ del[f].i \in 2..3
      BY <2>1, <2>4
    <2>a. Active(del[e]) /\ Active(del[f])
      BY <2>1, <2>3 DEF Active
    \* The last table is the same in both orders: who has its rows has everything.
    <2>6. del[e].i = 2
      <3>1. SUFFICES ASSUME del[e].i = 3 PROVE FALSE
        BY <2>3
      <3>2. Order(f)[k] = Order(f)[3]
        BY <2>4, <3>1, OrdersDiffer
      <3> QED BY <2>5, <3>2, OrdersDiffer
    \* Of the same order only one can have the first table.
    <2>7. Order(e)[1] # Order(f)[1]
      <3>1. SUFFICES ASSUME Order(e)[1] = Order(f)[1] PROVE e = f
        BY <2>3
      <3>2. 0 \in del[e].got[Order(e)[1]] /\ 0 \in del[f].got[Order(f)[1]]
        BY <2>1, <2>3
      <3>3. 1 < del[e].i /\ 1 < del[f].i
        BY <2>5, <2>6
      <3> QED BY <1>1, <2>a, <3>1, <3>2, <3>3, OneHolder
    <2>8. Order(e)[1] = Order(f)[2] /\ Order(e)[2] = Order(f)[1]
      BY <2>7, OrdersDiffer
    <2>9. del[f].i = 2
      <3>1. SUFFICES ASSUME del[f].i = 3 PROVE FALSE
        BY <2>5
      <3>2. Order(g)[m] = Order(g)[3]
        BY <2>2, <3>1, OrdersDiffer
      <3>3. m = 3
        BY <3>2, OrdersDiffer
      <3>4. del[g].i = 4
        BY <2>1, <2>2, <3>3 DEF Local, Types, DelType
      <3>5. del[g].pc # "taking"
        BY <2>1, <3>4 DEF Local, PlaceInv, Placed
      <3>6. PICK n \in 1..3 : Order(g)[n] = Order(f)[1]
        BY OrderFacts
      <3>7. 0 \in del[g].got[Order(g)[n]] /\ n < del[g].i
        BY <2>2, <3>3, <3>4
      <3>8. 0 \in del[f].got[Order(f)[1]] /\ 1 < del[f].i
        BY <2>1, <3>1
      <3>9. g = f
        BY <1>1, <2>1, <2>a, <3>6, <3>7, <3>8, OneHolder
      <3> QED BY <2>1, <3>5, <3>9
    <2>10. Order(g)[m] = Order(e)[1] /\ 0 \in del[g].got[Order(g)[m]]
      BY <2>2, <2>8, <2>9
    <2>11. 0 \in del[e].got[Order(e)[1]] /\ 1 < del[e].i
      BY <2>3, <2>6
    <2>12. g = e
      BY <2>1, <2>2, <2>a, <2>10, <2>11, OneHolder
    <2> QED BY <2>12
  <1> QED BY <1>2, <1>3

\* However many deletions overlap, in the API and in the panel, only two of them can wait
\* for each other, and everyone else waits for these or for someone who goes on.
THEOREM OnlyPairsDeadlock == Spec => []WaitsAreShort
  <1>1. ASSUME Local, WaitInv, NEW d \in Deletion, NEW e \in WaitsFor(d), NEW f \in WaitsFor(e),
               NEW g \in WaitsFor(f)
        PROVE  g = e \/ DelGoesOn(g)
    <2>1. e \in Deletion /\ del[e].pc # "commit"
      BY <1>1, WaitKinds DEF WaitsFor
    <2>2. Active(del[e]) /\ del[e].i # 1
      <3>1. Active(del[e]) /\ \E k \in 1..3 : k < del[e].i
        BY <1>1, <2>1, WaitKinds
      <3> QED BY <3>1
    <2>3. g = e \/ del[g].pc = "commit"
      BY <1>1, <2>1, <2>2, WaitsComeBack
    <2> QED BY <2>3 DEF DelGoesOn
  <1>2. IInv /\ WaitInv => WaitsAreShort
    BY <1>1 DEF IInv, WaitsAreShort
  <1> QED BY <1>2, WaitsHold, PTL

\* Deletions and inserts never all wait: one of them goes on, or PostgreSQL finds two
\* deletions that wait for each other and aborts one.
THEOREM DismissalNeverStuck == Spec => []WaitsEnd
  <1>1. ASSUME Local, WaitInv,
               \A d \in Deletion : ~DelGoesOn(d), \A a \in Adder : ~AddGoesOn(a),
               \A d, e \in Deletion : ~(d \in WaitsFor(e) /\ e \in WaitsFor(d))
        PROVE  /\ \A d \in Deletion : del[d].pc = "idle"
               /\ \A a \in Adder : add[a].pc = "idle"
    <2>t. del \in [Deletion -> DelType] /\ add \in [Adder -> AddType]
      BY <1>1 DEF Local, Types
    <2>1. ProfileSharers = {} /\ ProfileTakers = {}
      BY <1>1 DEF ProfileSharers, ProfileTakers, AddGoesOn, DelGoesOn
    \* Who is under way waits for another one that is.
    <2>2. ASSUME NEW d \in Deletion, del[d].pc # "idle"
          PROVE  \E e \in WaitsFor(d) : e \in Deletion /\ del[e].pc # "idle"
      <3>1. del[d].pc \in {"taking", "profile"}
        BY <1>1, <2>2, <2>t DEF DelType, DelGoesOn
      <3>2. PICK e \in WaitsFor(d) : TRUE
        BY <1>1, <2>1, <3>1 DEF DelGoesOn
      <3>3. e \in Deletion /\ del[e].pc # "idle"
        BY <1>1, <2>2, <3>2, WaitKinds DEF Active
      <3> QED BY <3>2, <3>3
    <2>3. ASSUME NEW d \in Deletion PROVE del[d].pc = "idle"
      <3>1. SUFFICES ASSUME del[d].pc # "idle" PROVE FALSE
        OBVIOUS
      <3>2. PICK e \in WaitsFor(d) : e \in Deletion /\ del[e].pc # "idle"
        BY <2>2, <3>1
      <3>3. PICK f \in WaitsFor(e) : f \in Deletion /\ del[f].pc # "idle"
        BY <2>2, <3>2
      <3>4. PICK g \in WaitsFor(f) : g \in Deletion
        BY <2>2, <3>3
      <3>5. Active(del[e]) /\ del[e].i # 1
        <4>1. del[e].pc # "commit"
          BY <1>1, <3>2 DEF DelGoesOn
        <4>2. Active(del[e]) /\ \E k \in 1..3 : k < del[e].i
          BY <1>1, <3>2, <4>1, WaitKinds
        <4> QED BY <4>2
      <3>6. g = e \/ del[g].pc = "commit"
        BY <1>1, <3>2, <3>3, <3>4, <3>5, WaitsComeBack
      <3>7. del[g].pc # "commit"
        BY <1>1, <3>4 DEF DelGoesOn
      <3> QED BY <1>1, <3>2, <3>3, <3>4, <3>6, <3>7
    <2>4. ASSUME NEW a \in Adder PROVE add[a].pc = "idle"
      BY <1>1, <2>1, <2>t DEF AddGoesOn, AddType
    <2> QED BY <2>3, <2>4
  <1>2. Local /\ WaitInv => WaitsEnd
    BY <1>1 DEF WaitsEnd
  <1> QED BY <1>2, WaitsHold, PTL DEF IInv
============================================================================
