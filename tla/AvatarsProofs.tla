--------------------------- MODULE AvatarsProofs ---------------------------
(***************************************************************************)
(* Proofs about Avatars: its types, that a shown avatar exists, and that    *)
(* requests one after the other leave no object behind.                     *)
(***************************************************************************)
EXTENDS Avatars, TLAPS

\* What a request holds at each of its steps.
RequestInv ==
    \A r \in Req : LET q == req[r] IN
        /\ q.pc = "idle" => q.old = Null /\ q.new = Null
        /\ q.pc # "idle" => q.emp \in Employee /\ profile[q.emp].st # "none"
        /\ q.pc = "delete" => q.old \in Key /\ q.kind # "patch"
        /\ q.pc = "put" => q.kind = "upload"
        /\ q.pc \in {"delete", "put"} \/ q.kind \in {"remove", "dismiss"} => q.new = Null

\* Only rows of employees who are there have a key.
RowInv == \A e \in Employee : profile[e].st # "row" => profile[e].key = Null

\* An object nobody has given and that is put for nobody is in no row and no request.
UnusedInv ==
    \A k \in Key :
        /\ object[k].st = "free" => ~object[k].given /\ object[k].emp = Null
        /\ ~object[k].given /\ object[k].emp = Null =>
              /\ \A e \in Employee : profile[e].key # k
              /\ \A r \in Req : req[r].old # k /\ req[r].new # k

\* A key that is not reused is shown by one employee, or is what one request is
\* to write; what a request has loaded is nobody else's and is not written again.
OnePlace(k) ==
    /\ \A e, f \in Employee : profile[e].key = k /\ profile[f].key = k => e = f
    /\ \A r, s \in Req : req[r].new = k /\ req[s].new = k => r = s
    /\ \A e \in Employee, r \in Req : ~(profile[e].key = k /\ req[r].new = k)
    /\ \A r, s \in Req : ~(req[r].old = k /\ req[s].new = k)
    /\ \A r \in Req, e \in Employee :
          req[r].old = k /\ profile[e].key = k => e = req[r].emp

PlaceInv == \A k \in Key \ reused : OnePlace(k)

\* The request has deleted the avatar k of e and has not written so yet.
Deleted(r, e, k) ==
    /\ req[r].pc \in {"put", "commit"} /\ req[r].kind # "patch"
    /\ req[r].emp = e /\ req[r].old = k

\* An avatar that is shown, or is to be written, is in the bucket: or the one who
\* deleted it is about to write so, or has failed to.
ShownInv ==
    \A k \in Key \ reused :
        /\ \A r \in Req : req[r].new = k => object[k].st = "stored"
        /\ \A e \in Employee : profile[e].key = k =>
              \/ object[k].st = "stored"
              \/ e \in torn
              \/ \E r \in Req : Deleted(r, e, k)

\* Employees whose requests came one after the other.
Orderly == Employee \ (torn \cup overlapped \cup replaced)

\* The one key that a request leaves in the bucket for now.
Leaves(q) == IF q.pc = "delete" THEN q.old ELSE q.new

\* Such an employee has one request at a time, which holds what the row says, and
\* one object at most: that of the row, or the one the request leaves.
OrderInv ==
    \A e \in Orderly :
        /\ \A r, s \in Working(e) : r = s
        /\ \A r \in Working(e) : req[r].kind # "patch" /\ req[r].old = profile[e].key
        /\ \A k \in Key : object[k].st = "stored" /\ object[k].emp = e =>
              /\ Working(e) = {} => k = profile[e].key
              /\ \A r \in Working(e) : k = Leaves(req[r])

IInv == TypeOK /\ RequestInv /\ RowInv /\ UnusedInv /\ PlaceInv /\ ShownInv /\ OrderInv
-----------------------------------------------------------------------------
\* Nothing is shown, given or in flight at first.
LEMMA InitIInv == Init => IInv
BY AvatarsAssumption
   DEF Init, IInv, TypeOK, RequestInv, RowInv, UnusedInv, PlaceInv, OnePlace, ShownInv,
       OrderInv, Orderly, Working, Object, Request, Idle

\* A step that changes nothing keeps the invariant.
LEMMA StutterIInv == IInv /\ UNCHANGED vars => IInv'
BY DEF vars, IInv, TypeOK, RequestInv, RowInv, UnusedInv, PlaceInv, OnePlace, ShownInv,
       Deleted, OrderInv, Orderly, Working, Leaves

\* POST /employees/avatar stores an object that nobody knows yet.
LEMMA StandaloneIInv == IInv /\ UploadStandalone => IInv'
<1> SUFFICES ASSUME IInv, UploadStandalone PROVE IInv'
  OBVIOUS
<1> USE AvatarsAssumption
<1>1. PICK k \in Key : /\ object[k].st = "free"
                       /\ object' = [object EXCEPT ![k].st = "stored"]
  BY DEF UploadStandalone
<1>2. /\ profile' = profile /\ req' = req /\ torn' = torn /\ overlapped' = overlapped
      /\ replaced' = replaced /\ reused' = reused
  BY DEF UploadStandalone, ghosts
<1>3. object \in [Key -> Object] /\ object' \in [Key -> Object]
  BY <1>1 DEF IInv, TypeOK, Object
<1>4. /\ object'[k].st = "stored"
      /\ object'[k].given = object[k].given /\ object'[k].emp = object[k].emp
      /\ \A x \in Key : x # k => object'[x] = object[x]
  BY <1>1, <1>3 DEF Object
<1>5. ~object[k].given /\ object[k].emp = Null
  BY <1>1 DEF IInv, UnusedInv
<1>6. TypeOK'
  BY <1>2, <1>3 DEF IInv, TypeOK
<1>7. RequestInv' /\ RowInv' /\ PlaceInv'
  BY <1>2 DEF IInv, RequestInv, RowInv, PlaceInv, OnePlace
<1>8. UnusedInv'
  BY <1>1, <1>2, <1>4, <1>5 DEF IInv, UnusedInv
<1>9. ShownInv'
  BY <1>1, <1>2, <1>4 DEF IInv, ShownInv, Deleted
<1>10. OrderInv'
  <2> SUFFICES ASSUME NEW e \in Orderly'
               PROVE  /\ \A r, s \in Working(e)' : r = s
                      /\ \A r \in Working(e)' :
                            req'[r].kind # "patch" /\ req'[r].old = profile'[e].key
                      /\ \A x \in Key : object'[x].st = "stored" /\ object'[x].emp = e =>
                            /\ Working(e)' = {} => x = profile'[e].key
                            /\ \A r \in Working(e)' : x = Leaves(req'[r])
    BY DEF OrderInv, Working
  <2>1. e \in Orderly /\ Working(e)' = Working(e) /\ e # Null
    BY <1>2 DEF Orderly, Working
  <2>2. \A x \in Key : object'[x].st = "stored" /\ object'[x].emp = e =>
                          object[x].st = "stored" /\ object[x].emp = e
    BY <1>4, <1>5, <2>1
  <2> QED
    BY <1>2, <2>1, <2>2 DEF IInv, OrderInv, Leaves
<1> QED
  BY <1>6, <1>7, <1>8, <1>9, <1>10 DEF IInv

\* What it means to give a key: its object is as it was, and it is not fresh again.
LEMMA Given ==
    ASSUME TypeOK, UnusedInv, NEW k \in Key, object[k].st # "free", Give(k)
    PROVE  /\ object' \in [Key -> Object]
           /\ reused' \subseteq Key /\ reused \subseteq reused'
           /\ \A x \in Key : object'[x].st = object[x].st /\ object'[x].emp = object[x].emp
           /\ \A x \in Key : x # k => object'[x].given = object[x].given
           /\ object'[k].given
           /\ k \notin reused' =>
                /\ object[k].st = "stored"
                /\ \A e \in Employee : profile[e].key # k
                /\ \A r \in Req : req[r].old # k /\ req[r].new # k
<1>1. object \in [Key -> Object] /\ object' = [object EXCEPT ![k].given = TRUE]
  BY DEF TypeOK, Give
<1>2. object' \in [Key -> Object]
  BY <1>1 DEF Object
<1>3. /\ \A x \in Key : object'[x].st = object[x].st /\ object'[x].emp = object[x].emp
      /\ \A x \in Key : x # k => object'[x].given = object[x].given
      /\ object'[k].given
  BY <1>1 DEF Object
<1>4. /\ reused' \subseteq Key /\ reused \subseteq reused'
      /\ k \notin reused' => object[k].st = "stored" /\ ~object[k].given /\ object[k].emp = Null
  BY DEF TypeOK, Give
<1> QED
  BY <1>2, <1>3, <1>4 DEF UnusedInv

\* POST /employees writes the row, with a key that is fresh or counts as reused.
LEMMA CreateIInv ==
    ASSUME IInv, NEW e \in Employee,
           CreateWithout(e) \/ \E n \in Name : CreateWithAvatar(e, n)
    PROVE  IInv'
<1> USE AvatarsAssumption
<1>1. /\ profile[e].st = "none"
      /\ req' = req /\ torn' = torn /\ overlapped' = overlapped /\ replaced' = replaced
  BY DEF CreateWithout, CreateWithAvatar, ghosts
<1>2. PICK key \in Key \cup {Null} :
        /\ profile' = [profile EXCEPT ![e] = [st |-> "row", key |-> key]]
        /\ IF key = Null THEN object' = object /\ reused' = reused
           ELSE object[key].st # "free" /\ Give(key)
  <2>1. CASE CreateWithout(e)
    BY <2>1 DEF CreateWithout, ghosts
  <2>2. CASE \E n \in Name : CreateWithAvatar(e, n)
    <3>1. PICK n \in Name : CreateWithAvatar(e, n)
      BY <2>2
    <3>2. n.key \in Key
      BY DEF Name
    <3> QED
      BY <3>1, <3>2 DEF CreateWithAvatar, Extract
  <2> QED
    BY <2>1, <2>2
<1>3. /\ object' \in [Key -> Object] /\ reused' \subseteq Key /\ reused \subseteq reused'
      /\ \A x \in Key : object'[x].st = object[x].st /\ object'[x].emp = object[x].emp
      /\ \A x \in Key : x # key => object'[x].given = object[x].given
      /\ key # Null => object'[key].given /\ object[key].st # "free"
      /\ key # Null /\ key \notin reused' =>
            /\ object[key].st = "stored"
            /\ \A f \in Employee : profile[f].key # key
            /\ \A r \in Req : req[r].old # key /\ req[r].new # key
  <2>1. CASE key = Null
    BY <1>2, <2>1 DEF IInv, TypeOK
  <2>2. CASE key # Null
    BY <1>2, <2>2, Given DEF IInv
  <2> QED
    BY <2>1, <2>2
<1>4. /\ profile'[e].st = "row" /\ profile'[e].key = key
      /\ \A f \in Employee : f # e => profile'[f] = profile[f]
      /\ profile' \in [Employee -> [st : {"none", "row", "gone"}, key : Key \cup {Null}]]
      /\ profile[e].key = Null
  BY <1>1, <1>2 DEF IInv, TypeOK, RowInv
<1>5. TypeOK'
  BY <1>1, <1>3, <1>4 DEF IInv, TypeOK
<1>6. RequestInv' /\ RowInv'
  BY <1>1, <1>4 DEF IInv, RequestInv, RowInv
<1>7. UnusedInv'
  BY <1>1, <1>3, <1>4 DEF IInv, UnusedInv
<1>8. PlaceInv'
  BY <1>1, <1>3, <1>4 DEF IInv, PlaceInv, OnePlace
<1>9. ShownInv'
  BY <1>1, <1>3, <1>4 DEF IInv, ShownInv, Deleted
<1>10. OrderInv'
  <2> SUFFICES ASSUME NEW f \in Orderly'
               PROVE  /\ \A r, s \in Working(f)' : r = s
                      /\ \A r \in Working(f)' :
                            req'[r].kind # "patch" /\ req'[r].old = profile'[f].key
                      /\ \A x \in Key : object'[x].st = "stored" /\ object'[x].emp = f =>
                            /\ Working(f)' = {} => x = profile'[f].key
                            /\ \A r \in Working(f)' : x = Leaves(req'[r])
    BY DEF OrderInv, Working
  <2>1. f \in Orderly /\ Working(f)' = Working(f)
    BY <1>1 DEF Orderly, Working
  <2>2. CASE f # e
    BY <1>1, <1>3, <1>4, <2>1, <2>2 DEF IInv, OrderInv, Orderly, Leaves
  <2>3. CASE f = e
    <3>1. Working(f) = {}
      BY <1>1, <2>3 DEF Working, IInv, RequestInv
    <3>2. \A x \in Key : object[x].st = "stored" /\ object[x].emp = f => x = Null
      BY <1>4, <2>1, <2>3, <3>1 DEF IInv, OrderInv
    <3> QED
      BY <1>3, <2>1, <3>1, <3>2
  <2> QED
    BY <2>2, <2>3
<1> QED
  BY <1>5, <1>6, <1>7, <1>8, <1>9, <1>10 DEF IInv

\* How the four requests begin: what they are, and the statement they go on with.
Begins(r, e, kind, pc, new) ==
    /\ Load(r, e, kind, pc, new)
    /\ pc = "put" => kind = "upload"
    /\ IF kind = "patch" THEN pc = "commit" /\ replaced' = replaced \cup {e}
       ELSE /\ new = Null /\ replaced' = replaced
            /\ pc = "delete" <=> profile[e].key # Null
    /\ IF new = Null THEN object' = object /\ reused' = reused
       ELSE object[new].st # "free" /\ Give(new)
    /\ profile' = profile /\ torn' = torn

\* Loading the row: a request holds what the row says. It is alone with its
\* employee, or the employee counts as overlapped.
LEMMA LoadIInv ==
    ASSUME IInv, NEW r \in Req, NEW e \in Employee,
           NEW kind \in {"upload", "remove", "dismiss", "patch"},
           NEW pc \in {"delete", "put", "commit"}, NEW new \in Key \cup {Null},
           Begins(r, e, kind, pc, new)
    PROVE  IInv'
<1> USE AvatarsAssumption
<1>1. /\ req[r].pc = "idle" /\ profile[e].st = "row"
      /\ pc = "put" => kind = "upload"
      /\ kind = "patch" => pc = "commit" /\ replaced' = replaced \cup {e}
      /\ kind # "patch" => new = Null /\ replaced' = replaced
      /\ kind # "patch" => (pc = "delete" <=> profile[e].key # Null)
      /\ profile' = profile /\ torn' = torn
      /\ overlapped' = IF Working(e) = {} THEN overlapped ELSE overlapped \cup {e}
  BY DEF Begins, Load
<1>2. /\ object' \in [Key -> Object] /\ reused' \subseteq Key /\ reused \subseteq reused'
      /\ \A x \in Key : object'[x].st = object[x].st /\ object'[x].emp = object[x].emp
      /\ \A x \in Key : x # new => object'[x].given = object[x].given
      /\ new # Null => object'[new].given /\ object[new].st # "free"
      /\ new # Null /\ new \notin reused' =>
            /\ object[new].st = "stored"
            /\ \A f \in Employee : profile[f].key # new
            /\ \A s \in Req : req[s].old # new /\ req[s].new # new
  <2>1. CASE new = Null
    BY <2>1 DEF Begins, IInv, TypeOK
  <2>2. CASE new # Null
    BY <2>2, Given DEF Begins, IInv
  <2> QED
    BY <2>1, <2>2
<1>3. profile[e].key \in Key \cup {Null}
  BY DEF IInv, TypeOK
<1>4. /\ req' \in [Req -> Request]
      /\ req'[r].pc = pc /\ req'[r].kind = kind /\ req'[r].emp = e
      /\ req'[r].old = profile[e].key /\ req'[r].new = new
      /\ \A s \in Req : s # r => req'[s] = req[s]
  BY <1>3 DEF Begins, Load, IInv, TypeOK, Request
<1>5. TypeOK'
  <2>1. torn' \cup overlapped' \cup replaced' \subseteq Employee
    BY <1>1 DEF IInv, TypeOK
  <2> QED
    BY <1>1, <1>2, <1>4, <2>1 DEF IInv, TypeOK
<1>6. RequestInv' /\ RowInv'
  BY <1>1, <1>3, <1>4 DEF IInv, RequestInv, RowInv
<1>7. UnusedInv'
  BY <1>1, <1>2, <1>4 DEF IInv, UnusedInv
<1>8. PlaceInv'
  <2> SUFFICES ASSUME NEW k \in Key \ reused' PROVE OnePlace(k)'
    BY DEF PlaceInv, OnePlace
  <2>1. OnePlace(k)
    BY <1>2 DEF IInv, PlaceInv
  <2>2. req[r].old = Null /\ req[r].new = Null /\ k # Null
    BY <1>1 DEF IInv, RequestInv
  <2> QED
    BY <1>1, <1>2, <1>4, <2>1, <2>2 DEF OnePlace
<1>9. ShownInv'
  <2>1. ASSUME NEW k \in Key, NEW f \in Employee, NEW s \in Req, Deleted(s, f, k)
        PROVE  Deleted(s, f, k)'
    BY <1>1, <1>4, <2>1 DEF Deleted
  <2> QED
    BY <1>1, <1>2, <1>4, <2>1 DEF IInv, ShownInv
<1>10. OrderInv'
  <2> SUFFICES ASSUME NEW f \in Orderly'
               PROVE  /\ \A s, t \in Working(f)' : s = t
                      /\ \A s \in Working(f)' :
                            req'[s].kind # "patch" /\ req'[s].old = profile'[f].key
                      /\ \A x \in Key : object'[x].st = "stored" /\ object'[x].emp = f =>
                            /\ Working(f)' = {} => x = profile'[f].key
                            /\ \A s \in Working(f)' : x = Leaves(req'[s])
    BY DEF OrderInv, Working
  <2>1. f \in Orderly
    BY <1>1 DEF Orderly
  <2>2. CASE f # e
    <3>1. Working(f)' = Working(f) /\ r \notin Working(f)
      BY <1>1, <1>4, <2>2 DEF Working
    <3>2. \A s \in Working(f) : s \in Req /\ req'[s] = req[s]
      BY <1>4, <3>1 DEF Working
    <3> QED
      BY <1>1, <1>2, <2>1, <3>1, <3>2 DEF IInv, OrderInv, Leaves
  <2>3. CASE f = e
    <3>1. Working(e) = {} /\ kind # "patch"
      BY <1>1, <2>3 DEF Orderly
    <3>2. Working(e)' = {r}
      BY <1>1, <1>4, <3>1 DEF Working
    <3>3. \A x \in Key : object[x].st = "stored" /\ object[x].emp = e => x = profile[e].key
      BY <2>1, <2>3, <3>1 DEF IInv, OrderInv
    <3> QED
      BY <1>1, <1>2, <1>4, <2>3, <3>1, <3>2, <3>3 DEF Leaves
  <2> QED
    BY <2>2, <2>3
<1> QED
  BY <1>5, <1>6, <1>7, <1>8, <1>9, <1>10 DEF IInv

\* The four handlers begin as Begins says.
LEMMA HandlersIInv ==
    ASSUME IInv, NEW r \in Req, NEW e \in Employee,
           \/ UploadLoads(r, e) \/ RemoveLoads(r, e) \/ DismissLoads(r, e)
           \/ PatchLoadsNull(r, e) \/ \E n \in Name : PatchLoads(r, e, n)
    PROVE  IInv'
<1>1. CASE UploadLoads(r, e)
  <2>1. Begins(r, e, "upload", OldFirst(e, "put"), Null)
    BY <1>1 DEF UploadLoads, Begins, OldFirst
  <2> QED
    BY <2>1, LoadIInv DEF OldFirst
<1>2. CASE RemoveLoads(r, e)
  <2>1. Begins(r, e, "remove", OldFirst(e, "commit"), Null)
    BY <1>2 DEF RemoveLoads, Begins, OldFirst
  <2> QED
    BY <2>1, LoadIInv DEF OldFirst
<1>3. CASE DismissLoads(r, e)
  <2>1. Begins(r, e, "dismiss", OldFirst(e, "commit"), Null)
    BY <1>3 DEF DismissLoads, Begins, OldFirst
  <2> QED
    BY <2>1, LoadIInv DEF OldFirst
<1>4. CASE PatchLoadsNull(r, e)
  <2>1. Begins(r, e, "patch", "commit", Null)
    BY <1>4 DEF PatchLoadsNull, Begins
  <2> QED
    BY <2>1, LoadIInv
<1>5. CASE \E n \in Name : PatchLoads(r, e, n)
  <2>1. PICK n \in Name : PatchLoads(r, e, n)
    BY <1>5
  <2>2. n.key \in Key /\ n.key # Null
    BY AvatarsAssumption DEF Name
  <2>3. Begins(r, e, "patch", "commit", n.key)
    BY <2>1, <2>2 DEF PatchLoads, Begins, Extract
  <2> QED
    BY <2>2, <2>3, LoadIInv
<1> QED
  BY <1>1, <1>2, <1>3, <1>4, <1>5

\* The object that is deleted is the one the row says, of nobody else and about
\* to be overwritten.
LEMMA DeleteIInv == ASSUME IInv, NEW r \in Req, DeleteObject(r) PROVE IInv'
<1> USE AvatarsAssumption
<1> DEFINE old == req[r].old
<1>1. /\ req[r].pc = "delete" /\ old \in Key /\ req[r].kind # "patch"
      /\ req[r].emp \in Employee /\ req[r].new = Null
  BY DEF DeleteObject, IInv, RequestInv
<1>2. /\ profile' = profile /\ torn' = torn /\ overlapped' = overlapped
      /\ replaced' = replaced /\ reused' = reused
  BY DEF DeleteObject, ghosts
<1>3. /\ object' \in [Key -> Object] /\ object'[old].st = "deleted"
      /\ \A x \in Key : object'[x].given = object[x].given /\ object'[x].emp = object[x].emp
      /\ \A x \in Key : x # old => object'[x].st = object[x].st
  BY <1>1 DEF DeleteObject, IInv, TypeOK, Object
<1>4. /\ req' \in [Req -> Request]
      /\ req'[r].pc = IF req[r].kind = "upload" THEN "put" ELSE "commit"
      /\ \A s \in Req : /\ req'[s].kind = req[s].kind /\ req'[s].emp = req[s].emp
                        /\ req'[s].old = req[s].old /\ req'[s].new = req[s].new
      /\ \A s \in Req : s # r => req'[s] = req[s]
  BY DEF DeleteObject, IInv, TypeOK, Request
<1> HIDE DEF old
<1>5. TypeOK'
  BY <1>2, <1>3, <1>4 DEF IInv, TypeOK
<1>6. RequestInv' /\ RowInv'
  BY <1>1, <1>2, <1>4 DEF IInv, RequestInv, RowInv
<1>7. UnusedInv'
  BY <1>1, <1>2, <1>3, <1>4 DEF IInv, UnusedInv, old
<1>8. PlaceInv'
  BY <1>2, <1>4 DEF IInv, PlaceInv, OnePlace
<1>9. ShownInv'
  <2> SUFFICES ASSUME NEW k \in Key \ reused
               PROVE  /\ \A s \in Req : req'[s].new = k => object'[k].st = "stored"
                      /\ \A e \in Employee : profile'[e].key = k =>
                            \/ object'[k].st = "stored"
                            \/ e \in torn'
                            \/ \E s \in Req : Deleted(s, e, k)'
    BY <1>2 DEF ShownInv, Deleted
  <2>1. OnePlace(k)
    BY DEF IInv, PlaceInv
  <2>2. CASE k = old
    <3>1. \A e \in Employee : profile[e].key = k => Deleted(r, e, k)'
      BY <1>1, <1>4, <2>1, <2>2 DEF OnePlace, Deleted, old
    <3> QED
      BY <1>2, <1>4, <2>1, <2>2, <3>1 DEF OnePlace, old
  <2>3. CASE k # old
    <3>1. \A e \in Employee, s \in Req : Deleted(s, e, k) => Deleted(s, e, k)'
      BY <1>1, <1>4 DEF Deleted
    <3> QED
      BY <1>2, <1>3, <1>4, <2>3, <3>1 DEF IInv, ShownInv
  <2> QED
    BY <2>2, <2>3
<1>10. OrderInv'
  <2> SUFFICES ASSUME NEW f \in Orderly'
               PROVE  /\ \A s, t \in Working(f)' : s = t
                      /\ \A s \in Working(f)' :
                            req'[s].kind # "patch" /\ req'[s].old = profile'[f].key
                      /\ \A x \in Key : object'[x].st = "stored" /\ object'[x].emp = f =>
                            /\ Working(f)' = {} => x = profile'[f].key
                            /\ \A s \in Working(f)' : x = Leaves(req'[s])
    BY DEF OrderInv, Working
  <2>1. f \in Orderly /\ Working(f)' = Working(f)
    BY <1>1, <1>2, <1>4 DEF Orderly, Working
  <2>2. \A x \in Key : object'[x].st = "stored" /\ object'[x].emp = f =>
                          /\ object[x].st = "stored" /\ object[x].emp = f
                          /\ x # old
    BY <1>3
  <2>3. CASE r \in Working(f)
    <3>1. \A s \in Working(f) : s = r
      BY <2>1, <2>3 DEF IInv, OrderInv
    <3>2. \A x \in Key : object[x].st = "stored" /\ object[x].emp = f => x = old
      BY <1>1, <2>1, <2>3 DEF IInv, OrderInv, Leaves, old
    <3>3. req[r].kind # "patch" /\ req[r].old = profile[f].key
      BY <2>1, <2>3 DEF IInv, OrderInv
    <3>4. ~ \E x \in Key : object'[x].st = "stored" /\ object'[x].emp = f
      BY <2>2, <3>2
    <3> QED
      BY <1>2, <1>4, <2>1, <3>1, <3>3, <3>4
  <2>4. CASE r \notin Working(f)
    <3>1. \A s \in Working(f) : s \in Req /\ req'[s] = req[s]
      BY <1>4, <2>4 DEF Working
    <3> QED
      BY <1>2, <2>1, <2>2, <3>1 DEF IInv, OrderInv, Leaves
  <2> QED
    BY <2>3, <2>4
<1> QED
  BY <1>5, <1>6, <1>7, <1>8, <1>9, <1>10 DEF IInv

\* The object that is put is a fresh one, and the request is to write its key.
LEMMA PutIInv == ASSUME IInv, NEW r \in Req, PutObject(r) PROVE IInv'
<1> USE AvatarsAssumption
<1>1. PICK k \in Key :
        /\ object[k].st = "free"
        /\ object' = [object EXCEPT ![k] = [@ EXCEPT !.st = "stored", !.emp = req[r].emp]]
        /\ req' = [req EXCEPT ![r] = [@ EXCEPT !.pc = "commit", !.new = k]]
  BY DEF PutObject
<1>2. /\ req[r].pc = "put" /\ req[r].kind = "upload" /\ req[r].new = Null
      /\ req[r].emp \in Employee
      /\ profile' = profile /\ torn' = torn /\ overlapped' = overlapped
      /\ replaced' = replaced /\ reused' = reused
  BY DEF PutObject, ghosts, IInv, RequestInv
<1>3. /\ object' \in [Key -> Object]
      /\ object'[k].st = "stored" /\ object'[k].emp = req[r].emp
      /\ \A x \in Key : x # k => object'[x] = object[x]
  <2> DEFINE o == [object[k] EXCEPT !.st = "stored", !.emp = req[r].emp]
  <2>1. object[k] \in Object /\ object \in [Key -> Object]
    BY DEF IInv, TypeOK
  <2>2. o \in Object /\ o.st = "stored" /\ o.emp = req[r].emp
    BY <1>2, <2>1 DEF Object
  <2>3. object' = [object EXCEPT ![k] = o]
    BY <1>1, <2>1
  <2> HIDE DEF o
  <2> QED
    BY <2>1, <2>2, <2>3
<1>4. /\ req' \in [Req -> Request] /\ req'[r].pc = "commit" /\ req'[r].new = k
      /\ \A s \in Req : /\ req'[s].kind = req[s].kind /\ req'[s].emp = req[s].emp
                        /\ req'[s].old = req[s].old
      /\ \A s \in Req : s # r => req'[s] = req[s]
  <2> DEFINE q == [req[r] EXCEPT !.pc = "commit", !.new = k]
  <2>1. req[r] \in Request /\ req \in [Req -> Request]
    BY DEF IInv, TypeOK
  <2>2. /\ q \in Request /\ q.pc = "commit" /\ q.new = k
        /\ q.kind = req[r].kind /\ q.emp = req[r].emp /\ q.old = req[r].old
    BY <2>1 DEF Request
  <2>3. req' = [req EXCEPT ![r] = q]
    BY <1>1, <2>1
  <2> HIDE DEF q
  <2> QED
    BY <2>1, <2>2, <2>3
<1>5. /\ \A e \in Employee : profile[e].key # k
      /\ \A s \in Req : req[s].old # k /\ req[s].new # k
  BY <1>1 DEF IInv, UnusedInv
<1>6. TypeOK'
  BY <1>2, <1>3, <1>4 DEF IInv, TypeOK
<1>7. RequestInv' /\ RowInv'
  BY <1>2, <1>4 DEF IInv, RequestInv, RowInv
<1>8. UnusedInv'
  BY <1>2, <1>3, <1>4 DEF IInv, UnusedInv
<1>9. PlaceInv'
  <2> SUFFICES ASSUME NEW x \in Key \ reused PROVE OnePlace(x)'
    BY <1>2 DEF PlaceInv, OnePlace
  <2>1. OnePlace(x)
    BY DEF IInv, PlaceInv
  <2> QED
    BY <1>2, <1>4, <1>5, <2>1 DEF OnePlace
<1>10. ShownInv'
  <2>1. ASSUME NEW x \in Key, NEW e \in Employee, NEW s \in Req, Deleted(s, e, x)
        PROVE  Deleted(s, e, x)'
    BY <1>2, <1>4, <2>1 DEF Deleted
  <2> QED
    BY <1>2, <1>3, <1>4, <1>5, <2>1 DEF IInv, ShownInv
<1>11. OrderInv'
  <2> SUFFICES ASSUME NEW f \in Orderly'
               PROVE  /\ \A s, t \in Working(f)' : s = t
                      /\ \A s \in Working(f)' :
                            req'[s].kind # "patch" /\ req'[s].old = profile'[f].key
                      /\ \A x \in Key : object'[x].st = "stored" /\ object'[x].emp = f =>
                            /\ Working(f)' = {} => x = profile'[f].key
                            /\ \A s \in Working(f)' : x = Leaves(req'[s])
    BY DEF OrderInv, Working
  <2>1. f \in Orderly /\ Working(f)' = Working(f)
    BY <1>2, <1>4 DEF Orderly, Working
  <2>2. CASE r \in Working(f)
    <3>1. \A s \in Working(f) : s = r
      BY <2>1, <2>2 DEF IInv, OrderInv
    <3>2. \A x \in Key : object[x].st = "stored" /\ object[x].emp = f => x = Null
      BY <1>2, <2>1, <2>2 DEF IInv, OrderInv, Leaves
    <3>3. req[r].kind # "patch" /\ req[r].old = profile[f].key
      BY <2>1, <2>2 DEF IInv, OrderInv
    <3>4. \A x \in Key : object'[x].st = "stored" /\ object'[x].emp = f => x = k
      BY <1>3, <3>2
    <3> QED
      BY <1>2, <1>4, <2>1, <2>2, <3>1, <3>3, <3>4 DEF Leaves
  <2>3. CASE r \notin Working(f)
    <3>1. \A s \in Working(f) : s \in Req /\ req'[s] = req[s]
      BY <1>4, <2>3 DEF Working
    <3>2. req[r].emp # f
      BY <1>2, <2>3 DEF Working
    <3>3. \A x \in Key : object'[x].st = "stored" /\ object'[x].emp = f =>
                            object[x].st = "stored" /\ object[x].emp = f
      BY <1>3, <3>2
    <3> QED
      BY <1>2, <2>1, <3>1, <3>3 DEF IInv, OrderInv, Leaves
  <2> QED
    BY <2>2, <2>3
<1> QED
  BY <1>6, <1>7, <1>8, <1>9, <1>10, <1>11 DEF IInv

\* The commit: the row gets the key that the request is to write, unless that is
\* the one it has loaded.
LEMMA CommitIInv == ASSUME IInv, NEW r \in Req, Commit(r) PROVE IInv'
<1> USE AvatarsAssumption
<1> DEFINE q == req[r]
           e == q.emp
           row == IF q.kind = "dismiss" THEN [st |-> "gone", key |-> Null]
                  ELSE IF q.new # q.old THEN [profile[e] EXCEPT !.key = q.new] ELSE profile[e]
           Row == [st : {"none", "row", "gone"}, key : Key \cup {Null}]
<1>1. /\ q.pc = "commit" /\ e \in Employee /\ q.new \in Key \cup {Null}
      /\ q.kind = "dismiss" => q.new = Null
      /\ q.kind # "dismiss" /\ q.new # q.old => profile[e].st = "row"
      /\ req' = [req EXCEPT ![r] = Idle] /\ profile' = [profile EXCEPT ![e] = row]
      /\ object' = object /\ torn' = torn /\ overlapped' = overlapped
      /\ replaced' = replaced /\ reused' = reused
  BY DEF Commit, ghosts, IInv, RequestInv, TypeOK, Request
<1>2. profile \in [Employee -> Row] /\ req \in [Req -> Request] /\ profile[e] \in Row
  BY <1>1 DEF IInv, TypeOK
<1>3. /\ row \in Row
      /\ row.key = q.new \/ (q.new = q.old /\ row.key = profile[e].key)
      /\ row.st # "row" => row.key = Null
      /\ row.st = "none" => profile[e].st = "none"
  <2>1. CASE q.kind = "dismiss"
    <3>1. row = [st |-> "gone", key |-> Null] /\ q.new = Null
      BY <1>1, <2>1
    <3>2. row \in Row /\ row.key = Null /\ row.st = "gone"
      BY <3>1
    <3> HIDE DEF row, Row
    <3> QED
      BY <3>1, <3>2
  <2>2. CASE q.kind # "dismiss" /\ q.new # q.old
    <3>1. /\ row = [profile[e] EXCEPT !.key = q.new] /\ profile[e].st = "row"
      BY <1>1, <2>2
    <3>2. row \in Row /\ row.key = q.new /\ row.st = "row"
      BY <1>1, <1>2, <3>1
    <3> HIDE DEF row, Row
    <3> QED
      BY <3>2
  <2>3. CASE q.kind # "dismiss" /\ q.new = q.old
    <3>1. row = profile[e]
      BY <2>3
    <3> HIDE DEF row
    <3> QED
      BY <1>1, <1>2, <2>3, <3>1 DEF IInv, RowInv
  <2> QED
    BY <2>1, <2>2, <2>3
<1>4. /\ req' \in [Req -> Request] /\ req'[r] = Idle
      /\ \A s \in Req : s # r => req'[s] = req[s]
  BY <1>1, <1>2 DEF Idle, Request
<1> HIDE DEF row
<1>5. /\ profile' \in [Employee -> Row] /\ profile'[e] = row
      /\ \A f \in Employee : f # e => profile'[f] = profile[f]
  BY <1>1, <1>2, <1>3
<1>6. TypeOK'
  BY <1>1, <1>4, <1>5 DEF IInv, TypeOK
<1>7. RequestInv' /\ RowInv'
  BY <1>1, <1>3, <1>4, <1>5 DEF IInv, RequestInv, RowInv, Idle
<1>8. UnusedInv'
  BY <1>1, <1>3, <1>4, <1>5 DEF IInv, UnusedInv, Idle
<1>9. PlaceInv'
  <2> SUFFICES ASSUME NEW k \in Key \ reused PROVE OnePlace(k)'
    BY <1>1 DEF PlaceInv, OnePlace
  <2>1. OnePlace(k)
    BY DEF IInv, PlaceInv
  <2>2. req'[r].old # k /\ req'[r].new # k
    BY <1>4 DEF Idle
  <2> QED
    BY <1>1, <1>3, <1>4, <1>5, <2>1, <2>2 DEF OnePlace
<1>10. ShownInv'
  <2> SUFFICES ASSUME NEW k \in Key \ reused
               PROVE  /\ \A s \in Req : req'[s].new = k => object[k].st = "stored"
                      /\ \A f \in Employee : profile'[f].key = k =>
                            \/ object[k].st = "stored"
                            \/ f \in torn
                            \/ \E s \in Req : Deleted(s, f, k)'
    BY <1>1 DEF ShownInv, Deleted
  <2>1. OnePlace(k)
    BY DEF IInv, PlaceInv
  <2>2. \A s \in Req : req'[s].new = k => object[k].st = "stored"
    BY <1>4 DEF Idle, IInv, ShownInv
  <2>3. \A f \in Employee, s \in Req : s # r /\ Deleted(s, f, k) => Deleted(s, f, k)'
    BY <1>4 DEF Deleted
  <2>4. ASSUME NEW f \in Employee, profile'[f].key = k
        PROVE  \/ object[k].st = "stored"
               \/ f \in torn
               \/ \E s \in Req : Deleted(s, f, k)'
    <3>1. CASE f = e /\ row.key = q.new
      BY <1>5, <2>4, <3>1 DEF IInv, ShownInv
    <3>2. CASE ~(f = e /\ row.key = q.new)
      <4>1. profile[f].key = k
        BY <1>3, <1>5, <2>4, <3>2
      <4>2. ~Deleted(r, f, k)
        BY <1>3, <2>1, <2>4, <3>2 DEF Deleted, OnePlace
      <4> QED
        BY <2>3, <4>1, <4>2 DEF IInv, ShownInv
    <3> QED
      BY <3>1, <3>2
  <2> QED
    BY <2>2, <2>4
<1>11. OrderInv'
  <2> SUFFICES ASSUME NEW f \in Orderly'
               PROVE  /\ \A s, t \in Working(f)' : s = t
                      /\ \A s \in Working(f)' :
                            req'[s].kind # "patch" /\ req'[s].old = profile'[f].key
                      /\ \A x \in Key : object'[x].st = "stored" /\ object'[x].emp = f =>
                            /\ Working(f)' = {} => x = profile'[f].key
                            /\ \A s \in Working(f)' : x = Leaves(req'[s])
    BY DEF OrderInv, Working
  <2>1. f \in Orderly /\ Working(f)' = Working(f) \ {r}
    BY <1>1, <1>4 DEF Orderly, Working, Idle
  <2>2. CASE f = e
    <3>1. r \in Working(f)
      BY <1>1, <2>2 DEF Working
    <3>2. Working(f)' = {} /\ q.old = profile[f].key
      BY <2>1, <3>1 DEF IInv, OrderInv
    <3>3. \A x \in Key : object[x].st = "stored" /\ object[x].emp = f => x = q.new
      BY <1>1, <2>1, <3>1 DEF IInv, OrderInv, Leaves
    <3> QED
      BY <1>1, <1>3, <1>5, <2>2, <3>2, <3>3
  <2>3. CASE f # e
    <3>1. Working(f)' = Working(f) /\ profile'[f] = profile[f]
      BY <1>5, <2>1, <2>3 DEF Working, Orderly
    <3>2. \A s \in Working(f) : req'[s] = req[s]
      BY <1>4, <2>3 DEF Working
    <3> QED
      BY <1>1, <2>1, <3>1, <3>2 DEF IInv, OrderInv, Leaves
  <2> QED
    BY <2>2, <2>3
<1> QED
  BY <1>6, <1>7, <1>8, <1>9, <1>10, <1>11 DEF IInv

\* A request that fails leaves its employee torn if it has deleted or put an object;
\* else the bucket is as the row says.
LEMMA FailIInv == ASSUME IInv, NEW r \in Req, Fail(r) PROVE IInv'
<1> USE AvatarsAssumption
<1> DEFINE e == req[r].emp
<1>1. /\ req[r].pc # "idle" /\ e \in Employee
      /\ req' = [req EXCEPT ![r] = Idle]
      /\ torn' = IF ChangedBucket(r) THEN torn \cup {e} ELSE torn
      /\ object' = object /\ profile' = profile /\ overlapped' = overlapped
      /\ replaced' = replaced /\ reused' = reused
  BY DEF Fail, IInv, RequestInv
<1>2. /\ req' \in [Req -> Request] /\ req'[r] = Idle
      /\ \A s \in Req : s # r => req'[s] = req[s]
  BY <1>1 DEF IInv, TypeOK, Idle, Request
<1>3. TypeOK'
  BY <1>1, <1>2 DEF IInv, TypeOK
<1>4. RequestInv' /\ RowInv'
  BY <1>1, <1>2 DEF IInv, RequestInv, RowInv, Idle
<1>5. UnusedInv'
  BY <1>1, <1>2 DEF IInv, UnusedInv, Idle
<1>6. PlaceInv'
  BY <1>1, <1>2 DEF IInv, PlaceInv, OnePlace, Idle
<1>7. ShownInv'
  <2>1. ASSUME NEW k \in Key, NEW f \in Employee, NEW s \in Req, Deleted(s, f, k)
        PROVE  f \in torn' \/ Deleted(s, f, k)'
    <3>1. CASE s = r
      BY <1>1, <2>1, <3>1 DEF Deleted, ChangedBucket
    <3>2. CASE s # r
      BY <1>2, <2>1, <3>2 DEF Deleted
    <3> QED
      BY <3>1, <3>2
  <2>2. torn \subseteq torn' /\ req'[r].new = Null
    BY <1>1, <1>2 DEF Idle
  <2> QED
    BY <1>1, <1>2, <2>1, <2>2 DEF IInv, ShownInv
<1>8. OrderInv'
  <2> SUFFICES ASSUME NEW f \in Orderly'
               PROVE  /\ \A s, t \in Working(f)' : s = t
                      /\ \A s \in Working(f)' :
                            req'[s].kind # "patch" /\ req'[s].old = profile'[f].key
                      /\ \A x \in Key : object'[x].st = "stored" /\ object'[x].emp = f =>
                            /\ Working(f)' = {} => x = profile'[f].key
                            /\ \A s \in Working(f)' : x = Leaves(req'[s])
    BY DEF OrderInv, Working
  <2>1. f \in Orderly /\ f \in Employee
    BY <1>1 DEF Orderly
  <2>2. CASE r \notin Working(f)
    <3>1. Working(f)' = Working(f) /\ \A s \in Working(f) : req'[s] = req[s]
      BY <1>1, <1>2, <2>2 DEF Working, Idle
    <3> QED
      BY <1>1, <2>1, <3>1 DEF IInv, OrderInv, Leaves
  <2>3. CASE r \in Working(f)
    <3>1. ~ChangedBucket(r) /\ e = f
      BY <1>1, <2>3 DEF Orderly, Working
    <3>2. /\ \A s \in Working(f) : s = r
          /\ req[r].kind # "patch" /\ req[r].old = profile[f].key
          /\ \A x \in Key : object[x].st = "stored" /\ object[x].emp = f => x = Leaves(req[r])
      BY <2>1, <2>3 DEF IInv, OrderInv
    <3>3. Working(f)' = {}
      BY <1>2, <3>2 DEF Working, Idle
    <3>4. req[r].pc \in {"delete", "put", "commit"}
      BY <1>1 DEF IInv, TypeOK, Request
    <3>5. Leaves(req[r]) = profile[f].key \/ Leaves(req[r]) = Null
      BY <3>1, <3>2, <3>4 DEF ChangedBucket, Leaves
    <3> QED
      BY <1>1, <3>2, <3>3, <3>5
  <2> QED
    BY <2>2, <2>3
<1> QED
  BY <1>3, <1>4, <1>5, <1>6, <1>7, <1>8 DEF IInv

\* Every step of the specification keeps the invariant.
LEMMA NextIInv == IInv /\ [Next]_vars => IInv'
<1> SUFFICES ASSUME IInv, [Next]_vars PROVE IInv'
  OBVIOUS
<1>1. CASE UNCHANGED vars
  BY <1>1, StutterIInv
<1>2. CASE UploadStandalone
  BY <1>2, StandaloneIInv
<1>3. ASSUME NEW e \in Employee, CreateWithout(e) \/ \E n \in Name : CreateWithAvatar(e, n)
      PROVE  IInv'
  BY <1>3, CreateIInv
<1>4. ASSUME NEW r \in Req, NEW e \in Employee,
             \/ UploadLoads(r, e) \/ RemoveLoads(r, e) \/ DismissLoads(r, e)
             \/ PatchLoadsNull(r, e) \/ \E n \in Name : PatchLoads(r, e, n)
      PROVE  IInv'
  BY <1>4, HandlersIInv
<1>5. ASSUME NEW r \in Req, DeleteObject(r) \/ PutObject(r) \/ Commit(r) \/ Fail(r)
      PROVE  IInv'
  BY <1>5, DeleteIInv, PutIInv, CommitIInv, FailIInv
<1> QED
  BY <1>1, <1>2, <1>3, <1>4, <1>5 DEF Next

\* The invariant holds in every state.
LEMMA AlwaysIInv == Spec => []IInv
<1> QED
  BY InitIInv, NextIInv, PTL DEF Spec

-----------------------------------------------------------------------------
\* Objects, rows and requests are well typed in every state.
THEOREM AvatarsTyped == Spec => []TypeOK
<1>1. IInv => TypeOK
  BY DEF IInv
<1> QED
  BY <1>1, AlwaysIInv, PTL

\* However uploads, removals, PATCHes and deletions overlap, the avatar that an
\* employee shows is in the bucket, once his requests are answered and none of
\* them failed: unless its key came a second time or late from a body.
THEOREM ShownIsThere == Spec => []ShownAvatarExists
<1>1. IInv => ShownAvatarExists
  <2> SUFFICES ASSUME IInv, NEW e \in Employee,
                      profile[e].key # Null, Quiet(e), e \notin torn,
                      profile[e].key \notin reused
               PROVE  object[profile[e].key].st = "stored"
    BY DEF ShownAvatarExists
  <2>1. profile[e].key \in Key \ reused
    BY DEF IInv, TypeOK
  <2>2. ~ \E r \in Req : Deleted(r, e, profile[e].key)
    BY DEF Quiet, Working, Deleted
  <2> QED
    BY <2>1, <2>2 DEF IInv, ShownInv
<1> QED
  BY <1>1, AlwaysIInv, PTL

\* The handlers delete the object that the one they put replaces: of requests that
\* came one after the other and did not fail, nothing is left in the bucket but
\* the avatar shown, as long as no PATCH set another key.
THEOREM NothingIsLeft == Spec => []NothingLeftBehind
<1>1. IInv => NothingLeftBehind
  BY DEF IInv, OrderInv, NothingLeftBehind, Quiet, Orderly
<1> QED
  BY <1>1, AlwaysIInv, PTL
=============================================================================
