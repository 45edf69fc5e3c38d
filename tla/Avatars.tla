------------------------------ MODULE Avatars ------------------------------
(***************************************************************************)
(* Avatars: objects in S3 (api/services/s3.py) and the keys that rows of   *)
(* employee_profile keep of them (api/routers/employees.py). S3 is outside *)
(* the database's transactions: every handler deletes and puts objects     *)
(* first and commits afterwards, and either store may fail in between.     *)
(***************************************************************************)
EXTENDS Naturals, FiniteSets

CONSTANTS
    Employee,
    Key,        \* object keys: a uuid4 each
    Req,        \* requests in flight that load a profile
    Null

ASSUME AvatarsAssumption == Null \notin Key /\ Null \notin Employee

VARIABLES
    object,     \* the bucket
    profile,    \* table employee_profile: row and avatar_key
    req,
    torn,       \* ghost: employees of a request that failed with the bucket changed
    overlapped, \* ghost: employees of requests that overlapped
    replaced,   \* ghost: employees whose avatar a PATCH set
    reused      \* ghost: keys that admins gave for a second time, or late

vars == <<object, profile, req, torn, overlapped, replaced, reused>>
ghosts == <<torn, overlapped, replaced, reused>>

Object == [st : {"free", "stored", "deleted"},
           given : BOOLEAN,                \* ghost: an admin's body named it
           emp : Employee \cup {Null}]     \* ghost: whose upload_avatar put it

\* A body names an object by its public URL or by its bare key.
Name == [url : BOOLEAN, key : Key]

Request == [pc : {"idle", "delete", "put", "commit"},
            kind : {"upload", "remove", "dismiss", "patch"},
            emp : Employee \cup {Null},
            old : Key \cup {Null}, new : Key \cup {Null}]

Idle == [pc |-> "idle", kind |-> "patch", emp |-> Null, old |-> Null, new |-> Null]

TypeOK ==
    /\ object \in [Key -> Object]
    /\ profile \in [Employee -> [st : {"none", "row", "gone"}, key : Key \cup {Null}]]
    /\ req \in [Req -> Request]
    /\ torn \cup overlapped \cup replaced \subseteq Employee
    /\ reused \subseteq Key

Init ==
    /\ object = [k \in Key |-> [st |-> "free", given |-> FALSE, emp |-> Null]]
    /\ profile = [e \in Employee |-> [st |-> "none", key |-> Null]]
    /\ req = [r \in Req |-> Idle]
    /\ torn = {} /\ overlapped = {} /\ replaced = {} /\ reused = {}

----------------------------------------------------------------------------
Working(e) == {r \in Req : req[r].pc # "idle" /\ req[r].emp = e}

\* Variant: the URL is kept whole.
Extract_Whole(name) == name

\* extract_key
Extract(name) == name.key

\* Ghost: an admin gives this key in a body.
Give(k) ==
    /\ object' = [object EXCEPT ![k].given = TRUE]
    /\ reused' = IF object[k].st = "stored" /\ ~object[k].given /\ object[k].emp = Null
                 THEN reused ELSE reused \cup {k}

\* POST /employees/avatar
UploadStandalone ==
    /\ \E k \in Key : /\ object[k].st = "free"
                      /\ object' = [object EXCEPT ![k].st = "stored"]
    /\ UNCHANGED <<profile, req, ghosts>>

\* POST /employees, with an avatar_url or without.
CreateWithAvatar(e, name) ==
    /\ profile[e].st = "none" /\ object[name.key].st # "free"
    /\ profile' = [profile EXCEPT ![e] = [st |-> "row", key |-> Extract(name)]]
    /\ Give(name.key)
    /\ UNCHANGED <<req, torn, overlapped, replaced>>

CreateWithout(e) ==
    /\ profile[e].st = "none"
    /\ profile' = [profile EXCEPT ![e] = [st |-> "row", key |-> Null]]
    /\ UNCHANGED <<object, req, ghosts>>

\* _get_employee_user loads the row; the handler goes on at pc.
Load(r, e, kind, pc, new) ==
    /\ req[r].pc = "idle"
    /\ profile[e].st = "row"
    /\ req' = [req EXCEPT ![r] =
          [pc |-> pc, kind |-> kind, emp |-> e, old |-> profile[e].key, new |-> new]]
    /\ overlapped' = IF Working(e) = {} THEN overlapped ELSE overlapped \cup {e}

OldFirst(e, next) == IF profile[e].key = Null THEN next ELSE "delete"

\* PUT /employees/{id}/avatar
UploadLoads(r, e) ==
    /\ Load(r, e, "upload", OldFirst(e, "put"), Null)
    /\ UNCHANGED <<object, profile, torn, replaced, reused>>

\* DELETE /employees/{id}/avatar
RemoveLoads(r, e) ==
    /\ Load(r, e, "remove", OldFirst(e, "commit"), Null)
    /\ UNCHANGED <<object, profile, torn, replaced, reused>>

\* Variant: the employee's object is left in the bucket.
DismissLoads_KeepsObject(r, e) ==
    /\ Load(r, e, "dismiss", "commit", Null)
    /\ UNCHANGED <<object, profile, torn, replaced, reused>>

\* DELETE /employees/{id}
DismissLoads(r, e) ==
    /\ Load(r, e, "dismiss", OldFirst(e, "commit"), Null)
    /\ UNCHANGED <<object, profile, torn, replaced, reused>>

\* PATCH /employees/{id} of avatar_url: a name, or null.
PatchLoads(r, e, name) ==
    /\ object[name.key].st # "free"
    /\ Load(r, e, "patch", "commit", Extract(name))
    /\ Give(name.key)
    /\ replaced' = replaced \cup {e}
    /\ UNCHANGED <<profile, torn>>

PatchLoadsNull(r, e) ==
    /\ Load(r, e, "patch", "commit", Null)
    /\ replaced' = replaced \cup {e}
    /\ UNCHANGED <<object, profile, torn, reused>>

\* Deleting an object that is not there succeeds.
DeleteObject(r) ==
    /\ req[r].pc = "delete"
    /\ object' = [object EXCEPT ![req[r].old].st = "deleted"]
    /\ req' = [req EXCEPT ![r].pc = IF req[r].kind = "upload" THEN "put" ELSE "commit"]
    /\ UNCHANGED <<profile, ghosts>>

PutObject(r) ==
    /\ req[r].pc = "put"
    /\ \E k \in Key :
          /\ object[k].st = "free"
          /\ object' = [object EXCEPT ![k] = [@ EXCEPT !.st = "stored", !.emp = req[r].emp]]
          /\ req' = [req EXCEPT ![r] = [@ EXCEPT !.pc = "commit", !.new = k]]
    /\ UNCHANGED <<profile, ghosts>>

\* Variant: avatar_key is not written.
Commit_ForgetsKey(r) ==
    /\ req[r].pc = "commit"
    /\ profile' = [profile EXCEPT ![req[r].emp].st =
          IF req[r].kind = "dismiss" THEN "gone" ELSE @]
    /\ req' = [req EXCEPT ![r] = Idle]
    /\ UNCHANGED <<object, ghosts>>

\* The UPDATE names avatar_key if it is not what was loaded; one of a row that is
\* gone fails. The DELETE of a row that is gone does not.
Commit(r) ==
    LET q == req[r] IN
    /\ q.pc = "commit"
    /\ q.kind # "dismiss" /\ q.new # q.old => profile[q.emp].st = "row"
    /\ profile' = [profile EXCEPT ![q.emp] =
          IF q.kind = "dismiss" THEN [st |-> "gone", key |-> Null]
          ELSE IF q.new # q.old THEN [@ EXCEPT !.key = q.new] ELSE @]
    /\ req' = [req EXCEPT ![r] = Idle]
    /\ UNCHANGED <<object, ghosts>>

\* The request has deleted or put an object.
ChangedBucket(r) ==
    /\ req[r].kind # "patch" /\ req[r].pc \in {"put", "commit"}
    /\ req[r].old # Null \/ req[r].new # Null

\* 500 or a crash: S3 or PostgreSQL cannot be reached, or the commit fails.
Fail(r) ==
    /\ req[r].pc # "idle"
    /\ req' = [req EXCEPT ![r] = Idle]
    /\ torn' = IF ChangedBucket(r) THEN torn \cup {req[r].emp} ELSE torn
    /\ UNCHANGED <<object, profile, overlapped, replaced, reused>>

Next ==
    \/ UploadStandalone
    \/ \E e \in Employee : \/ CreateWithout(e)
                           \/ \E n \in Name : CreateWithAvatar(e, n)
    \/ \E r \in Req, e \in Employee :
          \/ UploadLoads(r, e) \/ RemoveLoads(r, e) \/ DismissLoads(r, e)
          \/ PatchLoadsNull(r, e) \/ \E n \in Name : PatchLoads(r, e, n)
    \/ \E r \in Req : DeleteObject(r) \/ PutObject(r) \/ Commit(r) \/ Fail(r)

Spec == Init /\ [][Next]_vars
----------------------------------------------------------------------------
Quiet(e) == Working(e) = {}

\* However requests overlap, once they are answered the avatar that an employee
\* shows is in the bucket: unless a request failed after it had deleted an object,
\* or an admin gave a key that is not fresh from POST /employees/avatar.
ShownAvatarExists ==
    \A e \in Employee :
        /\ profile[e].st = "row" /\ profile[e].key # Null
        /\ Quiet(e) /\ e \notin torn /\ profile[e].key \notin reused
        => object[profile[e].key].st = "stored"

\* Requests one after the other leave no object behind that upload_avatar put for
\* an employee and that the employee does not show, nor any when the employee is
\* gone: unless a request failed with the bucket changed, or a PATCH put another
\* key in its place, which does not delete the object.
NothingLeftBehind ==
    \A e \in Employee :
        Quiet(e) /\ e \notin torn \cup overlapped \cup replaced =>
            {k \in Key : object[k].st = "stored" /\ object[k].emp = e}
                \subseteq {profile[e].key}
============================================================================
