SPECIFICATION Spec
CONSTANTS
    User = {u1, u2}
    Email = {m1, m2}
    Session = {s1, s2, s3}
    LoginReq = {l1}
    RegReq = {r1, r2}
    CallReq = {a1}
    OffReq = {d1}
    Null = Null
SYMMETRY SessionSymmetry
INVARIANTS
    TypeOK
    BarredUsersStayOut
    EndedSessionsStayShut
    KeysNameTheirOwner
    RevocationComplete
CHECK_DEADLOCK FALSE
