SPECIFICATION FairSpec
CONSTANTS
    User = {u1, u2}
    Email = {m1, m2}
    Session = {s1, s2}
    LoginReq = {l1}
    RegReq = {r1, r2}
    CallReq = {}
    OffReq = {d1}
    Null = Null
PROPERTIES
    RequestsEnd
CHECK_DEADLOCK FALSE
