SPECIFICATION Spec
CONSTANTS
    Employee = {e1}
    Key = {k1, k2, k3}
    Req = {q1, q2}
    Null = Null
SYMMETRY AvatarSymmetry
INVARIANTS
    TypeOK
    ShownAvatarExists
    NothingLeftBehind
CHECK_DEADLOCK FALSE
