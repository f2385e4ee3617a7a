SPECIFICATION Spec
CONSTANTS
    Nil = Nil
    Conn = {c1, c2, c3}
    Gate = {g1}
    MaxRole = 1
    Stored = {1}
    Asked = {1}
    SerialLogin = TRUE
SYMMETRY Alike
INVARIANT EnterHasData
CHECK_DEADLOCK FALSE
