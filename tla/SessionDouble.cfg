SPECIFICATION Spec
CONSTANTS
    Nil = Nil
    Conn = {c1, c2}
    Gate = {g1, g2}
    MaxRole = 1
    Stored = {1}
    Asked = {1}
    SerialLogin = FALSE
SYMMETRY Alike
INVARIANT OneService
CHECK_DEADLOCK FALSE
