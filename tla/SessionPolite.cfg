SPECIFICATION Spec
CONSTANTS
    Nil = Nil
    Conn = {c1, c2, c3}
    Gate = {g1, g2}
    MaxRole = 2
    Stored = {1}
    Asked = {0, 1, 2}
    SerialLogin = TRUE
SYMMETRY Alike
INVARIANTS
    IInv
    CntExact
    OneService
    RegistryRoutes
    ServiceReachable
    NewRoleOnce
CHECK_DEADLOCK FALSE
