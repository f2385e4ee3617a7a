SPECIFICATION Spec
CONSTANTS
    Nil = Nil
    w1 = w1
    w2 = w2
    Svc = {s0, s1}
    Boot = s0
    Worker = {w1, w2}
    Timer = Timer
    Weight <- Weights
    RingSize = 1
    MaxMsg = 2
    Use = {"send", "kill", "launch"}
INVARIANTS
    TypeOK
    IInv
    OnePlace
    RefExact
    NoDangling
    TotalExact
PROPERTY ImplementsMailbox
