SPECIFICATION LiveSpec
CONSTANTS
    Nil = Nil
    gate = gate
    role = role
    Svc <- Services
    Owner = gate
    Pieces = 2
    MaxConn = 2
    MaxSent <- Sent
    SendTo = {1}
    MaxWork = 4
INVARIANTS
    TypeOK
    SendingExact
    ListsSound
    CloseExact
    WireIntact
    Flushed
    WireInv
PROPERTY ClosingEnds
