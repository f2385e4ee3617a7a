SPECIFICATION Spec
CONSTANTS
    Nil = Nil
    Ctx = {a, b, c}
    Launcher = {l1}
    NumName = 3
    SlotSize = 2
    HandleMask = 7
SYMMETRY Alike
INVARIANTS
    TypeOK
    IInv
    Reachable
    GivenFresh
    ExpandAssert
PROPERTY ImplementsRegistry
