SPECIFICATION Spec
CONSTANTS
    Nil = Nil
    Pos = Pos
    Role = {r1, r2}
    Nest = {n1}
    MaxWay = 1
    MaxMarch = 2
    MaxBattle = 1
PROPERTY MarchEnds
CHECK_DEADLOCK FALSE
