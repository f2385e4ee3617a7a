SPECIFICATION LiveSpec
CONSTANTS
    Key = {f, g}
    Near = 4
    Level = 2
    Levels = 1
    MaxLag = 1
    MaxLate = 1
    MaxWait = 1
    Intvl = {1, 2}
    Delay = {1}
INVARIANTS
    HeapExact
    TimerInv
PROPERTIES
    ImplementsAlarm
    TimersFire
