SPECIFICATION LiveSpec
CONSTANTS
    Nil = Nil
    w1 = w1
    w2 = w2
    Svc = {s0, s1}
    Boot = s0
    Worker = {w1, w2}
    Timer = Timer
    Weight <- Weights
    RingSize = 1
    MaxMsg = 1
    Use = {"send", "kill", "launch", "abort", "timeout"}
PROPERTIES
    Delivered
    AllJoined
