SPECIFICATION Spec
CONSTANTS
    Callers = {g1, g2}
    Conns = {k1, k2}
    InitCount = 1
    MaxCalls = 1
    SizeMod = 16
    Null = Null
    Unwritten = Unwritten
PROPERTY ConnectionToProvide
\* callers make a bounded number of calls, and the process may end
CHECK_DEADLOCK FALSE
