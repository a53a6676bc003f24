SPECIFICATION Spec
CONSTANTS
    Callers = {g1, g2}
    Conns = {k1, k2, k3}
    InitCount = 1
    MaxCalls = 2
    SizeMod = 16
    Null = Null
    Unwritten = Unwritten
PROPERTY MinimumKept
\* callers make a bounded number of calls, and the process may end
CHECK_DEADLOCK FALSE
