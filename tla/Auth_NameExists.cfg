SPECIFICATION AuthSpec
CONSTANTS
    Callers = {g1}
    Conns = {k1, k2}
    InitCount = 1
    MaxCalls = 2
    SizeMod = 16
    Null = Null
    Unwritten = Unwritten
INVARIANT NameExists
\* callers make a bounded number of calls, and the process may end
CHECK_DEADLOCK FALSE
