SPECIFICATION FairSpec
CONSTANTS
    Conns = {c1}
    MaxFrames = 3
    MaxStarts = 2

PROPERTY AcceptEnds
\* the server may have been stopped for good
CHECK_DEADLOCK FALSE
