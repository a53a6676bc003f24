SPECIFICATION FairSpec
CONSTANTS
    LengthWidths = {8}
    ContentLengths = {0, 2}
    Leftovers = {1, 3, 12}
    MaxFrames = 2
    MaxSends = 1
INVARIANTS CallbackProtocol InStep MessagesDelivered
PROPERTIES IdleEnds
\* the connection may have ended
CHECK_DEADLOCK FALSE
