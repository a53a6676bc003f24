SPECIFICATION FairSpec
CONSTANTS
    Conns = {c1}
    MaxFrames = 3
    MaxStarts = 2
INVARIANTS CallbackProtocol ListedWhileOpen MessagesDelivered
PROPERTIES WaitsEnd StoppedEnd
\* the server may have been stopped for good
CHECK_DEADLOCK FALSE
