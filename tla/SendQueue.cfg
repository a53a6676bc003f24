SPECIFICATION FairSpec
CONSTANTS
    Senders = {s1, s2}
    Frames = {f1, f2, f3}
    CloseFrames = {x1, x2}
    NoFrame = NoFrame
INVARIANTS OneWrite
PROPERTIES ImplementsOutbox CallbackComes
\* every frame may have been sent
CHECK_DEADLOCK FALSE
