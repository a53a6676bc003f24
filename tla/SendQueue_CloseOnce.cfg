SPECIFICATION Spec
CONSTANTS
    Senders = {s1, s2}
    Frames = {f1}
    CloseFrames = {x1, x2}
    NoFrame = NoFrame
INVARIANT CloseOnce
CHECK_DEADLOCK FALSE
