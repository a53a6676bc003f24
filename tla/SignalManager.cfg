SPECIFICATION SignalFairSpec
CONSTANTS
    Runners = {w1, w2, w3}
    Signals = {11, 15}
    NoSignal = 0
INVARIANTS NotifiedOnce
PROPERTIES LoneSignalNotified
\* every signal may have been handled
CHECK_DEADLOCK FALSE
