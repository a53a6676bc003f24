SPECIFICATION SignalFairSpec
CONSTANTS
    Runners = {w1, w2}
    Signals = {11, 15}
    NoSignal = 0
PROPERTY EverySignalReported
\* every signal may have been handled
CHECK_DEADLOCK FALSE
