SPECIFICATION SignalSpec
CONSTANTS
    Runners = {w1, w2}
    Signals = {11, 15}
    NoSignal = 0
INVARIANT ReportNeedsSignal
\* every signal may have been handled
CHECK_DEADLOCK FALSE
