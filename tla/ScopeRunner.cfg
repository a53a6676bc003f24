SPECIFICATION RunnerFairSpec
CONSTANTS
    Users = {u1, u2, u3}
    Stoppers = {s1, s2}
PROPERTIES ImplementsGate StopReturns
