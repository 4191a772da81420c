CONSTANTS
    SampleRate = 200
    n_window = 32
    IntMax = 45000
    Lengths = {3, 20}
    no_tid = 1000
    MaxSegments = 2
    MaxCalls = 2
    delta_min = 10
    folds = FALSE
    Calls <- MCVadThenNot
SPECIFICATION Spec
INVARIANT NoVadNoMapping
CHECK_DEADLOCK FALSE
