CONSTANTS
    Dtw = FALSE
    n_text_ctx = 14
    NText = 1
    NTimestamps = 2
    max_initial_ts = 1
    delta_min = 1
    ShortRest = 2
    NInit = 4
    MaxCalls = 1
    Spans <- MCSpans
    Params <- MCNoTimestamps
SPECIFICATION Spec
INVARIANT SegmentsInOrder
CHECK_DEADLOCK FALSE
