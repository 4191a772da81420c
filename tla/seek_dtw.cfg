CONSTANTS
    Dtw = TRUE
    n_text_ctx = 14
    NText = 1
    NTimestamps = 2
    max_initial_ts = 1
    delta_min = 1
    ShortRest = 2
    NInit = 4
    MaxCalls = 1
    Spans <- MCSpans
    Params <- MCDefault
SPECIFICATION Spec
INVARIANT EverySegmentAnnounced
CHECK_DEADLOCK FALSE
