CONSTANTS
    Dtw = FALSE
    n_text_ctx = 14
    NText = 1
    NTimestamps = 2
    max_initial_ts = 1
    delta_min = 1
    ShortRest = 2
    NInit = 4
    MaxCalls = 2
    Spans <- MCSpans
    Params <- MCParams
SPECIFICATION FairSpec
INVARIANTS TypeOK PromptFits OwnContext PromptInOrder SegmentsInOrder
PROPERTIES TextKept EveryCallEnds
CHECK_DEADLOCK FALSE
