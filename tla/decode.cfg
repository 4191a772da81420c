CONSTANTS
    Temperatures = 2
    n_text_ctx = 14
    KvPad = 2
    MaxDecoders = 2
    NText = 1
    NTimestamps = 2
    max_initial_ts = 1
    delta_min = 1
    entropy_len = 1
    Remaining = {3, 9}
    PromptLengths = {2, 11}
    Params <- MCParams
SPECIFICATION Spec
INVARIANTS TypeOK OwnHistory NoTemporarySequences SlotAlwaysFound
    RankedResult YieldsOutcome BestIsCurrent
PROPERTY ClockAdvances
