CONSTANTS
    alignment = 2
    max_chunk_size = 7
    MaxChunks = 3
    Endless = 41
    MaxTensors = 4
    MaxSinks = 2
    MaxOutputs = 1
    Sizes = {2, 3}
SPECIFICATION Spec
INVARIANTS TypeOK ListedInOrder MemoryAccounted NothingLeaks InputsIntact
    OutputsSurvive
CHECK_DEADLOCK FALSE
