SPECIFICATION Spec
CONSTANTS
    Sizes = {1,2}
    MaxSegmentSize = 3
    BufferSize = 2
    FSyncOnWrite = TRUE
    MaxAppends = 3
    MaxFaults = 1
CHECK_DEADLOCK FALSE
INVARIANT OffsetsIncrease
