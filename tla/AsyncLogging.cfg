\* Buffers of one or two lines, rolling by size and by day, one failure.
CONSTANTS
    BufferSize = 4
    Lengths = {1, 3}
    RollSize = 2
    FlushInterval = 1
    CheckEveryN = 2
    Day = 2
    MaxLines = 3
    MaxTime = 3
    MaxErrors = 1
SPECIFICATION LogSpec
INVARIANTS LogIntact SpareBuffers
 
