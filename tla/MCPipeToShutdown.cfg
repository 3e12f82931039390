SPECIFICATION Spec
CONSTANTS
    ReadableHWM = 1
    WritableHWM = 1
    CloseSentinel = CloseSentinel
    NoWrite = NoWrite
    c1 = c1
    c2 = c2
    Chunks <- TwoChunks
    UserChunk = user
    PipeOptions <- AllPrevented
    ProgramActs = {}
INVARIANT NoAssertionFails
CHECK_DEADLOCK FALSE
