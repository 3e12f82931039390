SPECIFICATION Spec
CONSTANTS
    ReadableHWM = 1
    WritableHWM = 1
    CloseSentinel = CloseSentinel
    NoWrite = NoWrite
    c1 = c1
    c2 = c2
    Chunks <- TwoChunks
    UserChunk = user
    PipeOptions <- Allowed
    ProgramActs = {"write", "close", "abort", "cancel"}
INVARIANTS
    NoAssertionFails
    SinkProtocol
    SettledIsOver
    Backpressure
CHECK_DEADLOCK FALSE
PROPERTIES
    Delivers
    PipeSettles
