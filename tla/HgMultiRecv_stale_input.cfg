\* hg_core_multi_recv_input_cb records "last" before it takes its buffer
\* reference: a handle releasing the previous request in between reposts
\* the buffer under the new handle's input.
CONSTANTS
    CbThreads = {c1, c2}
    Bufs = {b1, b2}
    NoBuf = NoBuf
    InitCount = 1
    IncrCount = 1
    MaxHandles = 4
    MaxMsgs = 3
    MaxPerPost = 2
    UserRelease = TRUE
    AllocMayFail = FALSE
    LastAllocMayFail = FALSE
    RepostMayFail = FALSE
    ReleaseDuringFinalize = FALSE
    SerialHandlers = FALSE
SPECIFICATION Spec
INVARIANT NoStaleInput
