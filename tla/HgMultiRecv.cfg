\* Two multi-recv buffers of two requests each, one thread that calls
\* progress and trigger (handlers between callbacks), four requests, a
\* pool of one handle extended one at a time up to four, allocation
\* failures on requests that are not the last of their buffer, failed
\* reposts.
CONSTANTS
    CbThreads = {c1}
    Bufs = {b1, b2}
    NoBuf = NoBuf
    InitCount = 1
    IncrCount = 1
    MaxHandles = 4
    MaxMsgs = 4
    MaxPerPost = 2
    UserRelease = TRUE
    AllocMayFail = TRUE
    LastAllocMayFail = FALSE
    RepostMayFail = TRUE
    ReleaseDuringFinalize = FALSE
    SerialHandlers = TRUE
SPECIFICATION Spec
INVARIANTS
    TypeOK
    HandlesAccounted
    OpCountAccurate
    
PROPERTIES
    BufferReposted
    UnpostTerminates
    
