\* Transport errors and cancels, more data in both directions, unknown RPC
\* ids and finalization; one callback thread; posting never fails.
CONSTANTS
    Threads = {t1}
    MaxRequests = 2
    NaErrors = TRUE
    PostMayFail = FALSE
    RepostMayFail = FALSE
    MoreData = TRUE
    AcquireMayFail = FALSE
    UnknownRpc = TRUE
    DeregisterInFlight = FALSE
    MaxRegs = 2
    UserCancels = TRUE
    ConcurrentFinalize = FALSE
SPECIFICATION Spec
INVARIANTS
    TypeOK
    RepostOnlyWhenDrained
    NoUseAfterFree
PROPERTIES
    RespondResultSound
    HandleRecycled
    FinalizeDrains
