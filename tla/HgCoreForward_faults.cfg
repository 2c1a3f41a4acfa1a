\* Transport errors and canceled operations, more data on responses, one
\* callback thread; posting never fails.
CONSTANTS
    Threads = {t1}
    MaxForwards = 2
    NaErrors = TRUE
    PostMayFail = FALSE
    MoreData = TRUE
    AcquireMayFail = FALSE
    ReforwardWithoutReset = FALSE
    ReuseBeforeCallback = FALSE
SPECIFICATION Spec
INVARIANTS
    TypeOK
    NoLostCompletion
    CompleteOnlyWhenDrained
    NoUseAfterFree
PROPERTIES
    ResultSound
    RefinesRpcCall
