\* Single-property run: the counterexample is a finding.
CONSTANTS
    Threads = {t1}
    MaxForwards = 2
    NaErrors = TRUE
    PostMayFail = TRUE
    MoreData = FALSE
    AcquireMayFail = FALSE
    ReforwardWithoutReset = FALSE
    ReuseBeforeCallback = FALSE
SPECIFICATION Spec
INVARIANT
    NoLostCompletion
