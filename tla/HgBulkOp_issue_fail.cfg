\* Posting an NA put/get may fail part-way through a transfer.
CONSTANTS
    Users = {u1, u2}
    OpIds = {o1}
    MaxOps = 2
    MaxTransfers = 2
    NaErrors = FALSE
    EagerHandles = TRUE
    IssueMayFail = TRUE
    StaleCancel = FALSE
    NoUser = NoUser
    NoOp = NoOp
SPECIFICATION Spec
PROPERTY OpsReturn
\* Violation run: the property is violated by stuttering, not deadlock.
CHECK_DEADLOCK FALSE
