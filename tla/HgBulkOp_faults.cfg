\* Two user threads sharing a pool of one op ID, each starting two transfers
\* of up to two NA sub-operations, so that the op ID is reused and a user
\* may find the pool empty; NA callbacks may fail, origin handles may be
\* eager, posting an NA operation may fail, users cancel their own running
\* transfers; NA may also cancel a sub-operation on its own.
CONSTANTS
    Users = {u1, u2}
    OpIds = {o1}
    MaxOps = 2
    MaxTransfers = 2
    NaErrors = TRUE
    EagerHandles = TRUE
    IssueMayFail = TRUE
    StaleCancel = FALSE
    NoUser = NoUser
    NoOp = NoOp
SPECIFICATION Spec
INVARIANTS
    TypeOK
    NoRecycleInFlight
    ResultSound
PROPERTY
    TransfersComplete
