\* Two descriptors of 1 byte growing to 2 and 4; messages of 1 byte (fit)
\* and 5 bytes (always truncated, so the length reaches its limit); malloc
\* may fail.  The pool idles when no more messages come.
CONSTANTS
    NDescs = 2
    InitLen = 1
    NextBuflen <- DoubleCapped
    MsgLens = {1, 5}
    MaxMsgs = 8
    MallocMayFail = TRUE
    SizeWidth = 4
SPECIFICATION Spec
CHECK_DEADLOCK FALSE
INVARIANTS
    TypeOK
    QueueHasRoom
    DescsAccounted
    FailedOnlyWhenStuck
PROPERTIES
    PoolGrows
