\* Three self-RPC completions from two threads, an atomic queue of one slot
\* so that the backfill queue is used, one trigger thread calling
\* HG_Core_trigger with max_count 2, and one progress thread calling
\* hg_core_progress, each with any of the three kinds of timeout; the
\* loopback event notifies the progress thread.
CONSTANTS
    Entries = {e1, e2}
    Producers = {p1, p2}
    Triggers = {t1}
    Progressors = {q1}
    NoEntry = NoEntry
    QCap = 1
    MaxCount = 2
    Loopback = TRUE
SPECIFICATION Spec
INVARIANTS
    TypeOK
    
PROPERTIES
    EntriesTriggered
    RefinesCompletionSet
    WaitersWoken
