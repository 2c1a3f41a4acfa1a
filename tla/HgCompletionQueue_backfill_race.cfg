\* Two trigger threads both read backfill_queue->count = 1 for one entry;
\* the one that finds the queue empty still decrements count.
CONSTANTS
    Entries = {e1, e2, e3}
    Producers = {p1, p2}
    Triggers = {t1, t2}
    Progressors = {}
    Loopback = FALSE
    NoEntry = NoEntry
    QCap = 1
    MaxCount = 2
SPECIFICATION Spec
INVARIANT BackfillCounted
