-------------------------- MODULE HgCompletionQueue --------------------------
(***************************************************************************)
(* The completion queue of a context (mercury_core.c):                     *)
(* hg_core_completion_add pushes an entry on the bounded atomic queue, or, *)
(* when it is full, on the mutex-protected backfill queue whose length it  *)
(* also keeps in the atomic backfill_queue->count; then it signals         *)
(* backfill_queue->cond under the mutex.  hg_core_trigger pops the atomic  *)
(* queue (multi-consumer), else reads count and, if positive, pops the     *)
(* backfill queue under the mutex; with nothing found it leaves (timeout 0 *)
(* or something already triggered) or, under the mutex, waits on the       *)
(* condition if both queues are still empty.  It stops after max_count     *)
(* entries.  Producers are NA callback threads completing operations,      *)
(* triggers are threads calling HG_Core_trigger in a loop.  An entry is a  *)
(* model value; what its callback does is modelled in the handle modules.  *)
(*                                                                         *)
(* With Loopback, completions of self RPCs and address lookups end         *)
(* hg_core_completion_add by notifying the context's loopback event under  *)
(* loopback_notify.mutex when must_notify is set.  Progress threads call   *)
(* hg_core_progress on a context with a poll set: under the same mutex     *)
(* they check that nothing is queued and NA has nothing to trigger         *)
(* (hg_core_poll_try_wait), set must_notify and block in hg_poll_wait,     *)
(* which the loopback event or the NA fd ends; they then clear             *)
(* must_notify, read the event and return if something progressed or is   *)
(* queued.  What NA completes is abstracted to whether it progressed.      *)
(***************************************************************************)
EXTENDS Integers, Sequences, SequencesExt, FiniteSets

CONSTANTS
    Entries,     \* completion entries of operations that complete
    NoEntry,
    Producers,   \* threads calling hg_core_completion_add
    Triggers,    \* threads calling hg_core_trigger
    QCap,        \* capacity of the atomic queue
    MaxCount,    \* max_count of each hg_core_trigger call
    Progressors, \* threads calling hg_core_progress
    Loopback     \* completion_add is called with loopback_notify

ASSUME /\ NoEntry \notin Entries /\ QCap \in Nat \ {0} /\ MaxCount \in Nat \ {0}
       /\ Loopback \in BOOLEAN

\* timeout_ms of a trigger call: 0, a finite wait, or one long enough that
\* only a signal ends it.
Timeouts == {"zero", "finite", "block"}

VARIABLES
    aq,        \* completion_queue (atomic, FIFO)
    bf,        \* backfill_queue->queue
    bfCount,   \* backfill_queue->count
    added,     \* entries whose operation has completed
    runs,      \* how often each entry's callback was triggered
    ppc, pe,   \* each producer's place in hg_core_completion_add and entry
    tpc,       \* each trigger's place in hg_core_trigger
    tmo,       \* timeout of its current call
    n,         \* its local count
    hold,      \* the entry it popped
    mustNotify, \* loopback_notify.must_notify
    event,     \* count of the loopback eventfd (EFD_SEMAPHORE)
    qpc,       \* each progress thread's place in hg_core_progress
    qtmo,      \* timeout of its current call
    qev,       \* the poll event that ended its hg_poll_wait
    qprog      \* its progressed flag

progVars == <<mustNotify, event, qpc, qtmo, qev, qprog>>

vars == <<aq, bf, bfCount, added, runs, ppc, pe, tpc, tmo, n, hold, progVars>>

TypeOK ==
    /\ aq \in Seq(Entries) /\ Len(aq) <= QCap /\ bf \in Seq(Entries)
    /\ bfCount \in 0..Cardinality(Entries)
    /\ added \subseteq Entries /\ runs \in [Entries -> 0..2]
    /\ ppc \in [Producers -> {"idle", "push", "backfill", "signal", "notify"}]
    /\ pe \in [Producers -> Entries \cup {NoEntry}]
    /\ tpc \in [Triggers -> {"idle", "pop", "bflock", "waitchk", "wait", "run"}]
    /\ tmo \in [Triggers -> Timeouts] /\ n \in [Triggers -> 0..MaxCount]
    /\ hold \in [Triggers -> Entries \cup {NoEntry}]
    /\ mustNotify \in BOOLEAN /\ event \in 0..Cardinality(Entries)
    /\ qpc \in [Progressors -> {"idle", "arm", "poll", "wait", "clear",
                                 "events", "check"}]
    /\ qtmo \in [Progressors -> Timeouts]
    /\ qev \in [Progressors -> {"none", "loopback", "na"}]
    /\ qprog \in [Progressors -> BOOLEAN]

Init ==
    /\ aq = <<>> /\ bf = <<>> /\ bfCount = 0 /\ added = {}
    /\ runs = [e \in Entries |-> 0]
    /\ ppc = [p \in Producers |-> "idle"] /\ pe = [p \in Producers |-> NoEntry]
    /\ tpc = [t \in Triggers |-> "idle"] /\ tmo = [t \in Triggers |-> "zero"]
    /\ n = [t \in Triggers |-> 0] /\ hold = [t \in Triggers |-> NoEntry]
    /\ mustNotify = FALSE /\ event = 0
    /\ qpc = [q \in Progressors |-> "idle"] /\ qtmo = [q \in Progressors |-> "zero"]
    /\ qev = [q \in Progressors |-> "none"] /\ qprog = [q \in Progressors |-> FALSE]

trigVars == <<tpc, tmo, n, hold>>

(***************************************************************************)
(* hg_core_completion_add.                                                 *)
(***************************************************************************)
\* An operation completes and its entry is to be added.
Produce(p, e) ==
    /\ ppc[p] = "idle" /\ e \notin added
    /\ added' = added \cup {e}
    /\ ppc' = [ppc EXCEPT ![p] = "push"] /\ pe' = [pe EXCEPT ![p] = e]
    /\ UNCHANGED <<aq, bf, bfCount, runs, trigVars, progVars>>

\* hg_atomic_queue_push, which fails when the queue is full.
Push(p) ==
    /\ ppc[p] = "push"
    /\ \/ /\ Len(aq) < QCap
          /\ aq' = Append(aq, pe[p]) /\ ppc' = [ppc EXCEPT ![p] = "signal"]
       \/ /\ Len(aq) = QCap
          /\ ppc' = [ppc EXCEPT ![p] = "backfill"] /\ UNCHANGED aq
    /\ UNCHANGED <<bf, bfCount, added, runs, pe, trigVars, progVars>>

\* Under the backfill mutex: push at the tail and increment count.
Backfill(p) ==
    /\ ppc[p] = "backfill"
    /\ bf' = Append(bf, pe[p]) /\ bfCount' = bfCount + 1
    /\ ppc' = [ppc EXCEPT ![p] = "signal"]
    /\ UNCHANGED <<aq, added, runs, pe, trigVars, progVars>>

\* Where completion_add goes after the condition signal: the loopback
\* notification, if it was called with loopback_notify.
AfterSignal == IF Loopback THEN "notify" ELSE "idle"

\* Mutation: the wake-up is forgotten.
SignalNone(p) ==
    /\ ppc[p] = "signal"
    /\ ppc' = [ppc EXCEPT ![p] = AfterSignal] /\ pe' = [pe EXCEPT ![p] = NoEntry]
    /\ UNCHANGED <<aq, bf, bfCount, added, runs, trigVars, progVars>>

\* Under the backfill mutex: hg_thread_cond_signal wakes one waiting
\* trigger, if there is one.
Signal(p) ==
    /\ ppc[p] = "signal"
    /\ LET W == {t \in Triggers : tpc[t] = "wait"} IN
       \/ W = {} /\ UNCHANGED tpc
       \/ \E t \in W : tpc' = [tpc EXCEPT ![t] = "pop"]
    /\ ppc' = [ppc EXCEPT ![p] = AfterSignal] /\ pe' = [pe EXCEPT ![p] = NoEntry]
    /\ UNCHANGED <<aq, bf, bfCount, added, runs, tmo, n, hold, progVars>>

\* Under loopback_notify.mutex: hg_event_set if must_notify is set.
Notify(p) ==
    /\ ppc[p] = "notify"
    /\ event' = IF mustNotify THEN event + 1 ELSE event
    /\ ppc' = [ppc EXCEPT ![p] = "idle"]
    /\ UNCHANGED <<aq, bf, bfCount, added, runs, pe, trigVars, mustNotify, qpc,
                   qtmo, qev, qprog>>

(***************************************************************************)
(* hg_core_trigger.                                                        *)
(***************************************************************************)
\* The application's progress loop calls HG_Core_trigger.
Call(t, tm) ==
    /\ tpc[t] = "idle"
    /\ tpc' = [tpc EXCEPT ![t] = "pop"] /\ tmo' = [tmo EXCEPT ![t] = tm]
    /\ n' = [n EXCEPT ![t] = 0]
    /\ UNCHANGED <<aq, bf, bfCount, added, runs, ppc, pe, hold, progVars>>

\* Leaving the loop: something was triggered, or the timeout is 0.
Leave(t) == tpc' = [tpc EXCEPT ![t] = "idle"]

\* Mutation: the backfill queue is locked without reading count first.
PopNoCountCheck(t) ==
    /\ tpc[t] = "pop"
    /\ \/ /\ aq # <<>>
          /\ hold' = [hold EXCEPT ![t] = Head(aq)] /\ aq' = Tail(aq)
          /\ tpc' = [tpc EXCEPT ![t] = "run"]
       \/ /\ aq = <<>>
          /\ tpc' = [tpc EXCEPT ![t] = "bflock"] /\ UNCHANGED <<aq, hold>>
    /\ UNCHANGED <<bf, bfCount, added, runs, ppc, pe, tmo, n, progVars>>

\* hg_atomic_queue_pop_mc; if nothing, the atomic read of count decides
\* between the backfill queue, leaving, and waiting.
Pop(t) ==
    /\ tpc[t] = "pop"
    /\ \/ /\ aq # <<>>
          /\ hold' = [hold EXCEPT ![t] = Head(aq)] /\ aq' = Tail(aq)
          /\ tpc' = [tpc EXCEPT ![t] = "run"]
       \/ /\ aq = <<>> /\ bfCount > 0
          /\ tpc' = [tpc EXCEPT ![t] = "bflock"] /\ UNCHANGED <<aq, hold>>
       \/ /\ aq = <<>> /\ bfCount <= 0 /\ (n[t] > 0 \/ tmo[t] = "zero")
          /\ Leave(t) /\ UNCHANGED <<aq, hold>>
       \/ /\ aq = <<>> /\ bfCount <= 0 /\ n[t] = 0 /\ tmo[t] # "zero"
          /\ tpc' = [tpc EXCEPT ![t] = "waitchk"] /\ UNCHANGED <<aq, hold>>
    /\ UNCHANGED <<bf, bfCount, added, runs, ppc, pe, tmo, n, progVars>>

\* Mutation: the backfill entry is read but HG_QUEUE_POP_HEAD is left out.
BfLockPeek(t) ==
    /\ tpc[t] = "bflock"
    /\ hold' = [hold EXCEPT ![t] = IF bf = <<>> THEN NoEntry ELSE Head(bf)]
    /\ bfCount' = bfCount - 1
    /\ tpc' = [tpc EXCEPT ![t] = IF bf = <<>> THEN "pop" ELSE "run"]
    /\ UNCHANGED <<aq, bf, added, runs, ppc, pe, tmo, n, progVars>>

\* Under the backfill mutex: HG_QUEUE_FIRST, HG_QUEUE_POP_HEAD and the
\* decrement of count -- also when the queue turned out empty, in which
\* case the loop continues.
BfLock(t) ==
    /\ tpc[t] = "bflock"
    /\ hold' = [hold EXCEPT ![t] = IF bf = <<>> THEN NoEntry ELSE Head(bf)]
    /\ bf' = IF bf = <<>> THEN bf ELSE Tail(bf)
    /\ bfCount' = bfCount - 1
    /\ tpc' = [tpc EXCEPT ![t] = IF bf = <<>> THEN "pop" ELSE "run"]
    /\ UNCHANGED <<aq, added, runs, ppc, pe, tmo, n, progVars>>

\* Mutation: only the atomic queue is checked before waiting.
WaitChkAtomicOnly(t) ==
    /\ tpc[t] = "waitchk"
    /\ tpc' = [tpc EXCEPT ![t] = IF aq = <<>> THEN "wait" ELSE "pop"]
    /\ UNCHANGED <<aq, bf, bfCount, added, runs, ppc, pe, tmo, n, hold, progVars>>

\* Under the backfill mutex: wait on the condition only if both queues are
\* still empty (count == 0), else retry.
WaitChk(t) ==
    /\ tpc[t] = "waitchk"
    /\ tpc' = [tpc EXCEPT ![t] = IF aq = <<>> /\ bfCount = 0 THEN "wait"
                                                             ELSE "pop"]
    /\ UNCHANGED <<aq, bf, bfCount, added, runs, ppc, pe, tmo, n, hold, progVars>>

\* hg_thread_cond_timedwait times out: HG_TIMEOUT, leave.
WaitTimeout(t) ==
    /\ tpc[t] = "wait" /\ tmo[t] = "finite"
    /\ Leave(t)
    /\ UNCHANGED <<aq, bf, bfCount, added, runs, ppc, pe, tmo, n, hold, progVars>>

\* The switch on op_type runs the entry's trigger function; count++ and
\* the loop goes on while count < max_count.
Run(t) ==
    /\ tpc[t] = "run"
    /\ runs' = [runs EXCEPT ![hold[t]] = @ + 1]
    /\ n' = [n EXCEPT ![t] = @ + 1]
    /\ tpc' = [tpc EXCEPT ![t] = IF n[t] + 1 < MaxCount THEN "pop" ELSE "idle"]
    /\ hold' = [hold EXCEPT ![t] = NoEntry]
    /\ UNCHANGED <<aq, bf, bfCount, added, ppc, pe, tmo, progVars>>

(***************************************************************************)
(* hg_core_progress on a context with a poll set and a loopback event.     *)
(***************************************************************************)
\* Something sits in the completion queues, as hg_core_progress and
\* hg_core_poll_try_wait read it: the atomic queue or the atomic count.
Queued == aq # <<>> \/ bfCount > 0

\* HG_Core_progress: a zero timeout skips the notification protocol.
ProgressCall(q, tm) ==
    /\ qpc[q] = "idle"
    /\ qpc' = [qpc EXCEPT ![q] = IF tm = "zero" THEN "poll" ELSE "arm"]
    /\ qtmo' = [qtmo EXCEPT ![q] = tm]
    /\ UNCHANGED <<aq, bf, bfCount, added, runs, ppc, pe, trigVars, mustNotify,
                   event, qev, qprog>>

\* Mutation: hg_core_poll_try_wait checks only the atomic queue.
ArmAtomicOnly(q) ==
    /\ qpc[q] = "arm"
    /\ \E naIdle \in BOOLEAN :
         IF aq = <<>> /\ naIdle
         THEN mustNotify' = TRUE /\ qpc' = [qpc EXCEPT ![q] = "wait"]
         ELSE qpc' = [qpc EXCEPT ![q] = "poll"] /\ UNCHANGED mustNotify
    /\ UNCHANGED <<aq, bf, bfCount, added, runs, ppc, pe, trigVars, event,
                   qtmo, qev, qprog>>

Arm(q) ==
    /\ qpc[q] = "arm"
    /\ \E naIdle \in BOOLEAN :
         IF ~Queued /\ naIdle
         THEN mustNotify' = TRUE /\ qpc' = [qpc EXCEPT ![q] = "wait"]
         ELSE qpc' = [qpc EXCEPT ![q] = "poll"] /\ UNCHANGED mustNotify
    /\ UNCHANGED <<aq, bf, bfCount, added, runs, ppc, pe, trigVars, event,
                   qtmo, qev, qprog>>

\* hg_core_poll: hg_core_progress_na with timeout 0 triggers what NA has
\* completed, if anything.
Poll(q) ==
    /\ qpc[q] = "poll"
    /\ \E p \in BOOLEAN : qprog' = [qprog EXCEPT ![q] = p]
    /\ qpc' = [qpc EXCEPT ![q] = "check"]
    /\ UNCHANGED <<aq, bf, bfCount, added, runs, ppc, pe, trigVars, mustNotify,
                   event, qtmo, qev>>

\* hg_poll_wait returns: the loopback event is readable, the NA fd is
\* readable, or a finite timeout expired (no event).
PollWaitReturn(q, ev) ==
    /\ qpc[q] = "wait"
    /\ qpc' = [qpc EXCEPT ![q] = "clear"] /\ qev' = [qev EXCEPT ![q] = ev]
    /\ UNCHANGED <<aq, bf, bfCount, added, runs, ppc, pe, trigVars, mustNotify,
                   event, qtmo, qprog>>

WakeLoopback(q) == event > 0 /\ PollWaitReturn(q, "loopback")

WakeNa(q) == PollWaitReturn(q, "na")

PollWaitTimeout(q) == qtmo[q] = "finite" /\ PollWaitReturn(q, "none")

\* After hg_poll_wait, without the mutex: must_notify = 0.
ClearNotify(q) ==
    /\ qpc[q] = "clear"
    /\ mustNotify' = FALSE /\ qpc' = [qpc EXCEPT ![q] = "events"]
    /\ UNCHANGED <<aq, bf, bfCount, added, runs, ppc, pe, trigVars, event,
                   qtmo, qev, qprog>>

\* The events loop: hg_event_get on the loopback event (progressed if it
\* read a count), or hg_core_progress_na for the NA fd.
Events(q) ==
    /\ qpc[q] = "events"
    /\ \/ qev[q] = "loopback" /\ qprog' = [qprog EXCEPT ![q] = event > 0]
          /\ event' = IF event > 0 THEN event - 1 ELSE 0
       \/ qev[q] = "na" /\ \E p \in BOOLEAN : qprog' = [qprog EXCEPT ![q] = p]
          /\ UNCHANGED event
       \/ qev[q] = "none" /\ UNCHANGED <<event, qprog>>
    /\ qpc' = [qpc EXCEPT ![q] = "check"]
    /\ UNCHANGED <<aq, bf, bfCount, added, runs, ppc, pe, trigVars, mustNotify,
                   qtmo, qev>>

\* Return HG_SUCCESS if progressed or something is queued; otherwise loop
\* until the deadline: never with timeout 0, maybe with a finite one,
\* always with one no event outlasts.  The locals (timeout, poll event,
\* progressed) end with the call or the loop iteration.
Check(q) ==
    /\ qpc[q] = "check"
    /\ LET done == qprog[q] \/ Queued
           next == CASE done                  -> {"idle"}
                     [] qtmo[q] = "zero"   -> {"idle"}
                     [] qtmo[q] = "finite" -> {"idle", "arm"}
                     [] qtmo[q] = "block"  -> {"arm"}
       IN \E pc \in next :
            /\ qpc' = [qpc EXCEPT ![q] = pc]
            /\ qtmo' = [qtmo EXCEPT ![q] = IF pc = "idle" THEN "zero" ELSE @]
    /\ qev' = [qev EXCEPT ![q] = "none"] /\ qprog' = [qprog EXCEPT ![q] = FALSE]
    /\ UNCHANGED <<aq, bf, bfCount, added, runs, ppc, pe, trigVars, mustNotify,
                   event>>

\* The steps of a progress thread inside hg_core_progress, except the
\* NA fd waking it, which depends on the network.
ProgressStep(q) ==
    \/ Arm(q) \/ Poll(q) \/ WakeLoopback(q) \/ PollWaitTimeout(q)
    \/ ClearNotify(q) \/ Events(q) \/ Check(q)

\* Every operation has completed and been added; the triggers go on
\* calling (or block waiting).
Quiet ==
    /\ added = Entries /\ \A p \in Producers : ppc[p] = "idle"
    /\ UNCHANGED vars

ProducerStep(p) == Push(p) \/ Backfill(p) \/ Signal(p) \/ Notify(p)

TriggerStep(t) ==
    \/ \E tm \in Timeouts : Call(t, tm)
    \/ Pop(t) \/ BfLock(t) \/ WaitChk(t) \/ WaitTimeout(t) \/ Run(t)

Next ==
    \/ \E p \in Producers : ProducerStep(p) \/ \E e \in Entries : Produce(p, e)
    \/ \E t \in Triggers : TriggerStep(t)
    \/ \E q \in Progressors : \/ \E tm \in Timeouts : ProgressCall(q, tm)
                              \/ ProgressStep(q) \/ WakeNa(q)
    \/ Quiet

\* Producers finish hg_core_completion_add; trigger threads keep calling
\* HG_Core_trigger and finish their steps; time passes for a finite wait.
\* A progress thread inside hg_core_progress finishes its steps, and a
\* readable loopback event ends its hg_poll_wait; it need not call again,
\* and neither operations nor the network need complete.
Spec == Init /\ [][Next]_vars
        /\ \A p \in Producers : WF_vars(ProducerStep(p))
        /\ \A t \in Triggers : WF_vars(TriggerStep(t))
        /\ \A q \in Progressors : WF_vars(ProgressStep(q))

-----------------------------------------------------------------------------
(***************************************************************************)
(* backfill_queue->count, which hg_core_trigger reads without the mutex to *)
(* decide whether to look at the backfill queue and whether to wait, is    *)
(* the length of the backfill queue.                                       *)
(***************************************************************************)
BackfillCounted == bfCount = Len(bf)

(***************************************************************************)
(* Every completed operation's entry is eventually triggered: no trigger   *)
(* waits on backfill_queue->cond while an entry sits in either queue.      *)
(***************************************************************************)
EntriesTriggered == \A e \in Entries : (e \in added) ~> (runs[e] > 0)

(***************************************************************************)
(* The queue implements HgCompletionSet: an entry is in the set from its   *)
(* push until a trigger runs it, and runs once.                            *)
(***************************************************************************)
Abstract == INSTANCE HgCompletionSet
    WITH queued <- ToSet(aq) \cup ToSet(bf)
                   \cup {hold[t] : t \in {u \in Triggers : tpc[u] = "run"}},
         ran <- {e \in Entries : runs[e] > 0}

RefinesCompletionSet == Abstract!Spec

WaitersWoken ==
    \A q \in Progressors :
        (qpc[q] = "wait" /\ qtmo[q] = "block" /\ (aq # <<>> \/ bf # <<>>))
            ~> qpc[q] # "wait"
=============================================================================
