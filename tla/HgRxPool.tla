------------------------------- MODULE HgRxPool -------------------------------
(***************************************************************************)
(* The UCX receive descriptor pool of the wireup code (na/wireup/rxpool.c). *)
(* rxpool_init posts NDescs tagged receives, descriptor i with buffer      *)
(* InitLen; UCX matches an arriving message with the first posted receive  *)
(* and runs rxdesc_callback, which records the status (OK, or TRUNCATED    *)
(* when the message is longer than the buffer) and pushes the descriptor   *)
(* on the "complete" FIFO (an hg_atomic_queue of qlen slots).  The caller  *)
(* pops it with rxpool_next and gives it back with rxdesc_release, which   *)
(* reposts it.  A truncated descriptor makes rxpool_next_slow raise the    *)
(* pool's buffer length with the user's next_buflen and cancel every      *)
(* shorter posted receive, so that it comes back CANCELED and is reposted  *)
(* with the longer buffer.                                                 *)
(*                                                                         *)
(* ucp_request_cancel completes a receive UCX still matches in software at *)
(* once, by running the callback; one offloaded to the transport completes *)
(* later, from ucp_worker_progress: both are possible for every cancel.    *)
(* UCX callbacks (message arrival, a deferred cancel) are atomic steps     *)
(* that interleave with the caller's; the caller is one thread, as the     *)
(* comment of rxpool_next asks, so rxpool_next and rxdesc_release do not   *)
(* overlap.  Each pass of the rxpool_next_slow loop is one step.  Buffers  *)
(* are abstracted to their lengths; a failing malloc is a choice.          *)
(***************************************************************************)
EXTENDS Integers, Sequences, SequencesExt, FiniteSets

CONSTANTS
    NDescs,          \* nelts of rxpool_init
    InitLen,         \* next_buflen(0), the first buffer length
    NextBuflen(_),   \* the user's next_buflen
    MsgLens,         \* lengths of the messages peers send
    MaxMsgs,         \* bound on the messages that arrive
    MallocMayFail,   \* malloc of a new buffer may fail
    SizeWidth        \* bits of size_t for roundup_to_power_of_2

ASSUME NDescs \in Nat \ {0} /\ InitLen \in Nat \ {0} /\ MaxMsgs \in Nat
ASSUME MsgLens \subseteq Nat \ {0} /\ MallocMayFail \in BOOLEAN
ASSUME SizeWidth \in Nat \ {0}

Descs == 1..NDescs

SizeMax == 2^SizeWidth - 1

\* The loop of roundup_to_power_of_2: double y while it is below x and
\* doubling does not overflow size_t.
RECURSIVE RoundupLoop(_, _)
RoundupLoop(x, y) ==
    IF y < x /\ SizeMax - y >= y THEN RoundupLoop(x, y + y) ELSE y

\* roundup_to_power_of_2: the least power of 2 >= x, or 0 if it does not fit.
RoundupToPow2(x) == LET y == RoundupLoop(x, 1) IN IF y < x THEN 0 ELSE y

\* Mutation: round nelts up instead of nelts + 1.
QLenNoSlot == RoundupToPow2(NDescs % (SizeMax + 1))

\* qlen of rxpool_init: hg_atomic_queue_alloc(qlen) holds qlen - 1 entries.
QLen == RoundupToPow2((NDescs + 1) % (SizeMax + 1))

ASSUME QLen # 0   \* rxpool_init returns NULL otherwise

\* alldesc: each descriptor inserted at the head as it is created.
AllDesc == [i \in Descs |-> NDescs + 1 - i]

\* desc->status: not completed yet, UCS_OK, UCS_ERR_MESSAGE_TRUNCATED,
\* UCS_ERR_CANCELED.  rxdesc_callback stores any other UCS error as it
\* stores UCS_OK but for rxlen and sender_tag (rxpool.c:36), and rxpool_next
\* returns it to the caller as it returns UCS_OK (rxpool.c:240-242): the
\* pool treats the two alike, so "ok" stands for both.
Statuses == {"none", "ok", "trunc", "cancel"}

VARIABLES
    posted,      \* receives UCX holds (ucx_owns), in posting order
    cancelling,  \* posted receives whose cancel has not completed yet
    complete,    \* the complete FIFO
    held,        \* descriptors rxpool_next returned, not yet released
    status,      \* desc->status
    buflen,      \* desc->buflen
    initbuflen,  \* rxpool->initbuflen
    failed,      \* descriptors whose last buffer allocation failed
    pc,          \* "slow" while the caller is in rxpool_next_slow
    head,        \* its head descriptor
    nb,          \* its local nbuflen
    sent         \* messages that arrived

vars == <<posted, cancelling, complete, held, status, buflen, initbuflen,
          failed, pc, head, nb, sent>>

\* The buffer lengths next_buflen leads to from InitLen (it must reach a
\* length it does not increase).
RECURSIVE LenChain(_)
LenChain(l) == IF NextBuflen(l) = l THEN {l} ELSE {l} \cup LenChain(NextBuflen(l))

Lens == LenChain(InitLen)

TypeOK ==
    /\ posted \in Seq(Descs) /\ complete \in Seq(Descs)
    /\ cancelling \subseteq Descs /\ held \subseteq Descs
    /\ failed \subseteq Descs
    /\ status \in [Descs -> Statuses] /\ buflen \in [Descs -> Lens]
    /\ initbuflen \in Lens /\ nb \in Lens
    /\ pc \in {"idle", "slow"}
    /\ head \in IF pc = "slow" THEN Descs ELSE {0}
    /\ sent \in 0..MaxMsgs

\* rxpool_init: every descriptor gets an InitLen buffer and is posted by
\* rxdesc_setup, in creation order.
Init ==
    /\ posted = [i \in Descs |-> i]
    /\ cancelling = {} /\ complete = <<>> /\ held = {} /\ failed = {}
    /\ status = [d \in Descs |-> "none"]
    /\ buflen = [d \in Descs |-> InitLen]
    /\ initbuflen = InitLen
    /\ pc = "idle" /\ head = 0 /\ nb = InitLen
    /\ sent = 0

\* A message arrives and matches the first posted receive; rxdesc_callback
\* records its status and pushes the descriptor.
Arrive ==
    /\ sent < MaxMsgs /\ posted # <<>>
    /\ \E len \in MsgLens :
         LET d == Head(posted) IN
         /\ status' = [status EXCEPT ![d] =
                         IF len <= buflen[d] THEN "ok" ELSE "trunc"]
         /\ complete' = Append(complete, d)
         /\ posted' = Tail(posted)
         /\ cancelling' = cancelling \ {d}
    /\ sent' = sent + 1
    /\ UNCHANGED <<held, buflen, initbuflen, failed, pc, head, nb>>

\* A deferred cancel completes: rxdesc_callback with UCS_ERR_CANCELED.
CancelDone(d) ==
    /\ d \in cancelling
    /\ status' = [status EXCEPT ![d] = "cancel"]
    /\ complete' = Append(complete, d)
    /\ posted' = Remove(posted, d)
    /\ cancelling' = cancelling \ {d}
    /\ UNCHANGED <<held, buflen, initbuflen, failed, pc, head, nb, sent>>

\* Mutation: only a truncated descriptor takes the slow path.
RxpoolNextTruncOnly ==
    /\ pc = "idle" /\ complete # <<>>
    /\ complete' = Tail(complete)
    /\ LET d == Head(complete) IN
         IF status[d] = "trunc"
           THEN /\ pc' = "slow" /\ head' = d /\ nb' = initbuflen
                /\ UNCHANGED held
           ELSE /\ held' = held \cup {d}
                /\ UNCHANGED <<pc, head, nb>>
    /\ UNCHANGED <<posted, cancelling, status, buflen, initbuflen, failed,
                   sent>>

\* rxpool_next: pop the FIFO (an empty one returns NULL and changes
\* nothing); an OK descriptor goes to the caller, a truncated or canceled
\* one to rxpool_next_slow with nbuflen = initbuflen.
RxpoolNext ==
    /\ pc = "idle" /\ complete # <<>>
    /\ complete' = Tail(complete)
    /\ LET d == Head(complete) IN
         IF status[d] \in {"trunc", "cancel"}
           THEN /\ pc' = "slow" /\ head' = d /\ nb' = initbuflen
                /\ UNCHANGED held
           ELSE /\ held' = held \cup {d}
                /\ UNCHANGED <<pc, head, nb>>
    /\ UNCHANGED <<posted, cancelling, status, buflen, initbuflen, failed,
                   sent>>

(***************************************************************************)
(* rxpool_next_slow, one pass of its do-while loop per step.               *)
(***************************************************************************)

\* The head is truncated although its buffer has the loop's nbuflen: call
\* rxpool_buflen_step.
Grows == status[head] = "trunc" /\ buflen[head] >= nb

\* rxpool_buflen_step's new pool length: next_buflen(buflen) if the head
\* has the pool's length.
StepLen == IF buflen[head] >= initbuflen THEN NextBuflen(buflen[head])
                                         ELSE initbuflen

\* The buffer length this pass allocates.
NewLen == IF Grows THEN StepLen ELSE nb

\* Mutation: the cancel loop compares with the head's old length.
ShortOld(n) == {d \in ToSet(posted) \ {head} : buflen[d] < buflen[head]}

\* The cancel loop of rxpool_buflen_step: every other descriptor UCX owns
\* whose buffer is shorter than n.
ShortPosted(n) == {d \in ToSet(posted) \ {head} : buflen[d] < n}

\* What the pass cancels: nothing unless the length grew.
Victims == IF Grows /\ StepLen # buflen[head] THEN ShortPosted(StepLen) ELSE {}

\* ucp_request_cancel of the victims; those in now complete at once, their
\* callbacks pushing them CANCELED in alldesc order.
CancelNow(now) ==
    /\ cancelling' = (cancelling \cup Victims) \ now
    /\ status' = [d \in Descs |-> IF d \in now THEN "cancel" ELSE status[d]]

PostedAfter(now) == SelectSeq(posted, LAMBDA d : d \notin now)

CompleteAfter(now) == complete \o SelectSeq(AllDesc, LAMBDA d : d \in now)

\* The loop ends and returns the head to the caller.
ReturnHead ==
    /\ held' = held \cup {head}
    /\ pc' = "idle" /\ head' = 0

\* rxpool_buflen_step cannot increase the length: break, the caller gets
\* the truncated head.
SlowCannotGrow ==
    /\ pc = "slow" /\ Grows /\ StepLen = buflen[head]
    /\ initbuflen' = StepLen
    /\ ReturnHead
    /\ UNCHANGED <<posted, cancelling, complete, status, buflen, failed, nb,
                   sent>>

\* Mutation: a failed malloc ends the loop returning NULL.
SlowMallocFailDrop ==
    /\ pc = "slow" /\ MallocMayFail /\ ~(Grows /\ StepLen = buflen[head])
    /\ initbuflen' = IF Grows THEN StepLen ELSE initbuflen
    /\ \E now \in SUBSET Victims :
         /\ CancelNow(now)
         /\ posted' = PostedAfter(now) /\ complete' = CompleteAfter(now)
    /\ pc' = "idle" /\ head' = 0
    /\ UNCHANGED <<held, buflen, failed, nb, sent>>

\* malloc of the new buffer fails: break, the caller gets the head with
\* its error status.
SlowMallocFail ==
    /\ pc = "slow" /\ MallocMayFail /\ ~(Grows /\ StepLen = buflen[head])
    /\ initbuflen' = IF Grows THEN StepLen ELSE initbuflen
    /\ \E now \in SUBSET Victims :
         /\ CancelNow(now)
         /\ posted' = PostedAfter(now) /\ complete' = CompleteAfter(now)
    /\ ReturnHead
    /\ failed' = failed \cup {head}
    /\ UNCHANGED <<buflen, nb, sent>>

\* Mutation: the loop goes on with the NULL an empty FIFO gives.
PopNextNoNull(fifo, st) ==
    IF fifo = <<>>
      THEN /\ complete' = fifo /\ head' = 0 /\ UNCHANGED <<pc, held>>
      ELSE /\ complete' = Tail(fifo)
           /\ IF st[Head(fifo)] \in {"trunc", "cancel"}
                THEN /\ head' = Head(fifo) /\ UNCHANGED <<pc, held>>
                ELSE /\ held' = held \cup {Head(fifo)}
                     /\ pc' = "idle" /\ head' = 0

\* The loop condition: pop the FIFO (statuses st); NULL ends the loop and
\* is returned, an OK descriptor is returned, a truncated or canceled one
\* is the next head.
PopNext(fifo, st) ==
    IF fifo = <<>>
      THEN /\ complete' = fifo /\ pc' = "idle" /\ head' = 0
           /\ UNCHANGED held
      ELSE /\ complete' = Tail(fifo)
           /\ IF st[Head(fifo)] \in {"trunc", "cancel"}
                THEN /\ head' = Head(fifo) /\ UNCHANGED <<pc, held>>
                ELSE /\ held' = held \cup {Head(fifo)}
                     /\ pc' = "idle" /\ head' = 0

\* rxdesc_setup reposts the head with a new buffer of NewLen, then
\* the loop pops the next descriptor.
SlowRepost ==
    /\ pc = "slow" /\ ~(Grows /\ StepLen = buflen[head])
    /\ initbuflen' = IF Grows THEN StepLen ELSE initbuflen
    /\ buflen' = [buflen EXCEPT ![head] = NewLen]
    /\ failed' = failed \ {head}
    /\ nb' = NewLen
    /\ \E now \in SUBSET Victims :
         LET st == [d \in Descs |-> IF d \in now THEN "cancel" ELSE status[d]]
             fifo == CompleteAfter(now)
         IN
         /\ CancelNow(now)
         /\ posted' = Append(PostedAfter(now), head)
         /\ PopNext(fifo, st)
    /\ UNCHANGED sent

SlowStep == SlowCannotGrow \/ SlowMallocFail \/ SlowRepost

(***************************************************************************)
(* rxdesc_release.                                                         *)
(***************************************************************************)

MallocOutcomes == IF MallocMayFail THEN BOOLEAN ELSE {TRUE}

\* The caller gives back d: a buffer shorter than initbuflen is replaced
\* by one of initbuflen unless malloc fails, then rxdesc_setup reposts it.
Release(d, mallocOk) ==
    /\ pc = "idle" /\ d \in held
    /\ LET grow == initbuflen > buflen[d] IN
       /\ buflen' = [buflen EXCEPT ![d] = IF grow /\ mallocOk THEN initbuflen
                                                              ELSE @]
       /\ failed' = IF grow /\ ~mallocOk THEN failed \cup {d}
                                         ELSE failed \ {d}
    /\ posted' = Append(posted, d)
    /\ held' = held \ {d}
    /\ UNCHANGED <<cancelling, complete, status, initbuflen, pc, head, nb,
                   sent>>

ReleaseAny(d) == \E ok \in MallocOutcomes : Release(d, ok)

Caller == RxpoolNext \/ SlowStep \/ \E d \in Descs : ReleaseAny(d)

Ucx == Arrive \/ \E d \in Descs : CancelDone(d)

Next == Caller \/ Ucx

\* The caller keeps polling rxpool_next and releases what it got; UCX
\* progress completes every deferred cancel.  Messages need not arrive.
Spec ==
    /\ Init /\ [][Next]_vars
    /\ WF_vars(RxpoolNext) /\ WF_vars(SlowStep)
    /\ \A d \in Descs : WF_vars(ReleaseAny(d)) /\ WF_vars(CancelDone(d))

(***************************************************************************)
(* Properties.                                                             *)
(***************************************************************************)

\* rxdesc_callback's hg_atomic_queue_push never finds the complete FIFO
\* full (it would errx): the qlen rxpool_init computed leaves room for
\* every descriptor, whatever order completions, cancels and reposts take.
QueueHasRoom == Len(complete) <= QLen - 1

\* Every descriptor is in exactly one place: posted to UCX, in the
\* complete FIFO, with the caller, or the head of rxpool_next_slow; a
\* pending cancel is of a posted receive.
DescsAccounted ==
    LET places == <<ToSet(posted), ToSet(complete), held,
                    IF pc = "slow" THEN {head} ELSE {}>>
    IN /\ IsInjective(posted) /\ IsInjective(complete)
       /\ cancelling \subseteq ToSet(posted)
       /\ \A d \in Descs : Cardinality({i \in 1..4 : d \in places[i]}) = 1

\* rxpool_next gives the caller a truncated or canceled descriptor only
\* when rxpool_next_slow could not repost it: its length cannot grow, or
\* the allocation of its new buffer failed.
FailedOnlyWhenStuck ==
    \A d \in held :
        \/ status[d] = "ok"
        \/ d \in failed
        \/ status[d] = "trunc" /\ NextBuflen(buflen[d]) = buflen[d]

\* Once the pool's length is n, every descriptor eventually has a buffer
\* of at least n unless an allocation for it failed: rxpool_buflen_step
\* cancels the short ones UCX holds and rxpool_next_slow reposts them,
\* rxdesc_release enlarges those the caller had.
PoolGrows ==
    \A n \in Lens :
        initbuflen = n ~> \A d \in Descs : buflen[d] >= n \/ d \in failed
=============================================================================
