----------------------------- MODULE HgMultiRecv -----------------------------
(***************************************************************************)
(* Multi-recv buffers of a listening context (mercury_core.c) composed     *)
(* with the handle pool they draw handles from (HgHandlePool).             *)
(*                                                                         *)
(* Each buffer is posted once with NA_Msg_multi_recv_unexpected and        *)
(* receives several requests; the NA callback of the last one reports      *)
(* "last".  For every request hg_core_multi_recv_input_cb takes a handle   *)
(* from the pool, points its input at the buffer, sets the buffer's        *)
(* "last" flag and decrements multi_recv_op_count on the last request,     *)
(* and only then increments the buffer's ref_count.  A handle gives its    *)
(* reference back in HG_Core_release_input or when hg_core_destroy resets  *)
(* it (hg_core_reset_post); the release that brings ref_count to 0 on a   *)
(* "last" buffer reposts it (hg_core_post_multi: last, ref_count reset,    *)
(* multi_recv_op_count++).  A handle freed while the context is            *)
(* finalizing drops its reference in hg_core_free_na without reposting.    *)
(* Context destroy cancels the posted buffers and loops on progress and    *)
(* trigger until multi_recv_op_count is 0, then destroys the pool.         *)
(*                                                                         *)
(* The bytes of a request are abstracted to the buffer's generation: a     *)
(* repost starts a new generation, and a handle remembers the generation   *)
(* its input was received in.  The RPC layer between the callback and      *)
(* hg_core_destroy (process_input, complete_op, trigger, the handler) is   *)
(* one state of the handle, modelled in HgCoreTarget.                      *)
(***************************************************************************)
EXTENDS Integers, FiniteSets, Sequences, SequencesExt

CONSTANTS
    Bufs,          \* multi_recv_ops[0..HG_CORE_MULTI_RECV_OP_MAX-1]
    NoBuf,         \* multi_recv_op == NULL
    CbThreads,     \* threads running NA callbacks (progress)
    InitCount, IncrCount, MaxHandles,
    MaxMsgs,       \* requests received in a behaviour
    MaxPerPost,    \* requests that fit in one posted buffer
    UserRelease,   \* the RPC layer calls HG_Core_release_input
    AllocMayFail,  \* hg_core_create may fail before memory runs out ...
    LastAllocMayFail, \* ... also for the last request of a buffer
    RepostMayFail, \* NA_Msg_multi_recv_unexpected may fail on a repost
    ReleaseDuringFinalize, \* ... also from handlers triggered by context destroy
    SerialHandlers \* one thread calls progress and trigger: handlers and
                   \* NA callbacks never overlap

ASSUME NoBuf \notin Bufs /\ MaxPerPost \in Nat \ {0} /\ MaxMsgs \in Nat
ASSUME SerialHandlers => Cardinality(CbThreads) = 1

VARIABLES
    pending, created, extending, gpc, made, got,   \* the handle pool
    mr,          \* per buffer: posted, cancel, last, ref, gen, inPost, lost
    opCount,     \* context->multi_recv_op_count
    cb,          \* per callback thread: pc, buffer, last flag, generation
    hst,         \* per handle: "idle", "cb" (callback), "input" (RPC layer), "freed"
    hbuf,        \* per handle: hg_core_handle->multi_recv_op
    hgen,        \* per handle: generation of the buffer its input is in
    msgs,        \* requests received so far
    finalizing,  \* context->finalizing
    zeroed,      \* per buffer: releasers that brought ref_count to 0 and
                 \* have yet to read "last"
    reposting,   \* per buffer: releasers that read "last" set and have yet
                 \* to call hg_core_post_multi
    unpost       \* hg_core_context_unpost: "none", "wait" (multi-recv loop), "done"

Pool == INSTANCE HgHandlePool WITH Getters <- CbThreads

\* The fault model: hg_core_create may fail for the request of thread t.
AllocFails(t) == AllocMayFail /\ (cb[t].last => LastAllocMayFail)

vars == <<pending, created, extending, gpc, made, got, mr, opCount, cb, hst,
          hbuf, hgen, msgs, finalizing, unpost, zeroed, reposting>>

Handles == Pool!Handles

TypeOK ==
    /\ Pool!PoolTypeOK
    /\ mr \in [Bufs -> [posted : BOOLEAN, cancel : BOOLEAN, last : BOOLEAN,
                       ref : -MaxHandles..MaxHandles, gen : 1..MaxMsgs + 1,
                       inPost : 0..MaxPerPost, lost : BOOLEAN]]
    /\ opCount \in 0..Cardinality(Bufs)
    /\ cb \in [CbThreads -> [pc : {"idle", "get", "got"},
                             b : Bufs \cup {NoBuf}, last : BOOLEAN,
                             g : 0..MaxMsgs + 1]]
    /\ hst \in [Handles -> {"idle", "cb", "input", "freed"}]
    /\ hbuf \in [Handles -> Bufs \cup {NoBuf}]
    /\ hgen \in [Handles -> 0..MaxMsgs + 1]
    /\ msgs \in 0..MaxMsgs /\ finalizing \in BOOLEAN
    /\ unpost \in {"none", "wait", "done"}
    /\ zeroed \in [Bufs -> 0..MaxHandles] /\ reposting \in [Bufs -> 0..MaxHandles]

(***************************************************************************)
(* Buffers.                                                                *)
(***************************************************************************)
\* hg_core_post_multi: last, ref_count and op_count reset, the buffer posted
\* again (a new generation of requests).
PostMulti(r) ==
    [r EXCEPT !.posted = TRUE, !.cancel = FALSE, !.last = FALSE, !.ref = 0,
              !.gen = @ + 1, !.inPost = 0]

\* hg_core_post_multi whose NA_Msg_multi_recv_unexpected fails: last and
\* ref_count are reset, the buffer is not posted, and its caller only
\* logs the error, so nothing posts the buffer again.
FailedPost(r) == [r EXCEPT !.last = FALSE, !.ref = 0, !.inPost = 0, !.lost = TRUE]

\* hg_core_post_multi of a buffer another releaser has posted already:
\* last and ref_count are reset, then NA either rejects the op ID that
\* has not completed (NA plugins are outside this repository) and the
\* error is only logged, or posts it again.
BusyPost(r) == [r EXCEPT !.last = FALSE, !.ref = 0]

\* The repost of a released buffer r: posted and counted in
\* multi_recv_op_count, or (fault model) failed and not counted.
Repost(b, r) ==
    \/ mr' = [mr EXCEPT ![b] = PostMulti(r)] /\ opCount' = opCount + 1
    \/ RepostMayFail /\ ~r.posted /\ mr' = [mr EXCEPT ![b] = FailedPost(r)]
       /\ UNCHANGED opCount
    \/ r.posted /\ mr' = [mr EXCEPT ![b] = BusyPost(r)] /\ UNCHANGED opCount

\* Mutation: the repost test reads ref_count before the decrement.
ReleaseBufOld(b) ==
    /\ mr' = [mr EXCEPT ![b].ref = @ - 1]
    /\ zeroed' = IF mr[b].ref = 0 THEN [zeroed EXCEPT ![b] = @ + 1] ELSE zeroed

\* The release of hg_core_release_input and hg_core_reset_post, first
\* half: hg_atomic_decr32(&ref_count); a thread that brings it to 0 goes on
\* to read "last" in a separate atomic (ReleaseLast).
ReleaseBuf(b) ==
    /\ mr' = [mr EXCEPT ![b].ref = @ - 1]
    /\ zeroed' = IF mr[b].ref - 1 = 0 THEN [zeroed EXCEPT ![b] = @ + 1]
                                     ELSE zeroed

\* Second step: hg_atomic_get32(&last) after the decrement returned 0.
\* Callbacks and other releases may have run since the decrement.
ReleaseLast(b) ==
    /\ zeroed[b] > 0
    /\ zeroed' = [zeroed EXCEPT ![b] = @ - 1]
    /\ reposting' = IF mr[b].last THEN [reposting EXCEPT ![b] = @ + 1]
                                 ELSE reposting
    /\ UNCHANGED <<pending, created, extending, gpc, made, got, mr, opCount,
                   cb, hst, hbuf, hgen, msgs, finalizing, unpost>>

\* Last step, with "last" seen set: hg_core_post_multi (last and ref_count
\* reset, the buffer posted), then multi_recv_op_count incremented.
ReleaseRepost(b) ==
    /\ reposting[b] > 0
    /\ reposting' = [reposting EXCEPT ![b] = @ - 1]
    /\ Repost(b, mr[b])
    /\ UNCHANGED <<pending, created, extending, gpc, made, got, cb, hst, hbuf,
                   hgen, msgs, finalizing, unpost, zeroed>>

\* A thread not running hg_core_multi_recv_input_cb.
CbIdle == [pc |-> "idle", b |-> NoBuf, last |-> FALSE, g |-> 0]

\* hg_core_context_post: the pool is created, then every buffer is posted
\* and multi_recv_op_count set to HG_CORE_MULTI_RECV_OP_MAX.
Init ==
    /\ Pool!PoolInit
    /\ mr = [b \in Bufs |-> PostMulti([posted |-> FALSE, cancel |-> FALSE,
                                      last |-> FALSE, ref |-> 0, gen |-> 0,
                                      inPost |-> 0, lost |-> FALSE])]
    /\ opCount = Cardinality(Bufs)
    /\ cb = [t \in CbThreads |-> CbIdle]
    /\ hst = [h \in Handles |-> "idle"]
    /\ hbuf = [h \in Handles |-> NoBuf]
    /\ hgen = [h \in Handles |-> 0]
    /\ msgs = 0 /\ finalizing = FALSE /\ unpost = "none"
    /\ zeroed = [b \in Bufs |-> 0] /\ reposting = [b \in Bufs |-> 0]

\* No releaser is between its decrement of ref_count and its repost.
NoReleaseRunning == \A b \in Bufs : zeroed[b] + reposting[b] = 0

\* While the context is being destroyed only the destroying thread makes
\* progress, so callbacks run one at a time; on a thread that also runs
\* the handlers, a callback starts only once a release has returned.
MayRunCallback ==
    /\ finalizing => \A u \in CbThreads : cb[u].pc = "idle"
    /\ SerialHandlers => NoReleaseRunning

\* A handler runs on a callback thread only between its callbacks, and
\* after the previous handler's release has returned.
MayRunHandler ==
    SerialHandlers => NoReleaseRunning /\ \A u \in CbThreads : cb[u].pc = "idle"

(***************************************************************************)
(* hg_core_multi_recv_input_cb.                                            *)
(***************************************************************************)
\* NA completes a request in buffer b (the last one when the buffer is
\* full, or whenever NA decides); the callback gets a handle from the pool.
Deliver(t, b) ==
    /\ cb[t].pc = "idle" /\ mr[b].posted /\ ~mr[b].cancel /\ msgs < MaxMsgs /\ MayRunCallback
    /\ \E isLast \in IF mr[b].inPost + 1 = MaxPerPost THEN {TRUE} ELSE BOOLEAN :
         /\ mr' = [mr EXCEPT ![b].posted = ~isLast, ![b].inPost = @ + 1]
         /\ cb' = [cb EXCEPT ![t] = [pc |-> "get", b |-> b, last |-> isLast,
                                     g |-> mr[b].gen]]
    /\ msgs' = msgs + 1
    /\ Pool!GetBegin(t)
    /\ UNCHANGED <<pending, created, extending, made, opCount, hst, hbuf, hgen,
                   finalizing, unpost>>
    /\ UNCHANGED <<zeroed, reposting>>

\* Mutation: "last" set and the count decremented on every request.
CbGotAlwaysLast(t) ==
    /\ cb[t].pc = "get" /\ gpc[t] = "done"
    /\ LET h == got[t]
           b == cb[t].b IN
       /\ hst' = [hst EXCEPT ![h] = "cb"]
       /\ hbuf' = [hbuf EXCEPT ![h] = b]
       /\ hgen' = [hgen EXCEPT ![h] = cb[t].g]
       /\ mr' = [mr EXCEPT ![b].last = TRUE]
       /\ opCount' = opCount - 1
    /\ cb' = [cb EXCEPT ![t].pc = "got"]
    /\ Pool!GetEnd(t)
    /\ UNCHANGED <<pending, created, extending, made, got, msgs, finalizing,
                   unpost>>
    /\ UNCHANGED <<zeroed, reposting>>

\* hg_core_handle_pool_get returned a handle: multi_recv_op set, MULTI_RECV
\* status; on the last request "last" is set and multi_recv_op_count
\* decremented -- before ref_count is taken.
CbGot(t) ==
    /\ cb[t].pc = "get" /\ gpc[t] = "done"
    /\ LET h == got[t]
           b == cb[t].b IN
       /\ hst' = [hst EXCEPT ![h] = "cb"]
       /\ hbuf' = [hbuf EXCEPT ![h] = b]
       /\ hgen' = [hgen EXCEPT ![h] = cb[t].g]
       /\ IF cb[t].last
            THEN /\ mr' = [mr EXCEPT ![b].last = TRUE]
                 /\ opCount' = opCount - 1
            ELSE UNCHANGED <<mr, opCount>>
    /\ cb' = [cb EXCEPT ![t].pc = "got"]
    /\ Pool!GetEnd(t)
    /\ UNCHANGED <<pending, created, extending, made, got, msgs, finalizing,
                   unpost>>
    /\ UNCHANGED <<zeroed, reposting>>

\* hg_core_handle_pool_get failed: the error label returns at once since no
\* handle was obtained; the request is dropped.
CbGetFail(t) ==
    /\ cb[t].pc = "get" /\ gpc[t] = "fail"
    /\ cb' = [cb EXCEPT ![t] = CbIdle]
    /\ Pool!GetEnd(t)
    /\ UNCHANGED <<pending, created, extending, made, got, mr, opCount, hst,
                   hbuf, hgen, msgs, finalizing, unpost>>
    /\ UNCHANGED <<zeroed, reposting>>

\* ref_count++, the input buffer pointed into the multi-recv buffer, then
\* hg_core_process_input and hg_core_complete_op hand the handle to the RPC
\* layer.
CbRef(t) ==
    /\ cb[t].pc = "got"
    /\ mr' = [mr EXCEPT ![cb[t].b].ref = @ + 1]
    /\ hst' = [hst EXCEPT ![got[t]] = "input"]
    /\ cb' = [cb EXCEPT ![t] = CbIdle]
    /\ UNCHANGED <<pending, created, extending, gpc, made, got, opCount, hbuf,
                   hgen, msgs, finalizing, unpost>>
    /\ UNCHANGED <<zeroed, reposting>>

\* Mutation: the NA_CANCELED branch forgets multi_recv_op_count.
CancelCbNoCount(b) ==
    /\ mr[b].posted /\ mr[b].cancel /\ MayRunCallback
    /\ mr' = [mr EXCEPT ![b].posted = FALSE]
    /\ UNCHANGED opCount
    /\ UNCHANGED <<pending, created, extending, gpc, made, got, cb, hst, hbuf,
                   hgen, msgs, finalizing, unpost>>
    /\ UNCHANGED <<zeroed, reposting>>

\* The NA_CANCELED completion of a canceled buffer decrements
\* multi_recv_op_count.
CancelCb(b) ==
    /\ mr[b].posted /\ mr[b].cancel /\ MayRunCallback
    /\ mr' = [mr EXCEPT ![b].posted = FALSE]
    /\ opCount' = opCount - 1
    /\ UNCHANGED <<pending, created, extending, gpc, made, got, cb, hst, hbuf,
                   hgen, msgs, finalizing, unpost>>
    /\ UNCHANGED <<zeroed, reposting>>

(***************************************************************************)
(* The RPC layer and hg_core_destroy.                                      *)
(***************************************************************************)
\* HG_Core_release_input: with MULTI_RECV status and a buffer, the input is
\* detached and the buffer's reference released (possibly reposting it).
\* Nothing in it checks finalizing.
ReleaseInput(h) ==
    /\ UserRelease /\ hst[h] = "input" /\ hbuf[h] # NoBuf
    /\ finalizing => ReleaseDuringFinalize
    /\ MayRunHandler
    /\ hbuf' = [hbuf EXCEPT ![h] = NoBuf]
    /\ ReleaseBuf(hbuf[h])
    /\ UNCHANGED <<opCount, reposting, pending, created, extending, gpc, made, got, cb, hst, hgen,
                   msgs, finalizing, unpost>>

\* hg_core_reset_post with multi-recv: ref_count back to 1, status 0, the
\* handle back at the head of the pending list, then the buffer reference
\* released (the multi_recv_op != NULL test skips a released input).
ResetPost(h) ==
    /\ hst' = [hst EXCEPT ![h] = "idle"]
    /\ Pool!PoolInsert(h)
    /\ UNCHANGED <<opCount, reposting>>
    /\ IF hbuf[h] # NoBuf THEN ReleaseBuf(hbuf[h]) ELSE UNCHANGED <<mr, zeroed>>

\* hg_core_free_na with MULTI_RECV status: ref_count decremented, no repost.
FreeNa(h) ==
    /\ hst' = [hst EXCEPT ![h] = "freed"]
    /\ mr' = IF hbuf[h] # NoBuf THEN [mr EXCEPT ![hbuf[h]].ref = @ - 1] ELSE mr
    /\ UNCHANGED <<pending, opCount>>
    /\ UNCHANGED <<zeroed, reposting>>

\* Mutation: hg_core_destroy does not look at finalizing.
DestroyNoFinalizeCheck(h) ==
    /\ hst[h] = "input" /\ MayRunHandler
    /\ ResetPost(h)
    /\ hbuf' = [hbuf EXCEPT ![h] = NoBuf]
    /\ hgen' = [hgen EXCEPT ![h] = 0]
    /\ UNCHANGED <<created, extending, gpc, made, got, cb, msgs,
                   finalizing, unpost>>

\* hg_core_destroy drops the last reference of a request handle: reused
\* through hg_core_reset_post unless the context is finalizing, in which
\* case it is freed.  The read of finalizing (mercury_core.c:3100) and the
\* reset are one step: unposting starts only once no handler runs; the
\* race between them is HgCoreTarget_finalize_race.cfg.
Destroy(h) ==
    /\ hst[h] = "input" /\ MayRunHandler
    /\ IF finalizing THEN FreeNa(h) ELSE ResetPost(h)
    /\ hbuf' = [hbuf EXCEPT ![h] = NoBuf]
    /\ hgen' = [hgen EXCEPT ![h] = 0]
    /\ UNCHANGED <<created, extending, gpc, made, got, cb, msgs,
                   finalizing, unpost>>

(***************************************************************************)
(* hg_core_context_destroy.                                                *)
(***************************************************************************)
\* Mutation: hg_core_context_multi_recv_unpost does not NA_Cancel.
StartUnpostNoCancel ==
    /\ ~finalizing /\ \A t \in CbThreads : cb[t].pc = "idle"
    /\ finalizing' = TRUE /\ unpost' = "wait"
    /\ UNCHANGED <<pending, created, extending, gpc, made, got, mr, opCount,
                   cb, hst, hbuf, hgen, msgs>>
    /\ UNCHANGED <<zeroed, reposting>>

\* finalizing set, then hg_core_context_multi_recv_unpost: NA_Cancel on
\* every multi-recv operation (only a posted one completes as canceled),
\* then the progress/trigger loop.  The application has stopped its other
\* progress threads and, unless ReleaseDuringFinalize, its handlers are
\* not inside a release.
StartUnpost ==
    /\ ~finalizing /\ \A t \in CbThreads : cb[t].pc = "idle"
    /\ ReleaseDuringFinalize \/ \A b \in Bufs : zeroed[b] + reposting[b] = 0
    /\ finalizing' = TRUE /\ unpost' = "wait"
    /\ mr' = [b \in Bufs |-> [mr[b] EXCEPT !.cancel = mr[b].posted]]
    /\ UNCHANGED <<pending, created, extending, gpc, made, got, opCount, cb,
                   hst, hbuf, hgen, msgs>>
    /\ UNCHANGED <<zeroed, reposting>>

\* The loop sees multi_recv_op_count == 0; hg_core_handle_pool_unpost has
\* nothing to do with multi-recv and hg_core_handle_pool_destroy frees the
\* pending handles.
UnpostDone ==
    /\ unpost = "wait" /\ opCount = 0 /\ \A t \in CbThreads : cb[t].pc = "idle"
    /\ unpost' = "done"
    /\ hst' = [h \in Handles |-> IF h \in Pool!PoolDrained THEN "freed" ELSE hst[h]]
    /\ pending' = <<>>
    /\ UNCHANGED <<created, extending, gpc, made, got, mr, opCount, cb, hbuf,
                   hgen, msgs, finalizing>>
    /\ UNCHANGED <<zeroed, reposting>>

\* The context is gone and every handle has been freed.
Finalized ==
    /\ unpost = "done" /\ \A h \in 1..created : hst[h] = "freed"
    /\ \A b \in Bufs : zeroed[b] = 0 /\ reposting[b] = 0
    /\ UNCHANGED vars

PoolStep(t) ==
    /\ Pool!GetStep(t, AllocFails(t))
    /\ UNCHANGED <<mr, opCount, cb, hst, hbuf, hgen, msgs, finalizing, unpost>>
    /\ UNCHANGED <<zeroed, reposting>>

Next ==
    \/ \E t \in CbThreads :
          \/ PoolStep(t) \/ CbGot(t) \/ CbGetFail(t) \/ CbRef(t)
          \/ \E b \in Bufs : Deliver(t, b)
    \/ \E b \in Bufs : CancelCb(b) \/ ReleaseLast(b) \/ ReleaseRepost(b)
    \/ \E h \in Handles : ReleaseInput(h) \/ Destroy(h)
    \/ StartUnpost \/ UnpostDone \/ Finalized

\* Callback threads run their callback to the end, the transport delivers
\* the completion of a canceled buffer, the RPC layer eventually destroys
\* every handle it was given, and the destroying thread keeps looping.
\* Requests need not arrive, and nobody has to destroy the context.
Fairness ==
    /\ \A t \in CbThreads : /\ WF_vars(PoolStep(t)) /\ WF_vars(CbGot(t))
                            /\ WF_vars(CbGetFail(t)) /\ WF_vars(CbRef(t))
    /\ \A b \in Bufs : WF_vars(CancelCb(b)) /\ WF_vars(ReleaseLast(b))
                            /\ WF_vars(ReleaseRepost(b))
    /\ \A h \in Handles : WF_vars(Destroy(h))
    /\ WF_vars(UnpostDone)

Spec == Init /\ [][Next]_vars /\ Fairness

-----------------------------------------------------------------------------
(***************************************************************************)
(* Every handle the pool created is in exactly one place: once on the      *)
(* pending list, returned to exactly one callback by                       *)
(* hg_core_handle_pool_get, with a callback or the RPC layer, or freed.    *)
(***************************************************************************)
HandlesAccounted ==
    /\ IsInjective(pending)
    /\ \A h \in 1..created :
         LET holders == {t \in CbThreads : gpc[t] = "done" /\ got[t] = h} IN
         Cardinality({x \in {"list", "getter", "used"} :
                        \/ x = "list" /\ h \in ToSet(pending)
                        \/ x = "getter" /\ holders # {}
                        \/ x = "used" /\ hst[h] # "idle"}) = 1
         /\ Cardinality(holders) <= 1
    /\ \A h \in Handles \ (1..created) : hst[h] = "idle"

(***************************************************************************)
(* multi_recv_op_count counts the buffers NA still has posted, plus the    *)
(* callbacks of a "last" request that have not yet recorded it: a buffer   *)
(* consumed, canceled or reposted is neither lost nor counted twice, so    *)
(* hg_core_context_multi_recv_unpost waits for exactly the posted ones.    *)
(***************************************************************************)
OpCountAccurate ==
    opCount = Cardinality({b \in Bufs : mr[b].posted})
              + Cardinality({t \in CbThreads : cb[t].pc = "get" /\ cb[t].last})

(***************************************************************************)
(* hg_core_context_unpost destroys the handle pool and sets                *)
(* context->handle_pool to NULL before hg_core_context_list_wait waits    *)
(* for the handles still in use; a repost after that reads the NA class    *)
(* through the NULL pool (mercury_core.c:3593, 3443).  Once the pool is     *)
(* destroyed no buffer is posted again.                                    *)
(***************************************************************************)
NoRepostAfterPoolDestroy == unpost = "done" => \A b \in Bufs : ~mr[b].posted

(***************************************************************************)
(* A handle never reads a request from a buffer that has been reposted     *)
(* since: while a handle's input points into a buffer, the buffer is in    *)
(* the generation the input was received in.                               *)
(***************************************************************************)
NoStaleInput ==
    \A h \in Handles :
        (hst[h] \in {"cb", "input"} /\ hbuf[h] # NoBuf)
            => hgen[h] = mr[hbuf[h]].gen

(***************************************************************************)
(* A buffer that NA has consumed is posted again once its requests are     *)
(* done with, unless the context is being destroyed or the repost failed   *)
(* (hg_core_post_multi from hg_core_release_input or hg_core_reset_post;   *)
(* a failed one is lost for good, mercury_core.c:3446).                    *)
(***************************************************************************)
BufferReposted ==
    \A b \in Bufs : (~mr[b].posted /\ ~finalizing)
                     ~> (mr[b].posted \/ finalizing \/ mr[b].lost)

(***************************************************************************)
(* hg_core_context_multi_recv_unpost terminates: its loop, which has no    *)
(* deadline, eventually sees multi_recv_op_count at 0.                     *)
(***************************************************************************)
UnpostTerminates == (unpost = "wait") ~> (unpost = "done")

=============================================================================
