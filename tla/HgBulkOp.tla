------------------------------ MODULE HgBulkOp ------------------------------
(***************************************************************************)
(* Life cycle of bulk operation IDs (mercury_bulk.c): HG_Bulk_transfer     *)
(* taking an op ID from the context's pool, issuing its NA sub-operations  *)
(* one by one, the NA callbacks (hg_bulk_transfer_cb) that count them and  *)
(* complete the op once all are in, the trigger (hg_bulk_trigger_entry)    *)
(* that runs the user callback and returns the op ID to the pool, and      *)
(* HG_Bulk_cancel.  User threads, NA progress callbacks and the trigger    *)
(* interleave freely; the status word and the completed count are atomic   *)
(* in the code and each atomic access is one step here.                    *)
(*                                                                         *)
(* The segment arithmetic that decides how many sub-operations a transfer *)
(* needs is HgBulkSegments; here a transfer needs 1..MaxOps of them.  The  *)
(* pool's extension is HgBulkOpPool; here the pool holds OpIds from the    *)
(* start and an empty pool refuses the transfer as a failed extension      *)
(* (hg_bulk_op_create out of memory) does.                                 *)
(***************************************************************************)
EXTENDS Integers, Sequences, SequencesExt, FiniteSets

CONSTANTS
    Users,          \* application threads calling HG_Bulk_transfer/cancel
    OpIds,          \* op IDs created by hg_bulk_op_pool_create
    MaxOps,         \* most NA sub-operations one transfer needs
    MaxTransfers,   \* transfers each user starts
    NaErrors,       \* NA callbacks may report an error
    EagerHandles,   \* origin handles may carry HG_BULK_EAGER
    IssueMayFail,   \* posting an NA put/get may fail
    StaleCancel,    \* a user may cancel an op ID after its callback ran
    NoUser, NoOp

ASSUME MaxOps \in Nat \ {0} /\ MaxTransfers \in Nat \ {0}

Bits == {"COMPLETED", "CANCELED", "ERRORED"}
RetCodes == {"SUCCESS", "CANCELED", "NA_ERROR", "NOMEM"}
SubStates == {"idle", "posted", "cancel", "done"}
SubResults == {"ok", "err", "canceled"}
Paths == {"zero", "self", "na"}
Pcs == {"idle", "issue", "complete", "assign"}
Subs == 1..MaxOps

VARIABLES
    pool,       \* pending_list of the op pool, head first
    status,     \* hg_bulk_op_id->status
    errRet,     \* hg_bulk_op_id->err_ret
    opCount,    \* hg_bulk_op_id->op_count
    completed,  \* hg_bulk_op_id->op_completed_count
    issued,     \* sub-operations of the op posted so far
    eager,      \* HG_BULK_EAGER on the op's origin handle
    na,         \* state of each NA sub-operation
    cbRet,      \* callback_info.ret
    owner,      \* user whose callback the op carries
    cq,         \* ops with an entry in the completion queue
    finishing,  \* a thread saw the last count and is in hg_bulk_complete
    pc,         \* where each user thread is in HG_Bulk_transfer
    cur,        \* op the user thread is transferring with
    held,       \* op ID the user got back from its last transfer
    started,    \* transfers each user started
    expect,     \* callbacks each user is owed
    fired,      \* callbacks each user received
    originRefs, \* references transfers hold on the user's origin handle
    localRefs,  \* same for the local handle
    subRes,     \* results of the op's sub-operations (history)
    cancelBy,   \* users whose HG_Bulk_cancel reached the op (history)
    lastFire    \* the last callback run (history)

vars == <<pool, status, errRet, opCount, completed, issued, eager, na, cbRet,
          owner, cq, finishing, pc, cur, held, started, expect, fired, originRefs,
          localRefs, subRes, cancelBy, lastFire>>

NoFire == [user |-> NoUser, ret |-> "SUCCESS", subs |-> {}, canceled |-> {}]

TypeOK ==
    /\ pool \in Seq(OpIds)
    /\ status \in [OpIds -> SUBSET Bits]
    /\ errRet \in [OpIds -> RetCodes]
    /\ opCount \in [OpIds -> 0..MaxOps]
    /\ completed \in [OpIds -> 0..MaxOps]
    /\ issued \in [OpIds -> 0..MaxOps]
    /\ eager \in [OpIds -> BOOLEAN]
    /\ na \in [OpIds -> [Subs -> SubStates]]
    /\ cbRet \in [OpIds -> RetCodes]
    /\ owner \in [OpIds -> Users \cup {NoUser}]
    /\ cq \subseteq OpIds
    /\ finishing \in [OpIds -> BOOLEAN]
    /\ pc \in [Users -> Pcs]
    /\ cur \in [Users -> OpIds \cup {NoOp}]
    /\ held \in [Users -> OpIds \cup {NoOp}]
    /\ started \in [Users -> 0..MaxTransfers]
    /\ expect \in [Users -> 0..MaxTransfers]
    /\ fired \in [Users -> 0..MaxTransfers]
    /\ originRefs \in [Users -> Nat]
    /\ localRefs \in [Users -> Nat]
    /\ subRes \in [OpIds -> SUBSET SubResults]
    /\ cancelBy \in [OpIds -> SUBSET Users]

\* hg_bulk_op_pool_create: every op ID created COMPLETED and inserted.
Init ==
    /\ pool \in SetToSeqs(OpIds)
    /\ status = [o \in OpIds |-> {"COMPLETED"}]
    /\ errRet = [o \in OpIds |-> "SUCCESS"]
    /\ opCount = [o \in OpIds |-> 1]
    /\ completed = [o \in OpIds |-> 0]
    /\ issued = [o \in OpIds |-> 0]
    /\ eager = [o \in OpIds |-> FALSE]
    /\ na = [o \in OpIds |-> [i \in Subs |-> "idle"]]
    /\ cbRet = [o \in OpIds |-> "SUCCESS"]
    /\ owner = [o \in OpIds |-> NoUser]
    /\ cq = {}
    /\ finishing = [o \in OpIds |-> FALSE]
    /\ pc = [u \in Users |-> "idle"]
    /\ cur = [u \in Users |-> NoOp]
    /\ held = [u \in Users |-> NoOp]
    /\ started = [u \in Users |-> 0]
    /\ expect = [u \in Users |-> 0]
    /\ fired = [u \in Users |-> 0]
    /\ originRefs = [u \in Users |-> 0]
    /\ localRefs = [u \in Users |-> 0]
    /\ subRes = [o \in OpIds |-> {}]
    /\ cancelBy = [o \in OpIds |-> {}]
    /\ lastFire = NoFire

-----------------------------------------------------------------------------
(***************************************************************************)
(* HG_Bulk_transfer -> hg_bulk_transfer: take the pool's head              *)
(* (hg_bulk_op_pool_get), take a reference on both bulk handles, reset     *)
(* status, err_ret, op_count and the completed count.  A size of 0 and the *)
(* self/eager path (hg_bulk_transfer_self) complete at once in the calling *)
(* thread; the NA path goes on to issue op_count sub-operations.           *)
(***************************************************************************)
Transfer(u) ==
    /\ pc[u] = "idle" /\ started[u] < MaxTransfers
    /\ pool # <<>>
    /\ LET o == Head(pool) IN
       /\ pool' = Tail(pool)
       /\ \E path \in Paths, e \in (IF EagerHandles THEN BOOLEAN ELSE {FALSE}),
             n \in 1..MaxOps :
             /\ path # "na" => n = 1
             /\ opCount' = [opCount EXCEPT ![o] =
                              CASE path = "zero" -> 0 [] path = "self" -> 1 [] OTHER -> n]
             /\ finishing' = [finishing EXCEPT ![o] = (path # "na")]
             /\ pc' = [pc EXCEPT ![u] = IF path = "na" THEN "issue" ELSE "complete"]
             /\ eager' = [eager EXCEPT ![o] = e]
       /\ status' = [status EXCEPT ![o] = {}]
       /\ errRet' = [errRet EXCEPT ![o] = "SUCCESS"]
       /\ completed' = [completed EXCEPT ![o] = 0]
       /\ issued' = [issued EXCEPT ![o] = 0]
       /\ na' = [na EXCEPT ![o] = [i \in Subs |-> "idle"]]
       /\ owner' = [owner EXCEPT ![o] = u]
       /\ subRes' = [subRes EXCEPT ![o] = {}]
       /\ cancelBy' = [cancelBy EXCEPT ![o] = {}]
       /\ cur' = [cur EXCEPT ![u] = o]
    /\ started' = [started EXCEPT ![u] = @ + 1]
    /\ expect' = [expect EXCEPT ![u] = @ + 1]
    /\ originRefs' = [originRefs EXCEPT ![u] = @ + 1]
    /\ localRefs' = [localRefs EXCEPT ![u] = @ + 1]
    /\ UNCHANGED <<cbRet, cq, held, fired, lastFire>>

(***************************************************************************)
(* hg_bulk_op_pool_get with an empty pending list: the extension's         *)
(* hg_bulk_op_create fails, hg_bulk_transfer returns the error and no      *)
(* callback will run.                                                      *)
(***************************************************************************)
TransferNoMem(u) ==
    /\ pc[u] = "idle" /\ started[u] < MaxTransfers
    /\ pool = <<>>
    /\ started' = [started EXCEPT ![u] = @ + 1]
    /\ UNCHANGED <<pool, status, errRet, opCount, completed, issued, eager, na,
                   cbRet, owner, cq, finishing, pc, cur, held, expect, fired,
                   originRefs, localRefs, subRes, cancelBy, lastFire>>

(***************************************************************************)
(* One na_bulk_op call of hg_bulk_transfer_na / _segments_na that posts    *)
(* the next sub-operation; after the last one the transfer returns.        *)
(***************************************************************************)
IssueOk(u) ==
    /\ pc[u] = "issue"
    /\ LET o == cur[u]
           k == issued[o] + 1
       IN /\ na' = [na EXCEPT ![o][k] = "posted"]
          /\ issued' = [issued EXCEPT ![o] = k]
          /\ pc' = [pc EXCEPT ![u] = IF k = opCount[o] THEN "assign" ELSE "issue"]
    /\ UNCHANGED <<pool, status, errRet, opCount, completed, eager, cbRet, owner,
                   cq, finishing, cur, held, started, expect, fired, originRefs,
                   localRefs, subRes, cancelBy, lastFire>>

(***************************************************************************)
(* A na_bulk_op call fails: hg_bulk_transfer_na returns the error and      *)
(* hg_bulk_transfer passes it on without destroying the op ID; the         *)
(* sub-operations already posted stay in flight.                           *)
(***************************************************************************)
IssueFail(u) ==
    /\ IssueMayFail
    /\ pc[u] = "issue"
    /\ pc' = [pc EXCEPT ![u] = "assign"]
    /\ expect' = [expect EXCEPT ![u] = @ - 1]
    /\ UNCHANGED <<pool, status, errRet, opCount, completed, issued, eager, na,
                   cbRet, owner, cq, finishing, cur, held, started, fired,
                   originRefs, localRefs, subRes, cancelBy, lastFire>>

\* hg_bulk_transfer: *op_id = hg_bulk_op_id, after the op was started.
Assign(u) ==
    /\ pc[u] = "assign"
    /\ held' = [held EXCEPT ![u] = cur[u]]
    /\ cur' = [cur EXCEPT ![u] = NoOp]
    /\ pc' = [pc EXCEPT ![u] = "idle"]
    /\ UNCHANGED <<pool, status, errRet, opCount, completed, issued, eager, na,
                   cbRet, owner, cq, finishing, started, expect, fired,
                   originRefs, localRefs, subRes, cancelBy, lastFire>>

-----------------------------------------------------------------------------
\* Mutation: an NA error does not mark the op ERRORED.
CbStatusNoErr(o, r) ==
    status[o] \cup (IF r = "canceled" THEN {"CANCELED"} ELSE {})

(***************************************************************************)
(* hg_bulk_transfer_cb: a canceled sub-operation ORs in CANCELED, a failed *)
(* one ERRORED (err_ret keeps the first error).                            *)
(***************************************************************************)
CbStatus(o, r) ==
    status[o] \cup (CASE r = "canceled" -> {"CANCELED"}
                      [] r = "err"      -> {"ERRORED"}
                      [] OTHER          -> {})

\* Mutation: the value before the increment is compared with op_count.
LastSubOpOld(o) == completed[o] = opCount[o]

\* Mutation: the op completes one sub-operation early.
LastSubOpEarly(o) == completed[o] + 1 >= opCount[o] - 1

\* hg_atomic_incr32(&op_completed_count) == op_count.
LastSubOp(o) == completed[o] + 1 = opCount[o]

(***************************************************************************)
(* One NA callback of a posted sub-operation; a sub-operation NA_Cancel    *)
(* reached completes CANCELED unless it finished first.                    *)
(***************************************************************************)
NaCallback(o, i) ==
    /\ na[o][i] \in {"posted", "cancel"}
    /\ \E r \in {"ok"} \cup (IF NaErrors THEN {"err"} ELSE {})
                      \cup (IF na[o][i] = "cancel" \/ NaErrors
                               THEN {"canceled"} ELSE {}) :
          /\ status' = [status EXCEPT ![o] = CbStatus(o, r)]
          /\ errRet' = [errRet EXCEPT ![o] =
                          IF r = "err" /\ @ = "SUCCESS" THEN "NA_ERROR" ELSE @]
          /\ subRes' = [subRes EXCEPT ![o] = @ \cup {r}]
    /\ na' = [na EXCEPT ![o][i] = "done"]
    /\ completed' = [completed EXCEPT ![o] = @ + 1]
    /\ finishing' = [finishing EXCEPT ![o] = LastSubOp(o)]
    /\ UNCHANGED <<pool, opCount, issued, eager, cbRet, owner, cq, pc, cur, held,
                   started, expect, fired, originRefs, localRefs, cancelBy,
                   lastFire>>

\* hg_bulk_complete: the result is decided by the status before COMPLETED.
CompletionRet(o) ==
    CASE "CANCELED" \in status[o] -> "CANCELED"
      [] "ERRORED" \in status[o]  -> errRet[o]
      [] OTHER                    -> "SUCCESS"

\* A user thread completing its own transfer returns from it.
AfterComplete(o) ==
    [u \in Users |-> IF pc[u] = "complete" /\ cur[u] = o THEN "assign" ELSE pc[u]]

\* Mutation: the origin handle is freed twice and the local one not.
ReleaseHandlesOriginTwice(u) ==
    /\ originRefs' = [originRefs EXCEPT ![u] = @ - 2]
    /\ localRefs' = localRefs

\* hg_bulk_free: drop one reference of a bulk handle; the last one
\* deregisters its memory and frees it.
BulkFree(refs, u) == [refs EXCEPT ![u] = @ - 1]

\* hg_bulk_trigger_entry: hg_bulk_free on the origin and the local handle.
ReleaseHandles(u) ==
    /\ originRefs' = BulkFree(originRefs, u)
    /\ localRefs' = BulkFree(localRefs, u)

\* Mutation: the op ID is not put back on the pending list.
OpDestroyNoRepost(o) ==
    /\ status' = [status EXCEPT ![o] = {"COMPLETED"}]
    /\ pool' = pool

\* hg_bulk_op_destroy of a pool op: status COMPLETED, insert at the head.
OpDestroy(o) ==
    /\ status' = [status EXCEPT ![o] = {"COMPLETED"}]
    /\ pool' = <<o>> \o pool

\* hg_bulk_trigger_entry: user callback, handle references, op ID back.
RunCallback(o, r) ==
    LET u == owner[o] IN
    /\ fired' = [fired EXCEPT ![u] = @ + 1]
    /\ lastFire' = [user |-> u, ret |-> r, subs |-> subRes[o], canceled |-> cancelBy[o]]
    /\ ReleaseHandles(u)
    /\ OpDestroy(o)
    /\ owner' = [owner EXCEPT ![o] = NoUser]

\* hg_core_completion_add: push the entry on the completion queue (or the
\* backfill queue when full) and wake a thread waiting in trigger.
CompletionAdd(o) == cq' = cq \cup {o}

\* hg_bulk_complete without HG_BULK_EAGER: queue a completion entry.
CompleteQueue(o) ==
    /\ finishing[o] /\ ~eager[o]
    /\ status' = [status EXCEPT ![o] = @ \cup {"COMPLETED"}]
    /\ cbRet' = [cbRet EXCEPT ![o] = CompletionRet(o)]
    /\ CompletionAdd(o)
    /\ finishing' = [finishing EXCEPT ![o] = FALSE]
    /\ pc' = AfterComplete(o)
    /\ UNCHANGED <<pool, errRet, opCount, completed, issued, eager, na, owner,
                   cur, held, started, expect, fired, originRefs, localRefs,
                   subRes, cancelBy, lastFire>>

\* hg_bulk_complete with HG_BULK_EAGER: trigger the entry in place.
CompleteEager(o) ==
    /\ finishing[o] /\ eager[o]
    /\ cbRet' = [cbRet EXCEPT ![o] = CompletionRet(o)]
    /\ RunCallback(o, CompletionRet(o))
    /\ finishing' = [finishing EXCEPT ![o] = FALSE]
    /\ pc' = AfterComplete(o)
    /\ UNCHANGED <<errRet, opCount, completed, issued, eager, na, cq, cur, held,
                   started, expect, subRes, cancelBy>>

\* HG_Core_trigger popping a bulk entry: hg_bulk_trigger_entry.
Trigger(o) ==
    /\ o \in cq
    /\ cq' = cq \ {o}
    /\ RunCallback(o, cbRet[o])
    /\ UNCHANGED <<errRet, opCount, completed, issued, eager, na, cbRet,
                   finishing, pc, cur, held, started, expect, subRes, cancelBy>>

\* Mutation: the NA_Cancel loop stops one short of op_count.
CancelTargetsShort(h) == {i \in 1..(opCount[h] - 1) : na[h][i] = "posted"}

\* hg_bulk_cancel: NA_Cancel on the op's sub-operations 0..op_count-1.
CancelTargets(h) == {i \in 1..opCount[h] : na[h][i] = "posted"}

(***************************************************************************)
(* HG_Bulk_cancel on the op ID the user got back.  hg_bulk_cancel ORs in   *)
(* CANCELED and stops if the old status had COMPLETED or ERRORED; else it  *)
(* cancels every NA sub-operation.  Unless StaleCancel, the user cancels   *)
(* only while the op still carries its own transfer.  NA_Cancel is taken  *)
(* to succeed: a plugin error would end the loop (mercury_bulk.c:2470-2472) *)
(* with later sub-operations not canceled; the NA plugins are outside this *)
(* repository.                                                             *)
(***************************************************************************)
Cancel(u) ==
    /\ pc[u] = "idle" /\ held[u] # NoOp
    /\ LET h == held[u] IN
       /\ u \notin cancelBy[h]
       /\ StaleCancel \/ owner[h] = u
       /\ status' = [status EXCEPT ![h] = @ \cup {"CANCELED"}]
       /\ cancelBy' = [cancelBy EXCEPT ![h] = @ \cup {u}]
       /\ na' = IF status[h] \cap {"COMPLETED", "ERRORED"} # {} THEN na
                ELSE [na EXCEPT ![h] = [i \in Subs |->
                        IF i \in CancelTargets(h) THEN "cancel" ELSE @[i]]]
    /\ UNCHANGED <<pool, errRet, opCount, completed, issued, eager, cbRet, owner,
                   cq, finishing, pc, cur, held, started, expect, fired,
                   originRefs, localRefs, subRes, lastFire>>

\* Every user is done and nothing is in flight.
Done ==
    /\ \A u \in Users : pc[u] = "idle" /\ started[u] = MaxTransfers
    /\ cq = {}
    /\ \A o \in OpIds : ~finishing[o] /\ \A i \in Subs : na[o][i] \in {"idle", "done"}
    /\ UNCHANGED vars

Next ==
    \/ \E u \in Users :
          Transfer(u) \/ TransferNoMem(u) \/ IssueOk(u) \/ IssueFail(u)
          \/ Assign(u) \/ Cancel(u)
    \/ \E o \in OpIds :
          CompleteQueue(o) \/ CompleteEager(o) \/ Trigger(o)
          \/ \E i \in Subs : NaCallback(o, i)
    \/ Done

(***************************************************************************)
(* The user threads run HG_Bulk_transfer to its end, the NA progress loop  *)
(* delivers callbacks and the application keeps calling HG_Trigger.        *)
(***************************************************************************)
HostFairness ==
    /\ \A u \in Users : WF_vars(IssueOk(u)) /\ WF_vars(Assign(u))
    /\ \A o \in OpIds : WF_vars(CompleteQueue(o)) /\ WF_vars(CompleteEager(o))
                        /\ WF_vars(Trigger(o))

Spec == Init /\ [][Next]_vars /\ HostFairness
        /\ \A o \in OpIds, i \in Subs : WF_vars(NaCallback(o, i))

(***************************************************************************)
(* A peer that stops answering: NA completes a sub-operation only once it  *)
(* has been canceled.                                                      *)
(***************************************************************************)
SpecHang == Init /\ [][Next]_vars /\ HostFairness
            /\ \A o \in OpIds, i \in Subs :
                  WF_vars(na[o][i] = "cancel" /\ NaCallback(o, i))

-----------------------------------------------------------------------------
(***************************************************************************)
(* An op ID back on the pending list has nothing left in flight: no NA     *)
(* sub-operation posted or being canceled, no completion entry queued and  *)
(* no thread inside hg_bulk_complete for it.  Reusing it otherwise would   *)
(* let a late NA callback count into the next transfer.                    *)
(***************************************************************************)
NoRecycleInFlight ==
    \A o \in ToSet(pool) :
        /\ o \notin cq
        /\ ~finishing[o]
        /\ \A i \in Subs : na[o][i] \in {"idle", "done"}

(***************************************************************************)
(* The result hg_bulk_complete hands to the user callback agrees with what *)
(* happened to that transfer: SUCCESS only if every sub-operation          *)
(* succeeded, CANCELED only if its own user canceled it or NA canceled one *)
(* of its sub-operations (hg_bulk_transfer_cb, mercury_bulk.c:2371), an    *)
(* error code                                                              *)
(* only if some sub-operation failed, and a canceled sub-operation is      *)
(* never reported as success or error.                                     *)
(***************************************************************************)
ResultSound ==
    lastFire.user # NoUser =>
        /\ lastFire.ret = "SUCCESS" => lastFire.subs \subseteq {"ok"}
        /\ lastFire.ret = "CANCELED" =>
              lastFire.user \in lastFire.canceled \/ "canceled" \in lastFire.subs
        /\ lastFire.ret \notin {"SUCCESS", "CANCELED"} => "err" \in lastFire.subs
        /\ "canceled" \in lastFire.subs => lastFire.ret = "CANCELED"

(***************************************************************************)
(* Spec 7: every transfer that HG_Bulk_transfer accepted eventually runs   *)
(* its callback, whatever order the NA callbacks, cancels and triggers of  *)
(* all users take.                                                         *)
(***************************************************************************)
TransfersComplete ==
    \A u \in Users : (expect[u] > fired[u]) ~> (expect[u] = fired[u])

(***************************************************************************)
(* An op ID taken from the pool by hg_bulk_transfer eventually returns to  *)
(* it through hg_bulk_op_destroy, together with the references taken on    *)
(* the two bulk handles.                                                   *)
(***************************************************************************)
OpsReturn ==
    \A o \in OpIds : (o \notin ToSet(pool)) ~> (o \in ToSet(pool))

(***************************************************************************)
(* HG_Bulk_cancel on an op whose transfer is still running ends that       *)
(* transfer even when the peer never answers: every sub-operation still in *)
(* flight is canceled and the callback runs.                               *)
(***************************************************************************)
CancelTakesEffect ==
    \A o \in OpIds :
        (owner[o] # NoUser /\ owner[o] \in cancelBy[o]) ~> (owner[o] = NoUser)
====
