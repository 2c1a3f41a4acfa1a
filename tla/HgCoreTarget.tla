----------------------------- MODULE HgCoreTarget -----------------------------
(***************************************************************************)
(* Target side of one pooled Mercury core handle (src/src/mercury_core.c). *)
(*                                                                         *)
(* hg_core_handle_pool_insert creates the handle with reuse set and posts  *)
(* an unexpected recv.  When a request arrives, hg_core_recv_input_cb and  *)
(* hg_core_process_input decode it (possibly starting the acquisition of   *)
(* extra input data) and hg_core_complete_op queues the handle with        *)
(* op_type PROCESS.  The trigger thread (hg_core_trigger_entry) takes two  *)
(* references and runs the RPC callback, the application's handler, which *)
(* responds (hg_core_respond / hg_core_respond_na, with an ack exchange    *)
(* for a response that has more data) and destroys the handle.  The send   *)
(* and ack callbacks queue the handle again with op_type RESPOND; its      *)
(* trigger entry runs the response callback.  The last hg_core_destroy     *)
(* resets the handle and posts it again (hg_core_reset_post).  Context     *)
(* finalization (hg_core_context_unpost) cancels posted handles.           *)
(***************************************************************************)
EXTENDS Integers, FiniteSets

CONSTANTS
    Threads,            \* threads that run NA callbacks (progress/NA_Trigger)
    MaxRequests,        \* bound on the number of requests the handle receives
    NaErrors,           \* operations may complete with errors, decoding may fail
    PostMayFail,        \* posting the response send may fail, a response may be too large
    RepostMayFail,      \* the unexpected recv post of hg_core_reset_post may fail
    MoreData,           \* requests and responses may carry HG_CORE_MORE_DATA
    AcquireMayFail,     \* the upper layer's acquire callback may return an error
    UnknownRpc,         \* the application may deregister and register the RPC id
    DeregisterInFlight, \* ... also while a request of that id is being handled
    MaxRegs,            \* bound on the rpc_info allocations of HG_Core_register
    UserCancels,        \* the handler may call HG_Core_cancel on the handle
    ConcurrentFinalize  \* context finalization may run while a handler is active

ASSUME MaxRequests \in Nat \ {0} /\ MaxRegs \in Nat \ {0}
ASSUME {NaErrors, PostMayFail, RepostMayFail, MoreData, AcquireMayFail,
        UnknownRpc, DeregisterInFlight, UserCancels, ConcurrentFinalize} \subseteq BOOLEAN
ASSUME Threads # {}

\* na_recv_op_id (the unexpected recv), na_send_op_id (the response),
\* na_ack_op_id (the ack of a response with more data).
Ops == {"recv", "send", "ack"}
NaResults == {"ok", "err", "canceled"}
NaStates == {"idle", "posted"} \cup NaResults
RetCodes == {"SUCCESS", "CANCELED", "NA_ERROR", "PROTOCOL_ERROR", "NOENTRY"}
Bits == {"COMPLETED", "CANCELED", "POSTED", "ERRORED", "QUEUED"}
\* hg_core_op_type values a target handle takes.
OpTypes == {"PROCESS", "RESPOND", "NO_RESPOND"}
\* Where the trigger thread is in hg_core_trigger_entry for PROCESS:
\* "call" between the map lookup and the call through rpc_cb of
\* hg_core_process, "rpc" inside the RPC callback, "err" after it failed (respond in case of
\* error), "noresp" before no_respond, "done" at the done label.
TrigPcs == {"idle", "call", "rpc", "err", "noresp", "done"}
\* A respond between the ack recv post and the send post: who calls it and
\* whether the ack recv was posted (ack_recv_posted).
RespPcs == [who : {"none", "user", "trig"}, ack : BOOLEAN]
RespIdle == [who |-> "none", ack |-> FALSE]
Idle == -1

VARIABLES
    status, retStatus, ret,   \* status, ret_status, ret of the handle
    completed, expected,      \* op_completed_count, op_expected_count
    refCount,                 \* ref_count
    noResponse,               \* no_response, from the request's flags
    reuse,                    \* reuse: repost the handle on its last destroy
    opType,                   \* op_type
    na, cancelReq,            \* NA operations, and NA_Cancel reaching them
    acquire,                  \* "acquiring" while extra input data is pulled
    cq,                       \* entries of this handle in the completion queue
    tpc,                      \* per callback thread: Idle or the count it read
    pending,                  \* the handle is on the pool's pending list
    freed,                    \* hg_core_free was called
    finalizing,               \* context->finalizing
    repostPc,                 \* steps of hg_core_reset_post after destroy
    trig,                     \* trigger thread inside trigger_entry(PROCESS)
    userRef,                  \* the handler holds the reference of hg_core_process
    responded,                \* the handler called HG_Core_respond
    respPc,                   \* a respond between its ack post and send post
    requests,                 \* requests received so far
    delivered,                \* the response of this request reached the origin
    ackRecv,                  \* the ack of this request's response was received
    respMd,                   \* the response carried HG_CORE_MORE_DATA
    fired, lastResult,        \* response callbacks run, and their last result
    map,                      \* rpc_map entry of the request's id: 0 or its rpc_info
    allocs,                   \* rpc_info structures HG_Core_register allocated
    cached                    \* core_handle.rpc_info: 0 (NULL) or an rpc_info

vars == <<status, retStatus, ret, completed, expected, refCount, noResponse,
          reuse, opType, na, cancelReq, acquire, cq, tpc, pending, freed,
          finalizing, repostPc, trig, userRef, responded, respPc, requests,
          delivered, ackRecv, respMd, fired, lastResult, map, allocs, cached>>

regVars == <<map, allocs, cached>>

\* An rpc_info is named by the number of its allocation; a removed one is
\* freed (hg_core_map_value_free), so only the one the map holds is live.
TypeOK ==
    /\ status \subseteq Bits
    /\ {retStatus, ret, lastResult} \subseteq RetCodes
    /\ {completed, expected, refCount, cq, requests, fired} \subseteq Nat
    /\ opType \in OpTypes
    /\ na \in [Ops -> NaStates] /\ cancelReq \in [Ops -> BOOLEAN]
    /\ acquire \in {"none", "acquiring"}
    /\ tpc \in [Threads -> {Idle} \cup Nat]
    /\ repostPc \in {"none", "insert", "post"}
    /\ trig \in TrigPcs /\ respPc \in RespPcs
    /\ {noResponse, reuse, pending, freed, finalizing, userRef, responded,
        delivered, ackRecv, respMd} \subseteq BOOLEAN
    /\ {map, cached} \subseteq 0..MaxRegs /\ allocs \in 1..MaxRegs

\* hg_core_handle_pool_insert: hg_core_create (ref_count 1, counters reset),
\* status 0, ret_status SUCCESS, reuse set, added to the pending list and
\* posted (hg_core_post).  The RPC was registered before (one rpc_info);
\* the handle caches none (hg_core_create leaves rpc_info NULL).
Init ==
    /\ status = {} /\ retStatus = "SUCCESS" /\ ret = "SUCCESS"
    /\ completed = 0 /\ expected = 1 /\ refCount = 1
    /\ noResponse = FALSE /\ reuse = TRUE /\ opType = "PROCESS"
    /\ na = [o \in Ops |-> IF o = "recv" THEN "posted" ELSE "idle"]
    /\ cancelReq = [o \in Ops |-> FALSE]
    /\ acquire = "none" /\ cq = 0 /\ tpc = [t \in Threads |-> Idle]
    /\ pending = TRUE /\ freed = FALSE /\ finalizing = FALSE
    /\ repostPc = "none" /\ trig = "idle"
    /\ userRef = FALSE /\ responded = FALSE /\ respPc = RespIdle
    /\ requests = 0 /\ delivered = FALSE /\ ackRecv = FALSE /\ respMd = FALSE
    /\ fired = 0 /\ lastResult = "SUCCESS"
    /\ map = 1 /\ allocs = 1 /\ cached = 0

(***************************************************************************)
(* Helpers.                                                                *)
(***************************************************************************)
\* hg_atomic_cas32(&ret_status, HG_SUCCESS, r): keep the first non-success.
Latch(r) == IF retStatus = "SUCCESS" THEN r ELSE retStatus

Outcomes(flag) == IF flag THEN BOOLEAN ELSE {FALSE}

\* Mutation: the error branch of a callback forgets ERRORED and the latch.
NaFailureLost(r) == UNCHANGED <<status, retStatus>>

\* The NA_CANCELED and error branches of hg_core_send_output_cb and
\* hg_core_ack_cb: a cancel latches HG_CANCELED, an error sets ERRORED and
\* latches the error.
NaFailure(r) ==
    IF r = "canceled"
      THEN /\ retStatus' = Latch("CANCELED")
           /\ UNCHANGED status
      ELSE /\ status' = status \cup {"ERRORED"}
           /\ retStatus' = Latch("NA_ERROR")

\* Start of hg_core_complete_op: the thread reads op_completed_count.
CompleteOpRead(t) == tpc' = [tpc EXCEPT ![t] = completed]

\* Mutation: the repost happens one reference too early.
DestroyRefEarly(reuseNow) ==
    /\ refCount' = refCount - 1
    /\ freed' = (refCount = 1 /\ ~(reuseNow /\ ~finalizing))
    /\ repostPc' = IF refCount = 2 /\ reuseNow /\ ~finalizing
                     THEN "insert" ELSE repostPc

\* hg_core_map_lookup of the request's id returns an entry.
LookupFound == map # 0

\* Mutation: hg_core_process forgets its own reference.
ProcessRefsOne(found) == 1

\* References taken for a request: one by trigger_entry so that the handle
\* outlives the response, one more by hg_core_process before the RPC
\* callback when the RPC id is registered.
ProcessRefs(found) == IF found THEN 2 ELSE 1

\* Mutation: hg_core_destroy reposts without checking finalizing.
DestroyRefIgnoreFinalizing(reuseNow) ==
    /\ refCount' = refCount - 1
    /\ freed' = (refCount = 1 /\ ~reuseNow)
    /\ repostPc' = IF refCount = 1 /\ reuseNow THEN "insert" ELSE repostPc

\* The free branch of hg_core_destroy: hg_core_free_na destroys the NA op
\* IDs and the message buffers, then hg_core_free releases the handle.
HandleFree(last) == freed' = last

\* hg_core_destroy: drop a reference; the last one either starts
\* hg_core_reset_post (reuse set and the context not finalizing) or frees
\* the handle.
DestroyRef(reuseNow) ==
    /\ refCount' = refCount - 1
    /\ HandleFree(refCount = 1 /\ ~(reuseNow /\ ~finalizing))
    /\ repostPc' = IF refCount = 1 /\ reuseNow /\ ~finalizing
                     THEN "insert" ELSE repostPc

\* hg_core_process_input (with the size check of hg_core_recv_input_cb
\* before it): a header that fails to decode goes to the error label
\* (ERRORED, error latched); an oversized message goes there with ret
\* never assigned (mercury_core.c:4069, 4111), so what is latched is
\* whatever ret holds: an error code, or HG_SUCCESS, which latches
\* nothing; otherwise no_response is set from the flags
\* and, with HG_CORE_MORE_DATA, op_expected_count is incremented and the
\* upper layer's acquire called, whose failure also goes to the error
\* label.
ProcessInput(bad, nr, md, acqFail) ==
    IF bad
      THEN /\ status' = status \cup {"ERRORED"}
           /\ \E r \in {"PROTOCOL_ERROR", "SUCCESS"} : retStatus' = Latch(r)
           /\ UNCHANGED <<noResponse, expected, acquire>>
      ELSE /\ noResponse' = nr
           /\ expected' = IF md THEN expected + 1 ELSE expected
           /\ IF md /\ acqFail
                THEN /\ status' = status \cup {"ERRORED"}
                     /\ retStatus' = Latch("NA_ERROR")
                     /\ UNCHANGED acquire
                ELSE /\ acquire' = IF md THEN "acquiring" ELSE acquire
                     /\ UNCHANGED <<status, retStatus>>

\* hg_core_respond up to the send post of hg_core_respond_na: no_response
\* forbids it; ret is reset, COMPLETED cleared and ret_status overwritten
\* with ret; a response larger than the output buffer unwinds through the
\* error label (COMPLETED set, ref_count decremented); otherwise
\* op_expected_count++ for the send, op_type RESPOND, and for a response
\* with more data op_expected_count++ and the ack recv is pre-posted before
\* POSTED is set.
RespondBegin(md, who) ==
    /\ ~noResponse
    /\ ret' = "SUCCESS" /\ retStatus' = "SUCCESS"
    /\ respMd' = md
    /\ \E tooLarge \in Outcomes(PostMayFail) :
         IF tooLarge
           THEN /\ status' = status \cup {"COMPLETED"}
                /\ refCount' = refCount - 1
                /\ UNCHANGED <<expected, opType, na, respPc>>
           ELSE /\ status' = (status \ {"COMPLETED"}) \cup {"POSTED"}
                /\ expected' = expected + (IF md THEN 2 ELSE 1)
                /\ opType' = "RESPOND"
                /\ na' = IF md THEN [na EXCEPT !["ack"] = "posted"] ELSE na
                /\ respPc' = [who |-> who, ack |-> md]
                /\ UNCHANGED refCount

(***************************************************************************)
(* NA transport.                                                           *)
(***************************************************************************)
\* A posted operation completes.  The unexpected recv completes ok when a
\* request arrives (at most MaxRequests); an ack arrives only after the
\* origin received the response; a cancel needs NA_Cancel, an error needs
\* NaErrors.  A new request starts a new response history.
NaComplete(o) ==
    /\ na[o] = "posted"
    /\ \E r \in NaResults :
         /\ r = "err" => NaErrors
         /\ r = "canceled" => cancelReq[o]
         /\ (o = "recv" /\ r = "ok") => requests < MaxRequests
         /\ (o = "ack" /\ r = "ok") => delivered
         /\ na' = [na EXCEPT ![o] = r]
         /\ cancelReq' = [cancelReq EXCEPT ![o] = FALSE]
         /\ requests' = IF o = "recv" /\ r = "ok" THEN requests + 1 ELSE requests
         /\ delivered' = IF o = "recv" THEN FALSE
                         ELSE delivered \/ (o = "send" /\ r = "ok")
         /\ ackRecv' = IF o = "recv" THEN FALSE
                       ELSE ackRecv \/ (o = "ack" /\ r = "ok")
    /\ UNCHANGED <<status, retStatus, ret, completed, expected, refCount,
                   noResponse, reuse, opType, acquire, cq, tpc, pending, freed,
                   finalizing, repostPc, trig, userRef, responded, respPc,
                   respMd, fired, lastResult>>
    /\ UNCHANGED regVars

(***************************************************************************)
(* Callback threads.                                                       *)
(***************************************************************************)
\* hg_core_recv_input_cb: the handle leaves the pending list.  On success,
\* an oversized message or a header that fails to decode goes to the error
\* label (ERRORED, error latched); otherwise hg_core_process_input sets
\* no_response from the flags and, with HG_CORE_MORE_DATA, increments
\* op_expected_count and calls the upper layer's acquire, whose failure also
\* goes to the error label.  Both end in hg_core_complete_op.  A canceled or
\* failed recv clears reuse and destroys the handle.
RecvInputCb(t) ==
    /\ tpc[t] = Idle /\ na["recv"] \in NaResults
    /\ na' = [na EXCEPT !["recv"] = "idle"]
    /\ pending' = FALSE
    /\ \/ /\ na["recv"] = "ok"
          /\ \E bad \in Outcomes(NaErrors), nr \in BOOLEAN,
                md \in Outcomes(MoreData), acqFail \in Outcomes(AcquireMayFail) :
               ProcessInput(bad, nr, md, acqFail)
          /\ CompleteOpRead(t)
          /\ UNCHANGED <<reuse, refCount, freed, repostPc>>
       \/ /\ na["recv"] \in {"canceled", "err"}
          /\ reuse' = FALSE
          /\ DestroyRef(FALSE)
          /\ UNCHANGED <<status, retStatus, noResponse, expected, acquire, tpc>>
    /\ UNCHANGED <<ret, completed, opType, cancelReq, cq, finalizing, trig,
                   userRef, responded, respPc, requests, delivered, ackRecv,
                   respMd, fired, lastResult>>
    /\ UNCHANGED regVars

\* hg_core_more_data_complete, called by the upper layer when the extra
\* input data has been acquired (or not): an error other than a cancel sets
\* ERRORED, any error is latched, then hg_core_complete_op.
AcquireDone(t) ==
    /\ tpc[t] = Idle /\ acquire = "acquiring"
    /\ acquire' = "none"
    /\ \E r \in {"ok"} \cup (IF NaErrors THEN {"err", "canceled"} ELSE {}) :
         IF r = "ok" THEN UNCHANGED <<status, retStatus>> ELSE NaFailure(r)
    /\ CompleteOpRead(t)
    /\ UNCHANGED <<ret, completed, expected, refCount, noResponse, reuse,
                   opType, na, cancelReq, cq, pending, freed, finalizing,
                   repostPc, trig, userRef, responded, respPc, requests,
                   delivered, ackRecv, respMd, fired, lastResult>>
    /\ UNCHANGED regVars

\* hg_core_send_output_cb.
SendOutputCb(t) ==
    /\ tpc[t] = Idle /\ na["send"] \in NaResults
    /\ na' = [na EXCEPT !["send"] = "idle"]
    /\ IF na["send"] = "ok" THEN UNCHANGED <<status, retStatus>>
                            ELSE NaFailure(na["send"])
    /\ CompleteOpRead(t)
    /\ UNCHANGED <<ret, completed, expected, refCount, noResponse, reuse,
                   opType, cancelReq, acquire, cq, pending, freed, finalizing,
                   repostPc, trig, userRef, responded, respPc, requests,
                   delivered, ackRecv, respMd, fired, lastResult>>
    /\ UNCHANGED regVars

\* hg_core_ack_cb.
AckCb(t) ==
    /\ tpc[t] = Idle /\ na["ack"] \in NaResults
    /\ na' = [na EXCEPT !["ack"] = "idle"]
    /\ IF na["ack"] = "ok" THEN UNCHANGED <<status, retStatus>>
                           ELSE NaFailure(na["ack"])
    /\ CompleteOpRead(t)
    /\ UNCHANGED <<ret, completed, expected, refCount, noResponse, reuse,
                   opType, cancelReq, acquire, cq, pending, freed, finalizing,
                   repostPc, trig, userRef, responded, respPc, requests,
                   delivered, ackRecv, respMd, fired, lastResult>>
    /\ UNCHANGED regVars

\* Mutation: hg_core_complete_op compares the count read before the increment.
CompleteOpWriteStale(t) ==
    /\ tpc[t] # Idle
    /\ completed' = tpc[t] + 1
    /\ tpc' = [tpc EXCEPT ![t] = Idle]
    /\ IF tpc[t] = expected
         THEN /\ status' = status \cup {"COMPLETED", "QUEUED"}
              /\ ret' = retStatus
              /\ cq' = cq + 1
         ELSE UNCHANGED <<status, ret, cq>>
    /\ UNCHANGED <<retStatus, expected, refCount, noResponse, reuse, opType, na,
                   cancelReq, acquire, pending, freed, finalizing, repostPc,
                   trig, userRef, responded, respPc, requests, delivered,
                   ackRecv, respMd, fired, lastResult>>
    /\ UNCHANGED regVars

\* End of hg_core_complete_op: write back the incremented count; if it equals
\* op_expected_count, hg_core_complete sets COMPLETED|QUEUED, copies
\* ret_status into ret and hg_core_completion_add pushes the handle.
CompleteOpWrite(t) ==
    /\ tpc[t] # Idle
    /\ completed' = tpc[t] + 1
    /\ tpc' = [tpc EXCEPT ![t] = Idle]
    /\ IF tpc[t] + 1 = expected
         THEN /\ status' = status \cup {"COMPLETED", "QUEUED"}
              /\ ret' = retStatus
              /\ cq' = cq + 1
         ELSE UNCHANGED <<status, ret, cq>>
    /\ UNCHANGED <<retStatus, expected, refCount, noResponse, reuse, opType, na,
                   cancelReq, acquire, pending, freed, finalizing, repostPc,
                   trig, userRef, responded, respPc, requests, delivered,
                   ackRecv, respMd, fired, lastResult>>
    /\ UNCHANGED regVars

(***************************************************************************)
(* Trigger thread.                                                         *)
(***************************************************************************)
\* hg_core_trigger_entry for op_type PROCESS: QUEUED is cleared; a handle
\* whose input failed goes straight to hg_core_destroy.  Otherwise a
\* reference is taken and hg_core_process looks the RPC id up
\* (hg_core_map_lookup, under the read lock only): a missing entry fails
\* with HG_NOENTRY; a registered one is cached in the handle and takes a
\* second reference (for the handler's HG_Core_destroy).
TriggerProcess ==
    /\ trig = "idle" /\ cq > 0 /\ opType = "PROCESS"
    /\ cq' = cq - 1
    /\ status' = status \ {"QUEUED"}
    /\ IF ret # "SUCCESS"
         THEN /\ DestroyRef(reuse)
              /\ UNCHANGED <<trig, responded, cached>>
         ELSE LET found == LookupFound IN
                /\ refCount' = refCount + ProcessRefs(found)
                /\ trig' = IF found THEN "call"
                           ELSE IF noResponse THEN "noresp" ELSE "err"
                /\ cached' = IF found THEN map ELSE cached
                /\ responded' = FALSE
                /\ UNCHANGED <<freed, repostPc>>
    /\ UNCHANGED <<retStatus, ret, completed, expected, noResponse, reuse,
                   opType, na, cancelReq, acquire, tpc, pending, finalizing,
                   respPc, requests, delivered, ackRecv, respMd, fired,
                   lastResult, userRef, map, allocs>>

\* hg_core_process, after the lookup: the RPC callback is read from the
\* cached rpc_info (rpc_cb, never NULL for an RPC the target serves) and
\* called; the handler now holds its reference.
ProcessCall ==
    /\ trig = "call"
    /\ trig' = "rpc"
    /\ userRef' = TRUE
    /\ UNCHANGED <<status, retStatus, ret, completed, expected, refCount,
                   noResponse, reuse, opType, na, cancelReq, acquire, cq, tpc,
                   pending, freed, finalizing, repostPc, responded, respPc,
                   requests, delivered, ackRecv, respMd, fired, lastResult>>
    /\ UNCHANGED regVars

\* The RPC callback returns r.  trigger_entry responds with the error if
\* it failed and the request expects a response, calls no_respond if the
\* request carried HG_CORE_NO_RESPONSE, and otherwise goes to done.  A
\* well-formed handler returns an error only if it released the handle
\* without responding, and releases it without responding only then.
RpcReturn(r) ==
    /\ trig = "rpc"
    /\ r = "err" => ~responded /\ ~userRef
    /\ r = "ok" => responded \/ userRef \/ noResponse
    /\ trig' = IF noResponse THEN "noresp"
               ELSE IF r = "err" THEN "err" ELSE "done"
    /\ UNCHANGED <<status, retStatus, ret, completed, expected, refCount,
                   noResponse, reuse, opType, na, cancelReq, acquire, cq, tpc,
                   pending, freed, finalizing, repostPc, userRef, responded,
                   respPc, requests, delivered, ackRecv, respMd, fired,
                   lastResult>>
    /\ UNCHANGED regVars

\* "Respond in case of error": hg_core_respond with the error code and no
\* more data; on its failure trigger_entry goes to done.
TriggerRespondError ==
    /\ trig = "err"
    /\ trig' = "done"
    /\ RespondBegin(FALSE, "trig")
    /\ UNCHANGED <<completed, noResponse, reuse, cancelReq, acquire, cq, tpc,
                   pending, freed, finalizing, repostPc, userRef, responded,
                   requests, delivered, ackRecv, fired, lastResult>>
    /\ UNCHANGED regVars

\* hg_core_no_respond_na: op_type NO_RESPOND, op_expected_count++ and
\* hg_core_complete_op.  Every other operation of the handle has completed
\* before PROCESS was queued and no response is sent, so the count is
\* updated by this thread alone.
NoRespond ==
    /\ trig = "noresp"
    /\ trig' = "done"
    /\ opType' = "NO_RESPOND"
    /\ expected' = expected + 1
    /\ completed' = completed + 1
    /\ IF completed + 1 = expected + 1
         THEN /\ status' = status \cup {"COMPLETED", "QUEUED"}
              /\ ret' = retStatus
              /\ cq' = cq + 1
         ELSE UNCHANGED <<status, ret, cq>>
    /\ UNCHANGED <<retStatus, refCount, noResponse, reuse, na, cancelReq,
                   acquire, tpc, pending, freed, finalizing, repostPc, userRef,
                   responded, respPc, requests, delivered, ackRecv, respMd,
                   fired, lastResult>>
    /\ UNCHANGED regVars

\* The done label of trigger_entry: hg_core_destroy, once its own respond
\* has returned.
TriggerDone ==
    /\ trig = "done"
    /\ respPc.who # "trig"
    /\ trig' = "idle"
    /\ DestroyRef(reuse)
    /\ UNCHANGED <<status, retStatus, ret, completed, expected, noResponse,
                   reuse, opType, na, cancelReq, acquire, cq, tpc, pending,
                   finalizing, userRef, responded, respPc, requests, delivered,
                   ackRecv, respMd, fired, lastResult>>
    /\ UNCHANGED regVars

\* hg_core_trigger_entry for RESPOND (the response callback runs with ret)
\* and NO_RESPOND (nothing runs), then hg_core_destroy.
TriggerRespond ==
    /\ trig = "idle" /\ cq > 0 /\ opType \in {"RESPOND", "NO_RESPOND"}
    /\ cq' = cq - 1
    /\ status' = status \ {"QUEUED"}
    /\ fired' = IF opType = "RESPOND" THEN fired + 1 ELSE fired
    /\ lastResult' = IF opType = "RESPOND" THEN ret ELSE lastResult
    /\ DestroyRef(reuse)
    /\ UNCHANGED <<retStatus, ret, completed, expected, noResponse, reuse,
                   opType, na, cancelReq, acquire, tpc, pending, finalizing,
                   trig, userRef, responded, respPc, requests, delivered,
                   ackRecv, respMd>>
    /\ UNCHANGED regVars

(***************************************************************************)
(* The RPC handler (application code holding the handle).                  *)
(***************************************************************************)
\* HG_Core_respond from the handler, inside the RPC callback or later.
UserRespond(md) ==
    /\ userRef /\ ~responded /\ respPc = RespIdle
    /\ md => MoreData
    /\ responded' = TRUE
    /\ RespondBegin(md, "user")
    /\ UNCHANGED <<completed, noResponse, reuse, cancelReq, acquire, cq, tpc,
                   pending, freed, finalizing, repostPc, trig, userRef,
                   requests, delivered, ackRecv, fired, lastResult>>
    /\ UNCHANGED regVars

\* The send post of hg_core_respond_na.  On failure POSTED is cleared and
\* ERRORED set; if the ack recv was posted, op_expected_count is
\* decremented, ret_status overwritten with the error, CANCELED set, the ack
\* canceled and HG_SUCCESS returned; otherwise hg_core_respond's error label
\* sets COMPLETED and decrements ref_count.
RespondSend ==
    /\ respPc # RespIdle
    /\ respPc' = RespIdle
    /\ \E fail \in Outcomes(PostMayFail) :
         \/ /\ ~fail
            /\ na' = [na EXCEPT !["send"] = "posted"]
            /\ UNCHANGED <<status, expected, retStatus, refCount, cancelReq>>
         \/ /\ fail /\ respPc.ack
            /\ status' = (status \ {"POSTED"}) \cup {"ERRORED", "CANCELED"}
            /\ expected' = expected - 1
            /\ retStatus' = "NA_ERROR"
            /\ cancelReq' = [cancelReq EXCEPT !["ack"] = @ \/ na["ack"] = "posted"]
            /\ UNCHANGED <<na, refCount>>
         \/ /\ fail /\ ~respPc.ack
            /\ status' = (status \ {"POSTED"}) \cup {"ERRORED", "COMPLETED"}
            /\ refCount' = refCount - 1
            /\ UNCHANGED <<na, expected, retStatus, cancelReq>>
    /\ UNCHANGED <<ret, completed, noResponse, reuse, opType, acquire, cq, tpc,
                   pending, freed, finalizing, repostPc, trig, userRef,
                   responded, requests, delivered, ackRecv, respMd, fired,
                   lastResult>>
    /\ UNCHANGED regVars

\* HG_Core_destroy from the handler, after its respond has returned.
UserDestroy ==
    /\ userRef
    /\ respPc.who # "user"
    /\ responded \/ noResponse \/ trig = "rpc"
    /\ userRef' = FALSE
    /\ DestroyRef(reuse)
    /\ UNCHANGED <<status, retStatus, ret, completed, expected, noResponse,
                   reuse, opType, na, cancelReq, acquire, cq, tpc, pending,
                   finalizing, trig, responded, respPc, requests, delivered,
                   ackRecv, respMd, fired, lastResult>>
    /\ UNCHANGED regVars

\* HG_Core_cancel -> hg_core_cancel from the handler: a no-op once COMPLETED,
\* ERRORED or CANCELED is set; the thread that sets CANCELED cancels the
\* posted operations (the response send and the ack recv).
UserCancel ==
    /\ UserCancels /\ userRef
    /\ status \cap {"COMPLETED", "ERRORED", "CANCELED"} = {}
    /\ status' = status \cup {"CANCELED"}
    /\ cancelReq' = [o \in Ops |-> cancelReq[o] \/ na[o] = "posted"]
    /\ UNCHANGED <<retStatus, ret, completed, expected, refCount, noResponse,
                   reuse, opType, na, acquire, cq, tpc, pending, freed,
                   finalizing, repostPc, trig, userRef, responded, respPc,
                   requests, delivered, ackRecv, respMd, fired, lastResult>>
    /\ UNCHANGED regVars

(***************************************************************************)
(* hg_core_reset_post, after the last hg_core_destroy with reuse set.      *)
(***************************************************************************)
\* hg_core_reset: op_type PROCESS, ret SUCCESS, op_expected_count 1,
\* op_completed_count 0, no_response cleared.
CoreReset ==
    /\ ret' = "SUCCESS" /\ expected' = 1 /\ completed' = 0
    /\ noResponse' = FALSE /\ opType' = "PROCESS"

\* hg_core_reset, then ref_count 1, rpc_info NULL, status 0,
\* ret_status = ret, and the handle back on the pending list.
ResetPostInsert ==
    /\ repostPc = "insert"
    /\ repostPc' = "post"
    /\ CoreReset
    /\ retStatus' = "SUCCESS" /\ status' = {} /\ refCount' = 1
    /\ pending' = TRUE /\ cached' = 0
    /\ UNCHANGED <<map, allocs>>
    /\ UNCHANGED <<reuse, na, cancelReq, acquire, cq, tpc, freed, finalizing,
                   trig, userRef, responded, respPc, requests, delivered,
                   ackRecv, respMd, fired, lastResult>>

\* hg_core_post: post the unexpected recv again; its failure is returned
\* to hg_core_destroy, which ignores it ("TODO handle error").
ResetPostPost ==
    /\ repostPc = "post"
    /\ repostPc' = "none"
    /\ \E fail \in Outcomes(RepostMayFail) :
         na' = IF fail THEN na ELSE [na EXCEPT !["recv"] = "posted"]
    /\ UNCHANGED <<status, retStatus, ret, completed, expected, refCount,
                   noResponse, reuse, opType, cancelReq, acquire, cq, tpc,
                   pending, freed, finalizing, trig, userRef, responded,
                   respPc, requests, delivered, ackRecv, respMd, fired,
                   lastResult>>
    /\ UNCHANGED regVars

(***************************************************************************)
(* RPC registration by the application (rpc_map under its rwlock).         *)
(***************************************************************************)
\* hg_core_map_insert: a new rpc_info, inserted under the write lock.
MapInsert ==
    /\ allocs' = allocs + 1
    /\ map' = allocs + 1

\* hg_core_map_remove: removed under the write lock; the table frees the
\* rpc_info (hg_core_map_value_free) at once, whoever still points to it.
MapRemove == map' = 0

\* HG_Core_register: hg_core_map_lookup, and on a miss hg_core_map_insert
\* of a new rpc_info under the write lock; on a hit only rpc_cb is
\* overwritten, which changes nothing here.  The lookup and the insert
\* take the map lock separately; the application registers from one
\* thread, so the two are one step here.
Register ==
    /\ UnknownRpc /\ map = 0 /\ allocs < MaxRegs
    /\ MapInsert
    /\ UNCHANGED <<status, retStatus, ret, completed, expected, refCount,
                   noResponse, reuse, opType, na, cancelReq, acquire, cq, tpc,
                   pending, freed, finalizing, repostPc, trig, userRef,
                   responded, respPc, requests, delivered, ackRecv, respMd,
                   fired, lastResult, cached>>

\* HG_Core_deregister: hg_core_map_remove.  A missing id returns HG_NOENTRY and changes nothing.
\* Unless DeregisterInFlight, the application deregisters only while no
\* request of the id is being processed or handled.
Deregister ==
    /\ UnknownRpc /\ map # 0
    /\ DeregisterInFlight \/ (trig = "idle" /\ ~userRef)
    /\ MapRemove
    /\ UNCHANGED <<status, retStatus, ret, completed, expected, refCount,
                   noResponse, reuse, opType, na, cancelReq, acquire, cq, tpc,
                   pending, freed, finalizing, repostPc, trig, userRef,
                   responded, respPc, requests, delivered, ackRecv, respMd,
                   fired, lastResult, allocs, cached>>

(***************************************************************************)
(* Context finalization.                                                   *)
(***************************************************************************)
\* hg_core_context_destroy: the context is marked finalizing before
\* hg_core_context_unpost reaches the handle pool.
ContextFinalizing == finalizing' = TRUE

\* hg_core_context_destroy sets finalizing, then hg_core_handle_pool_unpost
\* calls hg_core_cancel on each handle of the pending list: a no-op if
\* COMPLETED, ERRORED or CANCELED is set, otherwise CANCELED is set and the
\* posted operations canceled.  Unless ConcurrentFinalize, no handler or
\* trigger is running elsewhere (the finalizing thread's own progress and
\* trigger calls, in hg_core_context_list_wait, are the actions below).
Unpost ==
    /\ ~finalizing
    /\ ConcurrentFinalize \/ (trig = "idle" /\ ~userRef /\ repostPc = "none"
                              /\ respPc = RespIdle)
    /\ ContextFinalizing
    /\ IF pending /\ status \cap {"COMPLETED", "ERRORED", "CANCELED"} = {}
         THEN /\ status' = status \cup {"CANCELED"}
              /\ cancelReq' = [o \in Ops |-> cancelReq[o] \/ na[o] = "posted"]
         ELSE UNCHANGED <<status, cancelReq>>
    /\ UNCHANGED <<retStatus, ret, completed, expected, refCount, noResponse,
                   reuse, opType, na, acquire, cq, tpc, pending, freed,
                   repostPc, trig, userRef, responded, respPc, requests,
                   delivered, ackRecv, respMd, fired, lastResult>>
    /\ UNCHANGED regVars

\* The handle was freed, or it is posted and no more requests arrive.
Done ==
    /\ freed \/ (pending /\ na["recv"] = "posted" /\ ~cancelReq["recv"]
                 /\ requests = MaxRequests)
    /\ UNCHANGED vars

Next ==
    \/ \E o \in Ops : NaComplete(o)
    \/ \E t \in Threads :
         \/ RecvInputCb(t) \/ AcquireDone(t) \/ SendOutputCb(t) \/ AckCb(t)
         \/ CompleteOpWrite(t)
    \/ TriggerProcess \/ ProcessCall \/ \E r \in {"ok", "err"} : RpcReturn(r)
    \/ TriggerRespondError \/ NoRespond \/ TriggerDone \/ TriggerRespond
    \/ \E md \in BOOLEAN : UserRespond(md)
    \/ RespondSend \/ UserDestroy \/ UserCancel
    \/ ResetPostInsert \/ ResetPostPost
    \/ Unpost
    \/ Register \/ Deregister
    \/ Done

\* The transport completes posted sends and acks and honours a cancel of
\* the recv (whether a request ever arrives is up to the peers); callback
\* and trigger threads keep calling progress and trigger; a thread inside
\* a respond or reset_post returns from it; the application's handler
\* eventually returns, responds and releases the handle.
Fairness ==
    /\ WF_vars(NaComplete("send")) /\ WF_vars(NaComplete("ack"))
    /\ WF_vars(cancelReq["recv"] /\ NaComplete("recv"))
    /\ \A t \in Threads :
         /\ WF_vars(RecvInputCb(t)) /\ WF_vars(AcquireDone(t))
         /\ WF_vars(SendOutputCb(t)) /\ WF_vars(AckCb(t))
         /\ WF_vars(CompleteOpWrite(t))
    /\ WF_vars(TriggerProcess) /\ WF_vars(ProcessCall)
    /\ WF_vars(\E r \in {"ok", "err"} : RpcReturn(r))
    /\ WF_vars(TriggerRespondError) /\ WF_vars(NoRespond)
    /\ WF_vars(TriggerDone) /\ WF_vars(TriggerRespond)
    /\ WF_vars(\E md \in BOOLEAN : UserRespond(md))
    /\ WF_vars(RespondSend) /\ WF_vars(UserDestroy)
    /\ WF_vars(ResetPostInsert) /\ WF_vars(ResetPostPost)

Spec == Init /\ [][Next]_vars /\ Fairness

(***************************************************************************)
(* Properties.                                                             *)
(***************************************************************************)
\* Nothing of a previous request is in flight or referenced.
Drained ==
    /\ cq = 0 /\ na["send"] = "idle" /\ na["ack"] = "idle"
    /\ acquire = "none" /\ \A t \in Threads : tpc[t] = Idle
    /\ trig = "idle" /\ ~userRef /\ respPc = RespIdle

\* A handle is put back on the pending list (hg_core_reset_post) only when
\* the last hg_core_destroy has run: no response send, ack, completion
\* queue entry, trigger entry or handler of the previous request still uses
\* it, and it holds exactly the pool's reference.
RepostOnlyWhenDrained == pending => (Drained /\ refCount = 1)

\* hg_core_free runs only once every reference is dropped and nothing of
\* the handle remains posted, queued or running.
NoUseAfterFree ==
    freed => /\ Drained /\ refCount = 0 /\ ~pending
             /\ na["recv"] = "idle" /\ repostPc = "none"

\* The response callback reports HG_SUCCESS only if the response reached
\* the origin and, for a response with more data, its ack came back: a
\* canceled or failed send or ack is never masked by hg_core_respond's
\* reset of ret_status.
RespondResultSound ==
    [][fired' = fired + 1 /\ lastResult' = "SUCCESS"
         => delivered /\ (respMd => ackRecv)]_vars

\* Every request taken off the pending list ends with the handle back on
\* it or freed: the handle is never lost to the pool.
HandleRecycled == (~pending /\ ~freed) ~> (pending \/ freed)

\* Once the context is finalizing, the handle is eventually freed, so that
\* hg_core_context_list_wait finds the pending list empty.
FinalizeDrains == finalizing ~> freed
\* From hg_core_process's lookup until the handler releases the handle,
\* the rpc_info cached in core_handle.rpc_info (through which rpc_cb is
\* called and the upper layer reads its data) is the one the map still
\* holds: it was never freed by HG_Core_deregister under the handler.
HandlerInfoLive ==
    (trig \in {"call", "rpc"} \/ userRef) => cached # 0 /\ cached = map
====
