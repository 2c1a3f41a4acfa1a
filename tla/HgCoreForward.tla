---------------------------- MODULE HgCoreForward ----------------------------
(***************************************************************************)
(* Origin side of one Mercury core RPC handle (src/src/mercury_core.c).    *)
(*                                                                         *)
(* A user thread creates the handle, forwards it (hg_core_forward /        *)
(* hg_core_forward_na), may cancel it (hg_core_cancel), reset it and       *)
(* destroy it.  The NA transport completes the posted send, recv and ack   *)
(* operations; callback threads run their NA callbacks (send_input_cb,     *)
(* recv_output_cb, ack_cb) and the upper layer's more-data completion      *)
(* (hg_core_send_ack); a trigger thread pops the completion queue and runs *)
(* the forward callback (hg_core_trigger_entry).                           *)
(*                                                                         *)
(* op_completed_count is a plain unsigned int: hg_core_complete_op is      *)
(* modelled as a read of the counter (at the end of the callback body) and *)
(* a later write, so that callbacks on several threads and the user        *)
(* thread's own updates of op_expected_count interleave with it.           *)
(***************************************************************************)
EXTENDS Integers, FiniteSets

CONSTANTS
    Threads,               \* threads that run NA callbacks (progress/NA_Trigger)
    MaxForwards,           \* bound on the number of forwards of the handle
    NaErrors,              \* the transport may complete an operation with an error
    PostMayFail,           \* posting an NA send may fail immediately
    MoreData,              \* responses may carry the HG_CORE_MORE_DATA flag
    AcquireMayFail,        \* the upper layer's acquire callback may return an error
    ReforwardWithoutReset, \* the user may forward again without HG_Core_reset
    ReuseBeforeCallback    \* another user thread may reset or forward the
                           \* handle once its status allows, before the
                           \* forward callback has run

ASSUME MaxForwards \in Nat \ {0}
ASSUME {NaErrors, PostMayFail, MoreData, AcquireMayFail, ReforwardWithoutReset,
        ReuseBeforeCallback} \subseteq BOOLEAN
ASSUME Threads # {}

\* The NA operation ids of the handle: na_send_op_id, na_recv_op_id, na_ack_op_id.
Ops == {"send", "recv", "ack"}
\* Completion results of an NA operation, queued in NA until its callback runs.
NaResults == {"ok", "err", "canceled"}
NaStates == {"idle", "posted"} \cup NaResults
\* hg_return_t values the handle can carry.
RetCodes == {"SUCCESS", "CANCELED", "NA_ERROR", "PROTOCOL_ERROR", "RPC_ERROR"}
\* HG_CORE_OP_* status bits (HG_CORE_OP_MULTI_RECV is a target-side bit).
Bits == {"COMPLETED", "CANCELED", "POSTED", "ERRORED", "QUEUED"}
\* Value of a callback thread's local op_completed_count when it is idle.
Idle == -1

VARIABLES
    status,      \* hg_core_handle->status
    retStatus,   \* hg_core_handle->ret_status
    ret,         \* hg_core_handle->ret, the value passed to the callback
    completed,   \* hg_core_handle->op_completed_count
    expected,    \* hg_core_handle->op_expected_count
    refCount,    \* hg_core_handle->ref_count
    noResponse,  \* hg_core_handle->no_response
    na,          \* state of each NA operation of the handle
    cancelReq,   \* NA_Cancel was called while the operation was posted
    delivered,   \* the request reached the target (send completed ok)
    moreData,    \* "acquiring" while the upper layer pulls extra output data
    cq,          \* entries of this handle in the completion queue
    freed,       \* hg_core_free was called
    userPc,      \* "idle" or "send" (inside hg_core_forward_na, before the send)
    userRef,     \* the user still holds the reference returned by create
    tpc,         \* per callback thread: Idle or the op_completed_count it read
    forwards,    \* number of hg_core_forward calls (bounded by MaxForwards)
    accepted,    \* forwards that returned HG_SUCCESS
    fired,       \* forward callbacks executed by trigger
    lastResult,  \* result passed to the last forward callback
    flagNoResp,  \* HG_CORE_NO_RESPONSE was in the flags of the last forward
    respRecv,    \* the response of the last forward was received and decoded
    resetSince,  \* HG_Core_reset was called since the last forward
    popped       \* the trigger thread popped the entry and is inside
                 \* hg_core_trigger_entry, before the callback

vars == <<status, retStatus, ret, completed, expected, refCount, noResponse,
          na, cancelReq, delivered, moreData, cq, freed, userPc, userRef, tpc,
          forwards, accepted, fired, lastResult, flagNoResp, respRecv,
          resetSince, popped>>

TypeOK ==
    /\ status \subseteq Bits
    /\ retStatus \in RetCodes /\ ret \in RetCodes /\ lastResult \in RetCodes
    /\ completed \in Nat /\ expected \in Nat /\ refCount \in Nat
    /\ na \in [Ops -> NaStates] /\ cancelReq \in [Ops -> BOOLEAN]
    /\ moreData \in {"none", "acquiring"}
    /\ cq \in Nat /\ userPc \in {"idle", "send"}
    /\ tpc \in [Threads -> {Idle} \cup Nat]
    /\ {noResponse, delivered, freed, userRef, flagNoResp, respRecv,
        resetSince, popped} \subseteq BOOLEAN
    /\ forwards \in 0..MaxForwards /\ accepted \in Nat /\ fired \in Nat

\* hg_core_alloc: status COMPLETED, ref_count 1, counters reset.
Init ==
    /\ status = {"COMPLETED"}
    /\ retStatus = "SUCCESS" /\ ret = "SUCCESS" /\ lastResult = "SUCCESS"
    /\ completed = 0 /\ expected = 1 /\ refCount = 1
    /\ noResponse = FALSE
    /\ na = [o \in Ops |-> "idle"] /\ cancelReq = [o \in Ops |-> FALSE]
    /\ delivered = FALSE /\ moreData = "none"
    /\ cq = 0 /\ freed = FALSE
    /\ userPc = "idle" /\ userRef = TRUE
    /\ tpc = [t \in Threads |-> Idle]
    /\ forwards = 0 /\ accepted = 0 /\ fired = 0
    /\ flagNoResp = FALSE /\ respRecv = FALSE /\ resetSince = TRUE
    /\ popped = FALSE

(***************************************************************************)
(* Helpers.                                                                *)
(***************************************************************************)
\* hg_atomic_cas32(&ret_status, HG_SUCCESS, r): keep the first non-success.
Latch(r) == IF retStatus = "SUCCESS" THEN r ELSE retStatus

\* NA_Cancel(op): only an operation still posted in NA is affected.
CancelPosted(o) == [cancelReq EXCEPT ![o] = @ \/ na[o] = "posted"]

PostOutcomes == IF PostMayFail THEN BOOLEAN ELSE {FALSE}

\* Mutation: hg_core_forward forgets to take its reference.
TakeNoRef == UNCHANGED refCount

\* hg_core_forward: hg_atomic_incr32(&ref_count) so that destroy may be
\* called before the callback.
TakeRef == refCount' = refCount + 1

\* Mutation: the NA_CANCELED branch of a callback is missing.
NaFailureIgnoreCancel(r) ==
    IF r = "canceled" THEN UNCHANGED <<status, retStatus>>
    ELSE /\ status' = status \cup {"ERRORED"}
         /\ retStatus' = Latch("NA_ERROR")

\* The NA_CANCELED and error branches of the NA callbacks (ack_cb, and
\* recv_output_cb's error label): a cancel latches HG_CANCELED, an error
\* sets ERRORED and latches the error.
NaFailure(r) ==
    IF r = "canceled"
      THEN /\ retStatus' = Latch("CANCELED")
           /\ UNCHANGED status
      ELSE /\ status' = status \cup {"ERRORED"}
           /\ retStatus' = Latch("NA_ERROR")

\* Mutation: process_output does not count the extra-data acquisition.
ProcessOutputUncounted(rc, md, acqFail) ==
    /\ retStatus' = IF acqFail /\ rc = "SUCCESS" THEN "NA_ERROR" ELSE rc
    /\ status' = IF acqFail THEN status \cup {"ERRORED"} ELSE status
    /\ respRecv' = TRUE
    /\ UNCHANGED expected
    /\ moreData' = IF md /\ ~acqFail THEN "acquiring" ELSE moreData

\* hg_core_process_output on a decoded header: ret_status is overwritten
\* with the response's ret_code; with HG_CORE_MORE_DATA op_expected_count++
\* and the upper layer's acquire callback starts.  If acquire returns an
\* error (acqFail; the upper layer's code, as NA_ERROR), recv_output_cb's
\* error label sets ERRORED and latches it over the ret_code, and only the
\* recv is completed: the count incremented for the acquisition stays.
ProcessOutput(rc, md, acqFail) ==
    /\ retStatus' = IF acqFail /\ rc = "SUCCESS" THEN "NA_ERROR" ELSE rc
    /\ status' = IF acqFail THEN status \cup {"ERRORED"} ELSE status
    /\ respRecv' = TRUE
    /\ expected' = IF md THEN expected + 1 ELSE expected
    /\ moreData' = IF md /\ ~acqFail THEN "acquiring" ELSE moreData

\* hg_core_free (after hg_core_free_na): the handle leaves the context's
\* created list and its memory is released.
HandleFree(last) == freed' = last

\* hg_core_destroy on a handle created by HG_Core_create (reuse is FALSE):
\* the last reference frees the handle.
Release ==
    /\ refCount' = refCount - 1
    /\ HandleFree(refCount = 1)

\* Start of hg_core_complete_op: the callback body has run; the thread reads
\* op_completed_count to increment it.
CompleteOpRead(t) == tpc' = [tpc EXCEPT ![t] = completed]

(***************************************************************************)
(* User thread.                                                            *)
(***************************************************************************)
\* hg_core_forward up to the send: guard on COMPLETED and not QUEUED (else
\* HG_BUSY, no change), take a reference, reset the counters, ret and status,
\* set no_response from the flags (never cleared here), then
\* hg_core_forward_na pre-posts the response recv (op_expected_count++) and
\* sets POSTED; a failed recv post unwinds through the error label of
\* hg_core_forward (status = COMPLETED, reference rolled back).
ForwardBegin(nr) ==
    /\ userPc = "idle" /\ userRef /\ forwards < MaxForwards
    /\ ReuseBeforeCallback \/ fired = accepted
    /\ ReforwardWithoutReset \/ resetSince
    /\ "COMPLETED" \in status /\ "QUEUED" \notin status
    /\ LET noResp == noResponse \/ nr IN
       \E fail \in PostOutcomes :
         /\ noResponse' = noResp
         /\ IF ~noResp /\ fail
              THEN /\ status' = {"COMPLETED"}
                   /\ expected' = 1
                   /\ UNCHANGED <<refCount, na, userPc>>
              ELSE /\ status' = {"POSTED"}
                   /\ expected' = IF noResp THEN 1 ELSE 2
                   /\ TakeRef
                   /\ na' = IF noResp THEN na ELSE [na EXCEPT !["recv"] = "posted"]
                   /\ userPc' = "send"
    /\ completed' = 0 /\ ret' = "SUCCESS" /\ retStatus' = "SUCCESS"
    /\ delivered' = FALSE /\ respRecv' = FALSE
    /\ forwards' = forwards + 1 /\ flagNoResp' = nr /\ resetSince' = FALSE
    /\ UNCHANGED <<popped, cancelReq, moreData, cq, freed, userRef, tpc, accepted,
                   fired, lastResult>>

\* The send post of hg_core_forward_na.  On failure (error_send) POSTED is
\* cleared and ERRORED set; with no_response the error is returned and
\* hg_core_forward unwinds; otherwise op_expected_count is decremented,
\* ret_status overwritten with the error, CANCELED set, the recv canceled
\* and HG_SUCCESS returned.
ForwardSend ==
    /\ userPc = "send"
    /\ userPc' = "idle"
    /\ \E fail \in PostOutcomes :
         \/ /\ ~fail
            /\ na' = [na EXCEPT !["send"] = "posted"]
            /\ accepted' = accepted + 1
            /\ UNCHANGED <<status, expected, retStatus, refCount, freed,
                           cancelReq>>
         \/ /\ fail /\ noResponse
            /\ status' = {"COMPLETED"}
            /\ Release
            /\ UNCHANGED <<na, accepted, expected, retStatus, cancelReq>>
         \/ /\ fail /\ ~noResponse
            /\ status' = (status \ {"POSTED"}) \cup {"ERRORED", "CANCELED"}
            /\ expected' = expected - 1
            /\ retStatus' = "NA_ERROR"
            /\ cancelReq' = CancelPosted("recv")
            /\ accepted' = accepted + 1
            /\ UNCHANGED <<na, refCount, freed>>
    /\ UNCHANGED <<popped, ret, completed, noResponse, delivered, moreData, cq, userRef,
                   tpc, forwards, fired, lastResult, flagNoResp, respRecv,
                   resetSince>>

\* HG_Core_cancel -> hg_core_cancel: no-op if COMPLETED, ERRORED or CANCELED
\* is set; the thread that sets CANCELED cancels recv, send and ack.
Cancel ==
    /\ userRef /\ userPc = "idle"
    /\ status \cap {"COMPLETED", "ERRORED", "CANCELED"} = {}
    /\ status' = status \cup {"CANCELED"}
    /\ cancelReq' = [o \in Ops |-> cancelReq[o] \/ na[o] = "posted"]
    /\ UNCHANGED <<popped, retStatus, ret, completed, expected, refCount, noResponse,
                   na, delivered, moreData, cq, freed, userPc, userRef, tpc,
                   forwards, accepted, fired, lastResult, flagNoResp,
                   respRecv, resetSince>>

\* HG_Core_reset -> hg_core_reset, allowed only when COMPLETED and not QUEUED.
Reset ==
    /\ userRef /\ userPc = "idle"
    /\ ReuseBeforeCallback \/ fired = accepted
    /\ "COMPLETED" \in status /\ "QUEUED" \notin status
    /\ ~resetSince
    /\ expected' = 1 /\ completed' = 0 /\ ret' = "SUCCESS"
    /\ noResponse' = FALSE /\ resetSince' = TRUE
    /\ UNCHANGED <<popped, status, retStatus, refCount, na, cancelReq, delivered,
                   moreData, cq, freed, userPc, userRef, tpc, forwards,
                   accepted, fired, lastResult, flagNoResp, respRecv>>

\* Mutation: HG_Core_destroy called twice on the same handle.
UserDestroyTwice ==
    /\ userPc = "idle"
    /\ userRef' = FALSE
    /\ Release
    /\ UNCHANGED <<popped, status, retStatus, ret, completed, expected, noResponse, na,
                   cancelReq, delivered, moreData, cq, userPc, tpc, forwards,
                   accepted, fired, lastResult, flagNoResp, respRecv,
                   resetSince>>

\* HG_Core_destroy: drop the user's reference.
UserDestroy ==
    /\ userRef /\ userPc = "idle"
    /\ userRef' = FALSE
    /\ Release
    /\ UNCHANGED <<popped, status, retStatus, ret, completed, expected, noResponse, na,
                   cancelReq, delivered, moreData, cq, userPc, tpc, forwards,
                   accepted, fired, lastResult, flagNoResp, respRecv,
                   resetSince>>

(***************************************************************************)
(* NA transport.                                                           *)
(***************************************************************************)
\* A posted operation completes; its completion waits in NA for a callback
\* thread.  It completes as canceled only if NA_Cancel reached it, with an
\* error only when NaErrors, and a recv completes ok only once the request
\* has been delivered (the target's response needs it).
NaComplete(o) ==
    /\ na[o] = "posted"
    /\ \E r \in NaResults :
         /\ r = "err" => NaErrors
         /\ r = "canceled" => cancelReq[o]
         /\ (o = "recv" /\ r = "ok") => delivered
         /\ na' = [na EXCEPT ![o] = r]
         /\ cancelReq' = [cancelReq EXCEPT ![o] = FALSE]
         /\ delivered' = (delivered \/ (o = "send" /\ r = "ok"))
    /\ UNCHANGED <<popped, status, retStatus, ret, completed, expected, refCount,
                   noResponse, moreData, cq, freed, userPc, userRef, tpc,
                   forwards, accepted, fired, lastResult, flagNoResp,
                   respRecv, resetSince>>

(***************************************************************************)
(* Callback threads: NA callbacks up to the read in hg_core_complete_op.   *)
(***************************************************************************)
\* hg_core_send_input_cb.
SendInputCb(t) ==
    /\ tpc[t] = Idle /\ na["send"] \in NaResults
    /\ na' = [na EXCEPT !["send"] = "idle"]
    /\ CASE na["send"] = "ok" ->
              UNCHANGED <<status, retStatus, cancelReq>>
         [] na["send"] = "canceled" ->
              /\ retStatus' = Latch("CANCELED")
              /\ UNCHANGED <<status, cancelReq>>
         [] na["send"] = "err" ->
              /\ retStatus' = Latch("NA_ERROR")
              /\ IF "CANCELED" \notin status /\ ~noResponse
                   THEN /\ status' = status \cup {"ERRORED", "CANCELED"}
                        /\ cancelReq' = CancelPosted("recv")
                   ELSE /\ status' = status \cup {"ERRORED"}
                        /\ UNCHANGED cancelReq
    /\ CompleteOpRead(t)
    /\ UNCHANGED <<popped, ret, completed, expected, refCount, noResponse, delivered,
                   moreData, cq, freed, userPc, userRef, forwards, accepted,
                   fired, lastResult, flagNoResp, respRecv, resetSince>>

\* hg_core_recv_output_cb with hg_core_process_output: a decoded response
\* header overwrites ret_status with its ret_code (hg_atomic_set32); with
\* HG_CORE_MORE_DATA op_expected_count++ and the upper layer starts to
\* acquire the extra data.  A header that fails to decode, a canceled or an
\* errored recv latch their error.
RecvOutputCb(t) ==
    /\ tpc[t] = Idle /\ na["recv"] \in NaResults
    /\ na' = [na EXCEPT !["recv"] = "idle"]
    /\ \/ /\ na["recv"] = "ok"
          /\ \E rc \in {"SUCCESS", "RPC_ERROR"},
                md \in (IF MoreData THEN BOOLEAN ELSE {FALSE}) :
               \E acqFail \in (IF md /\ AcquireMayFail THEN BOOLEAN ELSE {FALSE}) :
                  ProcessOutput(rc, md, acqFail)
       \/ /\ na["recv"] = "ok" /\ NaErrors
          /\ status' = status \cup {"ERRORED"}
          /\ retStatus' = Latch("PROTOCOL_ERROR")
          /\ UNCHANGED <<respRecv, expected, moreData>>
       \/ /\ na["recv"] \in {"canceled", "err"}
          /\ NaFailure(na["recv"])
          /\ UNCHANGED <<respRecv, expected, moreData>>
    /\ CompleteOpRead(t)
    /\ UNCHANGED <<popped, ret, completed, refCount, noResponse, cancelReq, delivered,
                   cq, freed, userPc, userRef, forwards, accepted, fired,
                   lastResult, flagNoResp, resetSince>>

\* hg_core_send_ack, called by the upper layer when the extra output data
\* has been acquired: on success the ack send is posted (its completion is
\* counted by hg_core_ack_cb); if the acquisition or the post failed, the
\* error is latched and the operation completed here.
MoreDataDone(t) ==
    /\ tpc[t] = Idle /\ moreData = "acquiring"
    /\ moreData' = "none"
    /\ \E acquired \in (IF NaErrors THEN BOOLEAN ELSE {TRUE}),
          fail \in PostOutcomes :
         IF acquired /\ ~fail
           THEN /\ na' = [na EXCEPT !["ack"] = "posted"]
                /\ UNCHANGED <<status, retStatus, tpc>>
           ELSE /\ status' = status \cup {"ERRORED"}
                /\ retStatus' = Latch("NA_ERROR")
                /\ CompleteOpRead(t)
                /\ UNCHANGED na
    /\ UNCHANGED <<popped, ret, completed, expected, refCount, noResponse, cancelReq,
                   delivered, cq, freed, userPc, userRef, forwards, accepted,
                   fired, lastResult, flagNoResp, respRecv, resetSince>>

\* hg_core_ack_cb.
AckCb(t) ==
    /\ tpc[t] = Idle /\ na["ack"] \in NaResults
    /\ na' = [na EXCEPT !["ack"] = "idle"]
    /\ IF na["ack"] = "ok" THEN UNCHANGED <<status, retStatus>>
                           ELSE NaFailure(na["ack"])
    /\ CompleteOpRead(t)
    /\ UNCHANGED <<popped, ret, completed, expected, refCount, noResponse, cancelReq,
                   delivered, moreData, cq, freed, userPc, userRef, forwards,
                   accepted, fired, lastResult, flagNoResp, respRecv,
                   resetSince>>

\* Mutation: hg_core_complete_op compares the count read before the increment.
CompleteOpWriteStale(t) ==
    /\ tpc[t] # Idle
    /\ completed' = tpc[t] + 1
    /\ tpc' = [tpc EXCEPT ![t] = Idle]
    /\ IF tpc[t] = expected
         THEN /\ status' = status \cup {"COMPLETED", "QUEUED"}
              /\ ret' = retStatus
              /\ cq' = cq + 1
         ELSE UNCHANGED <<status, ret, cq>>
    /\ UNCHANGED <<popped, retStatus, expected, refCount, noResponse, na, cancelReq,
                   delivered, moreData, freed, userPc, userRef, forwards,
                   accepted, fired, lastResult, flagNoResp, respRecv,
                   resetSince>>

\* End of hg_core_complete_op: write back the incremented count; if it equals
\* op_expected_count, hg_core_complete sets COMPLETED|QUEUED, copies
\* ret_status into ret and hg_core_completion_add pushes the handle.
CompleteOpWrite(t) ==
    /\ tpc[t] # Idle
    /\ completed' = tpc[t] + 1
    /\ tpc' = [tpc EXCEPT ![t] = Idle]
    /\ IF tpc[t] + 1 = expected
         THEN /\ status' = status \cup {"COMPLETED", "QUEUED"}
              /\ ret' = retStatus
              /\ cq' = cq + 1
         ELSE UNCHANGED <<status, ret, cq>>
    /\ UNCHANGED <<popped, retStatus, expected, refCount, noResponse, na, cancelReq,
                   delivered, moreData, freed, userPc, userRef, forwards,
                   accepted, fired, lastResult, flagNoResp, respRecv,
                   resetSince>>

(***************************************************************************)
(* Trigger thread.                                                         *)
(***************************************************************************)
\* hg_core_trigger pops the entry and hg_core_trigger_entry first clears
\* QUEUED, so that the status allows HG_Core_reset and HG_Core_forward again.
TriggerPop ==
    /\ cq > 0 /\ ~popped
    /\ cq' = cq - 1
    /\ status' = status \ {"QUEUED"}
    /\ popped' = TRUE
    /\ UNCHANGED <<retStatus, ret, completed, expected, refCount, noResponse,
                   na, cancelReq, delivered, moreData, freed, userPc, userRef,
                   tpc, forwards, accepted, fired, lastResult, flagNoResp,
                   respRecv, resetSince>>

\* hg_core_trigger_entry then reads ret and request_callback, runs the
\* forward callback and calls hg_core_destroy.
TriggerRun ==
    /\ popped
    /\ popped' = FALSE
    /\ fired' = fired + 1
    /\ lastResult' = ret
    /\ Release
    /\ UNCHANGED <<status, retStatus, ret, completed, expected, noResponse, na,
                   cancelReq, delivered, moreData, cq, userPc, userRef, tpc,
                   forwards, accepted, flagNoResp, respRecv, resetSince>>

Trigger == TriggerPop \/ TriggerRun

\* The handle was freed: nothing of it remains to run.
Done == freed /\ UNCHANGED vars

Next ==
    \/ \E nr \in BOOLEAN : ForwardBegin(nr)
    \/ ForwardSend \/ Cancel \/ Reset \/ UserDestroy
    \/ \E o \in Ops : NaComplete(o)
    \/ \E t \in Threads :
         SendInputCb(t) \/ RecvOutputCb(t) \/ MoreDataDone(t) \/ AckCb(t)
         \/ CompleteOpWrite(t)
    \/ Trigger
    \/ Done

\* The transport completes what is posted, callback threads and the trigger
\* thread keep calling progress/trigger, and a thread inside
\* hg_core_forward_na returns from it.
Fairness ==
    /\ WF_vars(ForwardSend)
    /\ \A o \in Ops : WF_vars(NaComplete(o))
    /\ \A t \in Threads :
         /\ WF_vars(SendInputCb(t)) /\ WF_vars(RecvOutputCb(t))
         /\ WF_vars(MoreDataDone(t)) /\ WF_vars(AckCb(t))
         /\ WF_vars(CompleteOpWrite(t))
    /\ WF_vars(Trigger)

Spec == Init /\ [][Next]_vars /\ Fairness

(***************************************************************************)
(* Properties.                                                             *)
(***************************************************************************)
\* No NA operation, extra-data acquisition, callback body or forward call is
\* in progress on the handle.
Quiescent ==
    /\ \A o \in Ops : na[o] = "idle"
    /\ moreData = "none"
    /\ \A t \in Threads : tpc[t] = Idle
    /\ userPc = "idle"

\* A forward that hg_core_forward accepted is never lost: once every NA
\* operation and callback of the handle has finished, the handle is in the
\* completion queue (op_completed_count reached op_expected_count) or with
\* the trigger thread.
NoLostCompletion == (Quiescent /\ accepted > fired) => cq > 0 \/ popped

\* hg_core_complete queues the handle only when all its NA operations have
\* run their callbacks and no extra-data acquisition is pending, so the
\* forward callback never runs while NA still owns the handle's buffers.
CompleteOnlyWhenDrained ==
    cq > 0 => /\ \A o \in Ops : na[o] = "idle"
              /\ moreData = "none"
              /\ \A t \in Threads : tpc[t] = Idle

\* The reference taken by hg_core_forward keeps the handle alive: when
\* hg_core_destroy frees it (after an early HG_Core_destroy by the user),
\* nothing of the forward is outstanding any more.
NoUseAfterFree == freed => (Quiescent /\ cq = 0 /\ ~popped /\ refCount = 0)

\* The forward callback reports HG_SUCCESS only if the request was delivered
\* and, unless HG_CORE_NO_RESPONSE was passed to this forward, a response
\* was received: cancellation and errors of any sub-operation are latched in
\* ret_status and never masked.
ResultSound ==
    [][fired' = fired + 1 /\ lastResult' = "SUCCESS"
         => delivered /\ (flagNoResp \/ respRecv)]_vars

(***************************************************************************)
(* Refinement of the abstract call protocol HgRpcCall.                     *)
(***************************************************************************)
\* The call is "completed" while the handle sits in the completion queue or
\* with the trigger thread before its callback,
\* "inflight" from the accepted forward until then, otherwise "idle".
AbsPhase ==
    IF cq > 0 \/ popped THEN "completed"
    ELSE IF accepted > fired THEN "inflight" ELSE "idle"

Abstract == INSTANCE HgRpcCall
                WITH MaxCalls <- MaxForwards, Results <- RetCodes,
                     phase <- AbsPhase, calls <- accepted, result <- lastResult

\* The handle's forward path implements the call protocol: every accepted
\* forward is queued exactly once by hg_core_complete_op and then has its
\* callback run exactly once by hg_core_trigger_entry.
RefinesRpcCall == Abstract!Spec
====
