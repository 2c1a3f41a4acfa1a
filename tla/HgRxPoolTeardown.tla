--------------------------- MODULE HgRxPoolTeardown ---------------------------
(***************************************************************************)
(* rxpool_teardown (rxpool_destroy) composed with the pool of HgRxPool.    *)
(* The caller thread stops calling rxpool_next and rxdesc_release and      *)
(* tears the pool down: it cancels every receive UCX owns, then frees the  *)
(* descriptors of alldesc from the head; for one UCX still owns it calls   *)
(* rxpool_next, with ucp_worker_progress (UCX callbacks) between calls,    *)
(* until that returns a descriptor, and frees the one it returned.         *)
(***************************************************************************)
EXTENDS HgRxPool

VARIABLES
    tpc,      \* where the teardown is: "off", "free", "next", "done"
    left,     \* alldesc: descriptors not freed yet, head first
    freed,    \* descriptors teardown freed (header_free)
    before    \* held when teardown started calling rxpool_next

tvars == <<tpc, left, freed, before>>

allVars == <<vars, tvars>>

TeardownInit ==
    /\ Init
    /\ tpc = "off" /\ left = AllDesc /\ freed = {} /\ before = {}

\* The first loop: ucp_request_cancel of every descriptor UCX owns; those
\* in now complete at once and are pushed CANCELED.
TeardownCancel ==
    /\ tpc = "off" /\ pc = "idle"
    /\ \E now \in SUBSET ToSet(posted) :
         /\ cancelling' = (cancelling \cup ToSet(posted)) \ now
         /\ status' = [d \in Descs |-> IF d \in now THEN "cancel" ELSE status[d]]
         /\ posted' = PostedAfter(now)
         /\ complete' = CompleteAfter(now)
    /\ tpc' = "free"
    /\ UNCHANGED <<held, buflen, initbuflen, failed, pc, head, nb, sent, left,
                   freed, before>>

\* The second loop frees the first descriptor of alldesc that UCX does not
\* own (it may still sit in the complete FIFO).
TeardownFree ==
    /\ tpc = "free" /\ left # <<>> /\ Head(left) \notin ToSet(posted)
    /\ freed' = freed \cup {Head(left)}
    /\ left' = Tail(left)
    /\ UNCHANGED <<vars, tpc, before>>

\* The first descriptor is still owned by UCX: poll rxpool_next.
TeardownPoll ==
    /\ tpc = "free" /\ left # <<>> /\ Head(left) \in ToSet(posted)
    /\ tpc' = "next" /\ before' = held
    /\ UNCHANGED <<vars, left, freed>>

\* rxpool_next returned a descriptor: free it and remove it from alldesc.
TeardownGot ==
    /\ tpc = "next" /\ pc = "idle" /\ held # before
    /\ \E d \in held \ before :
         /\ freed' = freed \cup {d}
         /\ left' = Remove(left, d)
         /\ held' = held \ {d}
    /\ tpc' = "free"
    /\ UNCHANGED <<posted, cancelling, complete, status, buflen, initbuflen,
                   failed, pc, head, nb, sent, before>>

\* alldesc is empty: rxpool_destroy frees the pool.
TeardownDone ==
    /\ tpc = "free" /\ left = <<>>
    /\ tpc' = "done"
    /\ UNCHANGED <<vars, left, freed, before>>

Teardown == TeardownCancel \/ TeardownFree \/ TeardownPoll \/ TeardownGot
            \/ TeardownDone

TeardownNext ==
    \/ tpc = "off" /\ Caller /\ UNCHANGED tvars
    \/ tpc = "next" /\ (RxpoolNext \/ SlowStep) /\ UNCHANGED tvars
    \/ Ucx /\ UNCHANGED tvars
    \/ Teardown

\* Once the caller has begun the teardown it keeps going; UCX progress
\* completes every deferred cancel.
TeardownSpec ==
    /\ TeardownInit /\ [][TeardownNext]_allVars
    /\ WF_allVars(Teardown)
    /\ WF_allVars(tpc = "next" /\ RxpoolNext /\ UNCHANGED tvars)
    /\ WF_allVars(tpc = "next" /\ SlowStep /\ UNCHANGED tvars)
    /\ \A d \in Descs : WF_allVars(CancelDone(d) /\ UNCHANGED tvars)

\* While teardown polls rxpool_next, the complete FIFO holds no descriptor
\* it already freed (rxpool_next would read its status and return it to be
\* freed again).
NoFreedPopped == tpc = "next" => \A d \in freed : d \notin ToSet(complete)

\* A teardown that has begun ends: rxpool_destroy returns.
TeardownTerminates == tpc # "off" ~> tpc = "done"
=============================================================================
