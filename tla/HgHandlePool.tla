---------------------------- MODULE HgHandlePool ----------------------------
(***************************************************************************)
(* The pool of pre-created RPC handles of a context (hg_core_handle_pool_* *)
(* in mercury_core.c), as used with multi-recv: handles are not posted,    *)
(* hg_core_multi_recv_input_cb takes one per incoming request with         *)
(* hg_core_handle_pool_get and hg_core_reset_post puts it back at the head *)
(* of the spin-locked pending list.  A getter that finds the list empty    *)
(* calls hg_core_handle_pool_extend: under extend_mutex, a thread that     *)
(* sees "extending" waits on extend_cond and retries; otherwise it sets    *)
(* "extending", inserts incr_count new handles one by one and broadcasts.  *)
(* Handles are numbered in creation order; at most MaxHandles can be       *)
(* created, a further hg_core_create fails as malloc would, and before     *)
(* that it may fail whenever the composing module's fault model allows.   *)
(* The pool's "count" is only logged and is left out.                      *)
(*                                                                         *)
(* The module has no behaviour of its own: HgMultiRecv composes it.        *)
(***************************************************************************)
EXTENDS Integers, Sequences, SequencesExt

CONSTANTS
    Getters,     \* threads running hg_core_multi_recv_input_cb
    InitCount,   \* request_post_init
    IncrCount,   \* request_post_incr
    MaxHandles   \* handles the allocator can provide

ASSUME InitCount \in Nat \ {0} /\ IncrCount \in Nat \ {0}
       /\ MaxHandles >= InitCount

VARIABLES
    pending,    \* pending_list, head first
    created,    \* handles created so far (they are 1..created)
    extending,  \* hg_core_handle_pool->extending
    gpc,        \* where each getter is in hg_core_handle_pool_get
    made,       \* loop index i of the extending getter
    got         \* handle returned to each getter (0: none yet)

poolVars == <<pending, created, extending, gpc, made, got>>

Handles == 1..MaxHandles

GetPcs == {"idle", "get", "extcheck", "wait", "extend", "done", "fail"}

PoolTypeOK ==
    /\ pending \in Seq(Handles) /\ created \in 0..MaxHandles
    /\ extending \in BOOLEAN
    /\ gpc \in [Getters -> GetPcs] /\ made \in [Getters -> 0..IncrCount]
    /\ got \in [Getters -> 0..MaxHandles]

\* hg_core_handle_pool_create: init_count handles, each inserted at the head
\* by hg_core_handle_pool_insert (not posted with multi-recv).
PoolInit ==
    /\ pending = [i \in 1..InitCount |-> InitCount + 1 - i]
    /\ created = InitCount
    /\ extending = FALSE
    /\ gpc = [t \in Getters |-> "idle"]
    /\ made = [t \in Getters |-> 0]
    /\ got = [t \in Getters |-> 0]

\* A caller enters hg_core_handle_pool_get.
GetBegin(t) ==
    /\ gpc[t] = "idle"
    /\ gpc' = [gpc EXCEPT ![t] = "get"]
    /\ got' = [got EXCEPT ![t] = 0]

\* The caller leaves with its handle or its error.
GetEnd(t) == gpc' = [gpc EXCEPT ![t] = "idle"]

\* Mutation: the head is returned without HG_LIST_REMOVE.
TakeKeep(t) ==
    /\ gpc[t] = "get"
    /\ IF pending # <<>>
         THEN /\ got' = [got EXCEPT ![t] = Head(pending)]
              /\ gpc' = [gpc EXCEPT ![t] = "done"]
         ELSE /\ gpc' = [gpc EXCEPT ![t] = "extcheck"]
              /\ UNCHANGED got
    /\ UNCHANGED <<pending, created, extending, made>>

\* Under pending_list.lock: take the head, or find the list empty and go
\* to hg_core_handle_pool_extend.
Take(t) ==
    /\ gpc[t] = "get"
    /\ IF pending # <<>>
         THEN /\ got' = [got EXCEPT ![t] = Head(pending)]
              /\ pending' = Tail(pending)
              /\ gpc' = [gpc EXCEPT ![t] = "done"]
         ELSE /\ gpc' = [gpc EXCEPT ![t] = "extcheck"]
              /\ UNCHANGED <<got, pending>>
    /\ UNCHANGED <<created, extending, made>>

\* Under extend_mutex: wait on extend_cond if another getter is extending,
\* else become the extending getter.
ExtCheck(t) ==
    /\ gpc[t] = "extcheck"
    /\ gpc' = [gpc EXCEPT ![t] = IF extending THEN "wait" ELSE "extend"]
    /\ extending' = TRUE
    /\ made' = [made EXCEPT ![t] = 0]
    /\ UNCHANGED <<pending, created, got>>

\* hg_thread_cond_broadcast: every waiter returns HG_SUCCESS from
\* hg_core_handle_pool_extend and loops in hg_core_handle_pool_get.
WakeWaiters == [v \in Getters |-> IF gpc[v] = "wait" THEN "get" ELSE gpc[v]]

\* hg_core_create (hg_core_alloc, hg_core_alloc_na) succeeds while the
\* allocator has memory left.
CreateOk == created < MaxHandles

\* One hg_core_handle_pool_insert of the extension loop: a new handle with
\* reuse set, inserted at the head.
ExtendOne(t) ==
    /\ gpc[t] = "extend" /\ made[t] < IncrCount /\ CreateOk
    /\ created' = created + 1
    /\ pending' = <<created + 1>> \o pending
    /\ made' = [made EXCEPT ![t] = @ + 1]
    /\ UNCHANGED <<extending, gpc, got>>

\* Mutation: the unlock label forgets the broadcast.
ExtendDoneNoWake(t) ==
    /\ gpc[t] = "extend" /\ made[t] = IncrCount
    /\ extending' = FALSE
    /\ gpc' = [gpc EXCEPT ![t] = "get"]
    /\ UNCHANGED <<pending, created, made, got>>

\* End of the loop (count += incr_count): extending cleared, broadcast,
\* hg_core_handle_pool_get retries.
ExtendDone(t) ==
    /\ gpc[t] = "extend" /\ made[t] = IncrCount
    /\ extending' = FALSE
    /\ gpc' = [WakeWaiters EXCEPT ![t] = "get"]
    /\ UNCHANGED <<pending, created, made, got>>

ExtendFail(t, mayFail) ==
    /\ gpc[t] = "extend" /\ made[t] < IncrCount
    /\ ~CreateOk \/ mayFail
    /\ extending' = FALSE
    /\ gpc' = [WakeWaiters EXCEPT ![t] = "fail"]
    /\ UNCHANGED <<pending, created, made, got>>

\* The insert of hg_core_reset_post: the handle goes back at the head.
PoolInsert(h) == pending' = <<h>> \o pending

\* hg_core_handle_pool_destroy: every pending handle is removed, gets reuse
\* FALSE and is freed by hg_core_destroy; returns the handles it freed.
PoolDrained == ToSet(pending)

\* A getter step of the pool; mayFail: hg_core_create may fail now.
GetStep(t, mayFail) == Take(t) \/ ExtCheck(t) \/ ExtendOne(t) \/ ExtendDone(t)
              \/ ExtendFail(t, mayFail)
=============================================================================
