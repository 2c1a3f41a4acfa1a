---------------------------- MODULE HgBulkOpPool ----------------------------
(***************************************************************************)
(* The bulk op ID pool of a context (hg_bulk_op_pool_create, _get and     *)
(* hg_bulk_op_destroy in mercury_bulk.c): a spin-locked pending list that *)
(* user threads take op IDs from, and an extension protocol under          *)
(* extend_mutex/extend_cond: the first thread that finds the list empty   *)
(* sets "extending", creates pool->count new op IDs one by one, doubles    *)
(* count and broadcasts; a thread that finds                               *)
(* "extending" set waits for the broadcast and retries.  Op IDs come back  *)
(* through hg_bulk_op_destroy.  Op IDs are numbered in creation order; at  *)
(* most MaxOpIds can be allocated, a further hg_bulk_op_create fails as    *)
(* malloc would.                                                           *)
(***************************************************************************)
EXTENDS Integers, Sequences, SequencesExt, FiniteSets

CONSTANTS
    Users,      \* threads calling hg_bulk_op_pool_get
    InitCount,  \* init_count of hg_bulk_op_pool_create
    MaxOpIds,   \* op IDs the allocator can provide
    MaxHeld,    \* op IDs one thread holds at a time (its transfers in flight)
    Releases    \* held op IDs are destroyed back into the pool

ASSUME InitCount \in Nat \ {0} /\ MaxOpIds >= InitCount /\ MaxHeld \in Nat \ {0}

Pcs == {"idle", "get", "extcheck", "wait", "extend"}

VARIABLES
    pending,    \* pending_list, head first
    created,    \* op IDs created so far (they are 1..created)
    count,      \* hg_bulk_op_pool->count
    extending,  \* hg_bulk_op_pool->extending
    pc,         \* where each thread is in hg_bulk_op_pool_get
    made,       \* loop index i of the extending thread
    held,       \* op IDs each thread got from the pool
    ret,        \* result of each thread's last hg_bulk_op_pool_get
    destroyed,  \* hg_bulk_op_pool_destroy has run (context destroyed)
    reclaimed   \* op IDs hg_bulk_op_pool_destroy freed

vars == <<pending, created, count, extending, pc, made, held, ret, destroyed,
          reclaimed>>

OpIds == 1..MaxOpIds

TypeOK ==
    /\ pending \in Seq(OpIds)
    /\ created \in 0..MaxOpIds
    /\ count \in Nat \ {0}
    /\ extending \in BOOLEAN
    /\ pc \in [Users -> Pcs]
    /\ made \in [Users -> Nat]
    /\ held \in [Users -> SUBSET OpIds]
    /\ ret \in [Users -> {"SUCCESS", "NOMEM"}]
    /\ destroyed \in BOOLEAN
    /\ reclaimed \subseteq OpIds

\* hg_bulk_op_pool_create: init_count op IDs, each inserted at the head.
Init ==
    /\ pending = [i \in 1..InitCount |-> InitCount + 1 - i]
    /\ created = InitCount
    /\ count = InitCount
    /\ extending = FALSE
    /\ pc = [u \in Users |-> "idle"]
    /\ made = [u \in Users |-> 0]
    /\ held = [u \in Users |-> {}]
    /\ ret = [u \in Users |-> "SUCCESS"]
    /\ destroyed = FALSE
    /\ reclaimed = {}

\* hg_bulk_transfer asks for an op ID (on a context not yet destroyed).
Begin(u) ==
    /\ pc[u] = "idle" /\ Cardinality(held[u]) < MaxHeld /\ ~destroyed
    /\ pc' = [pc EXCEPT ![u] = "get"]
    /\ UNCHANGED <<pending, created, count, extending, made, held, ret,
                   destroyed, reclaimed>>

\* Under pending_list_lock: take the head, or find the list empty.
Take(u) ==
    /\ pc[u] = "get"
    /\ IF pending # <<>>
       THEN /\ held' = [held EXCEPT ![u] = @ \cup {Head(pending)}]
            /\ pending' = Tail(pending)
            /\ pc' = [pc EXCEPT ![u] = "idle"]
            /\ ret' = [ret EXCEPT ![u] = "SUCCESS"]
       ELSE /\ pc' = [pc EXCEPT ![u] = "extcheck"]
            /\ UNCHANGED <<held, pending, ret>>
    /\ UNCHANGED <<created, count, extending, made, destroyed, reclaimed>>

(***************************************************************************)
(* Under extend_mutex: wait on extend_cond if another thread is extending, *)
(* else become the extending thread.                                       *)
(***************************************************************************)
ExtCheck(u) ==
    /\ pc[u] = "extcheck"
    /\ pc' = [pc EXCEPT ![u] = IF extending THEN "wait" ELSE "extend"]
    /\ extending' = TRUE
    /\ made' = [made EXCEPT ![u] = 0]
    /\ UNCHANGED <<pending, created, count, held, ret, destroyed, reclaimed>>

\* hg_thread_cond_broadcast: every waiter returns from cond_wait and retries.
Broadcast(u) ==
    [v \in Users |-> IF pc[v] = "wait" THEN "get" ELSE pc[v]]

\* hg_bulk_op_create allocates an op ID and its NA op IDs (COMPLETED,
\* ref_count 1); it fails with HG_NOMEM/HG_NA_ERROR once the allocator has
\* nothing left, freeing what it had made.
OpCreateOk == created < MaxOpIds
OpCreateFails == created = MaxOpIds

\* One hg_bulk_op_create of the extension loop, inserted at the head.
ExtendOne(u) ==
    /\ pc[u] = "extend" /\ made[u] < count /\ OpCreateOk
    /\ created' = created + 1
    /\ pending' = <<created + 1>> \o pending
    /\ made' = [made EXCEPT ![u] = @ + 1]
    /\ UNCHANGED <<count, extending, pc, held, ret, destroyed, reclaimed>>

\* Mutation: the error label returns without clearing extending.
ExtendFailNoReset(u) ==
    /\ pc[u] = "extend" /\ made[u] < count /\ OpCreateFails
    /\ pc' = [pc EXCEPT ![u] = "idle"]
    /\ ret' = [ret EXCEPT ![u] = "NOMEM"]
    /\ UNCHANGED <<pending, created, count, extending, made, held, destroyed,
                   reclaimed>>

(***************************************************************************)
(* hg_bulk_op_create fails: the error label clears extending, broadcasts   *)
(* and returns the error; the op IDs created so far stay in the list.      *)
(***************************************************************************)
ExtendFail(u) ==
    /\ pc[u] = "extend" /\ made[u] < count /\ OpCreateFails
    /\ extending' = FALSE
    /\ pc' = [Broadcast(u) EXCEPT ![u] = "idle"]
    /\ ret' = [ret EXCEPT ![u] = "NOMEM"]
    /\ UNCHANGED <<pending, created, count, made, held, destroyed, reclaimed>>

\* End of the loop: count doubles, extending cleared, broadcast, retry.
ExtendDone(u) ==
    /\ pc[u] = "extend" /\ made[u] = count
    /\ count' = count * 2
    /\ extending' = FALSE
    /\ pc' = [Broadcast(u) EXCEPT ![u] = "get"]
    /\ UNCHANGED <<pending, created, made, held, ret, destroyed, reclaimed>>

\* Mutation: the op ID goes back to the list but stays with its user.
ReleaseKeep(u, o) ==
    /\ Releases /\ o \in held[u]
    /\ pending' = <<o>> \o pending
    /\ UNCHANGED <<created, count, extending, pc, made, held, ret, destroyed,
                   reclaimed>>

\* hg_bulk_op_destroy of a pool op ID (reuse set): insert at the head.
Release(u, o) ==
    /\ Releases /\ o \in held[u]
    /\ pending' = <<o>> \o pending
    /\ held' = [held EXCEPT ![u] = @ \ {o}]
    /\ UNCHANGED <<created, count, extending, pc, made, ret, destroyed,
                   reclaimed>>

(***************************************************************************)
(* hg_core_context_destroy -> hg_bulk_op_pool_destroy, called by the       *)
(* application once no thread uses the context: every op ID on the pending *)
(* list is removed, gets reuse FALSE and is freed by hg_bulk_op_destroy,    *)
(* then the pool itself is freed.  Context destroy checks the handle count *)
(* and the completion queues, not op IDs of transfers still in flight:     *)
(* those stay with their threads and are released later.                   *)
(***************************************************************************)
PoolDestroy ==
    /\ ~destroyed /\ \A u \in Users : pc[u] = "idle"
    /\ destroyed' = TRUE
    /\ reclaimed' = ToSet(pending)
    /\ pending' = <<>>
    /\ UNCHANGED <<created, count, extending, pc, made, held, ret>>

\* The context is gone and every transfer has returned its op ID.
Finalized ==
    /\ destroyed /\ \A u \in Users : held[u] = {}
    /\ UNCHANGED vars

Next ==
    \/ PoolDestroy \/ Finalized
    \/ \E u \in Users :
          \/ Begin(u) \/ Take(u) \/ ExtCheck(u) \/ ExtendOne(u)
          \/ ExtendFail(u) \/ ExtendDone(u)
          \/ \E o \in OpIds : Release(u, o)

\* Threads inside hg_bulk_op_pool_get keep running.
Spec == Init /\ [][Next]_vars
        /\ \A u \in Users : WF_vars(Take(u)) /\ WF_vars(ExtCheck(u))
                            /\ WF_vars(ExtendOne(u)) /\ WF_vars(ExtendFail(u))
                            /\ WF_vars(ExtendDone(u))

-----------------------------------------------------------------------------
(***************************************************************************)
(* Every op ID ever created is in exactly one place: once in the pending   *)
(* list, with exactly one thread, or freed by the pool's destruction; the  *)
(* pool neither hands one op ID to two transfers nor loses one.            *)
(***************************************************************************)
OpsAccounted ==
    /\ IsInjective(pending)
    /\ \A u, v \in Users : u # v => held[u] \cap held[v] = {}
    /\ \A u \in Users : held[u] \cap ToSet(pending) = {}
    /\ reclaimed \cap (ToSet(pending) \cup UNION {held[u] : u \in Users}) = {}
    /\ reclaimed \cup ToSet(pending) \cup UNION {held[u] : u \in Users}
         = 1..created

ExtendOnlyWhenEmpty ==
    [][\A u \in Users :
          (pc[u] = "extcheck" /\ pc'[u] = "extend") => pending = <<>>]_vars

(***************************************************************************)
(* Spec (Context, Errors): a context is destroyed only once nothing it     *)
(* owns is in flight, else destroy fails with HG_BUSY.  Here: no op ID of  *)
(* the bulk pool is still held by a transfer when the pool is freed.       *)
(***************************************************************************)
NoOpOutlivesPool == destroyed => \A u \in Users : held[u] = {}
====
