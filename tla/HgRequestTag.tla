----------------------------- MODULE HgRequestTag -----------------------------
(***************************************************************************)
(* hg_core_gen_request_tag (src/src/mercury_core.c): the per-class request *)
(* tag counter shared by every thread that forwards.  The tag wraps to 0   *)
(* by a compare-and-swap when it equals request_max_tag, otherwise it is   *)
(* incremented; the CAS and the increment are two separate atomics.  The   *)
(* counter is an hg_atomic_int32_t: Width bits, arithmetic modulo 2^Width. *)
(***************************************************************************)
EXTENDS Naturals

CONSTANTS
    Threads,   \* threads calling hg_core_forward_na concurrently
    MaxTag,    \* hg_core_class->request_max_tag (NA_Msg_get_max_tag)
    Width,     \* bits of the counter
    MaxCalls   \* bound on the tags each thread generates

ASSUME MaxTag \in Nat /\ Width \in Nat \ {0} /\ MaxTag < 2^Width
ASSUME MaxCalls \in Nat \ {0}

VARIABLES
    requestTag,  \* hg_core_class->request_tag
    pc,          \* per thread: "idle" or "incr" (the CAS failed)
    tag,         \* per thread: the last tag returned
    calls        \* per thread: tags generated so far

vars == <<requestTag, pc, tag, calls>>

TypeOK ==
    /\ requestTag \in 0..(2^Width - 1)
    /\ pc \in [Threads -> {"idle", "incr"}]
    /\ tag \in [Threads -> 0..(2^Width - 1)]
    /\ calls \in [Threads -> 0..MaxCalls]

\* hg_core_init sets request_tag to 0.
Init ==
    /\ requestTag = 0
    /\ pc = [t \in Threads |-> "idle"]
    /\ tag = [t \in Threads |-> 0]
    /\ calls = [t \in Threads |-> 0]

\* hg_atomic_cas32(&request_tag, request_max_tag, 0): on success the tag
\* returned is 0.
GenCas(t) ==
    /\ pc[t] = "idle" /\ calls[t] < MaxCalls
    /\ calls' = [calls EXCEPT ![t] = @ + 1]
    /\ IF requestTag = MaxTag
         THEN /\ requestTag' = 0
              /\ tag' = [tag EXCEPT ![t] = 0]
              /\ UNCHANGED pc
         ELSE /\ pc' = [pc EXCEPT ![t] = "incr"]
              /\ UNCHANGED <<requestTag, tag>>

\* The CAS failed: hg_atomic_incr32(&request_tag) returns the new value.
GenIncr(t) ==
    /\ pc[t] = "incr"
    /\ requestTag' = (requestTag + 1) % (2^Width)
    /\ tag' = [tag EXCEPT ![t] = (requestTag + 1) % (2^Width)]
    /\ pc' = [pc EXCEPT ![t] = "idle"]
    /\ UNCHANGED calls

Next == \E t \in Threads : GenCas(t) \/ GenIncr(t)

Spec == Init /\ [][Next]_vars

\* Every tag hg_core_gen_request_tag hands to NA_Msg_send_unexpected and
\* NA_Msg_recv_expected is within 0..request_max_tag, the range NA accepts.
TagInRange == \A t \in Threads : tag[t] <= MaxTag
=============================================================================
