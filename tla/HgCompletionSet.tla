--------------------------- MODULE HgCompletionSet ---------------------------
(***************************************************************************)
(* What a context's completion queue promises (spec: "every queued entry   *)
(* is triggered once"): an entry added by hg_core_completion_add is        *)
(* eventually handed to one hg_core_trigger, exactly once.  The order      *)
(* across the atomic queue and the backfill queue is not promised.         *)
(***************************************************************************)
CONSTANTS Entries

VARIABLES
    queued,   \* entries added and not yet triggered
    ran       \* entries whose callback hg_core_trigger has run

vars == <<queued, ran>>

Init == queued = {} /\ ran = {}

\* hg_core_completion_add of a completed operation.
Add(e) ==
    /\ e \notin queued \cup ran
    /\ queued' = queued \cup {e}
    /\ UNCHANGED ran

\* A trigger runs the entry's callback.
Trigger(e) ==
    /\ e \in queued
    /\ queued' = queued \ {e}
    /\ ran' = ran \cup {e}

Next == \E e \in Entries : Add(e) \/ Trigger(e)

Spec == Init /\ [][Next]_vars /\ \A e \in Entries : WF_vars(Trigger(e))
=============================================================================
