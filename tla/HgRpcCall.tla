------------------------------ MODULE HgRpcCall ------------------------------
(***************************************************************************)
(* What the core promises a caller of HG_Core_forward: each accepted       *)
(* forward is completed once, then its callback is run once by trigger     *)
(* with some return code, and only then may the handle be forwarded again. *)
(***************************************************************************)
EXTENDS Naturals

CONSTANTS MaxCalls, Results

VARIABLES phase, calls, result

absVars == <<phase, calls, result>>

Init ==
    /\ phase = "idle"
    /\ calls = 0
    /\ result \in Results

\* A forward is accepted.
Forward ==
    /\ phase = "idle" /\ calls < MaxCalls
    /\ phase' = "inflight" /\ calls' = calls + 1
    /\ UNCHANGED result

\* Every sub-operation of the call has resolved: it is queued for trigger.
Complete ==
    /\ phase = "inflight"
    /\ phase' = "completed"
    /\ UNCHANGED <<calls, result>>

\* Trigger runs the callback with return code r.
Callback(r) ==
    /\ phase = "completed"
    /\ phase' = "idle" /\ result' = r
    /\ UNCHANGED calls

Next == Forward \/ Complete \/ \E r \in Results : Callback(r)

Spec == Init /\ [][Next]_absVars
        /\ WF_absVars(Complete) /\ WF_absVars(\E r \in Results : Callback(r))
=============================================================================
