---------------------------- MODULE ConditionWait ----------------------------
(***************************************************************************)
(* What the join's condition waits promise (spec section 4.3): two waits,  *)
(* for the First pod and then the Second, each blocking until it returns   *)
(* success, a timeout or an error.  A wait begins only once the previous   *)
(* one succeeded, returns success only for a pod that is Ready, never      *)
(* begins again once it returned, and every wait that began returns.      *)
(* The pods become Ready on their own.                                     *)
(***************************************************************************)
CONSTANTS First, Second

VARIABLES
    ready,  \* ready[t]: the pod t reports the Ready condition
    wait    \* wait[t]: "idle", "waiting", "ok", "timeout" or "error"

vars == <<ready, wait>>

Pods == {First, Second}
WaitStates == {"idle", "waiting", "ok", "timeout", "error"}

Init ==
    /\ ready = [t \in Pods |-> FALSE]
    /\ wait = [t \in Pods |-> "idle"]

\* A wait begins: the first when no wait ran yet, the second after the
\* first succeeded.
Begin(t) ==
    /\ wait[t] = "idle"
    /\ t = First  => wait[Second] = "idle"
    /\ t = Second => wait[First] = "ok"
    /\ wait' = [wait EXCEPT ![t] = "waiting"]
    /\ UNCHANGED ready

\* A running wait returns: success only for a Ready pod.
Return(t, r) ==
    /\ wait[t] = "waiting"
    /\ r = "ok" => ready[t]
    /\ wait' = [wait EXCEPT ![t] = r]
    /\ UNCHANGED ready

BecomeReady(t) ==
    /\ ~ready[t]
    /\ ready' = [ready EXCEPT ![t] = TRUE]
    /\ UNCHANGED wait

Next ==
    \E t \in Pods :
        \/ Begin(t)
        \/ \E r \in {"ok", "timeout", "error"} : Return(t, r)
        \/ BecomeReady(t)

\* A wait that began is not left blocked forever.
Spec ==
    /\ Init /\ [][Next]_vars
    /\ \A t \in Pods : WF_vars(\E r \in {"timeout", "error"} : Return(t, r))

=============================================================================
