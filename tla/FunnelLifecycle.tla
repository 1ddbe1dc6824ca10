-------------------------- MODULE FunnelLifecycle --------------------------
(***************************************************************************)
(* What the funnel tables promise, whoever writes them: a funnel is        *)
(* accepted once per idempotency key, receives its generated tasks exactly *)
(* once, in the same step as it becomes ACTIVE, never leaves ACTIVE except *)
(* by being deleted, and takes its tasks along when it is deleted.         *)
(*                                                                         *)
(* A FAILED funnel may still become ACTIVE: the job that the reaper gave   *)
(* up on can finish late (see FunnelGeneration).                           *)
(***************************************************************************)
EXTENDS Naturals

CONSTANTS
    Funnels,            \* the funnel ids
    Owner,              \* the user each funnel belongs to
    Keys                \* idempotency keys

VARIABLES
    key,                \* the key of the request a funnel was made for
    status,             \* the committed row: its status, "none" or "deleted"
    taskSets            \* how many times the generated tasks are in the tables

lifecycleVars == <<key, status, taskSets>>

SameKey(f, g) == Owner[f] = Owner[g] /\ key[f] = key[g]

IsLive(f) == status[f] \in {"GENERATING", "ACTIVE", "FAILED"}

Init ==
    /\ key = [f \in Funnels |-> "unset"]
    /\ status = [f \in Funnels |-> "none"]
    /\ taskSets = [f \in Funnels |-> 0]

\* A request names its key before anything is stored for it.
Ask(f, k) ==
    /\ status[f] = "none"
    /\ key[f] = "unset"
    /\ key' = [key EXCEPT ![f] = k]
    /\ UNCHANGED <<status, taskSets>>

Accept(f) ==
    /\ status[f] = "none"
    /\ key[f] # "unset"
    /\ \A g \in Funnels \ {f} : SameKey(f, g) => ~IsLive(g)
    /\ status' = [status EXCEPT ![f] = "GENERATING"]
    /\ UNCHANGED <<key, taskSets>>

Complete(f) ==
    /\ status[f] \in {"GENERATING", "FAILED"}
    /\ taskSets[f] = 0
    /\ status' = [status EXCEPT ![f] = "ACTIVE"]
    /\ taskSets' = [taskSets EXCEPT ![f] = 1]
    /\ UNCHANGED key

Fail(F) ==
    /\ \A f \in F : status[f] = "GENERATING"
    /\ status' = [f \in Funnels |-> IF f \in F THEN "FAILED" ELSE status[f]]
    /\ UNCHANGED <<key, taskSets>>

Remove(f) ==
    /\ IsLive(f)
    /\ status' = [status EXCEPT ![f] = "deleted"]
    /\ taskSets' = [taskSets EXCEPT ![f] = 0]
    /\ UNCHANGED key

Next ==
    \/ \E f \in Funnels, k \in Keys : Ask(f, k)
    \/ \E f \in Funnels : Accept(f) \/ Complete(f) \/ Remove(f)
    \/ \E F \in SUBSET Funnels : Fail(F)

Spec == Init /\ [][Next]_lifecycleVars
=============================================================================
