------------------------------- MODULE ProPlan -------------------------------
(***************************************************************************)
(* What the payment module promises its users: Pro comes with a settled    *)
(* payment, in one step with it, is announced only to who has it, and is   *)
(* never taken away by anything that happens to a payment.                 *)
(***************************************************************************)
CONSTANTS
    Payments,       \* the charges users may start
    Owner           \* [Payments -> users]

VARIABLES
    pro,            \* users with an ACTIVE subscription
    settled,        \* payments whose status is SUCCESS
    announced       \* payments PLAN_UPGRADED was emitted for

planVars == <<pro, settled, announced>>

Init == pro = {} /\ settled = {} /\ announced = {}

\* The status of the payment and the plan change together.
Settle(p) ==
    /\ settled' = settled \cup {p}
    /\ pro' = pro \cup {Owner[p]}
    /\ UNCHANGED announced

Announce(p) ==
    /\ Owner[p] \in pro
    /\ announced' = announced \cup {p}
    /\ UNCHANGED <<pro, settled>>

\* A late report of a failure may still take the status back, never the plan.
Withdraw(p) ==
    /\ settled' = settled \ {p}
    /\ UNCHANGED <<pro, announced>>

Next == \E p \in Payments : Settle(p) \/ Announce(p) \/ Withdraw(p)

Spec == Init /\ [][Next]_planVars
=============================================================================
