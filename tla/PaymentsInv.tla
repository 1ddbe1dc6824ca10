----------------------------- MODULE PaymentsInv -----------------------------
(* The inductive invariant behind the properties of Payments. *)
EXTENDS Payments

\* A handler at work has read a payment with a reference.
TypeInv ==
    /\ TypeOK
    /\ \A h \in Handlers : pc[h] # "idle" => on[h] \in Payments /\ ref[on[h]]

\* A row comes before the checkout, the checkout before the reference; a
\* subscription payment brings its subscription along; an event is about a charge.
RequestInv ==
    \A p \in Payments :
       /\ (request[p] = "idle") <=> (asked[p] = None)
       /\ request[p] \in {"idle", "creating", "inserted"} => row[p] = "none"
       /\ request[p] \in {"calling", "storing"} => row[p] # "none"
       /\ request[p] = "calling" => checkout[p] = "none"
       /\ row[p] = "none" => sub[p] = "none" /\ checkout[p] = "none" /\ ~ref[p]
       /\ row[p] # "none" /\ ~IsOneTime(p) => sub[p] # "none"
       /\ Unpriced \in sent[p] => Earned(p)

KeyInv ==
    \A p, q \in Payments : p # q /\ SameKey(p, q) => row[p] = "none" \/ row[q] = "none"

InsertsActive(h) == pc[h] = "committing" /\ target[h] = "new"

\* An open transaction that has inserted a subscription for a user is the only
\* one, and there is no row beside it.
ClaimInv ==
    /\ \A p \in Payments : request[p] = "inserted" => OpenSubs(p) = {} /\ ~IsOneTime(p)
    /\ \A h \in Handlers : InsertsActive(h) => OpenSubs(on[h]) = {}
    /\ \A p, q \in Payments :
          p # q /\ Owner[p] = Owner[q] => ~(request[p] = "inserted" /\ request[q] = "inserted")
    /\ \A h, g \in Handlers :
          h # g /\ InsertsActive(h) /\ InsertsActive(g) => Owner[on[h]] # Owner[on[g]]
    /\ \A h \in Handlers, p \in Payments :
          InsertsActive(h) /\ request[p] = "inserted" => Owner[on[h]] # Owner[p]

\* What a handler relies on: the charge it settles was earned, and what it has found
\* to activate is there until it commits.
Relies(h) ==
    /\ pc[h] \in {"settling"} \cup InSettlement => Earned(on[h])
    /\ pc[h] \in {"asking", "settling", "finding"} => target[h] = None
    /\ pc[h] = "activating" => target[h] # None
    /\ pc[h] \in {"activating", "committing"} => target[h] \in OpenSubs(on[h]) \cup {"new", None}
    /\ pc[h] = "committing" /\ target[h] = None => IsPro(on[h])
    /\ pc[h] = "announcing" => IsPro(on[h])

HandlerInv == \A h \in Handlers : Relies(h)

PlanInv ==
    /\ OneOpenSubscription
    /\ SuccessIsEarned
    /\ PaidMeansPro
    /\ \A p \in Payments : "PLAN_UPGRADED" \in told[p] => IsPro(p)

\* Everything that is known of a reachable state: who may still insert a row under
\* a key or for a user, what each settlement relies on, and what was promised
\* (initiatePayment, initiateSubscription, resolvePayment, processWebhookEvent).
IInv == TypeInv /\ RequestInv /\ KeyInv /\ ClaimInv /\ HandlerInv /\ PlanInv
=============================================================================
