------------------------------ MODULE Payments ------------------------------
(***************************************************************************)
(* Charges and subscriptions: initiatePayment and initiateSubscription     *)
(* open a checkout, resolvePayment and the provider's webhooks settle it,  *)
(* at once, more than once and in any order.                               *)
(*                                                                         *)
(* A step is what happens between two awaits of the database or of the     *)
(* provider. A settlement runs in a READ COMMITTED transaction: what it    *)
(* wrote becomes visible in CommitSettlement, the rows it wrote stay       *)
(* locked until then.                                                      *)
(*                                                                         *)
(* Nothing in the code stores a provider_subscription_code, so no          *)
(* cancellation gets beyond its guards and no subscription webhook finds a *)
(* row: a subscription is PENDING, then ACTIVE.                            *)
(*                                                                         *)
(* A definition marked "Mutant" is a mistake the code could contain; no    *)
(* behaviour uses it.                                                      *)
(***************************************************************************)
CONSTANTS
    Payments,       \* one id per POST that starts a charge
    Owner,          \* [Payments -> users]
    Hours,          \* the hours in which it may be sent
    Handlers,       \* verifications and webhook deliveries in progress
    None            \* nothing asked, no payment, no subscription

Kinds == {"one_time", "subscription"}

ASSUME PaymentAssumption ==
    /\ None \notin Payments \cup {"new"} /\ "new" \notin Payments
    /\ None \notin [kind : Kinds, hour : Hours]

VARIABLES
    request,        \* progress of the POST
    asked,          \* the payment type and the hour of the POST
    row,            \* payments.status, "none" before the row is there
    ref,            \* provider_reference is stored
    sub,            \* status of the subscription this charge has created
    checkout,       \* the charge at the provider
    sent,           \* the webhook events the provider has for it
    pc,             \* what each handler awaits
    on,             \* the payment it has read
    via,            \* how it came to it
    target,         \* the subscription row it found to activate
    told            \* events emitted for the payment

requestVars == <<request, asked>>
tableVars == <<row, ref, sub>>
providerVars == <<checkout, sent>>
handlerVars == <<pc, on, via, target>>
vars == <<requestVars, tableVars, providerVars, handlerVars, told>>

InSettlement == {"finding", "activating", "committing"}

\* A charge.success event with and without the amount that was charged.
Priced == "charge.success"
Unpriced == "charge.success.unpriced"

TypeOK ==
    /\ request \in [Payments -> {"idle", "creating", "inserted", "calling", "storing",
                                 "open", "refused"}]
    /\ asked \in [Payments -> [kind : Kinds, hour : Hours] \cup {None}]
    /\ row \in [Payments -> {"none", "PENDING", "SUCCESS", "FAILED"}]
    /\ ref \in [Payments -> BOOLEAN]
    /\ sub \in [Payments -> {"none", "PENDING", "ACTIVE"}]
    /\ checkout \in [Payments -> {"none", "open", "declined", "paid", "mispaid"}]
    /\ sent \in [Payments -> SUBSET {Priced, Unpriced, "charge.failed", "charge.dispute.create"}]
    /\ pc \in [Handlers -> {"idle", "asking", "settling", "failing", "announcing",
                            "reporting"} \cup InSettlement]
    /\ on \in [Handlers -> Payments \cup {None}]
    /\ via \in [Handlers -> {"verify", "webhook"}]
    /\ target \in [Handlers -> Payments \cup {"new", None}]
    /\ told \in [Payments -> SUBSET {"PLAN_UPGRADED", "PAYMENT_FAILED"}]

Init ==
    /\ request = [p \in Payments |-> "idle"]
    /\ asked = [p \in Payments |-> None]
    /\ row = [p \in Payments |-> "none"]
    /\ ref = [p \in Payments |-> FALSE]
    /\ sub = [p \in Payments |-> "none"]
    /\ checkout = [p \in Payments |-> "none"]
    /\ sent = [p \in Payments |-> {}]
    /\ pc = [h \in Handlers |-> "idle"]
    /\ on = [h \in Handlers |-> None]
    /\ via = [h \in Handlers |-> "verify"]
    /\ target = [h \in Handlers |-> None]
    /\ told = [p \in Payments |-> {}]

-----------------------------------------------------------------------------
IsOneTime(p) == asked[p] # None /\ asked[p].kind = "one_time"

Mates(p) == {q \in Payments : Owner[q] = Owner[p]}

OpenSubs(p) == {q \in Mates(p) : sub[q] # "none"}

IsPro(p) == \E q \in Mates(p) : sub[q] = "ACTIVE"

\* buildIdempotencyKey: the same user, type and hour give the same key.
SameKey(p, q) == Owner[p] = Owner[q] /\ asked[p] = asked[q]

KeyTaken(p) == \E q \in Payments \ {p} : row[q] # "none" /\ SameKey(p, q)

\* The row locks of Postgres, derived from who is inside which transaction.
PaymentLocked(p) == \E h \in Handlers : pc[h] \in InSettlement /\ on[h] = p
SubLocked(s) == \E h \in Handlers : pc[h] = "committing" /\ target[h] = s

\* The partial unique index on subscriptions(user_id) makes an INSERT wait for an
\* open transaction that has inserted one.
OpenInsert(p) ==
    \/ \E q \in Mates(p) : request[q] = "inserted"
    \/ \E h \in Handlers : /\ pc[h] = "committing" /\ target[h] = "new"
                           /\ Owner[on[h]] = Owner[p]

-----------------------------------------------------------------------------
(* initiatePayment and initiateSubscription *)

Advance(p, from, to) ==
    /\ request[p] = from
    /\ request' = [request EXCEPT ![p] = to]

\* The guards of the two routes: a Pro user, and for a subscription a user with a
\* pending one, is refused (409).
Refused(p, k) == IF k = "one_time" THEN IsPro(p) ELSE OpenSubs(p) # {}

Ask(p, k, t) ==
    /\ Advance(p, "idle", IF Refused(p, k) THEN "refused" ELSE "creating")
    /\ asked' = [asked EXCEPT ![p] = [kind |-> k, hour |-> t]]
    /\ UNCHANGED <<tableVars, providerVars, handlerVars, told>>

\* Mutant of CreatePayment: a row without reference is taken for a failed attempt
\* and the provider is called again.
CreatePaymentAgain(p) ==
    /\ IsOneTime(p)
    /\ Advance(p, "creating", IF \E q \in Payments : SameKey(p, q) /\ ref[q]
                              THEN "refused" ELSE "calling")
    /\ row' = [row EXCEPT ![p] = "PENDING"]
    /\ UNCHANGED <<asked, ref, sub, providerVars, handlerVars, told>>

\* INSERT of the PENDING row. The key is taken: the reference of the other request
\* is answered, or 409 when it is not stored.
CreatePayment(p) ==
    /\ IsOneTime(p)
    /\ Advance(p, "creating", IF KeyTaken(p) THEN "refused" ELSE "calling")
    /\ row' = [row EXCEPT ![p] = IF KeyTaken(p) THEN @ ELSE "PENDING"]
    /\ UNCHANGED <<asked, ref, sub, providerVars, handlerVars, told>>

\* Mutant of IndexFree: there is no unique index.
NoIndex(p) == TRUE

IndexFree(p) == OpenSubs(p) = {}

\* The transaction of initiateSubscription: the subscription first (409 on 23505) ...
InsertSubscription(p) ==
    /\ ~IsOneTime(p) /\ ~OpenInsert(p)
    /\ Advance(p, "creating", IF IndexFree(p) THEN "inserted" ELSE "refused")
    /\ UNCHANGED <<asked, tableVars, providerVars, handlerVars, told>>

\* ... then the payment, and COMMIT.
CommitSubscription(p) ==
    /\ Advance(p, "inserted", IF KeyTaken(p) THEN "refused" ELSE "calling")
    /\ IF KeyTaken(p)
       THEN UNCHANGED <<row, sub>>
       ELSE /\ row' = [row EXCEPT ![p] = "PENDING"]
            /\ sub' = [sub EXCEPT ![p] = "PENDING"]
    /\ UNCHANGED <<asked, ref, providerVars, handlerVars, told>>

\* The provider opens a checkout under a fresh reference.
CallProvider(p) ==
    /\ Advance(p, "calling", "storing")
    /\ checkout' = [checkout EXCEPT ![p] = "open"]
    /\ UNCHANGED <<asked, tableVars, sent, handlerVars, told>>

StoreReference(p) ==
    /\ Advance(p, "storing", "open")
    /\ ref' = [ref EXCEPT ![p] = TRUE]
    /\ UNCHANGED <<asked, row, sub, providerVars, handlerVars, told>>

\* A query or the provider throws, or the process dies: an open transaction is
\* rolled back, a committed row stays PENDING without a reference.
AbortRequest(p) ==
    /\ request[p] \in {"creating", "inserted", "calling", "storing"}
    /\ request' = [request EXCEPT ![p] = "refused"]
    /\ UNCHANGED <<asked, tableVars, providerVars, handlerVars, told>>

-----------------------------------------------------------------------------
(* The customer and the provider *)

\* A card is declined, and may be tried again under the same reference.
Decline(p) ==
    /\ request[p] = "open" /\ checkout[p] = "open"
    /\ checkout' = [checkout EXCEPT ![p] = "declined"]
    /\ sent' = [sent EXCEPT ![p] = @ \cup {"charge.failed"}]
    /\ UNCHANGED <<requestVars, tableVars, handlerVars, told>>

\* The charge succeeds, for the amount of the row or another; the event may name it
\* (which makes no difference when it is the right one).
Charge(p, result, event) ==
    /\ request[p] = "open" /\ checkout[p] \in {"open", "declined"}
    /\ checkout' = [checkout EXCEPT ![p] = result]
    /\ sent' = [sent EXCEPT ![p] = @ \cup {event}]
    /\ UNCHANGED <<requestVars, tableVars, handlerVars, told>>

Dispute(p) ==
    /\ checkout[p] \in {"paid", "mispaid"}
    /\ "charge.dispute.create" \notin sent[p]
    /\ sent' = [sent EXCEPT ![p] = @ \cup {"charge.dispute.create"}]
    /\ UNCHANGED <<requestVars, tableVars, checkout, handlerVars, told>>

-----------------------------------------------------------------------------
(* resolvePayment and processWebhookEvent *)

Goto(h, from, to) ==
    /\ pc[h] = from
    /\ pc' = [pc EXCEPT ![h] = to]

Take(h, p, how, to) ==
    /\ pc[h] = "idle"
    /\ pc' = [pc EXCEPT ![h] = to]
    /\ on' = [on EXCEPT ![h] = p]
    /\ via' = [via EXCEPT ![h] = how]
    /\ target' = [target EXCEPT ![h] = None]

\* The row is found by its reference; a status other than PENDING is answered,
\* or the webhook ignored, at once.
Unsettled(p) == ref[p] /\ row[p] = "PENDING"

ReadForVerify(h, p) ==
    /\ Unsettled(p)
    /\ Take(h, p, "verify", "asking")
    /\ UNCHANGED <<requestVars, tableVars, providerVars, told>>

\* Mutant of AmountRight: the amount is not compared.
AmountAny(p) == checkout[p] \in {"paid", "mispaid"}

\* The amount is compared before anything is written (SEC-05).
AmountRight(p) == checkout[p] = "paid"

\* The provider's answer: success, failure, or still pending; a wrong amount is
\* an error (422).
AskGateway(h) ==
    /\ Goto(h, "asking", CASE AmountRight(on[h]) -> "settling"
                           [] checkout[on[h]] = "declined" -> "failing"
                           [] OTHER -> "idle")
    /\ UNCHANGED <<requestVars, tableVars, providerVars, on, via, target, told>>

\* An event that names no amount is settled without the comparison.
ReceiveSuccess(h, p) ==
    /\ Unsettled(p)
    /\ \/ Priced \in sent[p] /\ AmountRight(p)
       \/ Unpriced \in sent[p]
    /\ Take(h, p, "webhook", "settling")
    /\ UNCHANGED <<requestVars, tableVars, providerVars, told>>

ReceiveFailure(h, p) ==
    /\ sent[p] \cap {"charge.failed", "charge.dispute.create"} # {}
    /\ Unsettled(p)
    /\ Take(h, p, "webhook", "failing")
    /\ UNCHANGED <<requestVars, tableVars, providerVars, told>>

\* Mutant of StartSettlement: the UPDATE is not given the transaction's manager.
StartSettlementOutside(h) ==
    /\ ~PaymentLocked(on[h])
    /\ Goto(h, "settling", "finding")
    /\ row' = [row EXCEPT ![on[h]] = "SUCCESS"]
    /\ UNCHANGED <<requestVars, ref, sub, providerVars, on, via, target, told>>

\* The transaction's first statement: UPDATE of the payment, whatever its status
\* is by now.
StartSettlement(h) ==
    /\ ~PaymentLocked(on[h])
    /\ Goto(h, "settling", "finding")
    /\ UNCHANGED <<requestVars, tableVars, providerVars, on, via, target, told>>

\* Mutant of Found: a PENDING subscription keeps a one-time payment from inserting
\* one but is not activated.
FoundNothing(p) == IF IsOneTime(p) /\ OpenSubs(p) = {} THEN {"new"} ELSE {}

\* What is there to activate: the PENDING subscription; for a one-time payment a
\* new row when there is none at all, nothing when one is ACTIVE.
Found(p) ==
    IF IsOneTime(p) /\ OpenSubs(p) = {}
    THEN {"new"}
    ELSE {s \in OpenSubs(p) : sub[s] = "PENDING"}

FindSubscription(h) ==
    /\ pc[h] = "finding"
    /\ IF Found(on[h]) = {}
       THEN /\ pc' = [pc EXCEPT ![h] = "committing"]
            /\ UNCHANGED target
       ELSE \E s \in Found(on[h]) :
               /\ pc' = [pc EXCEPT ![h] = "activating"]
               /\ target' = [target EXCEPT ![h] = s]
    /\ UNCHANGED <<requestVars, tableVars, providerVars, on, via, told>>

ActivateFound(h) ==
    /\ target[h] # "new" /\ ~SubLocked(target[h])
    /\ Goto(h, "activating", "committing")
    /\ UNCHANGED <<requestVars, tableVars, providerVars, on, via, target, told>>

\* INSERT of an ACTIVE subscription; 23505 aborts the transaction.
InsertActive(h) ==
    /\ target[h] = "new" /\ ~OpenInsert(on[h])
    /\ Goto(h, "activating", IF IndexFree(on[h]) THEN "committing" ELSE "idle")
    /\ UNCHANGED <<requestVars, tableVars, providerVars, on, via, target, told>>

\* The subscription row the transaction has written.
Activated(h) ==
    CASE target[h] = "new" -> {on[h]}
      [] target[h] = None -> {}
      [] OTHER -> {target[h]}

\* A verification that found no PENDING subscription for its subscription payment
\* announces nothing.
Announces(h) == via[h] = "webhook" \/ IsOneTime(on[h]) \/ target[h] # None

CommitSettlement(h) ==
    /\ Goto(h, "committing", IF Announces(h) THEN "announcing" ELSE "idle")
    /\ row' = [row EXCEPT ![on[h]] = "SUCCESS"]
    /\ sub' = [s \in Payments |-> IF s \in Activated(h) THEN "ACTIVE" ELSE sub[s]]
    /\ UNCHANGED <<requestVars, ref, providerVars, on, via, target, told>>

Announce(h) ==
    /\ Goto(h, "announcing", "idle")
    /\ told' = [told EXCEPT ![on[h]] = @ \cup {"PLAN_UPGRADED"}]
    /\ UNCHANGED <<requestVars, tableVars, providerVars, on, via, target>>

\* Mutant of WriteFailed: the provider's word for the status is stored as it is.
WriteGatewayStatus(h) ==
    /\ ~PaymentLocked(on[h])
    /\ Goto(h, "failing", IF via[h] = "webhook" THEN "reporting" ELSE "idle")
    /\ row' = [row EXCEPT ![on[h]] = checkout[on[h]]]
    /\ UNCHANGED <<requestVars, ref, sub, providerVars, on, via, target, told>>

\* UPDATE ... SET status = 'failed' by id.
WriteFailed(h) ==
    /\ ~PaymentLocked(on[h])
    /\ Goto(h, "failing", IF via[h] = "webhook" THEN "reporting" ELSE "idle")
    /\ row' = [row EXCEPT ![on[h]] = "FAILED"]
    /\ UNCHANGED <<requestVars, ref, sub, providerVars, on, via, target, told>>

ReportFailure(h) ==
    /\ Goto(h, "reporting", "idle")
    /\ told' = [told EXCEPT ![on[h]] = @ \cup {"PAYMENT_FAILED"}]
    /\ UNCHANGED <<requestVars, tableVars, providerVars, on, via, target>>

\* A query or the provider throws, a listener throws, or the process dies: the
\* transaction is rolled back. A webhook is answered 200 all the same.
Abort(h) ==
    /\ pc[h] # "idle"
    /\ pc' = [pc EXCEPT ![h] = "idle"]
    /\ UNCHANGED <<requestVars, tableVars, providerVars, on, via, target, told>>

-----------------------------------------------------------------------------
RequestStep(p) ==
    \/ \E k \in Kinds, t \in Hours : Ask(p, k, t)
    \/ CreatePayment(p) \/ InsertSubscription(p) \/ CommitSubscription(p)
    \/ CallProvider(p) \/ StoreReference(p) \/ AbortRequest(p)

ProviderStep(p) ==
    \/ Decline(p) \/ Dispute(p)
    \/ Charge(p, "paid", Priced)
    \/ \E event \in {Priced, Unpriced} : Charge(p, "mispaid", event)

Receive(h, p) == ReadForVerify(h, p) \/ ReceiveSuccess(h, p) \/ ReceiveFailure(h, p)

HandlerStep(h) ==
    \/ AskGateway(h) \/ StartSettlement(h) \/ FindSubscription(h) \/ ActivateFound(h)
    \/ InsertActive(h) \/ CommitSettlement(h) \/ Announce(h)
    \/ WriteFailed(h) \/ ReportFailure(h) \/ Abort(h)

Next ==
    \/ \E p \in Payments : RequestStep(p) \/ ProviderStep(p)
    \/ \E h \in Handlers, p \in Payments : Receive(h, p)
    \/ \E h \in Handlers : HandlerStep(h)

Spec == Init /\ [][Next]_vars

-----------------------------------------------------------------------------
(* Properties *)

\* A user has at most one subscription that is pending or active, whether
\* requests insert it or settlements of one-time payments do
\* (initiateSubscription, activateProSubscription).
OneOpenSubscription ==
    \A p, q \in Payments :
       p # q /\ Owner[p] = Owner[q] => sub[p] = "none" \/ sub[q] = "none"

\* One checkout is opened for an idempotency key, however requests race, fail half
\* way and are sent again (initiatePayment, initiateSubscription).
OneCheckoutPerKey ==
    \A p, q \in Payments :
       p # q /\ SameKey(p, q) => checkout[p] = "none" \/ checkout[q] = "none"

\* The provider took the amount of the row, or took another and its event did not say
\* which.
Earned(p) == checkout[p] = "paid" \/ (checkout[p] = "mispaid" /\ Unpriced \in sent[p])

\* A payment is SUCCESS only when the provider took money for it, and the wrong amount
\* passes only on an event that names none: never through a verification, never
\* because a handler decided long before it wrote (resolvePayment,
\* handleChargeSuccess).
SuccessIsEarned ==
    \A p \in Payments : row[p] = "SUCCESS" => Earned(p)

\* "success: user now has Pro": the owner of a SUCCESS payment has an ACTIVE
\* subscription, also when settlements of several payments, a pending subscription
\* and a failing transaction meet (activateProSubscription, activateSubscriptionPayment).
PaidMeansPro ==
    \A p \in Payments : row[p] = "SUCCESS" => IsPro(p)

\* The tables and the events behave as ProPlan promises.
Plan == INSTANCE ProPlan WITH
    pro <- {Owner[s] : s \in {s \in Payments : sub[s] = "ACTIVE"}},
    settled <- {p \in Payments : row[p] = "SUCCESS"},
    announced <- {p \in Payments : "PLAN_UPGRADED" \in told[p]}
RefinesProPlan == Plan!Spec

\* A payment that was settled as SUCCESS stays so: the status is terminal.
SettledIsFinal ==
    [][\A p \in Payments : row[p] = "SUCCESS" => row'[p] = "SUCCESS"]_vars
=============================================================================
