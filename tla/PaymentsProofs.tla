--------------------------- MODULE PaymentsProofs ---------------------------
(***************************************************************************)
(* The safety properties of Payments for every set of charges, users and   *)
(* handlers. One lemma per part of IInv; what a step can only add to (the  *)
(* rows, the subscriptions, the earned charges) is a lemma of its own.     *)
(***************************************************************************)
EXTENDS PaymentsInv, TLAPS

\* Nobody has asked for anything.
LEMMA InitInv == Init => IInv
<1> SUFFICES ASSUME Init PROVE IInv
  OBVIOUS
<1> USE PaymentAssumption DEF Init, OpenSubs, Mates, IsOneTime
<1>1. TypeInv
  BY DEF TypeInv, TypeOK, Kinds, InSettlement
<1>2. RequestInv /\ KeyInv
  BY DEF RequestInv, KeyInv
<1>3. ClaimInv /\ HandlerInv
  BY DEF ClaimInv, HandlerInv, Relies, InsertsActive, InSettlement
<1>4. PlanInv
  BY DEF PlanInv, OneOpenSubscription, SuccessIsEarned, PaidMeansPro
<1> QED
  BY <1>1, <1>2, <1>3, <1>4 DEF IInv

\* Every action keeps the types, and a handler starts from a payment with a
\* reference.
LEMMA TypeInvStep ==
  TypeInv /\ [Next]_vars => TypeInv'
<1> SUFFICES ASSUME TypeInv, [Next]_vars PROVE TypeInv'
  OBVIOUS
<1> USE PaymentAssumption
      DEF TypeInv, TypeOK, Kinds, InSettlement, requestVars, tableVars, providerVars,
      handlerVars
<1>1. ASSUME NEW p \in Payments, RequestStep(p) PROVE TypeInv'
  <2>1. ASSUME NEW k \in Kinds, NEW t \in Hours, Ask(p, k, t) PROVE TypeInv'
    BY <2>1 DEF Ask, Advance
  <2>2. CASE CreatePayment(p)
    BY <2>2 DEF CreatePayment, Advance
  <2>3. CASE InsertSubscription(p)
    BY <2>3 DEF InsertSubscription, Advance
  <2>4. CASE CommitSubscription(p)
    BY <2>4 DEF CommitSubscription, Advance
  <2>5. CASE CallProvider(p)
    BY <2>5 DEF CallProvider, Advance
  <2>6. CASE StoreReference(p)
    BY <2>6 DEF StoreReference, Advance
  <2>7. CASE AbortRequest(p)
    BY <2>7 DEF AbortRequest
  <2> QED
    BY <1>1, <2>1, <2>2, <2>3, <2>4, <2>5, <2>6, <2>7 DEF RequestStep
<1>2. ASSUME NEW p \in Payments, ProviderStep(p) PROVE TypeInv'
  BY <1>2 DEF ProviderStep, Decline, Charge, Dispute
<1>3. ASSUME NEW h \in Handlers, NEW p \in Payments, Receive(h, p) PROVE TypeInv'
  BY <1>3 DEF Receive, ReadForVerify, ReceiveSuccess, ReceiveFailure, Take, Unsettled
<1>4. ASSUME NEW h \in Handlers, HandlerStep(h) PROVE TypeInv'
  <2>1. CASE AskGateway(h)
    BY <2>1 DEF AskGateway, Goto
  <2>2. CASE StartSettlement(h)
    BY <2>2 DEF StartSettlement, Goto
  <2>3. CASE FindSubscription(h)
    BY <2>3 DEF FindSubscription, Found, OpenSubs, Mates
  <2>4. CASE ActivateFound(h)
    BY <2>4 DEF ActivateFound, Goto
  <2>5. CASE InsertActive(h)
    BY <2>5 DEF InsertActive, Goto
  <2>6. CASE CommitSettlement(h)
    BY <2>6 DEF CommitSettlement, Goto, Announces
  <2>7. CASE Announce(h)
    BY <2>7 DEF Announce, Goto
  <2>8. CASE WriteFailed(h)
    BY <2>8 DEF WriteFailed, Goto
  <2>9. CASE ReportFailure(h)
    BY <2>9 DEF ReportFailure, Goto
  <2>10. CASE Abort(h)
    BY <2>10 DEF Abort
  <2> QED
    BY <1>4, <2>1, <2>2, <2>3, <2>4, <2>5, <2>6, <2>7, <2>8, <2>9, <2>10 DEF HandlerStep
<1>5. CASE UNCHANGED vars
  BY <1>5 DEF vars
<1> QED
  BY <1>1, <1>2, <1>3, <1>4, <1>5 DEF Next

\* What a step never takes back: a row, a subscription and its ACTIVE status, a
\* reference, an earned charge, what was asked.
Kept ==
  \A p \in Payments :
     /\ row[p] # "none" => row'[p] # "none"
     /\ sub[p] # "none" => sub'[p] # "none"
     /\ sub[p] = "ACTIVE" => sub'[p] = "ACTIVE"
     /\ ref[p] => ref'[p]
     /\ Earned(p) => Earned(p)'
     /\ asked[p] # None => asked'[p] = asked[p]


\* Every action keeps it.
LEMMA StepKeeps ==
  TypeInv /\ RequestInv /\ [Next]_vars => Kept
<1> SUFFICES ASSUME TypeInv, RequestInv, [Next]_vars PROVE Kept
  OBVIOUS
<1> USE PaymentAssumption
      DEF TypeInv, TypeOK, Kinds, InSettlement, RequestInv, Kept, Earned, requestVars,
      tableVars, providerVars, handlerVars
<1>1. ASSUME NEW p \in Payments, RequestStep(p) PROVE Kept
  <2>1. ASSUME NEW k \in Kinds, NEW t \in Hours, Ask(p, k, t) PROVE Kept
    BY <2>1 DEF Ask, Advance
  <2>2. CASE CreatePayment(p)
    BY <2>2 DEF CreatePayment, Advance
  <2>3. CASE InsertSubscription(p)
    BY <2>3 DEF InsertSubscription, Advance
  <2>4. CASE CommitSubscription(p)
    BY <2>4 DEF CommitSubscription, Advance
  <2>5. CASE CallProvider(p)
    BY <2>5 DEF CallProvider, Advance
  <2>6. CASE StoreReference(p)
    BY <2>6 DEF StoreReference, Advance
  <2>7. CASE AbortRequest(p)
    BY <2>7 DEF AbortRequest
  <2> QED
    BY <1>1, <2>1, <2>2, <2>3, <2>4, <2>5, <2>6, <2>7 DEF RequestStep
<1>2. ASSUME NEW p \in Payments, ProviderStep(p) PROVE Kept
  BY <1>2 DEF ProviderStep, Decline, Charge, Dispute
<1>3. ASSUME NEW h \in Handlers, NEW p \in Payments, Receive(h, p) PROVE Kept
  BY <1>3 DEF Receive, ReadForVerify, ReceiveSuccess, ReceiveFailure, Take, Unsettled
<1>4. ASSUME NEW h \in Handlers, HandlerStep(h) PROVE Kept
  <2>1. CASE AskGateway(h)
    BY <2>1 DEF AskGateway, Goto
  <2>2. CASE StartSettlement(h)
    BY <2>2 DEF StartSettlement, Goto
  <2>3. CASE FindSubscription(h)
    BY <2>3 DEF FindSubscription
  <2>4. CASE ActivateFound(h)
    BY <2>4 DEF ActivateFound, Goto
  <2>5. CASE InsertActive(h)
    BY <2>5 DEF InsertActive, Goto
  <2>6. CASE CommitSettlement(h)
    BY <2>6 DEF CommitSettlement, Goto
  <2>7. CASE Announce(h)
    BY <2>7 DEF Announce, Goto
  <2>8. CASE WriteFailed(h)
    BY <2>8 DEF WriteFailed, Goto
  <2>9. CASE ReportFailure(h)
    BY <2>9 DEF ReportFailure, Goto
  <2>10. CASE Abort(h)
    BY <2>10 DEF Abort
  <2> QED
    BY <1>4, <2>1, <2>2, <2>3, <2>4, <2>5, <2>6, <2>7, <2>8, <2>9, <2>10 DEF HandlerStep
<1>5. CASE UNCHANGED vars
  BY <1>5 DEF vars
<1> QED
  BY <1>1, <1>2, <1>3, <1>4, <1>5 DEF Next

\* A handler at work is on a payment whose row is there, so its request is past
\* the insertion of it.
LEMMA HandledPayment ==
  ASSUME TypeInv, RequestInv, NEW h \in Handlers, pc[h] # "idle"
  PROVE  /\ on[h] \in Payments
         /\ row[on[h]] # "none"
         /\ request[on[h]] \notin {"idle", "creating", "inserted"}
         /\ asked[on[h]] # None
  BY DEF TypeInv, RequestInv

\* RequestInv reads the requests, the tables and the provider, nothing else.
LEMMA RequestPart ==
  ASSUME TypeInv, RequestInv, UNCHANGED <<requestVars, tableVars, providerVars>>
  PROVE  RequestInv'
  BY DEF RequestInv, requestVars, tableVars, providerVars, Earned, IsOneTime

\* A request inserts its row before the checkout is opened, and its subscription
\* with it; a settlement writes rows that are there.
LEMMA RequestInvStep ==
  TypeInv /\ RequestInv /\ HandlerInv /\ [Next]_vars => RequestInv'
<1> SUFFICES ASSUME TypeInv, RequestInv, HandlerInv, [Next]_vars PROVE RequestInv'
  OBVIOUS
<1> USE PaymentAssumption
      DEF TypeInv, TypeOK, RequestInv, Earned, IsOneTime, requestVars, tableVars,
      providerVars, handlerVars
<1>1. ASSUME NEW p \in Payments, RequestStep(p) PROVE RequestInv'
  <2>1. ASSUME NEW k \in Kinds, NEW t \in Hours, Ask(p, k, t) PROVE RequestInv'
    BY <2>1 DEF Ask, Kinds, Advance
  <2>2. CASE CreatePayment(p)
    BY <2>2 DEF CreatePayment, Advance
  <2>3. CASE InsertSubscription(p)
    BY <2>3 DEF InsertSubscription, Advance
  <2>4. CASE CommitSubscription(p)
    BY <2>4 DEF CommitSubscription, Advance
  <2>5. CASE CallProvider(p)
    BY <2>5 DEF CallProvider, Advance
  <2>6. CASE StoreReference(p)
    BY <2>6 DEF StoreReference, Advance
  <2>7. CASE AbortRequest(p)
    BY <2>7 DEF AbortRequest
  <2> QED
    BY <1>1, <2>1, <2>2, <2>3, <2>4, <2>5, <2>6, <2>7 DEF RequestStep
<1>2. ASSUME NEW p \in Payments, ProviderStep(p) PROVE RequestInv'
  <2> USE DEF Priced, Unpriced
  <2>1. CASE Decline(p)
    BY <2>1 DEF Decline
  <2>2. CASE Dispute(p)
    BY <2>2 DEF Dispute
  <2>3. CASE Charge(p, "paid", Priced)
    BY <2>3 DEF Charge
  <2>4. ASSUME NEW event \in {Priced, Unpriced}, Charge(p, "mispaid", event)
        PROVE RequestInv'
    BY <2>4 DEF Charge
  <2> QED
    BY <1>2, <2>1, <2>2, <2>3, <2>4 DEF ProviderStep
<1>3. ASSUME NEW h \in Handlers, NEW p \in Payments, Receive(h, p) PROVE RequestInv'
  BY <1>3, RequestPart DEF Receive, ReadForVerify, ReceiveSuccess, ReceiveFailure
<1>4. ASSUME NEW h \in Handlers, HandlerStep(h) PROVE RequestInv'
  <2>1. CASE AskGateway(h)
    BY <2>1, RequestPart DEF AskGateway
  <2>2. CASE StartSettlement(h)
    BY <2>2, RequestPart DEF StartSettlement
  <2>3. CASE FindSubscription(h)
    BY <2>3, RequestPart DEF FindSubscription
  <2>4. CASE ActivateFound(h)
    BY <2>4, RequestPart DEF ActivateFound
  <2>5. CASE InsertActive(h)
    BY <2>5, RequestPart DEF InsertActive
  <2>6. CASE CommitSettlement(h)
    BY <2>6, HandledPayment
       DEF CommitSettlement, Goto, Activated, HandlerInv, Relies, InSettlement,
       OpenSubs, Mates
  <2>7. CASE Announce(h)
    BY <2>7, RequestPart DEF Announce
  <2>8. CASE WriteFailed(h)
    BY <2>8, HandledPayment DEF WriteFailed, Goto
  <2>9. CASE ReportFailure(h)
    BY <2>9, RequestPart DEF ReportFailure
  <2>10. CASE Abort(h)
    BY <2>10, RequestPart DEF Abort
  <2> QED
    BY <1>4, <2>1, <2>2, <2>3, <2>4, <2>5, <2>6, <2>7, <2>8, <2>9, <2>10 DEF HandlerStep
<1>5. CASE UNCHANGED vars
  BY <1>5, RequestPart DEF vars
<1> QED
  BY <1>1, <1>2, <1>3, <1>4, <1>5 DEF Next

\* A row is inserted only under a key no other row has.
LEMMA KeyInvStep ==
  TypeInv /\ RequestInv /\ KeyInv /\ [Next]_vars => KeyInv'
<1> SUFFICES ASSUME TypeInv, RequestInv, KeyInv, [Next]_vars PROVE KeyInv'
  OBVIOUS
<1> USE PaymentAssumption
      DEF KeyInv, SameKey, TypeInv, TypeOK, requestVars, tableVars, providerVars,
      handlerVars
<1>1. ASSUME NEW p \in Payments, RequestStep(p) PROVE KeyInv'
  <2>1. ASSUME NEW k \in Kinds, NEW t \in Hours, Ask(p, k, t) PROVE KeyInv'
    BY <2>1 DEF Ask, Advance, RequestInv
  <2>2. CASE CreatePayment(p)
    BY <2>2 DEF CreatePayment, Advance, KeyTaken, SameKey
  <2>3. CASE InsertSubscription(p)
    BY <2>3 DEF InsertSubscription, Advance, KeyTaken, SameKey
  <2>4. CASE CommitSubscription(p)
    BY <2>4 DEF CommitSubscription, Advance, KeyTaken, SameKey
  <2>5. CASE CallProvider(p)
    BY <2>5 DEF CallProvider, Advance, KeyTaken, SameKey
  <2>6. CASE StoreReference(p)
    BY <2>6 DEF StoreReference, Advance, KeyTaken, SameKey
  <2>7. CASE AbortRequest(p)
    BY <2>7 DEF AbortRequest, KeyTaken, SameKey
  <2> QED
    BY <1>1, <2>1, <2>2, <2>3, <2>4, <2>5, <2>6, <2>7 DEF RequestStep
<1>2. ASSUME NEW p \in Payments, ProviderStep(p) PROVE KeyInv'
  BY <1>2 DEF ProviderStep, Decline, Charge, Dispute
<1>3. ASSUME NEW h \in Handlers, NEW p \in Payments, Receive(h, p) PROVE KeyInv'
  BY <1>3 DEF Receive, ReadForVerify, ReceiveSuccess, ReceiveFailure
<1>4. ASSUME NEW h \in Handlers, HandlerStep(h) PROVE KeyInv'
  <2>1. CASE AskGateway(h)
    BY <2>1 DEF AskGateway
  <2>2. CASE StartSettlement(h)
    BY <2>2 DEF StartSettlement
  <2>3. CASE FindSubscription(h)
    BY <2>3 DEF FindSubscription
  <2>4. CASE ActivateFound(h)
    BY <2>4 DEF ActivateFound
  <2>5. CASE InsertActive(h)
    BY <2>5 DEF InsertActive
  <2>6. CASE CommitSettlement(h)
    BY <2>6, HandledPayment DEF CommitSettlement, Goto
  <2>7. CASE Announce(h)
    BY <2>7 DEF Announce
  <2>8. CASE WriteFailed(h)
    BY <2>8, HandledPayment DEF WriteFailed, Goto
  <2>9. CASE ReportFailure(h)
    BY <2>9 DEF ReportFailure
  <2>10. CASE Abort(h)
    BY <2>10 DEF Abort
  <2> QED
    BY <1>4, <2>1, <2>2, <2>3, <2>4, <2>5, <2>6, <2>7, <2>8, <2>9, <2>10 DEF HandlerStep
<1>5. CASE UNCHANGED vars
  BY <1>5 DEF vars
<1> QED
  BY <1>1, <1>2, <1>3, <1>4, <1>5 DEF Next

\* So a user who has a subscription keeps it, and Pro with it.
LEMMA SubscriptionsKept ==
  ASSUME TypeInv, Kept, NEW p \in Payments
  PROVE  OpenSubs(p) \subseteq OpenSubs(p)' /\ (IsPro(p) => IsPro(p)')
  BY DEF Kept, OpenSubs, IsPro, Mates

\* Claims are only given up, and no subscription is inserted.
LEMMA FewerClaims ==
  ASSUME ClaimInv, OneOpenSubscription, UNCHANGED sub,
         \A p \in Payments : request'[p] = "inserted" =>
            request[p] = "inserted" /\ asked'[p] = asked[p],
         \A h \in Handlers : InsertsActive(h)' => InsertsActive(h) /\ on'[h] = on[h]
  PROVE  ClaimInv' /\ OneOpenSubscription'
  BY DEF ClaimInv, OneOpenSubscription, OpenSubs, Mates, IsOneTime

\* A request that inserts finds no row and no other open insertion for the user.
LEMMA RequestClaims ==
  ASSUME TypeInv, RequestInv, ClaimInv, NEW p \in Payments, InsertSubscription(p)
  PROVE  ClaimInv'
<1> USE DEF InsertSubscription, Advance, tableVars, providerVars, handlerVars, TypeInv,
      TypeOK
<1>1. \A q \in Payments : OpenSubs(q)' = OpenSubs(q) /\ IsOneTime(q)' = IsOneTime(q)
  BY DEF OpenSubs, Mates, IsOneTime
<1>2. \A h \in Handlers : InsertsActive(h)' = InsertsActive(h)
  BY DEF InsertsActive
<1>3. on' = on /\ \A h \in Handlers : InsertsActive(h) =>
      OpenSubs(on[h])' = OpenSubs(on[h])
  BY DEF OpenSubs, Mates
<1>4. CASE IndexFree(p)
  <2>1. \A q \in Payments : request'[q] = "inserted" => q = p \/ request[q] = "inserted"
    BY <1>4
  <2>2. OpenSubs(p) = {} /\ ~IsOneTime(p)
    BY <1>4 DEF IndexFree
  <2>3. \A q \in Payments : request[q] = "inserted" => Owner[q] # Owner[p]
    BY DEF OpenInsert, Mates
  <2>4. \A h \in Handlers : InsertsActive(h) => Owner[on[h]] # Owner[p]
    BY DEF OpenInsert, InsertsActive
  <2> QED
    BY <1>1, <1>2, <1>3, <2>1, <2>2, <2>3, <2>4 DEF ClaimInv
<1>5. CASE ~IndexFree(p)
  <2>1. \A q \in Payments : request'[q] = "inserted" => request[q] = "inserted"
    BY <1>5
  <2> QED
    BY <1>1, <1>2, <1>3, <2>1 DEF ClaimInv
<1> QED
  BY <1>4, <1>5

\* So does a settlement that inserts an ACTIVE one.
LEMMA SettlementClaims ==
  ASSUME TypeInv, RequestInv, ClaimInv, NEW h \in Handlers, InsertActive(h)
  PROVE  ClaimInv'
<1> USE DEF InsertActive, Goto, requestVars, tableVars, providerVars, TypeInv, TypeOK
<1>1. \A q \in Payments : OpenSubs(q)' = OpenSubs(q) /\ IsOneTime(q)' = IsOneTime(q)
  BY DEF OpenSubs, Mates, IsOneTime
<1>2. on' = on /\ request' = request /\ on[h] \in Payments
  OBVIOUS
<1>3. CASE IndexFree(on[h])
  <2>1. \A g \in Handlers : InsertsActive(g)' => g = h \/ InsertsActive(g)
    BY <1>3 DEF InsertsActive
  <2>2. OpenSubs(on[h]) = {}
    BY <1>3 DEF IndexFree
  <2>3. \A q \in Payments : request[q] = "inserted" => Owner[q] # Owner[on[h]]
    BY <1>2 DEF OpenInsert, Mates
  <2>4. \A g \in Handlers : InsertsActive(g) => Owner[on[g]] # Owner[on[h]]
    BY DEF OpenInsert, InsertsActive
  <2>5. \A g \in Handlers : InsertsActive(g)' => OpenSubs(on[g])' = {}
    <3> SUFFICES ASSUME NEW g \in Handlers, InsertsActive(g)'
          PROVE OpenSubs(on[g])' = {}
      OBVIOUS
    <3>1. on[g] \in Payments /\ OpenSubs(on[g]) = {}
      BY <1>2, <2>1, <2>2 DEF ClaimInv, InsertsActive
    <3> QED
      BY <1>1, <1>2, <3>1 DEF OpenSubs, Mates
  <2> QED
    BY <1>1, <1>2, <2>1, <2>3, <2>4, <2>5 DEF ClaimInv
<1>4. CASE ~IndexFree(on[h])
  <2>1. \A g \in Handlers : InsertsActive(g)' => InsertsActive(g)
    BY <1>4 DEF InsertsActive
  <2>2. \A g \in Handlers : InsertsActive(g) => OpenSubs(on[g])' = OpenSubs(on[g])
    BY <1>1 DEF InsertsActive
  <2> QED
    BY <1>1, <1>2, <2>1, <2>2 DEF ClaimInv, InsertsActive
<1> QED
  BY <1>3, <1>4

\* A request that commits its subscription had claimed it: the user has no other.
LEMMA RequestInserts ==
  ASSUME TypeInv, ClaimInv, OneOpenSubscription, NEW p \in Payments,
     CommitSubscription(p)
  PROVE  ClaimInv' /\ OneOpenSubscription'
<1> USE DEF CommitSubscription, Advance, providerVars, handlerVars, TypeInv, TypeOK
<1>1. /\ \A q \in Payments : request'[q] = "inserted" =>
             q # p /\ request[q] = "inserted"
      /\ \A q \in Payments : request'[q] = "inserted" => Owner[q] # Owner[p]
      /\ \A h \in Handlers : InsertsActive(h)' = InsertsActive(h)
      /\ \A h \in Handlers : InsertsActive(h) =>
             Owner[on[h]] # Owner[p] /\ on[h] \in Payments
      /\ \A q \in Payments : IsOneTime(q)' = IsOneTime(q)
      /\ on' = on
  BY DEF ClaimInv, InsertsActive, IsOneTime
<1>2. OpenSubs(p) = {}
  BY DEF ClaimInv
<1>3. \A q \in Payments \ {p} : sub'[q] = sub[q]
  OBVIOUS
<1>4. \A q \in Payments : Owner[q] # Owner[p] => OpenSubs(q)' = OpenSubs(q)
  BY <1>3 DEF OpenSubs, Mates
<1>5. OneOpenSubscription'
  BY <1>2, <1>3 DEF OneOpenSubscription, OpenSubs, Mates
<1> QED
  BY <1>1, <1>4, <1>5 DEF ClaimInv, InsertsActive, OpenSubs, Mates

\* So had a settlement that commits a new one; another activates a row that is there.
LEMMA SettlementInserts ==
  ASSUME TypeInv, HandlerInv, ClaimInv, OneOpenSubscription, NEW h \in Handlers,
     CommitSettlement(h)
  PROVE  ClaimInv' /\ OneOpenSubscription'
<1> USE DEF CommitSettlement, Goto, requestVars, providerVars, TypeInv, TypeOK
<1>1. /\ on' = on /\ request' = request /\ on[h] \in Payments
      /\ \A g \in Handlers : InsertsActive(g)' => g # h /\ InsertsActive(g)
      /\ \A g \in Handlers : InsertsActive(g) => on[g] \in Payments
      /\ \A q \in Payments : IsOneTime(q)' = IsOneTime(q)
  BY DEF InsertsActive, IsOneTime
<1>2. CASE InsertsActive(h)
  <2>1. Activated(h) = {on[h]} /\ OpenSubs(on[h]) = {}
    BY <1>2, PaymentAssumption DEF Activated, InsertsActive, ClaimInv
  <2>2. \A q \in Payments : Owner[q] # Owner[on[h]] => OpenSubs(q)' = OpenSubs(q)
    BY <1>1, <2>1 DEF OpenSubs, Mates
  <2>3. OneOpenSubscription'
    BY <1>1, <2>1 DEF OneOpenSubscription, OpenSubs, Mates
  <2>4. \A q \in Payments : request[q] = "inserted" => Owner[on[h]] # Owner[q]
    BY <1>2 DEF ClaimInv
  <2>5. \A g \in Handlers : InsertsActive(g)' => Owner[on[h]] # Owner[on[g]]
    BY <1>1, <1>2 DEF ClaimInv
  <2>6. \A g \in Handlers : InsertsActive(g)' => OpenSubs(on[g])' = {}
    <3> SUFFICES ASSUME NEW g \in Handlers, InsertsActive(g)'
          PROVE OpenSubs(on[g])' = {}
      OBVIOUS
    <3>1. on[g] \in Payments /\ OpenSubs(on[g]) = {}
      BY <1>1 DEF ClaimInv
    <3>2. OpenSubs(on[g])' = OpenSubs(on[g])
      BY <1>1, <2>1, <2>5, <3>1 DEF OpenSubs, Mates
    <3> QED
      BY <3>1, <3>2
  <2> QED
    BY <1>1, <2>2, <2>3, <2>4, <2>6 DEF ClaimInv
<1>3. CASE ~InsertsActive(h)
  <2>1. \A s \in Activated(h) : sub[s] # "none"
    BY <1>3 DEF Activated, InsertsActive, HandlerInv, Relies, OpenSubs
  <2>2. \A s \in Payments : sub'[s] # "none" <=> sub[s] # "none"
    BY <2>1
  <2>3. OneOpenSubscription'
    BY <2>2 DEF OneOpenSubscription
  <2>4. \A q \in Payments : OpenSubs(q)' = OpenSubs(q)
    BY <2>2 DEF OpenSubs, Mates
  <2>5. \A g \in Handlers : InsertsActive(g)' => OpenSubs(on[g])' = {}
    <3> SUFFICES ASSUME NEW g \in Handlers, InsertsActive(g)'
          PROVE OpenSubs(on[g])' = {}
      OBVIOUS
    <3>1. on[g] \in Payments /\ OpenSubs(on[g]) = {}
      BY <1>1 DEF ClaimInv
    <3> QED
      BY <1>1, <2>2, <3>1 DEF OpenSubs, Mates
  <2> QED
    BY <1>1, <2>3, <2>4, <2>5 DEF ClaimInv
<1> QED
  BY <1>2, <1>3

\* One subscription per user, and one open insertion of one, through every action.
LEMMA ClaimInvStep ==
  TypeInv /\ RequestInv /\ HandlerInv /\ ClaimInv /\ OneOpenSubscription
     /\ [Next]_vars => ClaimInv' /\ OneOpenSubscription'
<1> SUFFICES ASSUME TypeInv, RequestInv, HandlerInv, ClaimInv, OneOpenSubscription,
      [Next]_vars PROVE ClaimInv' /\ OneOpenSubscription'
  OBVIOUS
<1> USE DEF InsertsActive, TypeInv, TypeOK, requestVars, tableVars, providerVars,
      handlerVars
<1>1. ASSUME NEW p \in Payments, RequestStep(p) PROVE ClaimInv' /\ OneOpenSubscription'
  <2>1. ASSUME NEW k \in Kinds, NEW t \in Hours, Ask(p, k, t)
        PROVE ClaimInv' /\ OneOpenSubscription'
    BY <2>1, FewerClaims DEF Ask, Advance
  <2>2. CASE CreatePayment(p)
    BY <2>2, FewerClaims DEF CreatePayment, Advance
  <2>3. CASE InsertSubscription(p)
    BY <2>3, RequestClaims DEF InsertSubscription, OneOpenSubscription
  <2>4. CASE CommitSubscription(p)
    BY <2>4, RequestInserts
  <2>5. CASE CallProvider(p)
    BY <2>5, FewerClaims DEF CallProvider, Advance
  <2>6. CASE StoreReference(p)
    BY <2>6, FewerClaims DEF StoreReference, Advance
  <2>7. CASE AbortRequest(p)
    BY <2>7, FewerClaims DEF AbortRequest
  <2> QED
    BY <1>1, <2>1, <2>2, <2>3, <2>4, <2>5, <2>6, <2>7 DEF RequestStep
<1>2. ASSUME NEW p \in Payments, ProviderStep(p) PROVE ClaimInv' /\ OneOpenSubscription'
  BY <1>2, FewerClaims DEF ProviderStep, Decline, Charge, Dispute
<1>3. ASSUME NEW h \in Handlers, NEW p \in Payments, Receive(h, p)
      PROVE ClaimInv' /\ OneOpenSubscription'
  BY <1>3, FewerClaims DEF Receive, ReadForVerify, ReceiveSuccess, ReceiveFailure, Take
<1>4. ASSUME NEW h \in Handlers, HandlerStep(h) PROVE ClaimInv' /\ OneOpenSubscription'
  <2>1. CASE AskGateway(h)
    BY <2>1, FewerClaims DEF AskGateway, Goto
  <2>2. CASE StartSettlement(h)
    BY <2>2, FewerClaims DEF StartSettlement, Goto
  <2>3. CASE FindSubscription(h)
    BY <2>3, FewerClaims, PaymentAssumption DEF FindSubscription, HandlerInv, Relies
  <2>4. CASE ActivateFound(h)
    BY <2>4, FewerClaims DEF ActivateFound, Goto
  <2>5. CASE InsertActive(h)
    BY <2>5, SettlementClaims DEF InsertActive, OneOpenSubscription
  <2>6. CASE CommitSettlement(h)
    BY <2>6, SettlementInserts
  <2>7. CASE Announce(h)
    BY <2>7, FewerClaims DEF Announce, Goto
  <2>8. CASE WriteFailed(h)
    BY <2>8, FewerClaims DEF WriteFailed, Goto
  <2>9. CASE ReportFailure(h)
    BY <2>9, FewerClaims DEF ReportFailure, Goto
  <2>10. CASE Abort(h)
    BY <2>10, FewerClaims DEF Abort
  <2> QED
    BY <1>4, <2>1, <2>2, <2>3, <2>4, <2>5, <2>6, <2>7, <2>8, <2>9, <2>10 DEF HandlerStep
<1>5. CASE UNCHANGED vars
  BY <1>5, FewerClaims DEF vars
<1> QED
  BY <1>1, <1>2, <1>3, <1>4, <1>5 DEF Next

\* What a handler relies on is not taken from it by a step that is not its own.
LEMMA RelyKept ==
  ASSUME TypeInv, RequestInv, Kept, NEW h \in Handlers, Relies(h),
         pc'[h] = pc[h], on'[h] = on[h], target'[h] = target[h]
  PROVE  Relies(h)'
<1>1. CASE pc[h] = "idle"
  BY <1>1 DEF Relies, InSettlement
<1>2. CASE pc[h] # "idle"
  <2>1. on[h] \in Payments
    BY <1>2 DEF TypeInv
  <2>2. OpenSubs(on[h]) \subseteq OpenSubs(on[h])'
    BY <2>1 DEF Kept, OpenSubs, Mates
  <2>3. IsPro(on[h]) => IsPro(on[h])'
    BY <2>1 DEF Kept, IsPro, Mates
  <2>4. Earned(on[h]) => Earned(on[h])'
    BY <2>1 DEF Kept, Earned
  <2> QED
    BY <2>2, <2>3, <2>4 DEF Relies
<1> QED
  BY <1>1, <1>2

\* A settlement that finds nothing to activate settles the payment of a Pro user.
LEMMA NothingFound ==
  ASSUME TypeInv, RequestInv, NEW h \in Handlers, pc[h] # "idle", Found(on[h]) = {}
  PROVE  IsPro(on[h])
<1>1. on[h] \in Payments /\ row[on[h]] # "none"
  BY HandledPayment
<1>2. OpenSubs(on[h]) # {}
  <2>1. CASE IsOneTime(on[h])
    BY <2>1 DEF Found
  <2>2. CASE ~IsOneTime(on[h])
    BY <1>1, <2>2 DEF RequestInv, OpenSubs, Mates
  <2> QED
    BY <2>1, <2>2
<1>3. PICK s \in OpenSubs(on[h]) : sub[s] # "PENDING"
  BY <1>2 DEF Found
<1> QED
  BY <1>3 DEF OpenSubs, IsPro, Mates, TypeInv, TypeOK

\* Every other settlement makes its user Pro, in the step that makes the payment SUCCESS.
LEMMA SettlementMakesPro ==
  ASSUME TypeInv, Kept, NEW h \in Handlers, Relies(h), CommitSettlement(h)
  PROVE  IsPro(on[h])'
<1> USE PaymentAssumption DEF TypeInv, TypeOK, CommitSettlement, Goto
<1>1. on[h] \in Payments /\ on' = on /\ pc[h] = "committing"
  OBVIOUS
<1>2. CASE target[h] = None
  BY <1>1, <1>2 DEF Relies, IsPro, Kept, Mates
<1>3. CASE target[h] = "new"
  <2>1. sub'[on[h]] = "ACTIVE"
    BY <1>1, <1>3 DEF Activated
  <2> QED
    BY <1>1, <2>1 DEF IsPro, Mates
<1>4. CASE target[h] \notin {"new", None}
  <2>1. target[h] \in OpenSubs(on[h])
    BY <1>1, <1>4 DEF Relies
  <2>2. sub'[target[h]] = "ACTIVE"
    BY <1>4, <2>1 DEF Activated, OpenSubs, Mates
  <2> QED
    BY <1>1, <2>1, <2>2 DEF IsPro, OpenSubs, Mates
<1> QED
  BY <1>2, <1>3, <1>4

\* A handler's own step establishes what its next one relies on.
LEMMA HandlerInvStep ==
  TypeInv /\ RequestInv /\ HandlerInv /\ [Next]_vars => HandlerInv'
<1> SUFFICES ASSUME TypeInv, RequestInv, HandlerInv, [Next]_vars PROVE HandlerInv'
  OBVIOUS
<1> USE PaymentAssumption
<1>0. Kept /\ \A g \in Handlers : pc'[g] = pc[g] /\ on'[g] = on[g]
      /\ target'[g] = target[g] => Relies(g)'
  BY StepKeeps, RelyKept DEF HandlerInv
<1>1. ASSUME NEW p \in Payments, RequestStep(p) PROVE HandlerInv'
  <2>1. ASSUME NEW k \in Kinds, NEW t \in Hours, Ask(p, k, t) PROVE HandlerInv'
    BY <1>0, <2>1 DEF Ask, handlerVars, HandlerInv
  <2>2. CASE CreatePayment(p)
    BY <1>0, <2>2 DEF CreatePayment, handlerVars, HandlerInv
  <2>3. CASE InsertSubscription(p)
    BY <1>0, <2>3 DEF InsertSubscription, handlerVars, HandlerInv
  <2>4. CASE CommitSubscription(p)
    BY <1>0, <2>4 DEF CommitSubscription, handlerVars, HandlerInv
  <2>5. CASE CallProvider(p)
    BY <1>0, <2>5 DEF CallProvider, handlerVars, HandlerInv
  <2>6. CASE StoreReference(p)
    BY <1>0, <2>6 DEF StoreReference, handlerVars, HandlerInv
  <2>7. CASE AbortRequest(p)
    BY <1>0, <2>7 DEF AbortRequest, handlerVars, HandlerInv
  <2> QED
    BY <1>1, <2>1, <2>2, <2>3, <2>4, <2>5, <2>6, <2>7 DEF RequestStep
<1>2. ASSUME NEW p \in Payments, ProviderStep(p) PROVE HandlerInv'
  BY <1>0, <1>2 DEF ProviderStep, Decline, Charge, Dispute, handlerVars, HandlerInv
<1>3. ASSUME NEW h \in Handlers, NEW p \in Payments, Receive(h, p) PROVE HandlerInv'
  <2> USE DEF Receive, ReadForVerify, ReceiveSuccess, ReceiveFailure, Take, TypeInv,
        TypeOK
  <2>1. \A g \in Handlers \ {h} : Relies(g)'
    BY <1>0, <1>3
  <2>2. pc'[h] \in {"asking", "settling", "failing"} /\ on'[h] = p /\ target'[h] = None
    BY <1>3
  <2>3. pc'[h] = "settling" => Earned(p)'
    BY <1>3 DEF RequestInv, AmountRight, Earned, providerVars
  <2>4. Relies(h)'
    BY <2>2, <2>3 DEF Relies, InSettlement
  <2> QED
    BY <2>1, <2>4 DEF HandlerInv
<1>4. ASSUME NEW h \in Handlers, HandlerStep(h) PROVE HandlerInv'
  <2> SUFFICES Relies(h)'
    <3>1. \A g \in Handlers \ {h} : pc'[g] = pc[g] /\ on'[g] = on[g]
          /\ target'[g] = target[g]
      BY <1>4 DEF HandlerStep, AskGateway, StartSettlement, FindSubscription,
         ActivateFound,
         InsertActive, CommitSettlement, Announce, WriteFailed, ReportFailure, Abort,
            Goto,
         TypeInv, TypeOK
    <3> QED
      BY <1>0, <3>1 DEF HandlerInv
  <2> USE DEF Goto, TypeInv, TypeOK
  <2>0. Relies(h)
    BY DEF HandlerInv
  <2>1. CASE AskGateway(h)
    <3>1. pc'[h] \in {"settling", "failing", "idle"} /\ on' = on /\ target' = target
      BY <2>1 DEF AskGateway
    <3>2. pc'[h] = "settling" => Earned(on[h])'
      BY <2>1 DEF AskGateway, AmountRight, Earned, providerVars
    <3>3. target'[h] = None
      BY <2>0, <3>1, <2>1 DEF AskGateway, Relies
    <3> QED
      BY <3>1, <3>2, <3>3 DEF Relies, InSettlement
  <2>2. CASE StartSettlement(h)
    BY <2>0, <2>2 DEF StartSettlement, Relies, Earned, InSettlement, providerVars
  <2>3. CASE FindSubscription(h)
    <3>1. on' = on /\ sub' = sub /\ checkout' = checkout /\ sent' = sent /\ pc[h] = "finding"
      BY <2>3 DEF FindSubscription, tableVars, providerVars
    <3>2. CASE Found(on[h]) = {}
      <4>1. IsPro(on[h])'
        BY <3>1, <3>2, NothingFound DEF IsPro, Mates
      <4> QED
        BY <2>0, <2>3, <3>1, <3>2, <4>1 DEF FindSubscription, Relies, Earned, InSettlement
    <3>3. CASE Found(on[h]) # {}
      <4>1. pc'[h] = "activating" /\ target'[h] \in Found(on[h])
        BY <2>3, <3>3 DEF FindSubscription, Found, OpenSubs, Mates
      <4>2. target'[h] \in OpenSubs(on[h])' \cup {"new"}
        BY <3>1, <4>1 DEF Found, OpenSubs, Mates
      <4>3. target'[h] # None
        BY <4>2 DEF OpenSubs, Mates
      <4> QED
        BY <2>0, <3>1, <4>1, <4>2, <4>3 DEF Relies, Earned, InSettlement
    <3> QED
      BY <3>2, <3>3
  <2>4. CASE ActivateFound(h)
    BY <2>0, <2>4
       DEF ActivateFound, Relies, Earned, InSettlement, OpenSubs, Mates, tableVars,
       providerVars
  <2>5. CASE InsertActive(h)
    BY <2>0, <2>5
       DEF InsertActive, Relies, Earned, InSettlement, OpenSubs, Mates, tableVars,
       providerVars
  <2>6. CASE CommitSettlement(h)
    <3>1. IsPro(on[h])'
      BY <1>0, <2>0, <2>6, SettlementMakesPro
    <3>2. on' = on
      BY <2>6 DEF CommitSettlement
    <3>3. pc'[h] \in {"announcing", "idle"}
      BY <2>6 DEF CommitSettlement, TypeInv, TypeOK
    <3> QED
      BY <3>1, <3>2, <3>3 DEF Relies, InSettlement, IsPro, Mates
  <2>7. CASE Announce(h)
    BY <2>7 DEF Announce, Relies, InSettlement
  <2>8. CASE WriteFailed(h)
    BY <2>8 DEF WriteFailed, Relies, InSettlement
  <2>9. CASE ReportFailure(h)
    BY <2>9 DEF ReportFailure, Relies, InSettlement
  <2>10. CASE Abort(h)
    BY <2>10 DEF Abort, Relies, InSettlement
  <2> QED
    BY <1>4, <2>1, <2>2, <2>3, <2>4, <2>5, <2>6, <2>7, <2>8, <2>9, <2>10 DEF HandlerStep
<1>5. CASE UNCHANGED vars
  BY <1>0, <1>5 DEF vars, handlerVars, HandlerInv
<1> QED
  BY <1>1, <1>2, <1>3, <1>4, <1>5 DEF Next

\* No payment becomes SUCCESS and nothing is announced.
LEMMA PlanKept ==
  ASSUME TypeInv, PlanInv, Kept, OneOpenSubscription',
         \A p \in Payments : row'[p] = "SUCCESS" => row[p] = "SUCCESS",
         \A p \in Payments : "PLAN_UPGRADED" \in told'[p] => "PLAN_UPGRADED" \in told[p]
  PROVE  PlanInv'
<1>1. \A p \in Payments : IsPro(p) => IsPro(p)'
  BY SubscriptionsKept
<1> QED
  BY <1>1 DEF PlanInv, SuccessIsEarned, PaidMeansPro, Kept

\* A payment becomes SUCCESS only in CommitSettlement, which had it paid and makes
\* its user Pro; only Announce announces, to a user who is Pro.
LEMMA PlanInvStep ==
  TypeInv /\ RequestInv /\ HandlerInv /\ ClaimInv /\ PlanInv /\ [Next]_vars => PlanInv'
<1> SUFFICES ASSUME TypeInv, RequestInv, HandlerInv, ClaimInv, PlanInv,
      [Next]_vars PROVE PlanInv'
  OBVIOUS
<1>0. Kept /\ OneOpenSubscription'
  BY StepKeeps, ClaimInvStep DEF PlanInv
<1>1. ASSUME NEW p \in Payments, RequestStep(p) PROVE PlanInv'
  <2>1. ASSUME NEW k \in Kinds, NEW t \in Hours, Ask(p, k, t) PROVE PlanInv'
    BY <1>0, <2>1, PlanKept DEF Ask, tableVars, handlerVars
  <2>2. CASE CreatePayment(p)
    BY <1>0, <2>2, PlanKept DEF CreatePayment, tableVars, handlerVars, TypeInv, TypeOK
  <2>3. CASE InsertSubscription(p)
    BY <1>0, <2>3, PlanKept
       DEF InsertSubscription, tableVars, handlerVars, TypeInv, TypeOK
  <2>4. CASE CommitSubscription(p)
    BY <1>0, <2>4, PlanKept
       DEF CommitSubscription, tableVars, handlerVars, TypeInv, TypeOK
  <2>5. CASE CallProvider(p)
    BY <1>0, <2>5, PlanKept DEF CallProvider, tableVars, handlerVars, TypeInv, TypeOK
  <2>6. CASE StoreReference(p)
    BY <1>0, <2>6, PlanKept DEF StoreReference, tableVars, handlerVars, TypeInv, TypeOK
  <2>7. CASE AbortRequest(p)
    BY <1>0, <2>7, PlanKept DEF AbortRequest, tableVars, handlerVars, TypeInv, TypeOK
  <2> QED
    BY <1>1, <2>1, <2>2, <2>3, <2>4, <2>5, <2>6, <2>7 DEF RequestStep
<1>2. ASSUME NEW p \in Payments, ProviderStep(p) PROVE PlanInv'
  BY <1>0, <1>2, PlanKept DEF ProviderStep, Decline, Charge, Dispute, tableVars
<1>3. ASSUME NEW h \in Handlers, NEW p \in Payments, Receive(h, p) PROVE PlanInv'
  BY <1>0, <1>3, PlanKept
     DEF Receive, ReadForVerify, ReceiveSuccess, ReceiveFailure, tableVars
<1>4. ASSUME NEW h \in Handlers, HandlerStep(h) PROVE PlanInv'
  <2>1. CASE AskGateway(h)
    BY <1>0, <2>1, PlanKept DEF AskGateway, tableVars, TypeInv, TypeOK
  <2>2. CASE StartSettlement(h)
    BY <1>0, <2>2, PlanKept DEF StartSettlement, tableVars, TypeInv, TypeOK
  <2>3. CASE FindSubscription(h)
    BY <1>0, <2>3, PlanKept DEF FindSubscription, tableVars, TypeInv, TypeOK
  <2>4. CASE ActivateFound(h)
    BY <1>0, <2>4, PlanKept DEF ActivateFound, tableVars, TypeInv, TypeOK
  <2>5. CASE InsertActive(h)
    BY <1>0, <2>5, PlanKept DEF InsertActive, tableVars, TypeInv, TypeOK
  <2>6. CASE CommitSettlement(h)
    <3>1. IsPro(on[h])' /\ Earned(on[h]) /\ on[h] \in Payments
      BY <1>0, <2>6, SettlementMakesPro
         DEF CommitSettlement, Goto, HandlerInv, Relies, InSettlement, TypeInv
    <3>2. \A p \in Payments : row'[p] = "SUCCESS" => p = on[h] \/ row[p] = "SUCCESS"
      BY <2>6 DEF CommitSettlement, TypeInv, TypeOK
    <3>3. told' = told /\ checkout' = checkout /\ sent' = sent /\ on' = on
      BY <2>6 DEF CommitSettlement, providerVars
    <3>4. \A p \in Payments : IsPro(p) => IsPro(p)'
      BY <1>0, SubscriptionsKept
    <3>5. PaidMeansPro'
      BY <3>1, <3>2, <3>3, <3>4 DEF PlanInv, PaidMeansPro, IsPro, Mates
    <3> QED
      BY <1>0, <3>1, <3>2, <3>3, <3>4, <3>5 DEF PlanInv, SuccessIsEarned, Earned
  <2>7. CASE Announce(h)
    <3>1. IsPro(on[h])' /\ on[h] \in Payments /\ row' = row /\ \A p \in Payments : Earned(p)' <=> Earned(p)
      BY <1>0, <2>7, SubscriptionsKept
         DEF Announce, Goto, HandlerInv, Relies, Earned, TypeInv, tableVars, providerVars,
         IsPro, Mates
    <3>2. \A p \in Payments : "PLAN_UPGRADED" \in told'[p] =>
          p = on[h] \/ "PLAN_UPGRADED" \in told[p]
      BY <2>7 DEF Announce, TypeInv, TypeOK
    <3>3. \A p \in Payments : IsPro(p) => IsPro(p)'
      BY <1>0, SubscriptionsKept
    <3>4. \A p \in Payments : "PLAN_UPGRADED" \in told'[p] => IsPro(p)'
      BY <2>7, <3>1, <3>2, <3>3 DEF PlanInv, Announce, IsPro, Mates
    <3> QED
      BY <1>0, <3>1, <3>3, <3>4 DEF PlanInv, SuccessIsEarned, PaidMeansPro
  <2>8. CASE WriteFailed(h)
    BY <1>0, <2>8, PlanKept DEF WriteFailed, tableVars, TypeInv, TypeOK
  <2>9. CASE ReportFailure(h)
    BY <1>0, <2>9, PlanKept DEF ReportFailure, tableVars, TypeInv, TypeOK
  <2>10. CASE Abort(h)
    BY <1>0, <2>10, PlanKept DEF Abort, tableVars, TypeInv, TypeOK
  <2> QED
    BY <1>4, <2>1, <2>2, <2>3, <2>4, <2>5, <2>6, <2>7, <2>8, <2>9, <2>10 DEF HandlerStep
<1>5. CASE UNCHANGED vars
  BY <1>0, <1>5, PlanKept DEF vars, tableVars
<1> QED
  BY <1>1, <1>2, <1>3, <1>4, <1>5 DEF Next

-----------------------------------------------------------------------------
\* IInv holds in every reachable state: no race of requests, verifications and
\* webhooks breaks the indexes or what a settlement relies on (initiatePayment,
\* initiateSubscription, resolvePayment, processWebhookEvent).
THEOREM Invariance == Spec => []IInv
<1>1. IInv /\ [Next]_vars => IInv'
  BY TypeInvStep, RequestInvStep, KeyInvStep, ClaimInvStep, HandlerInvStep, PlanInvStep
     DEF IInv, PlanInv
<1> QED
  BY InitInv, <1>1, PTL DEF Spec

\* The variables keep their types: a payment's status is one of the three, a
\* handler works on a payment (payment.entity.ts, subscription.entity.ts).
THEOREM TypeCorrect == Spec => []TypeOK
<1>1. IInv => TypeOK
  BY DEF IInv, TypeInv
<1> QED
  BY Invariance, <1>1, PTL

\* A user has at most one subscription, whoever inserts it (initiateSubscription,
\* activateProSubscription).
THEOREM OneSubscription == Spec => []OneOpenSubscription
<1>1. IInv => OneOpenSubscription
  BY DEF IInv, PlanInv
<1> QED
  BY Invariance, <1>1, PTL

\* One checkout for an idempotency key (initiatePayment, initiateSubscription).
THEOREM OneCheckout == Spec => []OneCheckoutPerKey
<1>1. IInv => OneCheckoutPerKey
  BY DEF IInv, KeyInv, RequestInv, OneCheckoutPerKey
<1> QED
  BY Invariance, <1>1, PTL

\* A SUCCESS payment was paid, in full unless the event that settled it named no amount
\* (resolvePayment, handleChargeSuccess).
THEOREM EarnedSuccess == Spec => []SuccessIsEarned
<1>1. IInv => SuccessIsEarned
  BY DEF IInv, PlanInv
<1> QED
  BY Invariance, <1>1, PTL

\* Its owner is Pro (activateProSubscription, activateSubscriptionPayment).
THEOREM ProForPaid == Spec => []PaidMeansPro
<1>1. IInv => PaidMeansPro
  BY DEF IInv, PlanInv
<1> QED
  BY Invariance, <1>1, PTL

\* ProPlan sees the ACTIVE subscriptions, the SUCCESS payments and the announcements.
LEMMA PlanStutter ==
  ASSUME \A p \in Payments : sub'[p] = "ACTIVE" <=> sub[p] = "ACTIVE",
         \A p \in Payments : row'[p] = "SUCCESS" <=> row[p] = "SUCCESS",
         \A p \in Payments : "PLAN_UPGRADED" \in told'[p] <=>
            "PLAN_UPGRADED" \in told[p]
  PROVE  UNCHANGED Plan!planVars
  BY DEF Plan!planVars

\* The commit of a settlement is Settle: the payment and the plan in one step.
LEMMA CommitSettles ==
  ASSUME IInv, NEW h \in Handlers, CommitSettlement(h)
  PROVE  Plan!Settle(on[h])
<1> USE DEF IInv, TypeInv, TypeOK, CommitSettlement, Goto
<1> DEFINE Pro == {Owner[s] : s \in {s \in Payments : sub[s] = "ACTIVE"}}
<1>1. on[h] \in Payments /\ pc[h] = "committing" /\ Relies(h)
  BY DEF HandlerInv
<1>2. {p \in Payments : row'[p] = "SUCCESS"} = {p \in Payments : row[p] =
      "SUCCESS"} \cup {on[h]}
  BY <1>1
<1>3. \A s \in Activated(h) : s \in Payments /\ Owner[s] = Owner[on[h]]
  BY <1>1 DEF Activated, Relies, OpenSubs, Mates
<1>4. Activated(h) = {} => Owner[on[h]] \in Pro
  BY <1>1 DEF Activated, Relies, IsPro, Mates
<1>5. \A s \in Payments : sub'[s] = "ACTIVE" <=> sub[s] = "ACTIVE" \/ s \in Activated(h)
  OBVIOUS
<1>6. Pro' = Pro \cup {Owner[on[h]]}
  <2>1. \A s \in Payments : sub[s] = "ACTIVE" => Owner[s] \in Pro'
    BY <1>5
  <2>2. Owner[on[h]] \in Pro'
    <3>1. CASE Activated(h) = {}
      BY <1>4, <2>1, <3>1
    <3>2. CASE Activated(h) # {}
      BY <1>3, <1>5, <3>2
    <3> QED
      BY <3>1, <3>2
  <2>3. \A u \in Pro : u \in Pro'
    BY <2>1
  <2>4. \A u \in Pro' : u \in Pro \/ u = Owner[on[h]]
    BY <1>3, <1>5
  <2> HIDE DEF Pro
  <2> QED
    BY <2>2, <2>3, <2>4
<1> QED
  BY <1>2, <1>6 DEF Plan!Settle

\* Each step of Payments is a step of ProPlan or changes nothing it sees: the commit
\* of a settlement settles, a failure withdraws, an announcement announces.
LEMMA PlanStep ==
  IInv /\ [Next]_vars => Plan!Next \/ UNCHANGED Plan!planVars
<1> SUFFICES ASSUME IInv, [Next]_vars PROVE Plan!Next \/ UNCHANGED Plan!planVars
  OBVIOUS
<1> USE DEF IInv
<1>1. ASSUME NEW p \in Payments, RequestStep(p)
      PROVE Plan!Next \/ UNCHANGED Plan!planVars
  <2>1. ASSUME NEW k \in Kinds, NEW t \in Hours, Ask(p, k, t)
        PROVE Plan!Next \/ UNCHANGED Plan!planVars
    BY <2>1, PlanStutter DEF Ask, tableVars
  <2>2. CASE CreatePayment(p)
    BY <2>2, PlanStutter
       DEF CreatePayment, Advance, RequestInv, tableVars, TypeInv, TypeOK
  <2>3. CASE InsertSubscription(p)
    BY <2>3, PlanStutter DEF InsertSubscription, Advance, tableVars, TypeInv, TypeOK
  <2>4. CASE CommitSubscription(p)
    BY <2>4, PlanStutter
       DEF CommitSubscription, Advance, RequestInv, tableVars, TypeInv, TypeOK
  <2>5. CASE CallProvider(p)
    BY <2>5, PlanStutter DEF CallProvider, Advance, tableVars, TypeInv, TypeOK
  <2>6. CASE StoreReference(p)
    BY <2>6, PlanStutter DEF StoreReference, Advance, tableVars, TypeInv, TypeOK
  <2>7. CASE AbortRequest(p)
    BY <2>7, PlanStutter DEF AbortRequest, tableVars, TypeInv, TypeOK
  <2> QED
    BY <1>1, <2>1, <2>2, <2>3, <2>4, <2>5, <2>6, <2>7 DEF RequestStep
<1>2. ASSUME NEW p \in Payments, ProviderStep(p)
      PROVE Plan!Next \/ UNCHANGED Plan!planVars
  BY <1>2, PlanStutter DEF ProviderStep, Decline, Charge, Dispute, tableVars
<1>3. ASSUME NEW h \in Handlers, NEW p \in Payments, Receive(h, p)
      PROVE Plan!Next \/ UNCHANGED Plan!planVars
  BY <1>3, PlanStutter
     DEF Receive, ReadForVerify, ReceiveSuccess, ReceiveFailure, tableVars
<1>4. ASSUME NEW h \in Handlers, HandlerStep(h)
      PROVE Plan!Next \/ UNCHANGED Plan!planVars
  <2>1. CASE AskGateway(h)
    BY <2>1, PlanStutter DEF AskGateway, tableVars
  <2>2. CASE StartSettlement(h)
    BY <2>2, PlanStutter DEF StartSettlement, tableVars
  <2>3. CASE FindSubscription(h)
    BY <2>3, PlanStutter DEF FindSubscription, tableVars
  <2>4. CASE ActivateFound(h)
    BY <2>4, PlanStutter DEF ActivateFound, tableVars
  <2>5. CASE InsertActive(h)
    BY <2>5, PlanStutter DEF InsertActive, tableVars
  <2>6. CASE CommitSettlement(h)
    BY <2>6, CommitSettles, HandledPayment
       DEF CommitSettlement, Goto, Plan!Next, Plan!Settle
  <2>7. CASE Announce(h)
    <3>1. on[h] \in Payments /\ IsPro(on[h])
      BY <2>7 DEF Announce, Goto, TypeInv, HandlerInv, Relies
    <3>2. \A p \in Payments : "PLAN_UPGRADED" \in told'[p] <=>
          p = on[h] \/ "PLAN_UPGRADED" \in told[p]
      BY <2>7, <3>1 DEF Announce, TypeInv, TypeOK
    <3>3. sub' = sub /\ row' = row
      BY <2>7 DEF Announce, tableVars
    <3>4. Plan!Announce(on[h])
      BY <3>1, <3>2, <3>3 DEF Plan!Announce, IsPro, Mates
    <3> QED
      BY <3>1, <3>4 DEF Plan!Next, Plan!Announce
  <2>8. CASE WriteFailed(h)
    <3>1. on[h] \in Payments /\ sub' = sub /\ told' = told
      BY <2>8, HandledPayment DEF WriteFailed, Goto
    <3>2. \A p \in Payments : row'[p] = "SUCCESS" <=> row[p] = "SUCCESS" /\ p # on[h]
      BY <2>8, <3>1 DEF WriteFailed, TypeInv, TypeOK
    <3>3. Plan!Withdraw(on[h])
      BY <3>1, <3>2 DEF Plan!Withdraw
    <3> QED
      BY <3>1, <3>3 DEF Plan!Next, Plan!Withdraw
  <2>9. CASE ReportFailure(h)
    BY <2>9, PlanStutter DEF ReportFailure, tableVars, TypeInv, TypeOK
  <2>10. CASE Abort(h)
    BY <2>10, PlanStutter DEF Abort, tableVars
  <2> QED
    BY <1>4, <2>1, <2>2, <2>3, <2>4, <2>5, <2>6, <2>7, <2>8, <2>9, <2>10 DEF HandlerStep
<1>5. CASE UNCHANGED vars
  BY <1>5, PlanStutter DEF vars, tableVars
<1> QED
  BY <1>1, <1>2, <1>3, <1>4, <1>5 DEF Next

\* Payments implements ProPlan: Pro comes with the settled payment in one step, is
\* announced only to who has it, and never taken away (resolvePayment,
\* handleChargeSuccess, handleChargeFailed).
THEOREM ImplementsProPlan == Spec => RefinesProPlan
<1>1. Init => Plan!Init
  BY DEF Init, Plan!Init
<1>2. IInv /\ [Next]_vars => [Plan!Next]_(Plan!planVars)
  BY PlanStep
<1> QED
  BY <1>1, <1>2, Invariance, PTL DEF Spec, RefinesProPlan, Plan!Spec
=============================================================================
