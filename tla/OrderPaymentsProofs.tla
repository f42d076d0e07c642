------------------------- MODULE OrderPaymentsProofs -------------------------
(***************************************************************************)
(* The invariants of OrderPayments, for any payments and administrators.   *)
(* One inductive invariant carries them: what is still under way (an event *)
(* to be delivered, a refund between its call and its commit, an order     *)
(* action between its read and its write) vouches for what it will write.  *)
(***************************************************************************)
EXTENDS OrderPayments, TLAPS

\* Every step of the endpoints and of the provider keeps the types.
THEOREM Typing == Spec => []TypeOK
<1>1. Init => TypeOK
  <2> SUFFICES ASSUME Init PROVE TypeOK
    OBVIOUS
  <2>1. events \in [Payments -> SUBSET Events] /\ row \in [Payments -> RowStatus]
    BY DEF Init, RowStatus
  <2>2. /\ order \in OrderStatus /\ shop \in ShopStatus /\ completedAt \in BOOLEAN
        /\ fulfillment \in {"delivery", "pickup"}
    BY DEF Init, OrderStatus, ShopStatus
  <2>3. /\ attached \subseteq Payments
        /\ creating \in [Payments -> {"idle", "called", "over"}]
        /\ charge \in [Payments -> {"unknown", "open", "captured"}]
        /\ paidBack \in [Payments -> BOOLEAN]
        /\ admin \in [Admins -> OrderWork \cup RefundWork \cup {Idle}]
    BY DEF Init
  <2> QED
    BY <2>1, <2>2, <2>3 DEF TypeOK
<1>2. TypeOK /\ [Next]_vars => TypeOK'
  <2> SUFFICES ASSUME TypeOK, [Next]_vars PROVE TypeOK'
    OBVIOUS
  <2>1. CASE UNCHANGED vars
    BY <2>1 DEF TypeOK, vars, orderVars, providerVars
  <2>2. ASSUME NEW to \in OrderStatus, TransitionOrder(to) PROVE TypeOK'
    BY <2>2 DEF TypeOK, TransitionOrder, MoveTo, providerVars
  <2>3. ASSUME NEW to \in OrderStatus, NEW a \in Admins, AdminReadsOrder(a, to) PROVE TypeOK'
    BY <2>3 DEF TypeOK, AdminReadsOrder, OrderWork, orderVars, providerVars
  <2>4. ASSUME NEW a \in Admins, AdminWritesOrder(a) PROVE TypeOK'
    BY <2>4 DEF TypeOK, AdminWritesOrder, OrderWork, MoveTo, providerVars
  <2>5. ASSUME NEW s \in Decisions, ShopLifecycle(s) PROVE TypeOK'
    BY <2>5, OrderPaymentsAssumption DEF TypeOK, ShopLifecycle, orderVars, providerVars
  <2>6. ASSUME NEW p \in Payments, CallProvider(p) \/ CommitPayment(p) \/ AbortPayment(p)
        PROVE TypeOK'
    BY <2>6 DEF TypeOK, CallProvider, CommitPayment, AbortPayment, RowStatus,
                orderVars, providerVars
  <2>7. ASSUME NEW p \in Payments, Pay(p) \/ FailToPay(p) PROVE TypeOK'
    BY <2>7 DEF TypeOK, Pay, FailToPay, Events, orderVars, providerVars
  <2>8. ASSUME NEW p \in Payments, NEW e \in Events, Webhook(p, e) PROVE TypeOK'
    BY <2>8 DEF TypeOK, Webhook, Recorded, Events, RowStatus, ShopStatus, orderVars,
                providerVars
  <2>9. ASSUME NEW a \in Admins, NEW p \in Payments, AdminReadsPayment(a, p) PROVE TypeOK'
    BY <2>9 DEF TypeOK, AdminReadsPayment, RefundWork, orderVars, providerVars
  <2>10. ASSUME NEW a \in Admins, ProviderRefunds(a) PROVE TypeOK'
    BY <2>10 DEF TypeOK, ProviderRefunds, RefundWork, orderVars, providerVars
  <2>11. ASSUME NEW a \in Admins, RecordRefund(a) PROVE TypeOK'
    BY <2>11 DEF TypeOK, RecordRefund, RefundIsDone, ReadyToRecord, OrderAfterRefund,
                 RefundWork, RowStatus, OrderStatus, orderVars, providerVars
  <2>12. ASSUME NEW a \in Admins, AbortAdmin(a) PROVE TypeOK'
    BY <2>12 DEF TypeOK, AbortAdmin, orderVars, providerVars
  <2> QED
    BY <2>1, <2>2, <2>3, <2>4, <2>5, <2>6, <2>7, <2>8, <2>9, <2>10, <2>11, <2>12
    DEF Next, Orders, Paying, Refunding
<1> QED
  BY <1>1, <1>2, PTL DEF Spec

-----------------------------------------------------------------------------
(***************************************************************************)
(* What is under way vouches for what it will write.                       *)
(***************************************************************************)
NewAreUnknown ==
  \A p \in Payments : creating[p] = "idle" => charge[p] = "unknown"

EventsAreTrue ==
  \A p \in Payments : "captured" \in events[p] => charge[p] = "captured"

RefundsAreCovered ==
  \A a \in Admins :
    admin[a] \in RefundWork =>
      /\ charge[admin[a].refund] = "captured"
      /\ admin[a].paid => paidBack[admin[a].refund]

OrderWorkIsNoRefund ==
  \A a \in Admins : admin[a] \in OrderWork => admin[a].to # "refunded"

MoneyInv ==
  /\ NewAreUnknown /\ EventsAreTrue /\ RefundsAreCovered /\ OrderWorkIsNoRefund
  /\ RecordedPaymentsAreCharges /\ OnlyChargesAreRefunded
  /\ RecordedRefundsArePaid /\ RefundedOrdersArePaidBack
  /\ CompletedOrdersAreDated

\* A piece of work is of one kind.
LEMMA KindsOfWork == OrderWork \cap RefundWork = {} /\ Idle \notin OrderWork /\ Idle \notin RefundWork
BY OrderPaymentsAssumption DEF OrderWork, RefundWork

\* No table leads to "refunded".
LEMMA NoMoveRefunds ==
  ASSUME NEW s \in OrderStatus
  PROVE  "refunded" \notin ShopMoves(s) /\ "refunded" \notin AdminMoves(s)
BY DEF ShopMoves, AdminMoves, OrderStatus

\* An action on the order keeps what is said of payments and refunds.
LEMMA OrderStep ==
  ASSUME TypeOK, MoneyInv,
         \/ \E to \in OrderStatus :
              TransitionOrder(to) \/ \E a \in Admins : AdminReadsOrder(a, to)
         \/ \E a \in Admins : AdminWritesOrder(a)
  PROVE  MoneyInv'
<1>1. ASSUME NEW to \in OrderStatus, TransitionOrder(to) PROVE MoneyInv'
  <2>1. to # "refunded"
    BY <1>1, NoMoveRefunds DEF TransitionOrder, TypeOK
  <2> QED
    BY <1>1, <2>1 DEF TransitionOrder, MoveTo, providerVars, TypeOK, MoneyInv, NewAreUnknown, EventsAreTrue,
       RefundsAreCovered, OrderWorkIsNoRefund, RecordedPaymentsAreCharges,
       OnlyChargesAreRefunded, RecordedRefundsArePaid, RefundedOrdersArePaidBack,
       CompletedOrdersAreDated
<1>2. ASSUME NEW to \in OrderStatus, NEW a \in Admins, AdminReadsOrder(a, to) PROVE MoneyInv'
  <2>1. to # "refunded"
    BY <1>2, NoMoveRefunds DEF AdminReadsOrder, TypeOK
  <2>2. admin' = [admin EXCEPT ![a] = [to |-> to]] /\ [to |-> to] \in OrderWork
    BY <1>2 DEF AdminReadsOrder, OrderWork
  <2>3. RefundsAreCovered' /\ OrderWorkIsNoRefund'
    BY <1>2, <2>1, <2>2, KindsOfWork
    DEF AdminReadsOrder, providerVars, TypeOK, MoneyInv, RefundsAreCovered, OrderWorkIsNoRefund
  <2> QED
    BY <1>2, <2>3 DEF AdminReadsOrder, orderVars, providerVars, MoneyInv, NewAreUnknown, EventsAreTrue,
       RecordedPaymentsAreCharges, OnlyChargesAreRefunded, RecordedRefundsArePaid,
       RefundedOrdersArePaidBack, CompletedOrdersAreDated
<1>3. ASSUME NEW a \in Admins, AdminWritesOrder(a) PROVE MoneyInv'
  <2>1. order' # "refunded"
    BY <1>3 DEF AdminWritesOrder, MoveTo, MoneyInv, OrderWorkIsNoRefund
  <2>2. RefundsAreCovered' /\ OrderWorkIsNoRefund'
    BY <1>3, KindsOfWork DEF AdminWritesOrder, providerVars, TypeOK, MoneyInv, RefundsAreCovered,
       OrderWorkIsNoRefund
  <2> QED
    BY <1>3, <2>1, <2>2 DEF AdminWritesOrder, MoveTo, providerVars, MoneyInv, NewAreUnknown, EventsAreTrue,
       RecordedPaymentsAreCharges, OnlyChargesAreRefunded, RecordedRefundsArePaid,
       RefundedOrdersArePaidBack, CompletedOrdersAreDated
<1> QED
  BY <1>1, <1>2, <1>3

\* Creating and paying a payment, and the delivery of its events.
LEMMA PaymentStep ==
  ASSUME TypeOK, MoneyInv, NEW p \in Payments,
         \/ CallProvider(p) \/ CommitPayment(p) \/ AbortPayment(p)
         \/ Pay(p) \/ FailToPay(p) \/ \E e \in Events : Webhook(p, e)
  PROVE  MoneyInv'
<1>1. CASE CallProvider(p) \/ CommitPayment(p) \/ AbortPayment(p)
  <2>1. NewAreUnknown'
    BY <1>1 DEF CallProvider, CommitPayment, AbortPayment, providerVars, TypeOK, MoneyInv,
       NewAreUnknown
  <2>2. EventsAreTrue' /\ RefundsAreCovered' /\ OrderWorkIsNoRefund' /\ OnlyChargesAreRefunded'
    BY <1>1 DEF CallProvider, CommitPayment, AbortPayment, providerVars, TypeOK, MoneyInv,
       NewAreUnknown, EventsAreTrue, RefundsAreCovered, OrderWorkIsNoRefund,
       OnlyChargesAreRefunded, RefundWork
  <2>3. RecordedPaymentsAreCharges' /\ RecordedRefundsArePaid'
    BY <1>1 DEF CallProvider, CommitPayment, AbortPayment, providerVars, TypeOK, MoneyInv,
       NewAreUnknown, RecordedPaymentsAreCharges, RecordedRefundsArePaid
  <2>4. RefundedOrdersArePaidBack' /\ CompletedOrdersAreDated'
    BY <1>1 DEF CallProvider, CommitPayment, AbortPayment, providerVars, orderVars, MoneyInv,
       RefundedOrdersArePaidBack, CompletedOrdersAreDated
  <2> QED
    BY <2>1, <2>2, <2>3, <2>4 DEF MoneyInv
<1>2. CASE Pay(p) \/ FailToPay(p)
  <2>1. \A x \in Payments : charge[x] = "captured" => charge'[x] = "captured"
    BY <1>2 DEF Pay, FailToPay, TypeOK
  <2>2. NewAreUnknown' /\ EventsAreTrue'
    BY <1>2 DEF Pay, FailToPay, TypeOK, MoneyInv, NewAreUnknown, EventsAreTrue
  <2>3. RefundsAreCovered' /\ OrderWorkIsNoRefund' /\ OnlyChargesAreRefunded'
    BY <1>2, <2>1 DEF Pay, FailToPay, TypeOK, MoneyInv, RefundsAreCovered, OrderWorkIsNoRefund,
       OnlyChargesAreRefunded, RefundWork
  <2>4. RecordedPaymentsAreCharges' /\ RecordedRefundsArePaid'
    BY <1>2, <2>1 DEF Pay, FailToPay, MoneyInv, RecordedPaymentsAreCharges,
       RecordedRefundsArePaid
  <2>5. RefundedOrdersArePaidBack' /\ CompletedOrdersAreDated'
    BY <1>2 DEF Pay, FailToPay, orderVars, MoneyInv, RefundedOrdersArePaidBack,
       CompletedOrdersAreDated
  <2> QED
    BY <2>2, <2>3, <2>4, <2>5 DEF MoneyInv
<1>3. ASSUME NEW e \in Events, Webhook(p, e) PROVE MoneyInv'
  <2>1. row' = row \/ row' = [row EXCEPT ![p] = e]
    BY <1>3 DEF Webhook, Recorded
  <2>2. \A x \in Payments : events'[x] \subseteq events[x]
    BY <1>3 DEF Webhook, TypeOK
  <2>3. RecordedPaymentsAreCharges' /\ RecordedRefundsArePaid'
    BY <1>3, <2>1 DEF Webhook, TypeOK, MoneyInv, EventsAreTrue, RecordedPaymentsAreCharges,
       RecordedRefundsArePaid, Events
  <2>4. NewAreUnknown' /\ EventsAreTrue'
    BY <1>3, <2>2 DEF Webhook, MoneyInv, NewAreUnknown, EventsAreTrue
  <2>5. RefundsAreCovered' /\ OrderWorkIsNoRefund' /\ OnlyChargesAreRefunded'
    BY <1>3 DEF Webhook, MoneyInv, RefundsAreCovered, OrderWorkIsNoRefund,
       OnlyChargesAreRefunded
  <2>6. RefundedOrdersArePaidBack' /\ CompletedOrdersAreDated'
    BY <1>3 DEF Webhook, orderVars, MoneyInv, RefundedOrdersArePaidBack,
       CompletedOrdersAreDated
  <2> QED
    BY <2>3, <2>4, <2>5, <2>6 DEF MoneyInv
<1> QED
  BY <1>1, <1>2, <1>3

\* A refund: what it has read stays true until it writes.
LEMMA RefundStep ==
  ASSUME TypeOK, MoneyInv, NEW a \in Admins,
         \/ \E p \in Payments : AdminReadsPayment(a, p)
         \/ ProviderRefunds(a) \/ RecordRefund(a) \/ AbortAdmin(a)
  PROVE  MoneyInv'
<1>1. ASSUME NEW p \in Payments, AdminReadsPayment(a, p) PROVE MoneyInv'
  <2>1. admin' = [admin EXCEPT ![a] = [refund |-> p, paid |-> FALSE]]
    BY <1>1 DEF AdminReadsPayment
  <2>2. charge[p] = "captured"
    BY <1>1 DEF AdminReadsPayment, Refundable, MoneyInv, RecordedPaymentsAreCharges
  <2>3. [refund |-> p, paid |-> FALSE] \in RefundWork
    BY DEF RefundWork
  <2>4. /\ admin'[a].refund = p /\ admin'[a].paid = FALSE
        /\ admin'[a] \in RefundWork /\ admin'[a] \notin OrderWork
        /\ \A b \in Admins \ {a} : admin'[b] = admin[b]
    BY <2>1, <2>3, KindsOfWork DEF TypeOK
  <2>5. RefundsAreCovered' /\ OrderWorkIsNoRefund'
    BY <1>1, <2>2, <2>4
    DEF AdminReadsPayment, providerVars, MoneyInv, RefundsAreCovered, OrderWorkIsNoRefund
  <2> QED
    BY <1>1, <2>5 DEF AdminReadsPayment, orderVars, providerVars, MoneyInv, NewAreUnknown,
       EventsAreTrue, RecordedPaymentsAreCharges, OnlyChargesAreRefunded,
       RecordedRefundsArePaid, RefundedOrdersArePaidBack, CompletedOrdersAreDated
<1>2. CASE ProviderRefunds(a)
  <2> DEFINE q == admin[a].refund
  <2>1. q \in Payments /\ charge[q] = "captured" /\ admin[a] \in RefundWork
    BY <1>2 DEF ProviderRefunds, RefundWork, MoneyInv, RefundsAreCovered
  <2>2. paidBack' = [paidBack EXCEPT ![q] = TRUE]
    BY <1>2 DEF ProviderRefunds
  <2>3. /\ admin'[a] \in RefundWork /\ admin'[a].refund = q
        /\ \A b \in Admins \ {a} : admin'[b] = admin[b]
    BY <1>2, <2>1 DEF ProviderRefunds, TypeOK, RefundWork
  <2>4. RefundsAreCovered' /\ OrderWorkIsNoRefund'
    BY <1>2, <2>1, <2>2, <2>3, KindsOfWork
    DEF ProviderRefunds, TypeOK, MoneyInv, RefundsAreCovered, OrderWorkIsNoRefund, RefundWork
  <2>5. OnlyChargesAreRefunded' /\ RecordedRefundsArePaid' /\ RefundedOrdersArePaidBack'
    BY <1>2, <2>1, <2>2 DEF ProviderRefunds, orderVars, TypeOK, MoneyInv,
       OnlyChargesAreRefunded, RecordedRefundsArePaid, RefundedOrdersArePaidBack
  <2> QED
    BY <1>2, <2>4, <2>5 DEF ProviderRefunds, orderVars, MoneyInv, NewAreUnknown, EventsAreTrue,
       RecordedPaymentsAreCharges, CompletedOrdersAreDated
<1>3. CASE RecordRefund(a)
  <2> DEFINE q == admin[a].refund
  <2>1. q \in Payments /\ charge[q] = "captured" /\ paidBack[q]
    BY <1>3 DEF RecordRefund, RefundIsDone, ReadyToRecord, RefundWork, MoneyInv,
       RefundsAreCovered
  <2>2. row' = [row EXCEPT ![q] = "refunded"]
    BY <1>3 DEF RecordRefund
  <2>3. order' = IF q \in attached THEN "refunded" ELSE order
    BY <1>3 DEF RecordRefund, OrderAfterRefund
  <2>4. RecordedPaymentsAreCharges' /\ RecordedRefundsArePaid'
    BY <1>3, <2>1, <2>2 DEF RecordRefund, providerVars, TypeOK, MoneyInv,
       RecordedPaymentsAreCharges, RecordedRefundsArePaid
  <2>5. RefundedOrdersArePaidBack' /\ CompletedOrdersAreDated'
    BY <1>3, <2>1, <2>3 DEF RecordRefund, providerVars, MoneyInv, RefundedOrdersArePaidBack,
       CompletedOrdersAreDated
  <2>6. RefundsAreCovered' /\ OrderWorkIsNoRefund'
    BY <1>3, KindsOfWork DEF RecordRefund, providerVars, TypeOK, MoneyInv, RefundsAreCovered,
       OrderWorkIsNoRefund
  <2> QED
    BY <1>3, <2>4, <2>5, <2>6 DEF RecordRefund, providerVars, MoneyInv, NewAreUnknown,
       EventsAreTrue, OnlyChargesAreRefunded
<1>4. CASE AbortAdmin(a)
  <2>1. RefundsAreCovered' /\ OrderWorkIsNoRefund'
    BY <1>4, KindsOfWork DEF AbortAdmin, providerVars, TypeOK, MoneyInv, RefundsAreCovered,
       OrderWorkIsNoRefund
  <2> QED
    BY <1>4, <2>1 DEF AbortAdmin, orderVars, providerVars, MoneyInv, NewAreUnknown,
       EventsAreTrue, RecordedPaymentsAreCharges, OnlyChargesAreRefunded,
       RecordedRefundsArePaid, RefundedOrdersArePaidBack, CompletedOrdersAreDated
<1> QED
  BY <1>1, <1>2, <1>3, <1>4

\* The books hold whatever the shop, the administrators, the customer and the
\* provider do, in any order.
LEMMA MoneyInvariance == Spec => []MoneyInv
<1>1. Init => MoneyInv
  BY KindsOfWork, OrderPaymentsAssumption DEF Init, MoneyInv, NewAreUnknown, EventsAreTrue, RefundsAreCovered,
       OrderWorkIsNoRefund, RecordedPaymentsAreCharges, OnlyChargesAreRefunded,
       RecordedRefundsArePaid, RefundedOrdersArePaidBack, CompletedOrdersAreDated
<1>2. TypeOK /\ MoneyInv /\ [Next]_vars => MoneyInv'
  <2> SUFFICES ASSUME TypeOK, MoneyInv, [Next]_vars PROVE MoneyInv'
    OBVIOUS
  <2>1. CASE UNCHANGED vars
    BY <2>1 DEF vars, orderVars, providerVars, MoneyInv, NewAreUnknown, EventsAreTrue, RefundsAreCovered,
       OrderWorkIsNoRefund, RecordedPaymentsAreCharges, OnlyChargesAreRefunded,
       RecordedRefundsArePaid, RefundedOrdersArePaidBack, CompletedOrdersAreDated
  <2>2. ASSUME NEW s \in Decisions, ShopLifecycle(s) PROVE MoneyInv'
    BY <2>2 DEF ShopLifecycle, orderVars, providerVars, MoneyInv, NewAreUnknown, EventsAreTrue, RefundsAreCovered,
       OrderWorkIsNoRefund, RecordedPaymentsAreCharges, OnlyChargesAreRefunded,
       RecordedRefundsArePaid, RefundedOrdersArePaidBack, CompletedOrdersAreDated
  <2>3. CASE Orders
    BY <2>2, <2>3, OrderStep DEF Orders
  <2>4. CASE Paying
    BY <2>4, PaymentStep DEF Paying
  <2>5. CASE Refunding
    BY <2>5, RefundStep DEF Refunding
  <2> QED
    BY <2>1, <2>3, <2>4, <2>5 DEF Next
<1> QED
  BY <1>1, <1>2, Typing, PTL DEF Spec

\* A payment recorded as captured or refunded was captured by the provider, one
\* recorded as refunded was refunded, and only what was captured is refunded.
THEOREM MoneyIsRecordedTruly == Spec => []MoneyIsReal
BY MoneyInvariance, PTL DEF MoneyInv, MoneyIsReal

\* An order is refunded only when a payment that names it has been paid back.
THEOREM RefundedOrdersAreCovered == Spec => []RefundedOrdersArePaidBack
BY MoneyInvariance, PTL DEF MoneyInv

\* Whoever completes an order dates it.
THEOREM CompletionIsDated == Spec => []CompletedOrdersAreDated
BY MoneyInvariance, PTL DEF MoneyInv

\* A shop comes up for review only once its fee has been captured.
THEOREM ReviewsArePaid == Spec => []ReviewedShopsHavePaid
<1>1. Init => ReviewedShopsHavePaid
  BY DEF Init, ReviewedShopsHavePaid
<1>2. TypeOK /\ MoneyInv /\ ReviewedShopsHavePaid /\ [Next]_vars => ReviewedShopsHavePaid'
  <2> SUFFICES ASSUME TypeOK, MoneyInv, ReviewedShopsHavePaid, [Next]_vars
               PROVE  ReviewedShopsHavePaid'
    OBVIOUS
  <2>1. ASSUME UNCHANGED shop, \A p \in Payments : charge[p] = "captured" => charge'[p] = "captured"
        PROVE  ReviewedShopsHavePaid'
    BY <2>1 DEF ReviewedShopsHavePaid
  <2>2. ASSUME NEW s \in Decisions, ShopLifecycle(s) PROVE ReviewedShopsHavePaid'
    BY <2>2 DEF ShopLifecycle, providerVars, ReviewedShopsHavePaid
  <2>3. CASE Orders /\ ~ \E s \in Decisions : ShopLifecycle(s)
    BY <2>1, <2>3 DEF Orders, TransitionOrder, AdminReadsOrder, AdminWritesOrder, providerVars
  <2>4. ASSUME NEW p \in Payments, NEW e \in Events, Webhook(p, e)
        PROVE  ReviewedShopsHavePaid'
    <3>1. charge' = charge
      BY <2>4 DEF Webhook
    <3>2. CASE shop' = shop
      BY <2>1, <3>1, <3>2
    <3>3. CASE shop' # shop
      <4>1. PurposeOf[p] = "shop_activation" /\ charge[p] = "captured"
        BY <2>4, <3>3 DEF Webhook, Recorded, MoneyInv, EventsAreTrue
      <4> QED
        BY <3>1, <4>1 DEF ReviewedShopsHavePaid
    <3> QED
      BY <3>2, <3>3
  <2>5. ASSUME NEW p \in Payments,
               CallProvider(p) \/ CommitPayment(p) \/ AbortPayment(p) \/ Pay(p) \/ FailToPay(p)
        PROVE  ReviewedShopsHavePaid'
    <3>1. UNCHANGED shop
      BY <2>5 DEF CallProvider, CommitPayment, AbortPayment, Pay, FailToPay
    <3>2. \A q \in Payments : charge[q] = "captured" => charge'[q] = "captured"
      BY <2>5 DEF CallProvider, CommitPayment, AbortPayment, Pay, FailToPay, providerVars,
         TypeOK, MoneyInv, NewAreUnknown
    <3> QED
      BY <2>1, <3>1, <3>2
  <2>6. CASE Refunding
    BY <2>1, <2>6 DEF Refunding, AdminReadsPayment, ProviderRefunds, RecordRefund, AbortAdmin,
       providerVars
  <2>7. CASE UNCHANGED vars
    BY <2>1, <2>7 DEF vars, providerVars
  <2> QED
    BY <2>2, <2>3, <2>4, <2>5, <2>6, <2>7 DEF Next, Orders, Paying
<1> QED
  BY <1>1, <1>2, Typing, MoneyInvariance, PTL DEF Spec

=============================================================================
