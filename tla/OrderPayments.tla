---------------------------- MODULE OrderPayments ----------------------------
(***************************************************************************)
(* The life of ONE placed order and of the payments for it and for the     *)
(* activation of its shop: the shopkeeper's transitions, the               *)
(* administrators' actions, the payment provider and its webhooks.         *)
(*                                                                         *)
(* The shopkeeper's transition locks the order's row.  An administrator's  *)
(* action reads the order or the payment without a lock, decides, and      *)
(* writes at its commit, so other requests run in between; a refund also   *)
(* calls the provider in between.  The provider delivers its events at     *)
(* least once and in no particular order, and knows a payment before its   *)
(* row is committed.  The deployment is one with provider keys configured. *)
(***************************************************************************)
EXTENDS FiniteSets

CONSTANTS
  Payments,   \* payments that are created
  PurposeOf,  \* the purpose of each
  Admins,     \* administrators, one request at a time each
  Decisions,  \* bound: the statuses an administrator gives the shop
  Idle        \* an administrator with no request under way

Purposes     == {"order", "shop_activation"}
OrderStatus  == {"pending", "accepted", "rejected", "preparing", "ready",
                 "out_for_delivery", "completed", "cancelled", "refunded"}
RowStatus    == {"none", "created", "captured", "failed", "refunded"}
ShopStatus   == {"draft", "payment_pending", "pending_review", "active",
                 "rejected", "suspended"}
Events       == {"captured", "failed"}
OrderWork    == [to : OrderStatus]
RefundWork   == [refund : Payments, paid : BOOLEAN]

ASSUME OrderPaymentsAssumption ==
  /\ PurposeOf \in [Payments -> Purposes]
  /\ Decisions \subseteq ShopStatus
  /\ Idle \notin OrderWork \cup RefundWork

VARIABLES
  order,        \* Order.status
  completedAt,  \* Order.completed_at is set
  fulfillment,  \* Order.fulfillment_type
  shop,         \* Shop.status
  row,          \* Payment.status; "none": no row is committed
  attached,     \* the payments whose order_id is the order
  creating,     \* how far create_payment is
  charge,       \* the provider's order: unknown, open or captured
  events,       \* the provider's events that may still be delivered
  paidBack,     \* the provider has refunded the payment
  admin         \* what an administrator's request has decided

orderVars    == <<order, completedAt, fulfillment>>
providerVars == <<charge, events, paidBack>>
vars == <<orderVars, shop, row, attached, creating, providerVars, admin>>

TypeOK ==
  /\ order \in OrderStatus
  /\ completedAt \in BOOLEAN
  /\ fulfillment \in {"delivery", "pickup"}
  /\ shop \in ShopStatus
  /\ row \in [Payments -> RowStatus]
  /\ attached \subseteq Payments
  /\ creating \in [Payments -> {"idle", "called", "over"}]
  /\ charge \in [Payments -> {"unknown", "open", "captured"}]
  /\ events \in [Payments -> SUBSET Events]
  /\ paidBack \in [Payments -> BOOLEAN]
  /\ admin \in [Admins -> OrderWork \cup RefundWork \cup {Idle}]

Init ==
  /\ order = "pending"
  /\ completedAt = FALSE
  /\ fulfillment \in {"delivery", "pickup"}
  /\ shop = "draft"
  /\ row = [p \in Payments |-> "none"]
  /\ attached = {}
  /\ creating = [p \in Payments |-> "idle"]
  /\ charge = [p \in Payments |-> "unknown"]
  /\ events = [p \in Payments |-> {}]
  /\ paidBack = [p \in Payments |-> FALSE]
  /\ admin = [a \in Admins |-> Idle]

-----------------------------------------------------------------------------
(***************************************************************************)
(* The order.                                                              *)
(***************************************************************************)
ShopMoves(s) ==
  CASE s = "pending"          -> {"accepted", "rejected"}
    [] s = "accepted"         -> {"preparing"}
    [] s = "preparing"        -> {"ready"}
    [] s = "ready"            -> {"out_for_delivery", "completed"}
    [] s = "out_for_delivery" -> {"completed"}
    [] OTHER                  -> {}

AdminMoves(s) ==
  ShopMoves(s) \cup
    (IF s \in {"pending", "accepted", "preparing", "ready", "out_for_delivery"}
       THEN {"cancelled"} ELSE {})

MoveTo(to) ==
  /\ order' = to
  /\ completedAt' = (completedAt \/ to = "completed")

\* The shopkeeper's request: the row is locked from the read to the commit.
TransitionOrder(to) ==
  /\ to \in ShopMoves(order)
  /\ to = "out_for_delivery" => fulfillment = "delivery"
  /\ MoveTo(to)
  /\ UNCHANGED <<fulfillment, shop, row, attached, creating, providerVars, admin>>

AdminReadsOrder(a, to) ==
  /\ admin[a] = Idle
  /\ to \in AdminMoves(order)
  /\ admin' = [admin EXCEPT ![a] = [to |-> to]]
  /\ UNCHANGED <<attached, orderVars, shop, row, creating, providerVars>>

AdminWritesOrder(a) ==
  /\ admin[a] \in OrderWork
  /\ MoveTo(admin[a].to)
  /\ admin' = [admin EXCEPT ![a] = Idle]
  /\ UNCHANGED <<attached, fulfillment, shop, row, creating, providerVars>>

ShopLifecycle(s) ==
  /\ shop' = s
  /\ UNCHANGED <<attached, orderVars, row, creating, providerVars, admin>>

-----------------------------------------------------------------------------
(***************************************************************************)
(* The provider: the customer pays, or an attempt to pay fails.            *)
(***************************************************************************)
Pay(p) ==
  /\ charge[p] = "open"
  /\ charge' = [charge EXCEPT ![p] = "captured"]
  /\ events' = [events EXCEPT ![p] = @ \cup {"captured"}]
  /\ UNCHANGED <<attached, orderVars, shop, row, creating, paidBack, admin>>

FailToPay(p) ==
  /\ charge[p] = "open"
  /\ events' = [events EXCEPT ![p] = @ \cup {"failed"}]
  /\ UNCHANGED <<attached, orderVars, shop, row, creating, charge, paidBack, admin>>

\* create_payment has the provider open an order, answers, and commits the row.
\* The fee of the shop may name the order too: order_id is not tied to purpose.
CallProvider(p) ==
  /\ creating[p] = "idle"
  /\ \/ attached' = attached \cup {p}
     \/ PurposeOf[p] = "shop_activation" /\ attached' = attached
  /\ creating' = [creating EXCEPT ![p] = "called"]
  /\ charge' = [charge EXCEPT ![p] = "open"]
  /\ UNCHANGED <<orderVars, shop, row, events, paidBack, admin>>

CommitPayment(p) ==
  /\ creating[p] = "called"
  /\ creating' = [creating EXCEPT ![p] = "over"]
  /\ row' = [row EXCEPT ![p] = "created"]
  /\ UNCHANGED <<attached, orderVars, shop, providerVars, admin>>

\* The provider refused, or the transaction is rolled back after its answer.
AbortPayment(p) ==
  /\ creating[p] \in {"idle", "called"}
  /\ creating' = [creating EXCEPT ![p] = "over"]
  /\ UNCHANGED <<attached, orderVars, shop, row, providerVars, admin>>

AnyEventCaptures(p, e) == "captured"   \* mutant: the event's name is ignored
NameOfEvent(p, e) ==   \* mutant: the name, not the status, is stored
  IF e = "failed" THEN "payment.failed" ELSE "captured"
Recorded(p, e) == e

\* One delivery of an event.  It is acknowledged whether or not there is a
\* row; the acknowledgement may be lost, and then the event comes again.
Webhook(p, e) ==
  /\ e \in events[p]
  /\ IF row[p] = "none"
       THEN UNCHANGED <<row, shop>>
       ELSE /\ row' = [row EXCEPT ![p] = Recorded(p, e)]
            /\ shop' = IF Recorded(p, e) = "captured" /\ PurposeOf[p] = "shop_activation"
                         THEN "pending_review" ELSE shop
  /\ \/ events' = events
     \/ events' = [events EXCEPT ![p] = @ \ {e}]
  /\ UNCHANGED <<attached, orderVars, creating, charge, paidBack, admin>>

-----------------------------------------------------------------------------
(***************************************************************************)
(* A refund: read the payment, call the provider, write payment and order. *)
(***************************************************************************)
Refundable(p) == row[p] = "captured"

AdminReadsPayment(a, p) ==
  /\ admin[a] = Idle
  /\ Refundable(p)
  /\ admin' = [admin EXCEPT ![a] = [refund |-> p, paid |-> FALSE]]
  /\ UNCHANGED <<attached, orderVars, shop, row, creating, providerVars>>

ProviderRefunds(a) ==
  /\ admin[a] \in RefundWork /\ ~ admin[a].paid
  /\ paidBack' = [paidBack EXCEPT ![admin[a].refund] = TRUE]
  /\ admin' = [admin EXCEPT ![a].paid = TRUE]
  /\ UNCHANGED <<attached, orderVars, shop, row, creating, charge, events>>

ReadyToRecord(a) == admin[a] \in RefundWork /\ admin[a].paid
RefundIsDone(a) == ReadyToRecord(a)

EveryOrder(p) == "refunded"   \* mutant: the payment's order_id is not looked at
OrderAfterRefund(p) == IF p \in attached THEN "refunded" ELSE order

RecordRefund(a) ==
  /\ RefundIsDone(a)
  /\ row' = [row EXCEPT ![admin[a].refund] = "refunded"]
  /\ order' = OrderAfterRefund(admin[a].refund)
  /\ admin' = [admin EXCEPT ![a] = Idle]
  /\ UNCHANGED <<attached, completedAt, fulfillment, shop, creating, providerVars>>

\* The provider's refusal, a timeout after it has paid, a crash: nothing is
\* written.
AbortAdmin(a) ==
  /\ admin[a] # Idle
  /\ admin' = [admin EXCEPT ![a] = Idle]
  /\ UNCHANGED <<attached, orderVars, shop, row, creating, providerVars>>

-----------------------------------------------------------------------------
Orders ==
  \/ \E to \in OrderStatus :
       TransitionOrder(to) \/ \E a \in Admins : AdminReadsOrder(a, to)
  \/ \E a \in Admins : AdminWritesOrder(a)
  \/ \E s \in Decisions : ShopLifecycle(s)

Paying ==
  \E p \in Payments :
    \/ CallProvider(p) \/ CommitPayment(p) \/ AbortPayment(p)
    \/ Pay(p) \/ FailToPay(p)
    \/ \E e \in Events : Webhook(p, e)

Refunding ==
  \E a \in Admins :
    \/ \E p \in Payments : AdminReadsPayment(a, p)
    \/ ProviderRefunds(a) \/ RecordRefund(a) \/ AbortAdmin(a)

Next == Orders \/ Paying \/ Refunding

Spec == Init /\ [][Next]_vars

-----------------------------------------------------------------------------
(***************************************************************************)
(* Properties.                                                             *)
(***************************************************************************)
\* Money is recorded as taken only if the provider took it, whatever the
\* order in which webhooks, refunds and the creation of the row come.
RecordedPaymentsAreCharges ==
  \A p \in Payments : row[p] \in {"captured", "refunded"} => charge[p] = "captured"

\* Money is returned only if it was taken, although an administrator decides
\* on a row that webhooks and other administrators change meanwhile.
OnlyChargesAreRefunded ==
  \A p \in Payments : paidBack[p] => charge[p] = "captured"

\* A payment is recorded as refunded only once the provider has refunded it:
\* no failure between the call and the commit leaves it recorded unpaid.
RecordedRefundsArePaid ==
  \A p \in Payments : row[p] = "refunded" => paidBack[p]

\* Together: what the rows say of money is what the provider did with it, in
\* whatever order events, calls, failures and commits come.
MoneyIsReal ==
  RecordedPaymentsAreCharges /\ OnlyChargesAreRefunded /\ RecordedRefundsArePaid

\* An order is refunded only when a payment that names it is paid back: no stale
\* write of an administrator and no refund of something else makes it so.
RefundedOrdersArePaidBack == order = "refunded" => \E p \in attached : paidBack[p]

\* A shop comes up for review only when its activation fee has been captured,
\* unless an administrator's decision can be to put it there: no failed, early
\* or repeated event and no payment for an order does.
ReviewedShopsHavePaid ==
  shop = "pending_review" /\ "pending_review" \notin Decisions
    => \E p \in Payments : PurposeOf[p] = "shop_activation" /\ charge[p] = "captured"

\* An order is completed only together with its completion time, whoever
\* completes it and whatever its status was by then.
CompletedOrdersAreDated == order = "completed" => completedAt

=============================================================================
