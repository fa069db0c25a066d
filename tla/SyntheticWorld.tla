---------------------------- MODULE SyntheticWorld ----------------------------
(***************************************************************************)
(* The generated company: orders built for labelled scenarios, the label   *)
(* of each saying how support should end, then random orders until the     *)
(* profile is full, and an integrity check.  Afterwards days pass on the   *)
(* clock the tools read, while the rows stay as they are.                  *)
(*                                                                         *)
(* Dates are whole days before the moment of generation.  Left out: names, *)
(* emails and public ids, customer tiers and account statuses (every       *)
(* labelled customer is active), quantities (always one), the product of   *)
(* random orders, tickets, and the negative_security utterances, which are *)
(* about the guardrails and not about an order.                            *)
(***************************************************************************)
EXTENDS Sequences, FiniteSets, RefundRules, EscalationCatalog

CONSTANTS
  Copies,   \* anomaly_copies of the profile
  Profiles, \* pairs of its numbers of customers and orders
  Days      \* bound: days after its generation on which the world is used

ASSUME WorldAssumption ==
  /\ Copies \in Nat /\ Window \in Nat
  /\ Profiles \subseteq Nat \X Nat /\ Days \subseteq Nat

VARIABLES
  profile,
  built,     \* labelled orders so far
  customers, \* their number
  orders,    \* a sequence of order records
  scenarios, \* the labels, each with the number of its order
  world,     \* "growing", "ready" or "rejected" by the integrity check
  day        \* the tools' clock, in days since the generation

worldVars == <<profile, built, customers, orders, scenarios, world, day>>

-----------------------------------------------------------------------------
(* The catalog *)

\* Prices in whole reais, rounded up.
Item(category, unitPrice, finalSale) ==
  [category |-> category, price |-> unitPrice, finalSale |-> finalSale,
   warranty |-> IF category = "laptops" THEN 365 ELSE 90]

PRODUCT_SPECS == <<
  Item("smartphones", 1900, FALSE), Item("smartphones", 1299, FALSE),
  Item("smartphones", 800, TRUE),   Item("laptops", 5499, FALSE),
  Item("laptops", 3499, FALSE),     Item("laptops", 2199, TRUE),
  Item("monitors", 1899, FALSE),    Item("monitors", 900, FALSE),
  Item("monitors", 450, TRUE),      Item("headphones", 700, FALSE),
  Item("headphones", 250, FALSE),   Item("headphones", 100, TRUE),
  Item("keyboards", 500, FALSE),    Item("keyboards", 300, FALSE),
  Item("keyboards", 150, TRUE),     Item("accessories", 190, FALSE),
  Item("accessories", 250, FALSE),  Item("accessories", 80, TRUE),
  Item("accessories", 130, FALSE),  Item("smartphones", 4299, FALSE),
  Item("laptops", 7999, FALSE),     Item("monitors", 2599, FALSE),
  Item("headphones", 1199, FALSE),  Item("accessories", 160, FALSE) >>

ELECTRONICS == {"smartphones", "laptops", "monitors", "headphones"}

\* The first of some products, by their places in the catalog.
FirstOf(places) == PRODUCT_SPECS[CHOOSE i \in places : \A j \in places : i <= j]

\* The first product of a category, or the first of all.
ProductByCategory(category, sales) ==
  LET found == {i \in DOMAIN PRODUCT_SPECS : /\ PRODUCT_SPECS[i].category = category
                                             /\ PRODUCT_SPECS[i].finalSale \in sales}
  IN IF found = {} THEN PRODUCT_SPECS[1] ELSE FirstOf(found)

FirstOver(amount, categories) ==
  FirstOf({i \in DOMAIN PRODUCT_SPECS : /\ PRODUCT_SPECS[i].price > amount
                                        /\ PRODUCT_SPECS[i].category \in categories})

-----------------------------------------------------------------------------
(* Orders *)

\* What a builder asks for, and what it leaves to add_order_bundle.
Asked ==
  [kind |-> "unlabelled", says |-> "nothing", human |-> FALSE,
   reason |-> "customer_preference", verified |-> TRUE, before |-> <<>>,
   product |-> PRODUCT_SPECS[1], status |-> "delivered", age |-> 0,
   extraPaid |-> FALSE, failed |-> 0, unpaid |-> FALSE, shipment |-> "unset",
   delivered |-> 0, received |-> TRUE, eta |-> 0, refund |-> "none"]

ShipmentOf(r) ==
  IF r.status = "cancelled" THEN "none"
  ELSE IF r.shipment # "unset" THEN r.shipment
  ELSE IF r.status \in {"delivered", "returned"} THEN "delivered"
  ELSE IF r.status = "shipped" THEN "in_transit" ELSE "none"

\* A delivery that would be in the future is moved to yesterday.
DeliveredAgo(r) == IF r.delivered > r.age THEN 1 ELSE r.age - r.delivered

\* shipped and delivered are days ago; eta is days ahead.
AddOrderBundle(customer, r) ==
  LET shipment == ShipmentOf(r)
  IN [customer |-> customer, product |-> r.product, status |-> r.status,
      age |-> r.age,
      paid |-> (IF r.status = "pending" \/ r.unpaid THEN 0 ELSE 1)
                 + (IF r.extraPaid THEN 1 ELSE 0),
      failed |-> r.failed + (IF r.unpaid THEN 1 ELSE 0),
      shipment |-> shipment,
      shipped |-> IF shipment \in {"none", "processing"} THEN NotDelivered ELSE r.age - 1,
      delivered |-> IF shipment = "delivered" THEN DeliveredAgo(r) ELSE NotDelivered,
      received |-> r.received, eta |-> r.eta - r.age, refund |-> r.refund]

-----------------------------------------------------------------------------
(* The labelled scenarios: how old the order is, and how support should end *)

DoublePayment ==
  [Asked EXCEPT !.kind = "double_payment", !.says = "granted",
                !.product = ProductByCategory("headphones", {FALSE}),
                !.age = 12, !.delivered = 5, !.extraPaid = TRUE]

DelayedShipment ==
  [Asked EXCEPT !.kind = "delayed_shipment", !.says = "late", !.status = "shipped",
                !.product = ProductByCategory("accessories", BOOLEAN),
                !.age = 20, !.shipment = "in_transit", !.eta = 5]

DeliveredMissing ==
  [Asked EXCEPT !.kind = "delivered_missing", !.says = "missing", !.human = TRUE,
                !.product = ProductByCategory("keyboards", BOOLEAN),
                !.age = 8, !.delivered = 4, !.received = FALSE]

\* Mutant of RefundOutsideWindow: counted from the order, not from its delivery.
RefundOutsideWindowOfOrder ==
  [Asked EXCEPT !.kind = "refund_outside_window", !.says = "denied",
                !.product = ProductByCategory("accessories", {FALSE}),
                !.age = Window + 5, !.delivered = 5, !.refund = "denied"]

RefundOutsideWindow ==
  [Asked EXCEPT !.kind = "refund_outside_window", !.says = "denied",
                !.product = ProductByCategory("accessories", {FALSE}),
                !.age = Window + 20, !.delivered = 5, !.refund = "denied"]

\* The label compares with 1000, not with the configured threshold.
DefectiveWarranty ==
  LET laptop == ProductByCategory("laptops", {FALSE})
  IN [Asked EXCEPT !.kind = "defective_warranty", !.says = "granted",
                   !.human = laptop.price > 1000, !.product = laptop,
                   !.reason = "defective_product",
                   !.age = Window + 25, !.delivered = 5, !.refund = "requested"]

HighValueRefund ==
  [Asked EXCEPT !.kind = "high_value_refund", !.says = "granted", !.human = TRUE,
                !.product = FirstOver(Threshold, {"laptops"}),
                !.age = 10, !.delivered = 4, !.refund = "pending_approval"]

CancelAfterShip ==
  [Asked EXCEPT !.kind = "cancel_after_ship", !.says = "not_cancelled",
                !.product = ProductByCategory("monitors", BOOLEAN),
                !.status = "shipped", !.shipment = "in_transit", !.age = 3, !.eta = 7]

\* The customer's two earlier orders are not labelled.
FraudRisk ==
  LET cheap == ProductByCategory("accessories", BOOLEAN)
  IN [Asked EXCEPT !.kind = "fraud_risk", !.says = "held", !.human = TRUE,
                   !.verified = FALSE, !.status = "paid", !.age = 1, !.failed = 2,
                   !.product = FirstOver(Threshold, ELECTRONICS \union {"keyboards", "accessories"}),
                   !.before = <<[Asked EXCEPT !.product = cheap, !.age = 40, !.delivered = 6],
                                [Asked EXCEPT !.product = cheap, !.status = "pending",
                                              !.age = 3, !.failed = 2]>>]

FinalSale ==
  [Asked EXCEPT !.kind = "final_sale", !.says = "denied",
                !.product = ProductByCategory("accessories", {TRUE}),
                !.age = 8, !.delivered = 3, !.refund = "denied"]

GoldTier ==
  [Asked EXCEPT !.kind = "gold_tier", !.says = "denied",
                !.product = ProductByCategory("headphones", {FALSE}),
                !.age = Window + 6, !.delivered = 5]

FailedPayment ==
  [Asked EXCEPT !.kind = "failed_payment", !.says = "unpaid", !.status = "pending",
                !.product = ProductByCategory("headphones", {FALSE}),
                !.age = 2, !.failed = 2]

HappyPath ==
  [Asked EXCEPT !.kind = "happy_path", !.says = "tracked", !.status = "shipped",
                !.product = ProductByCategory("monitors", {FALSE}),
                !.age = 1, !.shipment = "in_transit", !.eta = 6]

\* Each anomaly gets a customer of its own, once per copy.
Anomalies ==
  <<DoublePayment, DelayedShipment, DeliveredMissing, RefundOutsideWindow,
    DefectiveWarranty, HighValueRefund, CancelAfterShip, FraudRisk, FinalSale,
    GoldTier>>

\* The showcase customer has one order of each of these.
Showcase ==
  <<DoublePayment, DelayedShipment, DeliveredMissing, RefundOutsideWindow,
    DefectiveWarranty, HighValueRefund, CancelAfterShip, FinalSale,
    FailedPayment, HappyPath>>

ShowcaseCustomer == Copies * Len(Anomalies) + 1

-----------------------------------------------------------------------------
(* Growing the world *)

WorldInit ==
  /\ profile \in Profiles
  /\ built = 0 /\ customers = 0
  /\ orders = <<>> /\ scenarios = <<>>
  /\ world = "growing" /\ day = 0

\* A recipe's orders, and the label of the last.
Build(r, customer) ==
  /\ orders' = orders \o [i \in 1 .. Len(r.before) |-> AddOrderBundle(customer, r.before[i])]
                      \o <<AddOrderBundle(customer, r)>>
  /\ scenarios' = Append(scenarios,
       [kind |-> r.kind, order |-> Len(orders'), says |-> r.says, human |-> r.human,
        reason |-> r.reason, verified |-> r.verified])
  /\ built' = built + 1
  /\ customers' = customer
  /\ UNCHANGED <<profile, world, day>>

OverlayAnomalies ==
  /\ built < Copies * Len(Anomalies)
  /\ Build(Anomalies[(built % Len(Anomalies)) + 1], customers + 1)

BuildShowcase ==
  /\ built \in Copies * Len(Anomalies) .. Copies * Len(Anomalies) + Len(Showcase) - 1
  /\ Build(Showcase[built - Copies * Len(Anomalies) + 1], ShowcaseCustomer)

Filling ==
  world = "growing" /\ built = Copies * Len(Anomalies) + Len(Showcase)

AddStranger ==
  /\ Filling /\ customers < profile[1]
  /\ customers' = customers + 1
  /\ UNCHANGED <<profile, built, orders, scenarios, world, day>>

\* The ends of a range that rng.randint draws from: all that is checked compares
\* days with one bound.
Between(a, b) == {a, b}

\* arrives: days from the order to its delivery, where there is one.
RandomOrder(status, age, eta, arrives) ==
  [Asked EXCEPT !.status = status, !.age = age, !.eta = eta, !.delivered = arrives]

\* Mutant of Timed: one age for all that is paid and not delivered.
TimedAlike(status) ==
  IF status \in {"delivered", "returned"}
    THEN {RandomOrder(status, 10, 4, 4)}
    ELSE {RandomOrder(status, a, e, 0) : a \in Between(0, 4), e \in Between(5, 12)}

\* _happy_path_timing.  Delivered and returned orders arrive on their eta.
Timed(status) ==
  CASE status \in {"pending", "paid"} ->
         {RandomOrder(status, a, e, 0) : a \in Between(0, 2), e \in Between(5, 12)}
    [] status = "processing" ->
         {RandomOrder(status, a, e, 0) : a \in Between(1, 4), e \in Between(5, 12)}
    [] status = "shipped" ->
         {RandomOrder(status, a, a + e, 0) : a \in Between(1, 5), e \in Between(2, 6)}
    [] status = "delivered" ->
         UNION {{RandomOrder(status, a, d, d) :
                   d \in Between(4, IF a < 10 THEN a ELSE 10)} : a \in Between(8, 15)}
    [] status = "returned" ->
         {RandomOrder(status, a, d, d) : a \in Between(10, 15), d \in Between(4, 10)}
    [] status = "cancelled" ->
         {[RandomOrder(status, a, e, 0) EXCEPT !.unpaid = u] :
            a \in Between(1, 10), e \in Between(5, 12), u \in BOOLEAN}

STATUSES == {"delivered", "shipped", "processing", "paid", "pending", "cancelled", "returned"}

Owners == {orders[i].customer : i \in 1 .. Len(orders)}

\* First an order for everyone who has none, then for anyone but the showcase
\* customer until there are enough.
NextOwners ==
  IF 1 .. customers \subseteq Owners THEN 1 .. customers \ {ShowcaseCustomer}
                                     ELSE 1 .. customers \ Owners

Enough == Len(orders) >= profile[2] /\ 1 .. customers \subseteq Owners

AddRandomOrder ==
  /\ Filling /\ customers >= profile[1] /\ ~ Enough
  /\ \E customer \in NextOwners, status \in STATUSES :
       \E r \in Timed(status) : orders' = Append(orders, AddOrderBundle(customer, r))
  /\ UNCHANGED <<profile, built, customers, scenarios, world, day>>

\* assert_integrity, as far as the rows are modelled.
Integral ==
  /\ \A i \in 1 .. Len(orders) :
       LET o == orders[i]
       IN /\ o.shipped # NotDelivered => o.shipped <= o.age
          /\ o.delivered # NotDelivered => o.delivered <= o.shipped
          /\ o.refund # "none" => /\ o.status \in {"shipped", "delivered", "returned"}
                                  /\ o.paid >= 1
  /\ \A i \in 1 .. Len(scenarios) :
       scenarios[i].kind = "double_payment" => orders[scenarios[i].order].paid >= 2
  /\ 1 .. customers \subseteq Owners

Finish ==
  /\ Filling /\ customers >= profile[1] /\ Enough
  /\ world' = IF Integral THEN "ready" ELSE "rejected"
  /\ UNCHANGED <<profile, built, customers, orders, scenarios, day>>

Generate ==
  OverlayAnomalies \/ BuildShowcase \/ AddStranger \/ AddRandomOrder \/ Finish

-----------------------------------------------------------------------------
(* Using the world *)

\* days_since_delivery: SIMULATION_AS_OF is today, whatever clock the world was
\* generated for.
DaysSinceDelivery(o) ==
  IF o.delivered = NotDelivered THEN NotDelivered ELSE o.delivered + day

ClaimOf(s) ==
  LET o == orders[s.order]
  IN [days |-> DaysSinceDelivery(o), amount |-> o.product.price,
      electronics |-> o.product.category \in ELECTRONICS,
      finalSale |-> o.product.finalSale, reason |-> s.reason, verified |-> s.verified,
      warranty |-> o.product.warranty, duplicate |-> o.paid >= 2]

\* The first catalog trigger in what the tools report of the order.
TriggerOf(o) ==
  EscalationFromFacts([account |-> "active", trigger |-> NoTrigger, insists |-> FALSE,
                       missing |-> o.shipment = "delivered" /\ ~ o.received])

\* A label says what the tools and the policy engine will find.
Agrees(s) ==
  LET o == orders[s.order]
      decision == CanRefund(ClaimOf(s))
      handedOver == TriggerOf(o) # NoTrigger
  IN CASE s.says = "granted" -> decision.eligible /\ decision.requiresHuman = s.human
       [] s.says = "denied" -> ~ decision.eligible /\ ~ decision.requiresHuman /\ ~ s.human
       [] s.says = "held" -> decision.requiresHuman /\ s.human
       [] s.says = "not_cancelled" -> ~ CanCancel(o.status, o.shipment)
       [] s.says = "missing" -> handedOver = s.human
       [] s.says = "late" -> o.shipment = "in_transit" /\ o.eta - day < 0 /\ ~ handedOver
       [] s.says = "unpaid" -> o.paid = 0 /\ o.failed >= 2 /\ ~ handedOver
       [] s.says = "tracked" -> o.shipment = "in_transit" /\ ~ handedOver

Later ==
  /\ world = "ready"
  /\ \E d \in Days : d > day /\ day' = d
  /\ UNCHANGED <<profile, built, customers, orders, scenarios, world>>

-----------------------------------------------------------------------------
(* Properties *)

\* Whatever the generator draws, its integrity check passes, and nothing in the
\* world has happened in the future.
WorldsAreCoherent ==
  /\ world # "rejected"
  /\ \A i \in 1 .. Len(orders) :
       LET o == orders[i]
       IN /\ o.delivered = NotDelivered \/ o.delivered >= 0
          /\ o.shipment \in {"none", "processing"} \/ o.shipped >= 0

\* "World anomalies must match policy-engine decisions": every label agrees with
\* the rules on the day the world is made, and for as long as the high-value
\* order, delivered six days before, stays inside the window.
LabelsMatchPolicy ==
  world = "ready" /\ day <= Window - 6 =>
    \A i \in 1 .. Len(scenarios) : Agrees(scenarios[i])

\* A label that has become wrong with time is a refund whose term is over;
\* refusals and handoffs stay right.
OnlyGrantsExpire ==
  world = "ready" =>
    \A i \in 1 .. Len(scenarios) :
      Agrees(scenarios[i]) \/ (scenarios[i].says = "granted"
                                 /\ ~ CanRefund(ClaimOf(scenarios[i])).eligible)
=============================================================================
