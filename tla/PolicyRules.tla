------------------------------ MODULE PolicyRules ------------------------------
(***************************************************************************)
(* One refund claim over time: the parcel arrives, days pass, the customer *)
(* proves who they are or gives another reason, and the policy engine may  *)
(* be asked at any moment.                                                 *)
(***************************************************************************)
EXTENDS RefundRules

CONSTANTS
  Warranties, \* the products' warranty_days
  Amounts,    \* order totals of this instance
  MaxDays     \* how long the claim is followed

\* A warranty is never shorter than the commercial window: catalogs.py sells
\* nothing below warranty.default_days.
ASSUME RulesAssumption ==
  /\ Window \in Nat /\ LegalDays \in Nat /\ InspectionAfter \in Nat
  /\ Threshold \in Nat /\ MaxDays \in Nat
  /\ Amounts \subseteq Nat
  /\ Warranties \subseteq Nat
  /\ \A w \in Warranties : Window <= w

VARIABLE claim

Claims ==
  [days : Nat \union {NotDelivered}, amount : Amounts, electronics : BOOLEAN,
   finalSale : BOOLEAN, reason : Reasons, verified : BOOLEAN,
   warranty : Warranties, duplicate : BOOLEAN]

-----------------------------------------------------------------------------
(* A claim over time *)

\* A claim is followed from before its delivery; the customer starts unverified.
Init ==
  claim \in [days : {NotDelivered}, amount : Amounts, electronics : BOOLEAN,
             finalSale : BOOLEAN, reason : Reasons, verified : {FALSE},
             warranty : Warranties, duplicate : BOOLEAN]

\* The carrier delivers: order.actual_delivery is set.
Deliver ==
  /\ claim.days = NotDelivered
  /\ claim' = [claim EXCEPT !.days = 0]

\* days_since_delivery counts whole days of the simulation clock, which stands
\* still where the clock is configured as frozen.
NextDay ==
  /\ claim.days \in 0 .. MaxDays - 1
  /\ claim' = [claim EXCEPT !.days = @ + 1]

\* verify_identity, or the tool's own argument.
Verify ==
  /\ ~ claim.verified
  /\ claim' = [claim EXCEPT !.verified = TRUE]

\* The model passes another reason to the tool.
Restate ==
  \E reason \in Reasons \ {claim.reason} :
    claim' = [claim EXCEPT !.reason = reason]

Next == Deliver \/ NextDay \/ Verify \/ Restate

Spec == Init /\ [][Next]_claim

-----------------------------------------------------------------------------
(* Properties *)

TypeOK == claim \in Claims

\* Time only takes refunds away: once delivered, a claim that is refused is
\* refused on every later day unless the customer changes something else, and a
\* claim that needs a human never becomes one that needs none.
TimeNeverHelps ==
  [][NextDay =>
       LET today == CanRefund(claim)  tomorrow == CanRefund(claim')
       IN /\ tomorrow.eligible => today.eligible
          /\ tomorrow.eligible /\ today.requiresHuman => tomorrow.requiresHuman]_claim

\* A customer who tells the truth about a defect is never worse off than one who
\* claims a change of mind: what preference would get, the defect gets, without
\* the restocking fee and with the same approval.
DefectDominates ==
  LET as(reason) == CanRefund([claim EXCEPT !.reason = reason])
  IN as("customer_preference").eligible =>
       /\ as("defective_product").eligible
       /\ ~ as("defective_product").fee
       /\ as("defective_product").requiresHuman
            = as("customer_preference").requiresHuman
=============================================================================
