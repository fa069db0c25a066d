------------------------------ MODULE RefundRules ------------------------------
(***************************************************************************)
(* The pure decisions of the merchant's policy: who may be refunded, and   *)
(* which order may be cancelled.  A claim is a record of what the tool     *)
(* hands to the engine.                                                    *)
(*                                                                         *)
(* Left out of a decision: reason codes, policy ids and the amount, which  *)
(* never differ from what the branch implies.                              *)
(***************************************************************************)
EXTENDS Integers

CONSTANTS
  Window,          \* refund.standard_window_days
  LegalDays,       \* withdrawal.legal_days
  InspectionAfter, \* warranty.electronics_inspection_after_days
  Threshold        \* refund.approval_threshold_brl

Reasons == {"customer_preference", "defective_product", "withdrawal", "other"}

\* days_since_delivery is None.
NotDelivered == -1

-----------------------------------------------------------------------------
(* can_refund *)

Within(c, days) == c.days # NotDelivered /\ c.days <= days

Denied(asksHuman) ==
  [eligible |-> FALSE, requiresHuman |-> asksHuman, fee |-> FALSE,
   inspection |-> FALSE]

Granted(c, fee, inspection) ==
  [eligible |-> TRUE, requiresHuman |-> c.amount > Threshold \/ inspection,
   fee |-> fee, inspection |-> inspection]

\* Mutant of Inspected: the comparison is the wrong way round.
InspectedFirst(c) == c.electronics /\ c.days <= InspectionAfter

Inspected(c) == c.electronics /\ c.days > InspectionAfter

\* Mutant of CanRefund: a defect is handled like any other reason.
CanRefundNoWarranty(c) ==
  IF ~ c.verified THEN Denied(TRUE)
  ELSE IF c.reason = "withdrawal" THEN
    IF Within(c, LegalDays) THEN Granted(c, FALSE, FALSE) ELSE Denied(FALSE)
  ELSE IF c.duplicate THEN Granted(c, FALSE, FALSE)
  ELSE IF Within(c, Window) /\ ~ (c.finalSale /\ c.reason = "customer_preference")
    THEN Granted(c, TRUE, Inspected(c))
  ELSE Denied(FALSE)

\* The order of the tests matters: identity, withdrawal, duplicate charge,
\* delivery, final sale, defect, window.
CanRefund(c) ==
  IF ~ c.verified THEN Denied(TRUE)
  ELSE IF c.reason = "withdrawal" THEN
    IF Within(c, LegalDays) THEN Granted(c, FALSE, FALSE) ELSE Denied(FALSE)
  ELSE IF c.duplicate THEN Granted(c, FALSE, FALSE)
  ELSE IF c.reason = "defective_product" THEN
    IF Within(c, c.warranty) THEN Granted(c, FALSE, Inspected(c))
                             ELSE Denied(FALSE)
  ELSE IF Within(c, Window) /\ ~ (c.finalSale /\ c.reason = "customer_preference")
    THEN Granted(c, TRUE, Inspected(c))
  ELSE Denied(FALSE)

-----------------------------------------------------------------------------
(* can_cancel *)

CanCancel(status, shipped) ==
  /\ status \notin {"shipped", "delivered", "returned", "cancelled"}
  /\ shipped \in {"none", "processing"}
=============================================================================
