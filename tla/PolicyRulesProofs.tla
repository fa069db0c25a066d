--------------------------- MODULE PolicyRulesProofs ---------------------------
(***************************************************************************)
(* The refund rules for every window, threshold, warranty and amount.      *)
(***************************************************************************)
EXTENDS PolicyRules, TLAPS

LEMMA ClaimTypeStep == TypeOK /\ [Next]_claim => TypeOK'
<1> SUFFICES ASSUME TypeOK, [Next]_claim PROVE TypeOK'
  OBVIOUS
<1> USE DEF TypeOK, Claims
<1>1. CASE Deliver
  BY <1>1, 0 \in Nat DEF Deliver
<1>4. CASE Verify
  BY <1>4 DEF Verify
<1>5. CASE UNCHANGED claim
  BY <1>5
<1>2. CASE NextDay
  <2>1. claim.days + 1 \in Nat
    BY <1>2, RulesAssumption DEF NextDay
  <2> QED
    BY <1>2, <2>1 DEF NextDay
<1>3. CASE Restate
  BY <1>3 DEF Restate
<1> QED
  BY <1>1, <1>2, <1>3, <1>4, <1>5 DEF Next

\* A claim is always one the engine can be asked about.
THEOREM ClaimTypeCorrect == Spec => []TypeOK
<1>1. Init => TypeOK
  BY DEF Init, TypeOK, Claims
<1> QED
  BY <1>1, ClaimTypeStep, PTL DEF Spec

\* The days of a claim are numbers, whether it was delivered or not.
LEMMA Numbers ==
  ASSUME NEW c \in Claims
  PROVE  /\ c.days \in Int /\ c.amount \in Int /\ c.warranty \in Int
         /\ Window \in Int /\ LegalDays \in Int /\ InspectionAfter \in Int
         /\ Threshold \in Int
<1>1. c.days \in Nat \union {-1} /\ c.amount \in Amounts /\ c.warranty \in Warranties
  BY DEF Claims, NotDelivered
<1>2. Amounts \subseteq Nat /\ Warranties \subseteq Nat
  BY RulesAssumption
<1>3. c.amount \in Nat /\ c.warranty \in Nat
  BY <1>1, <1>2, Zenon
<1>4. c.days \in Int
  BY <1>1
<1> QED
  BY <1>3, <1>4, RulesAssumption

\* A deadline that is met on a later day was met before.
LEMMA DeadlinesPass ==
  ASSUME NEW c \in Claims, c.days \in Nat, NEW deadline \in Int,
         NEW d \in Claims, d = [c EXCEPT !.days = c.days + 1]
  PROVE  Within(d, deadline) => Within(c, deadline)
BY DEF Within, NotDelivered, Claims

\* Whoever needs an inspection, or an approval, needs it on later days too.
LEMMA DemandsStay ==
  ASSUME NEW c \in Claims, c.days \in Nat, NEW fee, NEW inspects \in BOOLEAN,
         NEW d \in Claims, d = [c EXCEPT !.days = c.days + 1]
  PROVE  /\ Inspected(c) => Inspected(d)
         /\ d.amount = c.amount
BY Numbers DEF Inspected, Claims

\* From one day to the next nobody gains a refund or loses a reviewer.
THEOREM TimeNeverHelpsAlways == Spec => TimeNeverHelps
<1>1. TypeOK /\ NextDay =>
        LET today == CanRefund(claim)  tomorrow == CanRefund(claim')
        IN /\ tomorrow.eligible => today.eligible
           /\ tomorrow.eligible /\ today.requiresHuman => tomorrow.requiresHuman
  <2> SUFFICES ASSUME TypeOK, NextDay
               PROVE  /\ CanRefund(claim').eligible => CanRefund(claim).eligible
                      /\ CanRefund(claim').eligible /\ CanRefund(claim).requiresHuman
                           => CanRefund(claim').requiresHuman
    OBVIOUS
  <2>1. claim \in Claims /\ claim.days \in Nat
        /\ claim' = [claim EXCEPT !.days = claim.days + 1] /\ claim' \in Claims
    BY DEF TypeOK, NextDay, Claims
  <2>2. \A deadline \in Int : Within(claim', deadline) => Within(claim, deadline)
    BY <2>1, DeadlinesPass
  <2>3. Inspected(claim) => Inspected(claim')
    BY <2>1, DemandsStay
  <2>4. /\ claim'.verified = claim.verified /\ claim'.reason = claim.reason
        /\ claim'.duplicate = claim.duplicate /\ claim'.amount = claim.amount
        /\ claim'.warranty = claim.warranty
        /\ claim'.finalSale = claim.finalSale
    BY <2>1 DEF Claims
  <2>5. Inspected(claim) \in BOOLEAN /\ Inspected(claim') \in BOOLEAN
    BY DEF Inspected
  <2>6. claim.warranty \in Int /\ Window \in Int /\ LegalDays \in Int
    BY <2>1, Numbers
  <2> QED
    BY <2>2, <2>3, <2>4, <2>5, <2>6 DEF CanRefund, Granted, Denied
<1> QED
  BY <1>1, ClaimTypeCorrect, PTL DEF Spec, TimeNeverHelps

\* Telling the truth about a defect never costs a customer anything, because no
\* warranty is shorter than the window.
THEOREM DefectDominatesAlways == Spec => []DefectDominates
<1>1. TypeOK => DefectDominates
  <2> SUFFICES ASSUME TypeOK PROVE DefectDominates
    OBVIOUS
  <2> DEFINE pref == [claim EXCEPT !.reason = "customer_preference"]
             defect == [claim EXCEPT !.reason = "defective_product"]
  <2>1. /\ pref.reason = "customer_preference" /\ defect.reason = "defective_product"
        /\ pref.verified = defect.verified /\ pref.duplicate = defect.duplicate
        /\ pref.amount = defect.amount
    BY DEF TypeOK, Claims
  <2>2. Within(pref, Window) => Within(defect, defect.warranty)
    <3>1. Window <= claim.warranty /\ claim.warranty \in Nat /\ Window \in Nat
      BY RulesAssumption DEF TypeOK, Claims
    <3> QED
      BY <3>1, Numbers DEF Within, TypeOK, Claims
  <2>3. Inspected(pref) = Inspected(defect)
    BY DEF Inspected, TypeOK, Claims
  <2> HIDE DEF pref, defect
  <2>4. CanRefund(pref).eligible =>
          /\ CanRefund(defect).eligible /\ ~ CanRefund(defect).fee
          /\ CanRefund(defect).requiresHuman = CanRefund(pref).requiresHuman
    BY <2>1, <2>2, <2>3 DEF CanRefund, Granted, Denied
  <2> QED
    BY <2>4 DEF DefectDominates, pref, defect
<1> QED
  BY <1>1, ClaimTypeCorrect, PTL
=============================================================================
