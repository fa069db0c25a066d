--------------------------- MODULE EscalationCatalog ---------------------------
(***************************************************************************)
(* The closed catalog of reasons to hand a conversation to a human, and    *)
(* the gate the routing edges derive from it.  A decision stands for the   *)
(* policy_decision channel, facts for what the tools of one worker run     *)
(* reported; the facts no tool sets (fraud_reported, chargeback and the    *)
(* two after it) are left out.                                             *)
(***************************************************************************)

ALWAYS_ESCALATE ==
  {"delivered_but_missing", "fraud", "privacy_beyond_own_profile",
   "product_technical_assistance", "unusable_identity",
   "policy_exception_demanded"}

AUTONOMOUS_TRIGGERS == {"order_tracking", "payment_status"}

NoTrigger == "none"

Triggers == ALWAYS_ESCALATE \union AUTONOMOUS_TRIGGERS
              \union {"lawful_refusal", NoTrigger}

\* A first lawful refusal stays in the thread; insisting on an exception does not.
ShouldEscalate(trigger, insists) ==
  trigger \in ALWAYS_ESCALATE \/ (trigger = "lawful_refusal" /\ insists)

Decisions == [requiresHuman : BOOLEAN, trigger : Triggers, insists : BOOLEAN]

\* None, {} and an error payload are all the same to the gate.
NoDecision == [requiresHuman |-> FALSE, trigger |-> NoTrigger, insists |-> FALSE]

\* What _catalog_requires_escalation reads from the policy decision.
RequiresEscalation(d) == d.requiresHuman \/ ShouldEscalate(d.trigger, d.insists)

\* account: the status the tools reported, "unusable" for suspended or closed;
\* missing: the shipment says delivered and the customer did not receive it.
Facts == [account : {"unknown", "active", "unusable"}, missing : BOOLEAN,
          trigger : Triggers, insists : BOOLEAN]

\* The trigger the facts escalate with, or NoTrigger; the first that applies.
EscalationFromFacts(f) ==
  IF f.account = "unusable" THEN "unusable_identity"
  ELSE IF f.missing THEN "delivered_but_missing"
  ELSE IF f.insists THEN "policy_exception_demanded"
  ELSE IF ShouldEscalate(f.trigger, f.insists) THEN f.trigger
  ELSE NoTrigger
=============================================================================
