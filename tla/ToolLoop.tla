------------------------------- MODULE ToolLoop -------------------------------
(***************************************************************************)
(* One run of a domain worker: the chat model is asked, calls tools, is    *)
(* asked again, and after at most MaxRounds questions the loop turns what  *)
(* the tools said into the channels that decide about a human handoff.     *)
(*                                                                         *)
(* The model is free to call any tool with any argument, in any order.  Of *)
(* a result only what the loop reads is kept; get_shipping_status is an    *)
(* alias of get_shipment, and tools whose result the loop only forwards    *)
(* are one tool, "lookup".  What the tools do to the database is not here. *)
(***************************************************************************)
EXTENDS Naturals, EscalationCatalog

CONSTANTS
  MaxRounds,  \* MAX_TOOL_ITERATIONS
  MaxCalls    \* bound: tool calls in one response of the model

ASSUME LoopAssumption == MaxRounds \in Nat \ {0} /\ MaxCalls \in Nat \ {0}

VARIABLES
  worker,   \* the domain worker that runs the loop
  phase,    \* asking the model, calling its tools, or over
  round,    \* questions asked and worked off
  pending,  \* calls of the present response still to be made
  decision, \* policy_decision
  facts,    \* what _facts_from_tool_results makes of the results so far
  verdict,  \* the channels the worker returns
  demands   \* history: the kinds of result that ask for a human, heard so far

vars == <<worker, phase, round, pending, decision, facts, verdict, demands>>

Workers == {"billing", "logistics", "account"}

Tools == {"check_refund_eligibility", "create_refund_request", "get_shipment",
          "get_customer", "verify_identity", "evaluate_escalation", "lookup"}

Phases == {"asking", "calling", "answered", "failed"}
DemandKinds == {"decision", "refund", "insists", "missing", "unusable"}
Verdicts == [needsHuman : BOOLEAN, decision : Decisions]

-----------------------------------------------------------------------------
(* What tools return *)

ResultShape ==
  [tool : Tools, error : BOOLEAN, human : BOOLEAN, trigger : Triggers,
   insists : BOOLEAN, created : BOOLEAN,
   account : {"unknown", "active", "unusable"}, missing : BOOLEAN]

Silent(tool) ==
  [tool |-> tool, error |-> FALSE, human |-> FALSE, trigger |-> NoTrigger,
   insists |-> FALSE, created |-> FALSE, account |-> "unknown", missing |-> FALSE]

Refund(human, created) ==
  [Silent("create_refund_request") EXCEPT !.human = human, !.created = created]

\* A refund can be denied and still ask for a human: the identity is unproved.
BillingReports ==
  {[Silent("check_refund_eligibility") EXCEPT !.human = h] : h \in BOOLEAN}
    \union {Refund(h, c) : h \in BOOLEAN, c \in BOOLEAN}

LogisticsReports ==
  {[Silent("get_shipment") EXCEPT !.missing = m] : m \in BOOLEAN}

AccountReports ==
  {[Silent(tool) EXCEPT !.account = a] :
    tool \in {"get_customer", "verify_identity"}, a \in {"active", "unusable"}}

\* evaluate_escalation repeats the catalog's verdict.
Evaluated(trigger, insists) ==
  [Silent("evaluate_escalation") EXCEPT
     !.trigger = trigger, !.insists = insists,
     !.human = ShouldEscalate(trigger, insists)]

CatalogReports ==
  {Evaluated(t, i) : t \in Triggers \ {NoTrigger}, i \in BOOLEAN}

\* An exception, a missing scope, no such record, no such tool of this worker.
Failures == {[Silent(tool) EXCEPT !.error = TRUE] : tool \in Tools}

OwnReports(w) ==
  CASE w = "billing"   -> BillingReports
    [] w = "logistics" -> LogisticsReports
    [] w = "account"   -> AccountReports

Results(w) ==
  OwnReports(w) \union CatalogReports \union Failures \union {Silent("lookup")}

-----------------------------------------------------------------------------
(* What the loop makes of a result *)

\* Mutant of Decided: a failed check asks for a human.
DecidedFailSafe(d, r) ==
  IF r.tool \in {"check_refund_eligibility", "evaluate_escalation"}
    THEN [requiresHuman |-> r.human \/ r.error, trigger |-> r.trigger,
          insists |-> r.insists]
    ELSE d

\* The last result of a deciding tool is the decision, an error included; only
\* create_refund_request has to bring an eligibility along.
Decided(d, r) ==
  IF \/ r.tool \in {"check_refund_eligibility", "evaluate_escalation"}
     \/ r.tool = "create_refund_request" /\ ~ r.error
    THEN [requiresHuman |-> r.human, trigger |-> r.trigger, insists |-> r.insists]
    ELSE d

\* Each fact is that of the last result that has it, errors skipped; a profile
\* counts only where nothing is known of the account yet.
Learned(f, r) ==
  IF r.error THEN f
  ELSE [account |-> IF r.tool = "verify_identity" \/ f.account = "unknown"
                      THEN r.account ELSE f.account,
        missing |-> IF r.tool = "get_shipment" THEN r.missing ELSE f.missing,
        trigger |-> IF r.tool = "evaluate_escalation" THEN r.trigger ELSE f.trigger,
        insists |-> IF r.tool = "evaluate_escalation" THEN r.insists ELSE f.insists]

Demanded(r) ==
  {k \in DemandKinds :
     \/ k = "decision" /\ r.human
     \/ k = "refund" /\ r.human /\ r.created
     \/ k = "insists" /\ r.insists
     \/ k = "missing" /\ r.missing
     \/ k = "unusable" /\ r.account = "unusable"}

\* Mutant of Verdict: the catalog's escalation is not merged into the decision.
VerdictUnmerged(d, f) ==
  [needsHuman |-> d.requiresHuman \/ EscalationFromFacts(f) # NoTrigger,
   decision |-> d]

Verdict(d, f) ==
  LET catalog == EscalationFromFacts(f)
  IN [needsHuman |-> d.requiresHuman \/ catalog # NoTrigger,
      decision |-> IF catalog = NoTrigger THEN d
                   ELSE [d EXCEPT !.requiresHuman = TRUE, !.trigger = catalog]]

-----------------------------------------------------------------------------

NoVerdict == [needsHuman |-> FALSE, decision |-> NoDecision]

Init ==
  /\ worker \in Workers
  /\ phase = "asking" /\ round = 0 /\ pending = 0
  /\ decision = NoDecision
  /\ facts = [account |-> "unknown", missing |-> FALSE, trigger |-> NoTrigger,
              insists |-> FALSE]
  /\ verdict = NoVerdict
  /\ demands = {}

\* The model wants tools.
Request ==
  /\ phase = "asking"
  /\ phase' = "calling"
  /\ pending' \in 1 .. MaxCalls
  /\ UNCHANGED <<worker, round, decision, facts, verdict, demands>>

\* The model answers; the worker's channels replace those of earlier turns.
Answer ==
  /\ phase = "asking"
  /\ phase' = "answered"
  /\ verdict' = Verdict(decision, facts)
  /\ UNCHANGED <<worker, round, pending, decision, facts, demands>>

\* The provider raises or the turn's stream is cancelled: the node fails and the
\* run with it, whatever the tools have done.
Raise ==
  /\ phase \in {"asking", "calling"}
  /\ phase' = "failed"
  /\ UNCHANGED <<worker, round, pending, decision, facts, verdict, demands>>

Call ==
  /\ phase = "calling" /\ pending > 0
  /\ \E r \in Results(worker) :
       /\ decision' = Decided(decision, r)
       /\ facts' = Learned(facts, r)
       /\ demands' = demands \union Demanded(r)
  /\ pending' = pending - 1
  /\ UNCHANGED <<worker, phase, round, verdict>>

\* Mutant of EndRound: no cap on the iterations.
EndRoundUncapped ==
  /\ phase = "calling" /\ pending = 0
  /\ phase' = "asking"
  /\ UNCHANGED <<worker, round, pending, decision, facts, verdict, demands>>

\* Mutant of EndRound: one round too many.
EndRoundOneMore ==
  /\ phase = "calling" /\ pending = 0
  /\ round' = round + 1
  /\ IF round' <= MaxRounds
       THEN phase' = "asking" /\ UNCHANGED verdict
       ELSE phase' = "answered" /\ verdict' = Verdict(decision, facts)
  /\ UNCHANGED <<worker, pending, decision, facts, demands>>

\* Every call is answered: the model is asked again, or the cap ends the loop
\* with a canned answer and whatever the tools have decided.
EndRound ==
  /\ phase = "calling" /\ pending = 0
  /\ round' = round + 1
  /\ IF round' < MaxRounds
       THEN phase' = "asking" /\ UNCHANGED verdict
       ELSE phase' = "answered" /\ verdict' = Verdict(decision, facts)
  /\ UNCHANGED <<worker, pending, decision, facts, demands>>

Ended == phase \in {"answered", "failed"} /\ UNCHANGED vars

Next == Request \/ Answer \/ Raise \/ Call \/ EndRound \/ Ended

Spec == Init /\ [][Next]_vars

\* The provider answers or raises (a timeout is an exception), and so do tools.
FairSpec == Spec /\ WF_vars(Next)

-----------------------------------------------------------------------------
(* Properties *)

TypeOK ==
  /\ worker \in Workers
  /\ phase \in Phases
  /\ round \in 0 .. MaxRounds
  /\ pending \in 0 .. MaxCalls
  /\ decision \in Decisions
  /\ facts \in Facts
  /\ verdict \in Verdicts
  /\ demands \subseteq DemandKinds

\* needs_human, which the escalation node clears, and the policy decision, which
\* nothing clears, never disagree about a worker's run: the routing edge would
\* come to the same conclusion from either.
GateMatchesFlag ==
  phase = "answered" => RequiresEscalation(verdict.decision) = verdict.needsHuman

\* No conversation is handed over without a reason: some tool of this run asked
\* for a human, the customer insisted, or the parcel or account is in the catalog.
HandoffHasReason ==
  verdict.needsHuman => demands # {}

\* A model that keeps calling tools, or tools that keep failing, do not keep the
\* customer waiting for ever.
LoopEnds == <>(phase \in {"answered", "failed"})
=============================================================================
