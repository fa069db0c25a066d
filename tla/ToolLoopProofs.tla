---------------------------- MODULE ToolLoopProofs ----------------------------
(***************************************************************************)
(* What every worker run keeps, for any number of rounds and calls.        *)
(***************************************************************************)
EXTENDS ToolLoop, TLAPS

(* What results and the verdict look like *)

\* The catalog is silent without a trigger.
LEMMA NoTriggerIsQuiet ==
  /\ NoTrigger \in Triggers \ ALWAYS_ESCALATE
  /\ \A i : ~ ShouldEscalate(NoTrigger, i)
BY DEF NoTrigger, Triggers, ShouldEscalate, ALWAYS_ESCALATE

LEMMA SilenceIsAResult ==
  ASSUME NEW tool \in Tools
  PROVE  Silent(tool) \in ResultShape /\ Silent(tool).trigger = NoTrigger
BY NoTriggerIsQuiet DEF Silent, ResultShape

\* Only the catalog tool names a trigger, with the catalog's own verdict on it.
LEMMA ResultsShape ==
  ASSUME NEW w \in Workers, NEW r \in Results(w)
  PROVE  /\ r \in ResultShape
         /\ ShouldEscalate(r.trigger, r.insists) => r.human
<1> DEFINE Sound(x) == /\ x \in ResultShape
                       /\ ShouldEscalate(x.trigger, x.insists) => x.human
<1>1. ASSUME NEW tool \in Tools, NEW h \in BOOLEAN, NEW c \in BOOLEAN
      PROVE  /\ Sound([Silent(tool) EXCEPT !.human = h])
             /\ Sound(Refund(h, c))
             /\ Sound([Silent(tool) EXCEPT !.missing = h])
             /\ Sound([Silent(tool) EXCEPT !.error = TRUE])
             /\ Sound(Silent(tool))
  <2>1. \A i : ~ ShouldEscalate(NoTrigger, i)
    BY NoTriggerIsQuiet
  <2>2. Silent(tool) \in ResultShape /\ Silent(tool).trigger = NoTrigger
    BY SilenceIsAResult
  <2>3. Sound([Silent(tool) EXCEPT !.human = h])
    BY <2>1, <2>2 DEF ResultShape
  <2>4. Sound(Refund(h, c))
    <3>1. /\ Silent("create_refund_request") \in ResultShape
          /\ Silent("create_refund_request").trigger = NoTrigger
      BY SilenceIsAResult DEF Tools
    <3> QED
      BY <2>1, <3>1 DEF ResultShape, Refund
  <2>5. Sound([Silent(tool) EXCEPT !.missing = h])
    BY <2>1, <2>2 DEF ResultShape
  <2>6. Sound([Silent(tool) EXCEPT !.error = TRUE])
    BY <2>1, <2>2 DEF ResultShape
  <2>7. Sound(Silent(tool))
    BY <2>1, <2>2
  <2> QED
    BY <2>3, <2>4, <2>5, <2>6, <2>7
<1>2. ASSUME NEW tool \in Tools, NEW a \in {"active", "unusable"}
      PROVE  Sound([Silent(tool) EXCEPT !.account = a])
  BY <1>2, SilenceIsAResult, NoTriggerIsQuiet DEF ResultShape
<1>3. ASSUME NEW t \in Triggers, NEW i \in BOOLEAN
      PROVE  Sound(Evaluated(t, i))
  <2>1. ShouldEscalate(t, i) \in BOOLEAN
    BY DEF ShouldEscalate
  <2>2. Silent("evaluate_escalation") \in ResultShape
    BY SilenceIsAResult DEF Tools
  <2> QED
    BY <2>1, <2>2 DEF ResultShape, Evaluated
<1> SUFFICES Sound(r)
  OBVIOUS
<1> HIDE DEF Sound
<1>4. CASE r \in OwnReports(w)
  <2>1. CASE r \in BillingReports
    <3>1. CASE \E h \in BOOLEAN :
                 r = [Silent("check_refund_eligibility") EXCEPT !.human = h]
      BY <3>1, <1>1 DEF Tools
    <3>2. CASE \E h \in BOOLEAN, c \in BOOLEAN : r = Refund(h, c)
      BY <3>2, <1>1 DEF Tools
    <3> QED
      BY <2>1, <3>1, <3>2 DEF BillingReports
  <2>2. CASE r \in LogisticsReports
    <3>1. PICK h \in BOOLEAN : r = [Silent("get_shipment") EXCEPT !.missing = h]
      BY <2>2 DEF LogisticsReports
    <3> QED
      BY <3>1, <1>1 DEF Tools
  <2>3. CASE r \in AccountReports
    <3>1. PICK tool \in {"get_customer", "verify_identity"},
               a \in {"active", "unusable"} :
            r = [Silent(tool) EXCEPT !.account = a]
      BY <2>3 DEF AccountReports
    <3> QED
      BY <3>1, <1>2 DEF Tools
  <2>4. OwnReports(w) \in {BillingReports, LogisticsReports, AccountReports}
    BY DEF OwnReports, Workers
  <2> QED
    BY <1>4, <2>1, <2>2, <2>3, <2>4
<1>5. CASE r \in CatalogReports
  <2>1. PICK t \in Triggers, i \in BOOLEAN : r = Evaluated(t, i)
    BY <1>5 DEF CatalogReports
  <2> QED
    BY <2>1, <1>3
<1>6. CASE r \in Failures \union {Silent("lookup")}
  <2>1. CASE r = Silent("lookup")
    BY <2>1, <1>1 DEF Tools
  <2>2. CASE r \in Failures
    <3>1. PICK tool \in Tools : r = [Silent(tool) EXCEPT !.error = TRUE]
      BY <2>2 DEF Failures
    <3> QED
      BY <3>1, <1>1
  <2> QED
    BY <1>6, <2>1, <2>2
<1> QED
  BY <1>4, <1>5, <1>6 DEF Results

LEMMA FactsTrigger ==
  ASSUME NEW f \in Facts
  PROVE  /\ EscalationFromFacts(f) \in Triggers
         /\ \/ EscalationFromFacts(f) = NoTrigger
            \/ EscalationFromFacts(f) \in ALWAYS_ESCALATE
BY DEF EscalationFromFacts, Facts, Triggers, ShouldEscalate, ALWAYS_ESCALATE,
       NoTrigger

LEMMA VerdictShape ==
  ASSUME NEW d \in Decisions, NEW f \in Facts
  PROVE  Verdict(d, f) \in Verdicts
BY FactsTrigger DEF Verdict, Verdicts, Decisions

-----------------------------------------------------------------------------
(* Type correctness *)

\* The loop is never entered with the cap used up.
RoundsLeft == phase \in {"asking", "calling"} => round < MaxRounds

LEMMA LoopTypeStep == TypeOK /\ RoundsLeft /\ [Next]_vars => TypeOK' /\ RoundsLeft'
<1> SUFFICES ASSUME TypeOK, RoundsLeft, [Next]_vars PROVE TypeOK' /\ RoundsLeft'
  OBVIOUS
<1> USE LoopAssumption DEF TypeOK, RoundsLeft, Phases
<1>1. CASE Request
  BY <1>1 DEF Request
<1>2. CASE Answer
  BY <1>2, VerdictShape DEF Answer
<1>3. CASE Raise
  BY <1>3 DEF Raise
<1>4. CASE Call
  <2>1. PICK r \in Results(worker) :
          /\ decision' = Decided(decision, r)
          /\ facts' = Learned(facts, r)
          /\ demands' = demands \union Demanded(r)
    BY <1>4 DEF Call
  <2>2. r \in ResultShape
    BY ResultsShape
  <2>3. decision' \in Decisions
    BY <2>1, <2>2 DEF Decided, Decisions, ResultShape
  <2>4. facts' \in Facts
    BY <2>1, <2>2 DEF Learned, Facts, ResultShape
  <2>5. demands' \subseteq DemandKinds
    BY <2>1 DEF Demanded
  <2>6. pending' \in 0 .. MaxCalls
    BY <1>4 DEF Call
  <2> QED
    BY <1>4, <2>3, <2>4, <2>5, <2>6 DEF Call
<1>5. CASE EndRound
  <2>1. CASE round + 1 < MaxRounds
    BY <1>5, <2>1 DEF EndRound
  <2>2. CASE ~ (round + 1 < MaxRounds)
    BY <1>5, <2>2, VerdictShape DEF EndRound
  <2> QED
    BY <2>1, <2>2
<1>6. CASE Ended \/ UNCHANGED vars
  BY <1>6 DEF Ended, vars
<1> QED
  BY <1>1, <1>2, <1>3, <1>4, <1>5, <1>6 DEF Next

\* A worker run stays in its domains, and never asks more often than allowed.
THEOREM LoopTypeCorrect == Spec => []TypeOK
<1>1. Init => TypeOK /\ RoundsLeft
  BY LoopAssumption, NoTriggerIsQuiet
  DEF Init, TypeOK, RoundsLeft, Phases, NoVerdict, Verdicts, NoDecision,
      Decisions, Facts
<1> QED
  BY <1>1, LoopTypeStep, PTL DEF Spec

-----------------------------------------------------------------------------
(* The verdict agrees with itself and with what was heard *)

\* A decision that names an escalating trigger also requires a human, and what
\* the loop would hand over for was heard from a tool.
HeardInv ==
  /\ ShouldEscalate(decision.trigger, decision.insists) => decision.requiresHuman
  /\ decision.requiresHuman => "decision" \in demands
  /\ facts.trigger \in ALWAYS_ESCALATE => "decision" \in demands
  /\ facts.insists => "insists" \in demands
  /\ facts.missing => "missing" \in demands
  /\ facts.account = "unusable" => "unusable" \in demands
  /\ verdict = IF phase = "answered" THEN Verdict(decision, facts) ELSE NoVerdict

LEMMA HeardStep == TypeOK /\ HeardInv /\ [Next]_vars => HeardInv'
<1> SUFFICES ASSUME TypeOK, HeardInv, [Next]_vars PROVE HeardInv'
  OBVIOUS
<1>1. CASE Call
  <2>1. PICK r \in Results(worker) :
          /\ decision' = Decided(decision, r)
          /\ facts' = Learned(facts, r)
          /\ demands' = demands \union Demanded(r)
    BY <1>1 DEF Call
  <2>2. r \in ResultShape /\ (ShouldEscalate(r.trigger, r.insists) => r.human)
    BY ResultsShape DEF TypeOK
  <2>3. /\ r.human => "decision" \in demands'
        /\ r.insists => "insists" \in demands'
        /\ r.missing => "missing" \in demands'
        /\ r.account = "unusable" => "unusable" \in demands'
        /\ demands \subseteq demands'
    BY <2>1 DEF Demanded, DemandKinds
  <2>4. r.trigger \in ALWAYS_ESCALATE => r.human
    BY <2>2 DEF ShouldEscalate
  <2>5. ShouldEscalate(decision'.trigger, decision'.insists)
          => decision'.requiresHuman
    BY <2>1, <2>2 DEF Decided, HeardInv
  <2>6. decision'.requiresHuman => "decision" \in demands'
    BY <2>1, <2>3 DEF Decided, HeardInv
  <2>7. facts'.trigger \in ALWAYS_ESCALATE => "decision" \in demands'
    BY <2>1, <2>3, <2>4 DEF Learned, HeardInv
  <2>8. /\ facts'.insists => "insists" \in demands'
        /\ facts'.missing => "missing" \in demands'
        /\ facts'.account = "unusable" => "unusable" \in demands'
    BY <2>1, <2>3 DEF Learned, HeardInv
  <2> QED
    BY <1>1, <2>5, <2>6, <2>7, <2>8 DEF Call, HeardInv
<1>2. CASE Request \/ Answer \/ Raise \/ EndRound \/ Ended \/ UNCHANGED vars
  BY <1>2 DEF Request, Answer, Raise, EndRound, Ended, vars, HeardInv
<1> QED
  BY <1>1, <1>2 DEF Next

LEMMA HeardAlways == Spec => [](TypeOK /\ HeardInv)
<1>1. Init => HeardInv
  <2> SUFFICES ASSUME Init PROVE HeardInv
    OBVIOUS
  <2>1. ~ ShouldEscalate(decision.trigger, decision.insists)
    BY NoTriggerIsQuiet, Zenon DEF Init, NoDecision
  <2>2. decision.requiresHuman = FALSE /\ facts.trigger = NoTrigger
        /\ facts.insists = FALSE /\ facts.missing = FALSE
        /\ facts.account = "unknown"
    BY DEF Init, NoDecision
  <2>3. verdict = NoVerdict /\ phase = "asking"
    BY DEF Init
  <2> QED
    BY <2>1, <2>2, <2>3, NoTriggerIsQuiet DEF HeardInv
<1> QED
  BY <1>1, HeardStep, LoopTypeCorrect, PTL DEF Spec

\* Whatever the model calls, in any order, needs_human and the sticky policy
\* decision of a worker's run say the same.
THEOREM GateAgrees == Spec => []GateMatchesFlag
<1>1. TypeOK /\ HeardInv => GateMatchesFlag
  <2> SUFFICES ASSUME TypeOK, HeardInv, phase = "answered"
               PROVE  RequiresEscalation(verdict.decision) = verdict.needsHuman
    BY DEF GateMatchesFlag
  <2>1. verdict = Verdict(decision, facts)
    BY DEF HeardInv
  <2>2. CASE EscalationFromFacts(facts) = NoTrigger
    BY <2>1, <2>2 DEF Verdict, RequiresEscalation, HeardInv, TypeOK, Decisions
  <2>3. CASE EscalationFromFacts(facts) # NoTrigger
    BY <2>1, <2>3 DEF Verdict, RequiresEscalation, TypeOK, Decisions
  <2> QED
    BY <2>2, <2>3
<1> QED
  BY <1>1, HeardAlways, PTL

\* Nobody is handed over for nothing.
THEOREM HandoffsAreGrounded == Spec => []HandoffHasReason
<1>1. TypeOK /\ HeardInv => HandoffHasReason
  <2> SUFFICES ASSUME TypeOK, HeardInv, verdict.needsHuman
               PROVE  demands # {}
    BY DEF HandoffHasReason
  <2>1. verdict = Verdict(decision, facts)
    BY DEF HeardInv, NoVerdict
  <2>2. decision.requiresHuman \/ EscalationFromFacts(facts) # NoTrigger
    BY <2>1 DEF Verdict
  <2>3. \/ "decision" \in demands \/ "insists" \in demands
        \/ "missing" \in demands \/ "unusable" \in demands
    BY <2>2 DEF EscalationFromFacts, ShouldEscalate, HeardInv
  <2> QED
    BY <2>3
<1> QED
  BY <1>1, HeardAlways, PTL
=============================================================================
