-------------------------- MODULE SupportGraphProofs --------------------------
(***************************************************************************)
(* What holds of the workflow for a conversation of any length.            *)
(***************************************************************************)
EXTENDS SupportGraph, TLAPS

Demands == RequiresEscalation(channels.decision)

\* What a checkpoint says by the node it goes on with, whoever drives it: behind
\* a worker, the resolution or a reply the draft is this turn's; a turn that is
\* before the gate without an active account will be stopped there; a worker is
\* only reached past the gate, so no demand is pending.
CheckpointsAreSound ==
  /\ next \in {"resolution", "output_guardrails", "end"} => channels.draft.turn = turn
  /\ next = "supervisor" => loaded = "active" \/ Gated
  /\ next \in Workers => loaded = "active" /\ ~ Demands

IInv == TypeOK /\ CheckpointsAreSound

-----------------------------------------------------------------------------
(* Types *)

LEMMA DecisionTypes ==
  /\ NoDecision \in Decisions /\ Unusable \in Decisions
  /\ WorkerDecisions \subseteq Decisions
BY DEF NoDecision, Unusable, WorkerDecisions, Decisions, Triggers, NoTrigger,
       ALWAYS_ESCALATE, AUTONOMOUS_TRIGGERS

LEMMA GateIsBoolean ==
  ASSUME NEW d \in Decisions
  PROVE  RequiresEscalation(d) \in BOOLEAN
BY DEF RequiresEscalation, Decisions

\* A draft written now is a draft of this turn.
LEMMA DraftIsNow ==
  ASSUME TypeOK, NEW by \in Writers
  PROVE  [by |-> by, turn |-> turn] \in Draft
BY DEF TypeOK, Draft

LEMMA ChannelFields ==
  ASSUME TypeOK
  PROVE  /\ channels.needsHuman \in BOOLEAN /\ channels.decision \in Decisions
         /\ channels.draft \in Draft
BY DEF TypeOK, Channels

LEMMA ChannelUpdates ==
  ASSUME NEW c \in Channels, NEW flag \in BOOLEAN, NEW d \in Decisions,
         NEW draft \in Draft
  PROVE  /\ [c EXCEPT !.needsHuman = flag] \in Channels
         /\ [c EXCEPT !.needsHuman = flag, !.decision = d] \in Channels
         /\ [c EXCEPT !.needsHuman = flag, !.draft = draft] \in Channels
         /\ [needsHuman |-> flag, decision |-> d, draft |-> draft] \in Channels
<1>1. [c EXCEPT !.needsHuman = flag] \in Channels
  BY DEF Channels
<1>2. \A e \in Channels : [e EXCEPT !.decision = d] \in Channels
                          /\ [e EXCEPT !.draft = draft] \in Channels
  BY DEF Channels
<1>3. [c EXCEPT !.needsHuman = flag, !.decision = d] \in Channels
  BY DEF Channels
<1>4. [c EXCEPT !.needsHuman = flag, !.draft = draft] \in Channels
  BY DEF Channels
<1>5. [needsHuman |-> flag, decision |-> d, draft |-> draft] \in Channels
  BY DEF Channels
<1> QED
  BY <1>1, <1>3, <1>4, <1>5

-----------------------------------------------------------------------------
(* Steps *)

LEMMA InitIsSound == Init => IInv /\ OldDraftsAreMarked
<1> SUFFICES ASSUME Init PROVE IInv /\ OldDraftsAreMarked
  OBVIOUS
<1>1. NoDraft \in Draft
  BY TurnsAssumption DEF NoDraft, Draft, Writers
<1>2. channels \in Channels
  BY <1>1, DecisionTypes DEF Init, Channels
<1>3. shown \in Shown
  BY <1>1, TurnsAssumption DEF Init, Shown
<1>4. TypeOK
  <2>1. /\ next = "start" /\ waiting = FALSE /\ driver = "nobody" /\ answer = FALSE
        /\ turn = 0 /\ account \in Statuses /\ loaded = "unread"
    BY DEF Init
  <2>2. waiting \in BOOLEAN /\ answer \in BOOLEAN
    BY <2>1, Zenon
  <2>3. turn \in 0 .. MaxTurns
    BY <2>1, TurnsAssumption
  <2>4. next \in Nodes \union {"start", "end"} /\ driver \in {"nobody", "turn", "reply"}
        /\ loaded \in Statuses \union {"unread"}
    BY <2>1
  <2> QED
    BY <1>2, <1>3, <2>1, <2>2, <2>3, <2>4, Zenon DEF TypeOK
<1>5. CheckpointsAreSound /\ OldDraftsAreMarked
  BY DEF Init, CheckpointsAreSound, Workers, OldDraftsAreMarked, NoDraft
<1> QED
  BY <1>4, <1>5 DEF IInv

\* Most nodes only write channels and hand over to the next node.
LEMMA NodeSteps ==
  ASSUME TypeOK, NEW node \in Nodes \union {"end"}, NodeDone(node),
         channels' \in Channels, loaded' \in Statuses \union {"unread"},
         node \in {"resolution", "output_guardrails", "end"}
           => channels'.draft.turn = turn,
         node = "supervisor" => loaded' = "active" \/ channels'.needsHuman,
         node \in Workers => loaded' = "active"
                             /\ ~ RequiresEscalation(channels'.decision)
  PROVE  IInv'
<1>1. TypeOK'
  BY DEF TypeOK, NodeDone
<1>2. CheckpointsAreSound'
  BY DEF CheckpointsAreSound, NodeDone, Gated, Demands
<1> QED
  BY <1>1, <1>2 DEF IInv

LEMMA StepIsSound == IInv /\ [Next]_vars => IInv'
<1> SUFFICES ASSUME IInv, [Next]_vars PROVE IInv'
  OBVIOUS
<1>0. TypeOK /\ CheckpointsAreSound /\ channels \in Channels
      /\ loaded \in Statuses \union {"unread"} /\ turn \in 0 .. MaxTurns
  BY DEF IInv, TypeOK
<1> USE DEF Workers
<1>1. CASE Ask
  <2>1. turn' \in 0 .. MaxTurns
    BY <1>0, <1>1, TurnsAssumption DEF Ask
  <2>2. TypeOK'
    BY <1>0, <1>1, <2>1 DEF Ask, TypeOK, Nodes
  <2> QED
    BY <1>1, <2>2 DEF Ask, IInv, CheckpointsAreSound
<1>2. CASE Reply
  <2>1. TypeOK'
    BY <1>0, <1>2 DEF Reply, TypeOK
  <2> QED
    BY <1>0, <1>2, <2>1 DEF Reply, IInv, CheckpointsAreSound, Gated, Demands
<1>3. CASE InputGuardrails
  <2>1. channels' \in Channels /\ loaded' = loaded
        /\ NodeDone("load_customer_context")
    BY <1>0, <1>3, DraftIsNow, ChannelUpdates, ChannelFields
    DEF InputGuardrails, Writers
  <2> QED
    BY <1>0, <2>1, NodeSteps DEF Nodes
<1>4. CASE LoadContext
  <2>1. loaded' = account /\ account \in Statuses /\ NodeDone("supervisor")
    BY <1>0, <1>4 DEF LoadContext, TypeOK
  <2>2. CASE account = "unusable"
    <3>1. channels' = [channels EXCEPT !.needsHuman = TRUE, !.decision = Unusable]
      BY <1>4, <2>2 DEF LoadContext
    <3>2. channels' \in Channels
      BY <1>0, <3>1, ChannelUpdates, ChannelFields, DecisionTypes
    <3>3. channels'.needsHuman
      BY <1>0, <3>1 DEF Channels
    <3> QED
      BY <1>0, <2>1, <3>2, <3>3, NodeSteps DEF Nodes
  <2>3. CASE account # "unusable"
    <3>1. channels' = channels /\ account = "active"
      BY <1>4, <2>1, <2>3 DEF LoadContext, Statuses
    <3> QED
      BY <1>0, <2>1, <3>1, NodeSteps DEF Nodes
  <2> QED
    BY <2>2, <2>3
<1>5. CASE Supervisor
  <2>1. /\ channels' = channels /\ loaded' = loaded
        /\ loaded = "active" \/ Gated
    BY <1>0, <1>5 DEF Supervisor, At, CheckpointsAreSound
  <2>2. CASE Gated
    <3>1. NodeDone("escalation")
      BY <1>5, <2>2 DEF Supervisor
    <3> QED
      BY <1>0, <2>1, <3>1, NodeSteps DEF Nodes
  <2>3. CASE ~ Gated
    <3>1. PICK worker \in Workers : NodeDone(worker)
      BY <1>5, <2>3 DEF Supervisor
    <3>2. loaded = "active" /\ ~ RequiresEscalation(channels.decision)
      BY <2>1, <2>3 DEF Gated
    <3> QED
      BY <1>0, <2>1, <3>1, <3>2, NodeSteps DEF Nodes
  <2> QED
    BY <2>2, <2>3
<1>6. CASE Work
  <2>1. PICK worker \in Workers, d \in WorkerDecisions :
          /\ channels' = [needsHuman |-> RequiresEscalation(d), decision |-> d,
                          draft |-> [by |-> "worker", turn |-> turn]]
          /\ NodeDone(IF RequiresEscalation(d) THEN "escalation" ELSE "resolution")
          /\ loaded' = loaded
    BY <1>6 DEF Work
  <2>2. channels' \in Channels
    BY <1>0, <2>1, DecisionTypes, GateIsBoolean, DraftIsNow, ChannelUpdates
    DEF Writers
  <2>3. channels'.draft.turn = turn
    BY <2>1
  <2> QED
    BY <1>0, <2>1, <2>2, <2>3, NodeSteps DEF Nodes
<1>7. CASE Interrupt
  <2>1. TypeOK'
    BY <1>0, <1>7 DEF Interrupt, TypeOK
  <2> QED
    BY <1>0, <1>7, <2>1
    DEF Interrupt, IInv, CheckpointsAreSound, Gated, Demands
<1>8. CASE Resume
  <2>1. channels' = [channels EXCEPT !.needsHuman = FALSE,
                                     !.draft = [by |-> "human", turn |-> turn]]
    BY <1>8 DEF Resume
  <2>2. channels' \in Channels
    BY <1>0, <2>1, DraftIsNow, ChannelUpdates, ChannelFields DEF Writers
  <2>3. channels'.draft.turn = turn
    BY <1>0, <2>1 DEF Channels
  <2>4. TypeOK'
    BY <1>0, <1>8, <2>2 DEF Resume, TypeOK, Nodes
  <2> QED
    BY <1>8, <2>3, <2>4 DEF Resume, IInv, CheckpointsAreSound
<1>9. CASE Resolve
  <2>1. channels' \in Channels /\ channels'.draft = channels.draft
    BY <1>0, <1>9 DEF Resolve, Channels
  <2>2. NodeDone("output_guardrails") /\ loaded' = loaded
        /\ channels.draft.turn = turn
    BY <1>0, <1>9 DEF Resolve, At, CheckpointsAreSound
  <2> QED
    BY <1>0, <2>1, <2>2, NodeSteps DEF Nodes
<1>10. CASE OutputGuardrails
  <2>1. NodeDone("end") /\ loaded' = loaded /\ channels.draft.turn = turn
    BY <1>0, <1>10 DEF OutputGuardrails, At, CheckpointsAreSound
  <2>2. CASE channels' = channels
    BY <1>0, <2>1, <2>2, NodeSteps DEF Nodes
  <2>3. CASE channels' = [channels EXCEPT !.needsHuman = TRUE,
                            !.draft = [by |-> "handoff", turn |-> turn]]
    <3>1. channels' \in Channels
      BY <1>0, <2>3, DraftIsNow, ChannelUpdates, ChannelFields DEF Writers
    <3>2. channels'.draft.turn = turn
      BY <1>0, <2>3 DEF Channels
    <3> QED
      BY <1>0, <2>1, <3>1, <3>2, NodeSteps DEF Nodes
  <2> QED
    BY <1>10, <2>2, <2>3 DEF OutputGuardrails
<1>11. CASE Persist
  <2>1. shown' \in Shown
    <3>1. Noticed(channels.draft, waiting) \in BOOLEAN
      BY <1>0 DEF Noticed, TypeOK
    <3> QED
      BY <1>0, <1>11, <3>1, ChannelFields DEF Persist, Shown
  <2>2. TypeOK'
    BY <1>0, <1>11, <2>1 DEF Persist, TypeOK
  <2> QED
    BY <1>0, <1>11, <2>2 DEF Persist, IInv, CheckpointsAreSound, Gated, Demands
<1>12. CASE Die
  <2>1. TypeOK'
    BY <1>0, <1>12 DEF Die, TypeOK
  <2> QED
    BY <1>0, <1>12, <2>1 DEF Die, IInv, CheckpointsAreSound, Gated, Demands
<1>13. CASE Moderate
  <2>1. TypeOK'
    BY <1>0, <1>13 DEF Moderate, TypeOK
  <2> QED
    BY <1>0, <1>13, <2>1 DEF Moderate, IInv, CheckpointsAreSound, Gated, Demands
<1>14. CASE UNCHANGED vars
  BY <1>0, <1>14 DEF vars, IInv, TypeOK, CheckpointsAreSound, Gated, Demands
<1> QED
  BY <1>1, <1>2, <1>3, <1>4, <1>5, <1>6, <1>7, <1>8, <1>9, <1>10, <1>11, <1>12,
     <1>13, <1>14 DEF Next, RunStep

LEMMA InvariantHolds == Spec => []IInv
BY InitIsSound, StepIsSound, PTL DEF Spec

\* The only step that shows a draft shows one of this turn, or an interrupt.
LEMMA MarkStep == IInv /\ OldDraftsAreMarked /\ [Next]_vars => OldDraftsAreMarked'
<1> SUFFICES ASSUME IInv, OldDraftsAreMarked, [Next]_vars
             PROVE  OldDraftsAreMarked'
  OBVIOUS
<1>1. CASE Persist
  <2>1. shown' = [draft |-> channels.draft, turn |-> turn,
                  notice |-> Noticed(channels.draft, waiting)]
    BY <1>1 DEF Persist
  <2>2. waiting \/ channels.draft.turn = turn
    BY <1>1 DEF Persist, IInv, CheckpointsAreSound
  <2> QED
    BY <2>1, <2>2 DEF OldDraftsAreMarked, Noticed
<1>2. CASE ~ Persist
  <2>1. shown' = shown
    BY <1>2 DEF Next, RunStep, Ask, Reply, InputGuardrails, LoadContext, Supervisor,
         Work, Interrupt, Resume, Resolve, OutputGuardrails, NodeDone, Die,
         Moderate, vars
  <2> QED
    BY <2>1 DEF OldDraftsAreMarked
<1> QED
  BY <1>1, <1>2

\* The context node only adds a demand; the only step that could overwrite one is
\* a worker's, and no worker is reached while there is one.
LEMMA DemandStep == IInv /\ Demands /\ [Next]_vars => Demands'
<1> SUFFICES ASSUME IInv, Demands, [Next]_vars PROVE Demands'
  OBVIOUS
<1>1. channels \in Channels
  BY DEF IInv, TypeOK
<1>2. CASE Work
  <2>1. next \in Workers
    BY <1>2 DEF Work, At
  <2> QED
    BY <2>1 DEF IInv, CheckpointsAreSound
<1>3. CASE LoadContext /\ account = "unusable"
  <2>1. channels'.decision = Unusable
    BY <1>1, <1>3 DEF LoadContext, Channels
  <2> QED
    BY <2>1 DEF Demands, RequiresEscalation, Unusable
<1>4. CASE ~ Work /\ ~ (LoadContext /\ account = "unusable")
  <2>1. channels'.decision = channels.decision
    BY <1>1, <1>4 DEF Next, RunStep, Ask, Reply, InputGuardrails, LoadContext,
         Supervisor, Interrupt, Resume, Resolve, OutputGuardrails, Persist,
         Die, Moderate, vars, Channels
  <2> QED
    BY <2>1 DEF Demands
<1> QED
  BY <1>2, <1>3, <1>4

-----------------------------------------------------------------------------
(* Theorems *)

\* Every checkpoint and every persisted answer is of its type, whatever runs die
\* and whatever the account becomes.
THEOREM GraphTypeCorrect == Spec => []TypeOK
<1>1. IInv => TypeOK
  BY DEF IInv
<1> QED
  BY <1>1, InvariantHolds, PTL

\* In a conversation of any length a draft of an earlier turn is only ever shown
\* with the handoff notice.
THEOREM OldDraftsStayMarked == Spec => []OldDraftsAreMarked
<1>1. Init => OldDraftsAreMarked
  BY InitIsSound
<1> QED
  BY <1>1, InvariantHolds, MarkStep, PTL DEF Spec

\* No turn whose context node found the account unusable, and none that read no
\* context, gets to a worker.
THEOREM UnusableAccountsStayOut == Spec => []UnusableAccountsReachNoWorker
<1>1. IInv => UnusableAccountsReachNoWorker
  BY DEF IInv, CheckpointsAreSound, UnusableAccountsReachNoWorker
<1> QED
  BY <1>1, InvariantHolds, PTL

\* A pending demand for a human outlives every run, answer and turn.
THEOREM DemandsLast == Spec => DemandIsForever
<1>1. Demands = RequiresEscalation(channels.decision)
  BY DEF Demands
<1>2. Spec => [](Demands => []Demands)
  BY InvariantHolds, DemandStep, PTL DEF Spec
<1> QED
  BY <1>2, PTL DEF DemandIsForever, Demands
=============================================================================
