----------------------------- MODULE SupportGraph -----------------------------
(***************************************************************************)
(* The support workflow node by node, over the turns of one conversation.  *)
(* Every node ends with a checkpoint: the channels it returned and the     *)
(* node that is next.  The channels outlive the run, the deaths of runs,   *)
(* and the human's answer, so a turn starts from what earlier ones left.   *)
(* TicketDesk has the same graph in coarser steps, under concurrent        *)
(* requests; here one run at a time drives the thread.                     *)
(*                                                                         *)
(* A text is known by the turn and the node that wrote it.  Left out: the  *)
(* profile and order summary (prompt material), confidence, which no edge  *)
(* reads, and refund_executed, which no tool ever sets.                    *)
(***************************************************************************)
EXTENDS Naturals, EscalationCatalog

CONSTANT MaxTurns \* bound: messages of the customer

ASSUME TurnsAssumption == MaxTurns \in Nat

VARIABLES
  next,     \* the node the latest checkpoint goes on with
  waiting,  \* the escalation node has interrupted and waits for a human
  channels, \* needs_human, policy_decision, draft_answer
  driver,   \* what drives the thread: a customer's turn, a reply, nothing
  answer,   \* the reply's answer has not been used yet
  turn,     \* messages of the customer so far
  account,  \* account_status in the database
  loaded,   \* account_status as the context node of the present turn read it
  shown     \* what the last run that ended showed

vars == <<next, waiting, channels, driver, answer, turn, account, loaded, shown>>

Workers == {"billing", "logistics", "account"}
Nodes == Workers \union {"input_guardrails", "load_customer_context",
                         "supervisor", "escalation", "resolution",
                         "output_guardrails"}

Statuses == {"active", "unusable"}
Writers == {"nobody", "worker", "guardrail", "human", "handoff"}
Draft == [by : Writers, turn : 0 .. MaxTurns]
Channels == [needsHuman : BOOLEAN, decision : Decisions, draft : Draft]
Shown == [draft : Draft, notice : BOOLEAN, turn : 0 .. MaxTurns]

NoDraft == [by |-> "nobody", turn |-> 0]

Init ==
  /\ next = "start" /\ waiting = FALSE
  /\ channels = [needsHuman |-> FALSE, decision |-> NoDecision, draft |-> NoDraft]
  /\ driver = "nobody" /\ answer = FALSE
  /\ turn = 0
  /\ account \in Statuses /\ loaded = "unread"
  /\ shown = [draft |-> NoDraft, notice |-> FALSE, turn |-> 0]

-----------------------------------------------------------------------------
(* Starting a run *)

\* New input restarts the thread at its entry; an interrupt, or what a dead run
\* left to do, is dropped.
Ask ==
  /\ driver = "nobody" /\ turn < MaxTurns
  /\ turn' = turn + 1
  /\ driver' = "turn"
  /\ next' = "input_guardrails" /\ waiting' = FALSE
  /\ loaded' = "unread"
  /\ UNCHANGED <<channels, answer, account, shown>>

\* Command(resume): answers the interrupt, goes on with a dead run, or finds
\* nothing to do.
Reply ==
  /\ driver = "nobody" /\ turn > 0
  /\ driver' = "reply" /\ answer' = TRUE /\ waiting' = FALSE
  /\ UNCHANGED <<next, channels, turn, account, loaded, shown>>

-----------------------------------------------------------------------------
(* The nodes *)

At(node) == driver # "nobody" /\ ~ waiting /\ next = node

\* The answer is for the node that was pending; whether the library still holds
\* it when a later node asks is left open.
NodeDone(node) ==
  /\ next' = node
  /\ answer' \in {answer, FALSE}
  /\ UNCHANGED <<waiting, driver, turn, account, shown>>

Gated == channels.needsHuman \/ RequiresEscalation(channels.decision)

InputGuardrails ==
  /\ At("input_guardrails")
  /\ \/ channels' = [channels EXCEPT !.needsHuman = TRUE,
                                     !.draft = [by |-> "guardrail", turn |-> turn]]
     \/ UNCHANGED channels
  /\ NodeDone("load_customer_context")
  /\ UNCHANGED loaded

Unusable == [requiresHuman |-> TRUE, trigger |-> "unusable_identity",
             insists |-> FALSE]

\* Mutant of LoadContext: an unusable account is only noted in the profile.
LoadContextOnly ==
  /\ At("load_customer_context")
  /\ loaded' = account
  /\ UNCHANGED channels
  /\ NodeDone("supervisor")

LoadContext ==
  /\ At("load_customer_context")
  /\ loaded' = account
  /\ channels' = IF account = "unusable"
                   THEN [channels EXCEPT !.needsHuman = TRUE, !.decision = Unusable]
                   ELSE channels
  /\ NodeDone("supervisor")

\* Mutant of Supervisor: an unknown intent has no default route.
SupervisorLiteral ==
  /\ At("supervisor")
  /\ \E intent \in Workers \union {"returns"} :
       NodeDone(IF Gated THEN "escalation" ELSE intent)
  /\ UNCHANGED <<channels, loaded>>

\* Whatever the classifier says, the gate comes first; an unknown intent goes to
\* logistics.
Supervisor ==
  /\ At("supervisor")
  /\ \E worker \in Workers : NodeDone(IF Gated THEN "escalation" ELSE worker)
  /\ UNCHANGED <<channels, loaded>>

\* What a worker's tool loop may decide, as far as the gate can tell: nothing, a
\* policy demand, a lawful refusal, or one the customer insists against.
WorkerDecisions ==
  {NoDecision,
   [requiresHuman |-> TRUE, trigger |-> NoTrigger, insists |-> FALSE],
   [requiresHuman |-> FALSE, trigger |-> "lawful_refusal", insists |-> FALSE],
   [requiresHuman |-> TRUE, trigger |-> "policy_exception_demanded", insists |-> TRUE]}

\* ToolLoop's GateMatchesFlag: the flag says what the gate reads.
Work ==
  \E worker \in Workers, d \in WorkerDecisions :
    /\ At(worker)
    /\ channels' = [needsHuman |-> RequiresEscalation(d), decision |-> d,
                    draft |-> [by |-> "worker", turn |-> turn]]
    /\ NodeDone(IF RequiresEscalation(d) THEN "escalation" ELSE "resolution")
    /\ UNCHANGED loaded

\* interrupt(), without an answer.
Interrupt ==
  /\ At("escalation") /\ ~ answer
  /\ waiting' = TRUE
  /\ UNCHANGED <<next, channels, driver, answer, turn, account, loaded, shown>>

\* Mutant of Resume: the answered demand is withdrawn.
ResumeCleared ==
  /\ At("escalation") /\ answer
  /\ channels' = [needsHuman |-> FALSE, decision |-> NoDecision,
                  draft |-> [by |-> "human", turn |-> turn]]
  /\ next' = "output_guardrails" /\ answer' = FALSE
  /\ UNCHANGED <<waiting, driver, turn, account, loaded, shown>>

\* interrupt() returns the human's answer.  The flag is cleared, the policy
\* decision stays.
Resume ==
  /\ At("escalation") /\ answer
  /\ channels' = [channels EXCEPT !.needsHuman = FALSE,
                                  !.draft = [by |-> "human", turn |-> turn]]
  /\ next' = "output_guardrails" /\ answer' = FALSE
  /\ UNCHANGED <<waiting, driver, turn, account, loaded, shown>>

Resolve ==
  /\ At("resolution")
  /\ channels' = [channels EXCEPT !.needsHuman = FALSE]
  /\ NodeDone("output_guardrails")
  /\ UNCHANGED loaded

\* The text passes, or a handoff replaces it, a human's text included; the run
\* ends all the same, without an interrupt.
OutputGuardrails ==
  /\ At("output_guardrails")
  /\ \/ UNCHANGED channels
     \/ channels' = [channels EXCEPT !.needsHuman = TRUE,
                                     !.draft = [by |-> "handoff", turn |-> turn]]
  /\ NodeDone("end")
  /\ UNCHANGED loaded

-----------------------------------------------------------------------------
(* The end of a run *)

\* Mutant of Noticed: only the canned text counts as a handoff.
NoticedByText(draft, waits) == draft.by = "handoff"

\* The interrupt's payload adds the handoff notice to the draft so far.
Noticed(draft, waits) == waits \/ draft.by = "handoff"

\* Mutant of Persist: only a run that came to its end is persisted.
PersistAnswered ==
  /\ driver # "nobody" /\ next = "end"
  /\ shown' = [draft |-> channels.draft, turn |-> turn,
               notice |-> Noticed(channels.draft, waiting)]
  /\ driver' = "nobody" /\ answer' = FALSE
  /\ UNCHANGED <<next, waiting, channels, turn, account, loaded>>

\* persist_graph_result shows the interrupt's payload, or the draft.
Persist ==
  /\ driver # "nobody" /\ (waiting \/ next = "end")
  /\ shown' = [draft |-> channels.draft, turn |-> turn,
               notice |-> Noticed(channels.draft, waiting)]
  /\ driver' = "nobody" /\ answer' = FALSE
  /\ UNCHANGED <<next, waiting, channels, turn, account, loaded>>

\* A node raises, the stream is cut or the process dies: the checkpoint stays.
Die ==
  /\ driver # "nobody"
  /\ driver' = "nobody" /\ answer' = FALSE
  /\ UNCHANGED <<next, waiting, channels, turn, account, loaded, shown>>

\* The merchant suspends or restores the account.
Moderate ==
  /\ account' \in Statuses \ {account}
  /\ UNCHANGED <<next, waiting, channels, driver, answer, turn, loaded, shown>>

RunStep ==
  \/ InputGuardrails \/ LoadContext \/ Supervisor \/ Work
  \/ Interrupt \/ Resume \/ Resolve \/ OutputGuardrails \/ Persist

Next == Ask \/ Reply \/ RunStep \/ Die \/ Moderate

Spec == Init /\ [][Next]_vars

\* A node returns or raises: model calls and queries have timeouts.
FairSpec == Spec /\ WF_vars(RunStep)

-----------------------------------------------------------------------------
(* Properties *)

TypeOK ==
  /\ next \in Nodes \union {"start", "end"}
  /\ waiting \in BOOLEAN
  /\ channels \in Channels
  /\ driver \in {"nobody", "turn", "reply"}
  /\ answer \in BOOLEAN
  /\ turn \in 0 .. MaxTurns
  /\ account \in Statuses
  /\ loaded \in Statuses \union {"unread"}
  /\ shown \in Shown

\* The draft of an earlier turn is never passed off as the answer to this one:
\* where the persisted channel is all a gated run has to show, the customer sees
\* it with the notice that a specialist takes over.
OldDraftsAreMarked == shown.draft.turn = shown.turn \/ shown.notice

\* No worker, with its tools, is reached by a turn whose context node found the
\* account unusable, nor by one that read no context, however often runs die and
\* replies pick up what they left.
UnusableAccountsReachNoWorker == next \in Workers => loaded = "active"

\* A demand for a human in the policy decision is never withdrawn, neither by
\* the human's answer nor by later turns: from then on the conversation is in
\* human hands.
DemandIsForever ==
  LET demands == RequiresEscalation(channels.decision)
  IN [](demands => []demands)

\* Every run that is started ends: with an answer, an interrupt or a failure.
RunsEnd == driver # "nobody" ~> driver = "nobody"
=============================================================================
