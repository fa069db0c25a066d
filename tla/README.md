# Verification of the AI customer support platform

TLA+ models of the support platform in `src/`: a FastAPI service whose tickets
are answered by a LangGraph workflow with a PostgreSQL checkpoint, a Redis bus
for live events and a Next.js client. Paths below are relative to `src/`; every
definition that models code is listed with its lines under `map` in
`PROJECT.json`.

## 1. Inventory

| Component | State it keeps | Operations | Talks to |
|---|---|---|---|
| Ticket desk: `app/api/routes/tickets.py`, `portal.py`, `escalations.py`, `app/services/ticket_service.py`, `chat_service.py` | `tickets` row (status, assigned_agent, escalated_at, last_message_at), `ticket_messages`, `resolutions`, `agent_runs` | create, customer turn, console turn, `/resolve`, escalation reply, takeover, close, confirm, listings | support graph (invoke, resume, snapshot), session, chat bus |
| Support graph: `app/graph/*`, `app/services/graph_runner.py` | the thread's checkpoint: phase, needs_human, policy_decision, draft_answer, messages | the nodes input_guardrails, load_customer_context, supervisor, billing/logistics/account, escalation (interrupt), resolution, output_guardrails | workers, policy rules, checkpointer |
| Domain workers: `app/agents/*` | the message list and decision of one loop | model call, tool calls, at most 4 rounds | order tools, policy rules |
| Policy engine: `app/policies/*` | none (company.yaml) | can_refund, can_cancel, should_escalate, escalation_from_facts | |
| Order tools: `app/tools/*` | orders, refunds, returns, shipments | check_refund_eligibility, create_refund_request, cancel_order, create_return_request, verify_identity | session of the request |
| Sessions: `app/persistence.py`, `app/api/dependencies.py` | a transaction per request; engine pool; checkpointer pool (autocommit) | commit after the response, rollback | PostgreSQL |
| Chat bus: `app/services/chat_bus.py` | none (Redis pub/sub) | publish, subscribe with heartbeats | Redis |
| Chat client: `web/hooks/use-chat-stream.ts` | message list, draft, sending flag, live cache | send, apply bus event, upsert | API, bus |
| Trace recorder: `app/observability/trace_recorder.py` | buffered events, start times | callbacks, backfill, flush | ticket desk |
| Synthetic world: `app/synthetic/*`, `scripts/generate_data.py`, `seed_demo.py` | a generated world in memory, then every operational table; fixtures on disk | generate, check, count, replace, persist, export | policy rules (its labels), PostgreSQL beside the service |
| Analytics: `app/services/analytics_service.py` | 30 s Redis cache | overview, tools | PostgreSQL, Redis |
| Others | | security checks, retrieval, evaluation, migrations, pages | |

What is hard, and what correctness means there:

* **Requests on one ticket overlap.** Each loads its own copy of the row and
  writes back the columns it changed. There is no version column, no
  `FOR UPDATE`, no per-ticket mutex. Correct means: turns do not drive one
  thread at the same time, an escalation is not lost from the queue, a closed
  ticket stays closed, a takeover silences the AI.
* **Two stores, two commits.** The checkpoint is autocommitted node by node, the
  row and the messages are committed after the response. Correct means: what the
  ticket says and what the thread waits for agree once everybody is done, and no
  answer appears without its question.
* **Streams end early.** Clients disconnect, Redis fails, and the heartbeat
  wrapper cancels a silent turn. Correct means: every accepted request ends, with
  an answer where the code promises one.
* **Channels persist across turns.** needs_human and policy_decision of one turn
  gate the next one.
* **Rules have boundaries and an order** (windows, threshold, catalog).
* **Events are published before the commit and never replayed**, and a window
  merges five sources of one message. Correct means: no message twice, none
  missing that the window could know, none that is not in the ticket.
* **Tools write inside a turn that may still fail.** Correct means: an answer
  reports only what is stored, and what is stored stands on the order's facts.
* **Generated data is replaced under a running service and ages.** Correct means:
  the labels agree with the rules while they last, and one world never mixes with
  the conversations of another.

The full list, each at its line, is `hazards` in `PROJECT.json`.

## 2. Plan

In the order in which they were written; each uses the ones it names.

1. `TicketDesk` (core): one ticket, its thread, concurrent requests. With
   `MCTicketDesk` and `TicketDeskProofs`.
2. `ToolLoop` with `EscalationCatalog`: the bounded loop of a worker.
3. `RefundRules`, `PolicyRules`: the merchant's decisions, and a claim's life.
4. `TicketLedger`: the abstract ticket, which `TicketDesk` implements.
5. `OrderDesk`: the writing tools under overlapping turns; extends `PolicyRules`.
6. `SupportGraph`: the workflow node by node over several turns; extends
   `EscalationCatalog`.
7. `LiveChat`: requests, bus, stream and window.
8. `SyntheticWorld` and `WorldLoader`: generated data, its labels (checked with
   `RefundRules` and `EscalationCatalog`) and the scripts that load it.

Not begun: the resolutions row with its lock order, the connection pool that
`/events` subscribers hold, and the trace recorder's pairing of callbacks. A
refinement of `TicketDesk`'s run by `SupportGraph` is not stated: the coarse run
leaves out which worker answers, and the parts they share (`RequiresEscalation`,
the channels) are the same definitions or the same lines.

## 3. Modules

### TicketDesk

One ticket and a set `Requests` of request slots; each slot serves one request of
one of the seven kinds in `Ops`. Its state, and the code it stands for:

| Variable | Code |
|---|---|
| `row` | the committed columns status, assigned_agent, `escalated_at is not null` of the `tickets` row |
| `transcript` | the committed `ticket_messages`, as author and writer |
| `holder` | the transaction that holds PostgreSQL's lock on the row |
| `ckpt` | the latest checkpoint of the thread: its phase and its channel values |
| `pc`, `op` | where a request is, and its kind |
| `mem`, `written`, `unsent` | the ORM copy of the row, the columns flushed, the messages flushed |
| `state` | the channel values the graph run of a request carries from node to node |
| `result` | what `snapshot_to_result` returns |
| `replied` | requests whose client got its final event or 200 body |

Actions, in the order of the code: `Load` (get_ticket_or_404 and the guards),
`TakeOver`, `Close`, `Confirm`; `CustomerAppend`, `HumanAppend`, `HumanCheck`,
`StartWithoutMessage` (the part of a turn, `/resolve` or reply before the graph);
`EnterGraph`, `RunNodes`, `EndGraph`, `Resume`, `FailGraph` (the run);
`StreamCut`, `WaitCut` (a stream that ends early); `Snapshot`, `Persist` (after it); `Commit`, `Abort` (get_db_session).

Decisions a reader should know of:

* A step is what runs between two points where another request can get in: an
  await on the database, the graph or the bus. `Flush` is guarded by the row lock
  because an UPDATE waits there; a flush that changes no column issues no UPDATE
  and does not wait, which is why `StartWithoutMessage` may pass where a turn
  waits.
* Isolation is READ COMMITTED, `expire_on_commit=False`, and a re-select does not
  refresh loaded columns, so a session works on the copy of its first load.
* `Overlaid` applies only the changed columns, as SQLAlchemy's UPDATE does.
* The graph's channels start from the checkpoint and the input sets only the
  messages, so needs_human, the policy gate and the draft of earlier turns are
  still there (`Entered`, `Worked`). New input on an interrupted thread drops the
  interrupt; `Command(resume)` on a finished thread does nothing and on a thread
  that died half-way runs the pending nodes. These three facts are LangGraph's
  (1.2 in `uv.lock`).
* A text is identified by the request that wrote it, so that properties can say
  whose answer or question is where.
* `Persist` merges the flushes of `persist_graph_result`. All but the first happen
  under the lock the first took, except in a `/resolve` that changed no ticket
  column; there the resolutions row (not modelled) is locked first.
* `MaySkip` lets a repeated answer be skipped or stored: which message is the last
  one is not in the model.
* A stream ends early in two ways. `StreamCut`: nothing arrives for a heartbeat
  period, `wait_for` cancels the turn's generator, or the client goes away; the
  stream then ends without an exception and the session commits half a turn.
  `WaitCut`: the cancellation meets the first flush while that waits for the row
  lock; the session is broken, its commit fails and the message is lost.
* With `Faults`, a session may die at any point (Redis refuses, the connection is
  lost, PostgreSQL breaks a deadlock, the process is killed), a snapshot may be
  unreadable, and a stream may be cut in any step. Without it, nodes still raise,
  the language model may be silent for a heartbeat period, and a turn may wait for
  the lock for as long.

### MCTicketDesk

Declares the symmetry of the request slots for TLC. `desk_live` uses none: it has
temporal properties.

### TicketLedger

What the desk promises to whoever reads the database: a ticket and a transcript
that change by whole operations, each request once or never, without sessions,
copies, locks, checkpoints or deaths. `TicketDesk!Ledger` is the INSTANCE, with
`row` and `transcript` as they are and `committed` as the requests that are done.
Its operations are as weak as the code: `Closed` may leave an agent who took the
ticket over since the close began.

### EscalationCatalog

The closed catalog of `policies/rules.py` (`ShouldEscalate`,
`EscalationFromFacts`) and what `graph/edges.py` reads from a policy decision
(`RequiresEscalation`), as operators without state. Facts that no tool of the
program sets (fraud, chargeback, privacy, technical assistance) are left out.

### ToolLoop, MCToolLoop

One run of `run_tool_loop` by one of the three workers.

| Variable | Code |
|---|---|
| `worker` | whose tools are bound |
| `phase`, `round`, `pending` | the `for` over MAX_TOOL_ITERATIONS and the calls of the present response |
| `decision` | `policy_decision`; None, an error payload and a decision without `requires_human` or trigger are one value, because every reader treats them alike |
| `facts` | `_facts_from_tool_results` of the results so far; the code folds at the end, the model as results come, and the fold is the same |
| `verdict` | `needs_human` and `policy_decision` of the returned channels |
| `demands` | a history: which kinds of result asked for a human; no action reads it |

Actions: `Request` and `Answer` (the model's response), `Call` (one tool, whatever
it returns), `EndRound` (next question or the cap), `Raise` (the provider fails or
the turn is cancelled). The model may call any tool with any argument, also one
that is not its worker's, which returns an error. `BillingReports`,
`LogisticsReports`, `AccountReports` and `CatalogReports` say what the tools can
return of what the loop reads: they are the only place where the tools of
`app/tools` appear; their effect on the database is in `OrderDesk`.

`TicketDesk` lets a worker hand over a needs_human and a gate that agree
(`Advised`). That they do is `GateMatchesFlag` here, proved for every cap.

### RefundRules, PolicyRules

`RefundRules` has `can_refund` as `CanRefund`, test by test in the code's order,
and `can_cancel`. `PolicyRules` has one refund claim that lives: `Deliver`,
`NextDay`, `Verify` (the customer proves an identity), `Restate` (another reason
is given to the tool). The engine has no state; the machine moves the arguments
it is called with, so that the properties can compare decisions that the same
customer gets at different times or for different reasons. Reason codes, policy
ids and `max_amount` are left out. Amounts are whole reais: the code compares
exact decimals.

### OrderDesk, MCOrderDesk

One order, and turns of different tickets about it, which no lock of a ticket
keeps apart.

| Variable | Code |
|---|---|
| `claim` | what `check_refund_eligibility` hands to the engine (from `PolicyRules`) |
| `order`, `shipment` | the committed statuses |
| `refunds`, `returns` | the committed rows |
| `holder` | the transaction that holds the lock on the orders row |
| `turn` | what each turn's tools have flushed and its session has not committed |
| `told` | what the committed answers report |

`CreateRefund`, `CreateReturn`, `DecideCancel` and `FlushCancel` are the writing
tools; a cancellation is two steps because the UPDATE waits for the row after
the decision. `Answer`, `FallSilent` (the graph fails or the stream is cut, the
session commits all the same) and `Die` end a turn. `Ship` and `Arrive` are the
warehouse and the carrier.

### SupportGraph, MCSupportGraph

One conversation, one run at a time, node by node.

| Variable | Code |
|---|---|
| `next`, `waiting` | the pending node and interrupt of the latest checkpoint |
| `channels` | needs_human, policy_decision, draft_answer |
| `driver`, `answer` | a turn or a reply that drives the thread; the reply's payload |
| `account` | the customer's status in the database; `loaded` is what the turn read |
| `shown` | what `persist_graph_result` showed last |

Every node is an action and ends with a checkpoint; `Die` may come after any of
them. `Ask` restarts the thread at its entry with the channels as they are;
`Reply` answers an interrupt, goes on with a dead run, or finds nothing. Whether
LangGraph keeps a resume value that a node before the escalation did not use is
left open (`NodeDone`). `Work` takes what `ToolLoop` proves of a worker
(`GateMatchesFlag`) as the worker's outcome.

### LiveChat, MCLiveChat

| Variable | Code |
|---|---|
| `stored` | the committed messages, in the order of insertion |
| `turns` | the requests: their pc, transaction start, flushed messages and answer |
| `holder` | the lock on the tickets row |
| `win` | one window: transcript, `liveCache`, sendingRef, draft, committedAssistant |
| `bus`, `stream` | events published to its subscription, and sent in answer to its own request |

A request appends, publishes, persists, announces and commits, in this order;
what is published and then rolled back was seen. `Latest` lets any message of
the latest `created_at` be the last one, because all messages of a transaction
have one. The window is the hook of `use-chat-stream.ts`: `Upsert` with its
fingerprints, `Merged` with the cache, `Hear` that drops events while sending,
`Handled` for the response. Other windows are the requests they make.

### SyntheticWorld, WorldLoader, MCWorldLoader

`SyntheticWorld` builds a world as `generate_world` does: one order per labelled
scenario and copy, the showcase customer's ten, then random orders until the
profile is full, then `Integral`. `Timed` draws the two ends of every range the
generator draws from. Each label (`says`, `human`) is compared with `CanRefund`,
`CanCancel` and `EscalationFromFacts` by `Agrees`; `Later` moves the clock that
the tools read, while the rows keep their dates.

`WorldLoader` adds runs of the two scripts (`Count`, the DELETEs, `PersistWorld`,
`CommitWorld`, `Export`, `Break`) and turns of the service on a ticket of the
world (`Ask`, `Run`, `End`, as in `TicketDesk`), at READ COMMITTED: a DELETE takes
what is committed when it starts.

### Proof modules

`TicketDeskProofs`, `TicketLedgerProofs`, `ToolLoopProofs`, `PolicyRulesProofs`,
`OrderDeskProofs`, `SupportGraphProofs`, `LiveChatProofs` and `WorldLoaderProofs`
hold the theorems of section 6.

## 4. Runs

| Run | Instance | Shows |
|---|---|---|
| `desk_safety` | 3 requests of all kinds, faults | `TypeOK`, `OneTurnAtATime`, `QueueIsDated`, `ImplementsLedger` |
| `desk_turns` | 4 requests, all but `/resolve`; sessions commit | `AnswersFollowQuestions`, `WaitingIsQueued` |
| `desk_live` | 2 requests of all kinds, faults, fair | `ClosedStaysClosed`, `RequestsEnd` |
| `tool_loop` | 3 workers, 4 rounds of up to 2 calls, fair | `TypeOK`, `GateMatchesFlag`, `HandoffHasReason`, `LoopEnds` |
| `order_desk` | 2 turns with 2 writing calls each, one order over 4 days | `OrderTypeOK`, `ReportsAreKept`, `RefundsAreGrounded`, `DefectDominates`, `TimeNeverHelps` |
| `support_graph` | 3 messages, any replies, deaths and account changes, fair | `TypeOK`, `OldDraftsAreMarked`, `UnusableAccountsReachNoWorker`, `DemandIsForever`, `RunsEnd` |
| `live_chat` | 2 requests, 1 window | `TypeOK`, `NoDoubles`, `AnswersAreKept`, `SendersSeeTheirTurn`, `WatchersMissNothing`, `NoPhantoms` |
| `world` | the demo profile's labels, one random order, 2 scripts, 1 turn, a year | `LoaderTypeOK`, `WorldsAreCoherent`, `LabelsMatchPolicy`, `OnlyGrantsExpire`, `WorldsStay`, `ReplacedWorldsStartFresh` |
| `claim_idle`, `claim_takeover`, `claim_reply`, `claim_refunds` | 1 to 3 requests; 2 turns | four statements that do not hold (section 5) |

Bounds of the tool loop: the four rounds are the code's, and with two calls in
each a result can be followed by one of any other tool in the same response or a
later one; the loop keeps only the last of each kind, so longer sequences reach no
other state.

Bounds of the order desk: day counts are scaled (withdrawal and inspection 1,
window 2, warranty 3, followed to day 4) so that every boundary has days on both
sides and their order is the order of the real ones (7, 7, 30, 90). Two amounts,
at the threshold and above it, suffice because only that comparison is made.
`RulesAssumption` says that no warranty is shorter than the window, which holds
for the products in `app/synthetic/catalogs.py` (90 and 365 days against 30).
Two turns suffice for every conflict: what they share is one order row, and the
refunds of a third are to the second what the second's are to the first. Two
calls let a turn repeat itself, mix a return with a cancellation, and cancel after
it decided.

Bounds of the workflow: the channels a turn leaves are few, so a message to raise
a flag or a demand, one to meet it, and one after the reply or the death in
between reach every combination; replies, deaths and changes of the account are
not bounded.

Bounds of the live chat: two requests are a message and its repetition, two that
pass each other on the way to the lock, or an answer like an earlier one, and a
window that sends may also hear, lose, leave and come back as often as it likes.
Two texts suffice because texts are only compared.

Bounds of the world: one copy of each anomaly, as in the demo profile; one random
order is enough because random orders share nothing, and two profiles let it
belong to a stranger or to someone with orders. `Between` takes the ends of a
range because every comparison of days is with one bound. The days are the first,
the last two around the high-value order's window (24 and 25), and the first after
the defective laptop's warranty (316). Two scripts are the smallest race; one turn
shows what any turn beside them leaves.

Bounds of the ticket desk. A slot serves one request, so a run has two to four requests in its
history; requests that follow each other and requests that overlap are both
among its behaviours, because a slot may arrive after another has finished. Every
conflict between two copies of the row needs two requests, and a third is enough
to see what they leave behind (a later reply, a later turn on a thread an earlier
one left). Nothing else is unbounded: statuses, phases, flags and texts are
finite sets. One agent name suffices because only None against a name is tested.

Fairness. `FairSpec` gives weak fairness to the server's own steps of each
request: the event loop schedules runnable coroutines, PostgreSQL grants a free
lock, model calls return or time out. A client that streams either reads or
disconnects (uvicorn notices); nothing else is assumed about clients, failures or
the heartbeat. Weak fairness is enough for a
request that waits for the lock because the models hold finitely many requests;
with an endless stream of writers the code would rely on PostgreSQL's queue.
The tool loop's `FairSpec` is weak fairness of its steps together: the provider
answers, raises or times out, and so does a tool; which of these happens is left
open, so an endless wish for tools is ended by the cap alone. `SupportGraph`'s is
the same for the nodes of a run: each returns, interrupts or raises.

Where properties stop. With `/resolve`, which may run beside another turn,
`WaitingIsQueued` and `AnswersFollowQuestions` do not hold. With sessions that
die, a draft left in the checkpoint by a rolled-back turn can be shown by the
next handoff, and an interrupt can outlive the rollback of its escalation. A
close that loaded the ticket before a takeover leaves the agent, a turn admitted
before a close may still run and reopen the ticket, and a console turn that
overlaps an escalation may leave the ticket in the queue with nobody waiting;
`ImplementsLedger`, `ClosedStaysClosed` and `WaitingIsQueued` are stated so that
they say what remains. In the tool loop a later result of the same kind replaces
a demand for a human. A window misses what it dropped while sending, and what
came while it was not connected, until its page is loaded anew. All of these are
hazards listed at their lines.

## 5. What the code does not keep

Each of these is a run that TLC ends with a counterexample; the quoted lines are
in `findings`.

* `claim_idle` (`IdleTurnsStillAnswer`): a silent graph is cancelled by `asyncio.wait_for` in
  `_with_heartbeats`; the message is stored, nothing answers it.
* `claim_takeover` (`NoTalkingOver`): a turn loaded before a takeover talks over the agent.
* `claim_reply` (`RepliesAreDelivered`): a reply accepted for a thread that does not wait is dropped.
* `claim_refunds` (`OneRefundPerDuplicate`): an order charged twice gets a second refund, because the tool
  looks at no earlier one.

## 6. Proofs

`TicketDeskProofs` proves, for any sets of requests, agents and operations, with
or without faults:

* `TypeCorrect`: `Spec => []TypeOK`. Inductive as it stands; `FlushType`,
  `EndSessionType` and `OverlaidType` carry the session steps, `WorkedType` and
  `AnsweredType` the graph steps.
* `TurnsAreSerial`: `Spec => []OneTurnAtATime`. The invariant is `LockInv`: a
  request between its append and its commit, other than a `/resolve`, holds the
  row lock. For replies that needs `RepliesLoadEscalated`: a reply's copy says
  escalated until it writes in_progress, so its flush does change the row. One
  holder, hence one driver.
* `QueueStaysDated`: `Spec => []QueueIsDated`. The invariant is `DatedInv`: every
  copy that says escalated is stamped, and a stamp in a copy is either in the row
  already or among the columns its session will write; nothing unsets a stamp in
  the row. `NewIsClean` (a request that has not arrived has written nothing) makes
  `Load` preserve it.
* `AnswersAreAsked`: `Spec => []AnswersFollowQuestions`, without faults. The
  invariant is `AskedInv`: every text that a checkpoint, a run or a result carries
  belongs to a request that has stored its question or holds the row lock until it
  does. Drafts outlive turns and are read by every later run, so it has to speak of
  all of them; the lock is what keeps a second writer from flushing the answer of a
  question it cannot see.
* `WaitingStaysQueued`: `Spec => []WaitingIsQueued`, without faults and without
  `/resolve`. The invariant is `QueueInv`: whoever drives the thread has put the
  ticket in progress and is alone, what a session knows of the thread is still so,
  and when a thread waits while its ticket is not in the queue, the holder of the
  lock is about to commit the escalation.
* `ArchiveIsFinal`: `Spec => ClosedStaysClosed`. From a quiet closed ticket the
  guards of `Load` let only takeovers in (`AfterClose`), and these do not write
  the status.

`TicketLedgerProofs` proves that the desk implements the ledger:

* `DeskImplementsLedger`: `Spec => ImplementsLedger`. Every step of the desk is one
  operation of the ledger, or leaves `row`, `transcript` and the set of requests
  that are done alone. Only `Commit` and its kin change them, so the invariant has
  to know what a session about to commit has in hand: which columns of its copy it
  changed, with which values, and which messages it flushed, by the kind of its
  request. With that, `Overlaid` on whatever the row has become is an operation.

`ToolLoopProofs` proves, for any cap and any number of calls in a response:

* `LoopTypeCorrect`: `Spec => []TypeOK`, with `RoundsLeft`: a loop that goes on has
  not used up its cap.
* `GateAgrees`: `Spec => []GateMatchesFlag`. The strengthening says of the decision
  in progress that it needs no catalog: a result whose trigger is in the catalog
  says requires_human itself, so the gate adds nothing to the flag.
* `HandoffsAreGrounded`: `Spec => []HandoffHasReason`. The strengthening says that
  every part of the decision and the facts that leads to a handoff has its demand
  in `demands`.

`PolicyRulesProofs` proves, for any window, legal days, inspection day, threshold,
amounts and warranties that satisfy `RulesAssumption`:

* `TimeNeverHelpsAlways`: `Spec => TimeNeverHelps`, from `DeadlinesPass` and
  `DemandsStay`, a lemma for each way a day enters a decision.
* `DefectDominatesAlways`: `Spec => []DefectDominates`. It needs the assumption
  that no warranty is shorter than the window, and `ClaimTypeCorrect`.

`OrderDeskProofs` proves, for any number of turns and calls, any windows, amounts
and warranties:

* `OrderTypeCorrect`: `OrderSpec => []OrderTypeOK`.
* `RefundsStayGrounded`: `OrderSpec => []RefundsAreGrounded`. The strengthening says
  the same of the refunds a turn has flushed and not committed; it is kept because
  a delivery is never undone and the facts of an order do not change.
* `ReportsStayKept`: `OrderSpec => []ReportsAreKept`. What is committed is never
  removed, and a cancelled order never leaves that status: `Ship` and `Arrive` look
  at the row under its lock.

`SupportGraphProofs` proves, for any number of messages:

* `GraphTypeCorrect`: `Spec => []TypeOK`.
* `OldDraftsStayMarked`: `Spec => []OldDraftsAreMarked`, since past the workers the
  draft is always of the present turn, whoever wrote it.
* `UnusableAccountsStayOut`: `Spec => []UnusableAccountsReachNoWorker`: at the
  supervisor an account is active or the gate is shut.
* `DemandsLast`: `Spec => DemandIsForever`: the context node only puts one demand in
  the place of another, and at a worker, the only other node that replaces a
  decision, there is none.

`LiveChatProofs` proves, for any number of requests and any texts:

* `ChatTypeCorrect`, `NoMessageTwice`, `AnswersKept`, `SendersSee`, `WatchersSee` and
  `NoPhantomsShown`: `Spec => []P` for the six properties of the run `live_chat`,
  all from `ChatInvariant`: `Spec => []ChatInv`.

None of the six is inductive, and what each lacks concerns the others' state, so
they are proved together. `ChatInv` says, of the requests, that an answer that was
not stored repeats a message that is; of the window, that every bubble can be told
from its id, that two bubbles of one fingerprint are both messages of the ticket
(`Alike`), and that the cache is part of what is shown; of the stream, that it ends
with one last event, that a complete one tells its answer first, and that a turn
without an answer has drafted nothing; of the bus, that what a request that was
heard has not shown yet is still on its way. `Upserting` is the lemma on which
these rest: putting a bubble into a list forgets no fingerprint and makes no twins.

`WorldLoaderProofs` proves, for any number of scripts and turns, any profile and
any number of copies of the labelled orders:

* `LoaderTypeCorrect`: `LoaderSpec => []LoaderTypeOK`. `loads` stays below the number
  of scripts because each load is counted against one script that is over.
* `WorldsStayInUse`: `LoaderSpec => WorldsStay`, and `ReplacementsStartFresh`:
  `LoaderSpec => ReplacedWorldsStartFresh`. `ScriptsInv` says what a script's
  DELETEs have taken, statement by statement; `NoWorldNoTurns` that an empty table
  has no conversations beside it.
* `WorldsStayCoherent`: `LoaderSpec => []WorldsAreCoherent`. `WorldInv` says that
  every order built so far is coherent; it holds because each recipe is `Sound` (the
  dates it draws leave room for the steps its status implies, for every value of the
  ranges), and a sound recipe makes a coherent order.
* `LabelsStayRight`: `LoaderSpec => []LabelsMatchPolicy`, and `OnlyGrantsEnd`:
  `LoaderSpec => []OnlyGrantsExpire`. `LabelInv` says that every label has its order
  and that the order `Bears` it: that it has, on any day, what the label rests on
  (two payments, a delivery that many days ago, a product for final sale). The
  recipes give their orders that (`RecipesBear`), no later step takes it away, and
  the rules then answer as the label says (`BearersAgree`). Between the two lies the
  generator's choice of products, which the lemmas on the catalog follow: the first
  laptop above the threshold, for one, is never the one for final sale
  (`DearLaptopIs`).

The assumptions of the ticket desk are `OpsAssumption`, `FaultsAssumption` and `MarkersAssumption`,
which say that the constants are well-formed; so do `TurnsAssumption` of
`OrderDesk` and of `SupportGraph`, `TextsAssumption` of `LiveChat` (no message is
empty, and a streamed draft can be told from a stored answer), `WorldAssumption` and
`LoadersAssumption` (finitely many scripts, none of them a turn). `AnswersAreAsked`
and `WaitingStaysQueued` also assume what `desk_turns` assumes, because without it
the two do not hold (section 4); `desk_safety` has sessions that die and `/resolve`
for everything else.

The two theorems on labels are about numbers of `company.yaml` for which the labels
can be right at all, and say which those are. `LabelledPolicy`: the threshold lies
between the price of the headphones, which are refunded without a human, and that of
the dearest laptop, which is not (700 and 7999); and the defective laptop, whose
label asks for a human because it costs more than 1000, needs one by the policy too,
for its price or because it is inspected. `LabelsStayRight` also has a refund window
of at most 175 days, so that the 365 days of the laptop's warranty, 20 days past its
window when the world is made, outlast the window of the high-value order. The
configured threshold of 1000, inspection after 7 days and window of 30 are well
inside; for other numbers the generator does write wrong labels.

Only model-checked: the liveness properties `RequestsEnd`, `LoopEnds` and `RunsEnd`
(liveness under fairness is out of the prover's reach); and the four statements
of section 5, which do not hold.

## 7. Not modelled

Ownership, scopes and authentication reject a request before anything changes.
Retrieval, evaluation, pages, migrations and exporters keep no state the
properties depend on. The tool result cache is used by nothing. The trace recorder
and analytics are read by people and decide nothing; the connection pool depends
on numbers of the deployment. The resolutions row is written beside the ticket in
the same transaction and read by no decision; its lock adds a deadlock that
PostgreSQL ends by an abort, which `TicketDesk` has.

Of the modelled parts: `LiveChat` leaves out heartbeats, the status badge, the
router's page cache, leaving a page while sending, and a full reload (a window
that starts afresh). `SupportGraph` leaves out the patterns of the guardrails and
the classifier, both of which may do anything they can do. `SyntheticWorld` leaves
out names, tiers, account statuses, the seeded tickets' texts, the utterances of
negative_security and the exported fixtures, and a clock set before the day of
generation. `OrderDesk` has the writes of the tools; approval and execution of a
refund have no code in this repository.
