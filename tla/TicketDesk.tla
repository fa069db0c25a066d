------------------------------ MODULE TicketDesk ------------------------------
(***************************************************************************)
(* One ticket, its LangGraph thread, and the HTTP requests that work on it *)
(* at the same time.                                                       *)
(*                                                                         *)
(* Every request has an SQLAlchemy session of its own.  It loads the       *)
(* ticket once, decides and computes on that copy, flushes the columns it  *)
(* changed, and commits after its response has been sent.  Nothing in the  *)
(* code compares a version or takes FOR UPDATE: the only thing that orders *)
(* two requests is the PostgreSQL row lock the first UPDATE takes and the  *)
(* commit or rollback gives back.  The graph's checkpoint is written by a  *)
(* pool of autocommit connections, so a rollback does not undo it.         *)
(*                                                                         *)
(* Left out: ownership and scope checks (they reject before any change),   *)
(* subject, description, intent, the resolution and run rows, and all text *)
(* except who wrote it.                                                    *)
(***************************************************************************)
EXTENDS Naturals, FiniteSets

CONSTANTS
  Requests,    \* request slots; each slot serves one request
  Agents,      \* names a console user takes a conversation over with
  NoAgent,     \* assigned_agent is None
  NoRequest,   \* nobody holds the row lock; no answer was drafted yet
  HandoffText, \* the canned text that announces a specialist
  Ops,         \* the operations the clients use in this instance
  Faults       \* TRUE: sessions may also die and snapshots fail to be read

OpKinds == {"customer", "human", "resolve", "reply",
            "takeover", "close", "confirm"}

ASSUME OpsAssumption == Ops \subseteq OpKinds
ASSUME FaultsAssumption == Faults \in BOOLEAN
ASSUME MarkersAssumption ==
  /\ NoAgent \notin Agents
  /\ NoRequest \notin Requests
  /\ HandoffText \notin Requests
  /\ HandoffText # NoRequest

-----------------------------------------------------------------------------
(* Domains *)

Statuses == {"open", "in_progress", "escalated", "resolved", "closed"}

\* The columns of the tickets row that requests compete for.
Columns == {"status", "agent", "stamped"}
TicketRow == [status  : Statuses,
              agent   : Agents \union {NoAgent},
              stamped : BOOLEAN]       \* escalated_at is set

\* A text is known by the request that wrote it.
Texts == Requests \union {NoRequest, HandoffText}

\* What the nodes of a run hand to each other.  The channels persist in the
\* checkpoint, so a run starts from what earlier runs left in them.
SupportState == [needsHuman : BOOLEAN,
                 gate       : BOOLEAN,  \* policy_decision demands a human
                 draft      : Texts]    \* draft_answer

\* The latest checkpoint of the thread.  "running" is a checkpoint between two
\* nodes: of a run in progress, or of one that died there.
Checkpoint == [phase  : {"empty", "running", "interrupted", "ended"},
               values : SupportState]

\* What snapshot_to_result hands to persist_graph_result.
Results == [interrupted : BOOLEAN, needsHuman : BOOLEAN,
            error : BOOLEAN, text : Texts]

Roles == {"customer", "human_agent", "assistant", "system"}
Messages == [role : Roles, text : Texts]

InRun == {"graph", "routed", "resuming", "ended", "snapped"}
InFlight == InRun \union {"loaded", "appended", "running", "responding"}
Finished == {"done", "rejected", "aborted"}
PCs == {"new"} \union InFlight \union Finished

-----------------------------------------------------------------------------

VARIABLES
  row,        \* the committed tickets row
  transcript, \* the committed ticket_messages
  holder,     \* the request whose transaction holds the row lock
  ckpt,       \* the latest committed checkpoint
  pc,         \* where each request is
  op,         \* which operation it is
  mem,        \* its ORM copy of the row, as of its last load or flush
  written,    \* columns it has flushed and not committed
  unsent,     \* messages it has flushed and not committed
  state,      \* the state of the graph run it drives
  result,     \* the graph result it is about to persist
  replied     \* requests whose client got the final event or a 200 body

ticketVars == <<row, transcript>>
graphVars == <<ckpt, state>>
vars == <<row, transcript, holder, ckpt, pc, op, mem, written, unsent,
          state, result, replied>>

NoState == [needsHuman |-> FALSE, gate |-> FALSE, draft |-> NoRequest]
NoResult == [interrupted |-> FALSE, needsHuman |-> FALSE,
             error |-> FALSE, text |-> NoRequest]

\* A ticket as create_ticket and create_conversation leave it.
NewRow == [status |-> "open", agent |-> NoAgent, stamped |-> FALSE]

Init ==
  /\ row = NewRow
  /\ transcript = {}
  /\ holder = NoRequest
  /\ ckpt = [phase |-> "empty", values |-> NoState]
  /\ pc = [r \in Requests |-> "new"]
  /\ op = [r \in Requests |-> "customer"]
  /\ mem = [r \in Requests |-> NewRow]
  /\ written = [r \in Requests |-> {}]
  /\ unsent = [r \in Requests |-> {}]
  /\ state = [r \in Requests |-> NoState]
  /\ result = [r \in Requests |-> NoResult]
  /\ replied = {}

Goto(r, l) == pc' = [pc EXCEPT ![r] = l]

-----------------------------------------------------------------------------
(* The session *)

\* Mutant of Changed: an UPDATE names every column of the copy.
WholeRow(old, new) == IF old # new THEN Columns ELSE {}

\* Columns an UPDATE names: those whose value differs from the one loaded.
Changed(old, new) ==
  (IF old.status # new.status THEN {"status"} ELSE {})
    \union (IF old.agent # new.agent THEN {"agent"} ELSE {})
    \union (IF old.stamped # new.stamped THEN {"stamped"} ELSE {})

\* Mutant of Flush: append_message leaves last_message_at alone, so a message
\* does not lock the row.
FlushWithoutBump(r, m, messages) ==
  LET updates == m # mem[r] IN
    /\ updates => holder \in {NoRequest, r}
    /\ holder' = IF updates THEN r ELSE holder
    /\ mem' = [mem EXCEPT ![r] = m]
    /\ written' = [written EXCEPT ![r] = @ \union Changed(mem[r], m)]
    /\ unsent' = [unsent EXCEPT ![r] = @ \union messages]

\* session.flush() of the copy m and the new messages.  A message comes with a
\* new last_message_at, so it always updates the row and needs the lock; a
\* flush that changes no column writes nothing and needs none.
Flush(r, m, messages) ==
  LET updates == messages # {} \/ m # mem[r] IN
    /\ updates => holder \in {NoRequest, r}
    /\ holder' = IF updates THEN r ELSE holder
    /\ mem' = [mem EXCEPT ![r] = m]
    /\ written' = [written EXCEPT ![r] = @ \union Changed(mem[r], m)]
    /\ unsent' = [unsent EXCEPT ![r] = @ \union messages]

NoFlush == UNCHANGED <<holder, mem, written, unsent>>

\* The row once r's transaction is applied to it.
Overlaid(r) ==
  [status  |-> IF "status" \in written[r] THEN mem[r].status ELSE row.status,
   agent   |-> IF "agent" \in written[r] THEN mem[r].agent ELSE row.agent,
   stamped |-> IF "stamped" \in written[r] THEN mem[r].stamped ELSE row.stamped]

\* Mutant of EndSession: only a commit gives the row lock back.
EndSessionLeaking(r, outcome) ==
  /\ Goto(r, outcome)
  /\ holder' = IF holder = r /\ outcome = "done" THEN NoRequest ELSE holder
  /\ mem' = [mem EXCEPT ![r] = NewRow]
  /\ written' = [written EXCEPT ![r] = {}]
  /\ unsent' = [unsent EXCEPT ![r] = {}]
  /\ state' = [state EXCEPT ![r] = NoState]
  /\ result' = [result EXCEPT ![r] = NoResult]

\* The transaction is over and the session object is gone.
EndSession(r, outcome) ==
  /\ Goto(r, outcome)
  /\ holder' = IF holder = r THEN NoRequest ELSE holder
  /\ mem' = [mem EXCEPT ![r] = NewRow]
  /\ written' = [written EXCEPT ![r] = {}]
  /\ unsent' = [unsent EXCEPT ![r] = {}]
  /\ state' = [state EXCEPT ![r] = NoState]
  /\ result' = [result EXCEPT ![r] = NoResult]

\* get_db_session after the handler and its response: commit.
Commit(r) ==
  /\ pc[r] = "responding"
  /\ row' = Overlaid(r)
  /\ transcript' = transcript \union unsent[r]
  /\ EndSession(r, "done")
  /\ UNCHANGED <<ckpt, op, replied>>

\* The session dies without commit: Redis refuses a publish, the connection is
\* lost, PostgreSQL breaks a deadlock or the process is killed.  The client may
\* already have its answer.  The checkpoint stays as it is.
Abort(r) ==
  /\ Faults
  /\ pc[r] \in InFlight
  /\ UNCHANGED <<row, transcript, ckpt, op, replied>>
  /\ EndSession(r, "aborted")

-----------------------------------------------------------------------------
(* Arrival *)

\* Mutant of Admits: the closed ticket is not rejected.
AdmitsClosed(o, status) == o = "reply" => status = "escalated"

\* _reject_closed_ticket, the guard of reply_to_escalation, and the 409 of
\* close_ticket and confirm_resolution; takeover_ticket has no guard.
Admits(o, status) ==
  /\ o = "reply" => status = "escalated"
  /\ o # "takeover" => status # "closed"

\* get_ticket_or_404 and the guard on what it loaded.
Load(r) ==
  /\ pc[r] = "new"
  /\ \E o \in Ops :
       /\ op' = [op EXCEPT ![r] = o]
       /\ Goto(r, IF Admits(o, row.status) THEN "loaded" ELSE "rejected")
  /\ mem' = [mem EXCEPT ![r] = row]
  /\ UNCHANGED <<row, transcript, holder, written, unsent, graphVars, result,
                 replied>>

-----------------------------------------------------------------------------
(* Takeover, close and confirm *)

TakeOver(r) ==
  /\ pc[r] = "loaded" /\ op[r] = "takeover"
  /\ \E a \in Agents : Flush(r, [mem[r] EXCEPT !.agent = a], {})
  /\ Goto(r, "responding")
  /\ replied' = replied \union {r}
  /\ UNCHANGED <<ticketVars, op, graphVars, result>>

Close(r) ==
  /\ pc[r] = "loaded" /\ op[r] = "close"
  /\ Flush(r, [mem[r] EXCEPT !.status = "closed", !.agent = NoAgent],
           {[role |-> "system", text |-> r]})
  /\ Goto(r, "responding")
  /\ replied' = replied \union {r}
  /\ UNCHANGED <<ticketVars, op, graphVars, result>>

Confirm(r) ==
  /\ pc[r] = "loaded" /\ op[r] = "confirm"
  /\ IF mem[r].status = "resolved"
       THEN NoFlush
       ELSE Flush(r, [mem[r] EXCEPT !.status = "resolved"],
                  {[role |-> "system", text |-> r]})
  /\ Goto(r, "responding")
  /\ replied' = replied \union {r}
  /\ UNCHANGED <<ticketVars, op, graphVars, result>>

-----------------------------------------------------------------------------
(* The turns, up to the graph *)

\* customer_turn_runs_graph, on the copy loaded at arrival.
RunsGraph(m) == m.agent = NoAgent

\* stream_customer_turn: the message, and the status when the AI will answer.
CustomerAppend(r) ==
  /\ pc[r] = "loaded" /\ op[r] = "customer"
  /\ LET runs == RunsGraph(mem[r]) IN
       /\ Flush(r, IF runs THEN [mem[r] EXCEPT !.status = "in_progress"]
                           ELSE mem[r],
                {[role |-> "customer", text |-> r]})
       /\ Goto(r, IF runs THEN "running" ELSE "responding")
       /\ replied' = IF runs THEN replied ELSE replied \union {r}
  /\ UNCHANGED <<ticketVars, op, graphVars, result>>

\* stream_human_turn: the message first, whatever the graph is waiting for.
HumanAppend(r) ==
  /\ pc[r] = "loaded" /\ op[r] = "human"
  /\ Flush(r, mem[r], {[role |-> "human_agent", text |-> r]})
  /\ Goto(r, "appended")
  /\ UNCHANGED <<ticketVars, op, graphVars, result, replied>>

\* _graph_is_interrupted; a snapshot that cannot be read counts as "no".
HumanCheck(r) ==
  /\ pc[r] = "appended"
  /\ \/ /\ ckpt.phase = "interrupted"
        /\ Flush(r, [mem[r] EXCEPT !.status = "in_progress"], {})
        /\ Goto(r, "running")
        /\ UNCHANGED replied
     \/ /\ ckpt.phase # "interrupted" \/ Faults
        /\ NoFlush
        /\ Goto(r, "responding")
        /\ replied' = replied \union {r}
  /\ UNCHANGED <<ticketVars, op, graphVars, result>>

\* resolve_ticket and reply_to_escalation: no message, only the status.
StartWithoutMessage(r) ==
  /\ pc[r] = "loaded" /\ op[r] \in {"resolve", "reply"}
  /\ Flush(r, [mem[r] EXCEPT !.status = "in_progress"], {})
  /\ Goto(r, "running")
  /\ UNCHANGED <<ticketVars, op, graphVars, result, replied>>

-----------------------------------------------------------------------------
(* The graph run: each step is a checkpoint of its own *)

Resumes(o) == o \in {"human", "reply"}
Gated(s) == s.needsHuman \/ s.gate

\* New input restarts the thread at its entry and drops a pending interrupt.
\* Command(resume) continues an interrupted run, goes on with the pending nodes
\* of a run that died, and does nothing on a thread that has ended.
EnterGraph(r) ==
  /\ pc[r] = "running"
  /\ state' = [state EXCEPT ![r] = ckpt.values]
  /\ IF ~ Resumes(op[r])
       THEN /\ ckpt' = [ckpt EXCEPT !.phase = "running"]
            /\ Goto(r, "graph")
       ELSE /\ Goto(r, CASE ckpt.phase = "interrupted" -> "resuming"
                         [] ckpt.phase = "running" -> "graph"
                         [] OTHER -> "ended")
            /\ UNCHANGED ckpt
  /\ UNCHANGED <<ticketVars, holder, op, mem, written, unsent, result, replied>>

\* What the input guardrail and the customer context make of s: the guardrail
\* blocks the text, the account cannot be used, both or neither.  Nothing here
\* clears what an earlier run raised.
Entered(r, s) ==
  { [needsHuman |-> s.needsHuman \/ blocked \/ suspended,
     gate       |-> s.gate \/ suspended,
     draft      |-> IF blocked THEN r ELSE s.draft] : blocked, suspended \in BOOLEAN }

\* The worker replaces the policy decision, needs_human and the draft.
Advised(r) == { [needsHuman |-> asks, gate |-> asks, draft |-> r] : asks \in BOOLEAN }

\* route_after_supervisor sends a gated run past the worker.
Worked(r, s) ==
  { e \in Entered(r, s) : Gated(e) } \union (IF Gated(s) THEN {} ELSE Advised(r))

\* A run that died behind its worker has only the rest to do.
RunNodes(r) ==
  /\ pc[r] = "graph"
  /\ \E s \in Worked(r, state[r])
               \union (IF Resumes(op[r]) THEN {state[r]} ELSE {}) :
       /\ state' = [state EXCEPT ![r] = s]
       /\ ckpt' = [phase |-> "running", values |-> s]
  /\ Goto(r, "routed")
  /\ UNCHANGED <<ticketVars, holder, op, mem, written, unsent, result, replied>>

\* The end of a run: the answer passes the output guardrail, or the guardrail
\* replaces it and raises needs_human.
Answered(text, gate) ==
  [phase  : {"ended"},
   values : {[needsHuman |-> FALSE, gate |-> gate, draft |-> text],
             [needsHuman |-> TRUE, gate |-> gate, draft |-> HandoffText]}]

\* A gated run interrupts in the escalation node, unless it already carries the
\* human's answer; any other run ends with the worker's draft.
EndGraph(r) ==
  /\ pc[r] = "routed"
  /\ IF Gated(state[r]) /\ ~ Resumes(op[r])
       THEN ckpt' = [phase |-> "interrupted", values |-> state[r]]
       ELSE ckpt' \in Answered(IF Gated(state[r]) THEN r ELSE state[r].draft,
                              state[r].gate)
  /\ Goto(r, "ended")
  /\ UNCHANGED <<ticketVars, holder, op, mem, written, unsent, state, result,
                 replied>>

\* interrupt() returns the human's answer: needs_human is cleared, the policy
\* decision is not.
Resume(r) ==
  /\ pc[r] = "resuming"
  /\ ckpt' \in Answered(r, state[r].gate)
  /\ Goto(r, "ended")
  /\ UNCHANGED <<ticketVars, holder, op, mem, written, unsent, state, result,
                 replied>>

\* A node raises, or the snapshot invoke_graph ends with cannot be read.
\* reply_to_escalation does not catch it.
FailGraph(r) ==
  /\ \/ pc[r] \in {"graph", "routed"}
     \/ Faults /\ pc[r] = "resuming"
     \/ Faults /\ pc[r] = "ended" /\ op[r] # "customer"
  /\ UNCHANGED <<ticketVars, ckpt, op, replied>>
  /\ IF op[r] = "reply"
       THEN EndSession(r, "aborted")
       ELSE /\ result' = [result EXCEPT ![r] = [NoResult EXCEPT !.error = TRUE,
                                                                !.text = r]]
            /\ Goto(r, "snapped")
            /\ NoFlush
            /\ UNCHANGED state

Streamed(r) == op[r] \in {"customer", "human"}

\* _with_heartbeats: no event for a whole heartbeat period, so wait_for cancels
\* the generator, the stream ends early and the session commits what it has.  A
\* silent language model is enough; with faults the infrastructure may stall in
\* any step.  A client that goes away ends the stream in the same manner.
StreamCut(r) ==
  /\ Streamed(r)
  /\ pc[r] \in {"graph", "routed"} \/ (Faults /\ pc[r] \in InFlight)
  /\ Goto(r, "responding")
  /\ NoFlush
  /\ UNCHANGED <<ticketVars, graphVars, op, result, replied>>

\* The same cancellation while the first flush waits for the row lock breaks the
\* flush, and a session with a broken flush refuses to commit.
WaitCut(r) ==
  /\ Streamed(r) /\ pc[r] = "loaded"
  /\ holder \notin {NoRequest, r}
  /\ UNCHANGED <<ticketVars, ckpt, op, replied>>
  /\ EndSession(r, "aborted")

-----------------------------------------------------------------------------
(* After the graph *)

\* aget_state returns the thread's latest checkpoint, whoever wrote it.  What an
\* interrupt shows the customer is the draft so far with the handoff notice.
Snapshot(r) ==
  /\ pc[r] = "ended"
  /\ LET waits == ckpt.phase = "interrupted"
         draft == ckpt.values.draft
         text == IF waits /\ draft = NoRequest THEN HandoffText ELSE draft
     IN \/ result' = [result EXCEPT ![r] =
             [interrupted |-> waits, needsHuman |-> waits \/ ckpt.values.needsHuman,
              error |-> FALSE, text |-> text]]
        \/ /\ Faults /\ op[r] = "customer"
           /\ result' = [result EXCEPT ![r] = [NoResult EXCEPT !.text = r]]
  /\ Goto(r, "snapped")
  /\ NoFlush
  /\ UNCHANGED <<ticketVars, graphVars, op, replied>>

\* Mutant of NextStatus: the run's status instead of the ticket's.
NextStatusOfRun(res, status) ==
  IF res.interrupted THEN "awaiting_human"
  ELSE IF res.error THEN "failed"
  ELSE "in_progress"

NextStatus(res, status) ==
  IF res.interrupted \/ res.needsHuman THEN "escalated"
  ELSE IF res.error THEN "open"
  ELSE IF status # "closed" THEN "in_progress"
  ELSE status

\* Mutant of Dated: escalated_at is cleared when the escalation is over.
DatedAnew(stamped, escalates) == escalates

\* escalated_at or now(): the first escalation dates the ticket for good.
Dated(stamped, escalates) == stamped \/ escalates

\* should_persist_assistant_message compares with the last message only; which
\* one is last is not modelled, so an answer already in the transcript may or
\* may not be skipped.
MaySkip(r) ==
  \E m \in transcript \union unsent[r] :
    m.text = result[r].text /\ m.role \in {"assistant", "human_agent"}

Persist(r) ==
  /\ pc[r] = "snapped"
  /\ LET res == result[r]
         escalates == res.interrupted \/ res.needsHuman
         m == [mem[r] EXCEPT !.status = NextStatus(res, mem[r].status),
                             !.stamped = Dated(@, escalates)]
     IN \/ Flush(r, m, {[role |-> "assistant", text |-> res.text]})
        \/ MaySkip(r) /\ Flush(r, m, {})
  /\ Goto(r, "responding")
  /\ replied' = replied \union {r}
  /\ UNCHANGED <<ticketVars, op, graphVars, result>>

-----------------------------------------------------------------------------

\* What the server does on its own once a request has arrived.
Work(r) ==
  \/ TakeOver(r) \/ Close(r) \/ Confirm(r)
  \/ CustomerAppend(r) \/ HumanAppend(r) \/ HumanCheck(r)
  \/ StartWithoutMessage(r)
  \/ EnterGraph(r) \/ RunNodes(r) \/ EndGraph(r) \/ Resume(r)
  \/ Snapshot(r) \/ Persist(r) \/ Commit(r)

Step(r) ==
  Load(r) \/ Work(r) \/ Abort(r) \/ FailGraph(r) \/ StreamCut(r) \/ WaitCut(r)

\* Every slot has served its request.
AllServed ==
  /\ \A r \in Requests : pc[r] \in Finished
  /\ UNCHANGED vars

Next == (\E r \in Requests : Step(r)) \/ AllServed

Spec == Init /\ [][Next]_vars

\* The event loop keeps driving a request that can go on, PostgreSQL grants a
\* lock that is free, and the model calls return or fail by their timeout.
\* Nothing makes a client send a request.
FairSpec == Spec /\ \A r \in Requests : WF_vars(Work(r))
-----------------------------------------------------------------------------
(* Properties *)

TypeOK ==
  /\ row \in TicketRow
  /\ transcript \subseteq Messages
  /\ holder \in Requests \union {NoRequest}
  /\ ckpt \in Checkpoint
  /\ pc \in [Requests -> PCs]
  /\ op \in [Requests -> OpKinds]
  /\ mem \in [Requests -> TicketRow]
  /\ written \in [Requests -> SUBSET Columns]
  /\ unsent \in [Requests -> SUBSET Messages]
  /\ state \in [Requests -> SupportState]
  /\ result \in [Requests -> Results]
  /\ replied \subseteq Requests

Quiet == \A r \in Requests : pc[r] \notin InFlight

\* Two turns never drive the thread of one ticket at the same time, although
\* no code takes a lock on purpose: the last_message_at of append_message (or
\* the status of an escalation reply) locks the row until the commit.
OneTurnAtATime ==
  \A r, q \in Requests :
    /\ pc[r] \in InRun /\ op[r] # "resolve"
    /\ pc[q] \in InRun /\ op[q] # "resolve"
    => r = q

\* Whatever stale copies sessions write back, a ticket in the escalation queue
\* has the escalated_at list_escalations sorts by.
QueueIsDated == row.status = "escalated" => row.stamped

\* As long as every session reaches its commit, an answer to a turn is in the
\* transcript only if the message it answers is, although the draft travels
\* through a checkpoint that other requests read: no turn shows the draft of one
\* that is still uncommitted.
AnswersFollowQuestions ==
  \A r \in Requests :
    /\ op[r] = "customer"
    /\ [role |-> "assistant", text |-> r] \in transcript
    => [role |-> "customer", text |-> r] \in transcript

\* A thread that waits for a human is never left where the escalation queue
\* does not show it, unless its ticket was confirmed or closed: between two
\* requests an interrupt goes with status escalated, resolved or closed.
WaitingIsQueued ==
  Quiet /\ ckpt.phase = "interrupted"
    => row.status \in {"escalated", "resolved", "closed"}

\* Once a closed ticket has no request in flight, it stays closed: only a
\* request that loaded the ticket before the close can reopen it.
ClosedStaysClosed ==
  [](Quiet /\ row.status = "closed" => [](row.status = "closed"))

\* Every request that arrives ends: nobody waits for the row lock forever.
RequestsEnd ==
  \A r \in Requests : pc[r] \in InFlight ~> pc[r] \in Finished

\* The ledger: to a reader of the database every request happens at once or not
\* at all.  Whatever stale copies, cancelled streams and dying sessions do, one
\* commit of one request is one step of TicketLedger: notices come with the
\* status they announce, escalated_at with the escalation it dates, turns never
\* move the agent, and no request takes effect twice.
Ledger == INSTANCE TicketLedger
            WITH committed <- {r \in Requests : pc[r] = "done"}

ImplementsLedger == Ledger!Spec

-----------------------------------------------------------------------------
(* What the comments and tests claim and the code does not keep *)

\* _with_heartbeats: "Insert heartbeat SSE events when the upstream is idle."
\* Idleness adds events and takes none away, so the stream of a turn that
\* committed has had its final event.
IdleTurnsStillAnswer ==
  \A r \in Requests :
    pc[r] = "done" /\ op[r] \in {"customer", "human"} => r \in replied

\* customer_turn_runs_graph: "After a console agent takes over, later customer
\* turns stay in the transcript for the human."
NoTalkingOver ==
  [][\A r \in Requests :
       pc[r] = "loaded" /\ op[r] = "customer" /\ row.agent # NoAgent
         => pc'[r] # "running"]_vars

\* reply_to_escalation: "Resume an interrupted graph with a human agent's
\* answer."  A reply the console saw accepted, and committed, is in the
\* conversation.
RepliesAreDelivered ==
  \A r \in Requests :
    op[r] = "reply" /\ pc[r] = "done" => \E m \in transcript : m.text = r
=============================================================================
