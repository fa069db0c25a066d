----------------------------- MODULE TicketLedger -----------------------------
(***************************************************************************)
(* What the ticket desk promises to whoever reads the database: a ticket   *)
(* and its transcript, changed by whole requests only.  There are no       *)
(* sessions, stale copies, locks, checkpoints or deaths here; each request *)
(* takes effect in one step or never.                                      *)
(***************************************************************************)
CONSTANTS
  Requests,    \* requests that can reach the ticket
  Agents,      \* names a console user takes a conversation over with
  NoAgent,     \* assigned_agent is None
  NoRequest,   \* no answer was drafted
  HandoffText  \* the canned text that announces a specialist

VARIABLES
  row,        \* the tickets row: status, agent, stamped (escalated_at is set)
  transcript, \* the messages, each with its role and its author's request
  committed   \* the requests that have taken effect

vars == <<row, transcript, committed>>

Texts == Requests \union {NoRequest, HandoffText}

Init ==
  /\ row = [status |-> "open", agent |-> NoAgent, stamped |-> FALSE]
  /\ transcript = {}
  /\ committed = {}

Says(role, text) == [role |-> role, text |-> text]

\* A takeover names an agent, or changes nothing where the agent had the ticket.
TakenOver(r) ==
  /\ \/ \E a \in Agents : row' = [row EXCEPT !.agent = a]
     \/ UNCHANGED row
  /\ UNCHANGED transcript

\* A close comes with its notice.  It clears the agent it saw: one who took the
\* ticket over since the close began stays.
Closed(r) ==
  /\ row' \in {[row EXCEPT !.status = "closed"],
               [row EXCEPT !.status = "closed", !.agent = NoAgent]}
  /\ transcript' = transcript \union {Says("system", r)}

\* A confirmation comes with its notice, or changes nothing.
Confirmed(r) ==
  \/ /\ row' = [row EXCEPT !.status = "resolved"]
     /\ transcript' = transcript \union {Says("system", r)}
  \/ UNCHANGED <<row, transcript>>

\* What a turn may do to the row: it never moves the agent, closes or resolves,
\* and it sets escalated_at only together with the escalation it dates.
Turns(old, new) ==
  /\ new.agent = old.agent
  /\ new.status # old.status => new.status \in {"open", "in_progress", "escalated"}
  /\ new.stamped # old.stamped => new.stamped /\ new.status = "escalated"

\* A turn brings at most one question and at most one answer, both at once.
Turned(r) ==
  /\ \E status \in {"open", "in_progress", "escalated", "resolved", "closed"},
        stamped \in BOOLEAN :
       row' = [row EXCEPT !.status = status, !.stamped = stamped]
  /\ Turns(row, row')
  /\ \E question \in {{}, {Says("customer", r)}, {Says("human_agent", r)}},
        answer \in {{}} \union {{Says("assistant", t)} : t \in Texts} :
       transcript' = transcript \union question \union answer

Next ==
  \E r \in Requests \ committed :
    /\ TakenOver(r) \/ Closed(r) \/ Confirmed(r) \/ Turned(r)
    /\ committed' = committed \union {r}

Spec == Init /\ [][Next]_vars
=============================================================================
