-------------------------- MODULE TicketLedgerProofs --------------------------
(***************************************************************************)
(* TLAPS proof that TicketDesk implements TicketLedger, for any requests   *)
(* and agents and with every fault of the model.                           *)
(***************************************************************************)
EXTENDS TicketDeskProofs

TurnOps == {"customer", "human", "resolve", "reply"}

Questions(r) ==
  {{}, {[role |-> "customer", text |-> r]}, {[role |-> "human_agent", text |-> r]}}
Answers == {{}} \union {{[role |-> "assistant", text |-> t]} : t \in Texts}
Notice(r) == {[role |-> "system", text |-> r]}

-----------------------------------------------------------------------------
(* What a session has written, by its operation and its place in the handler:
   l is its pc, o its operation, m its copy, w the columns and u the messages it
   has flushed. *)

Untouched(w, u) == w = {} /\ u = {}

TakesOver(m, w, u) == w \subseteq {"agent"} /\ m.agent \in Agents /\ u = {}

Closes(r, m, w, u) ==
  /\ w \subseteq {"status", "agent"} /\ "status" \in w
  /\ m.status = "closed" /\ m.agent = NoAgent
  /\ u = Notice(r)

Confirms(r, m, w, u) ==
  \/ Untouched(w, u)
  \/ w = {"status"} /\ m.status = "resolved" /\ u = Notice(r)

TurnWrites(m, w) ==
  /\ w \subseteq {"status", "stamped"}
  /\ "status" \in w => m.status \in {"open", "in_progress", "escalated"}
  /\ "stamped" \in w => "status" \in w /\ m.status = "escalated"

Asks(r, l, w, u) ==
  l # "responding" => "stamped" \notin w /\ u \in Questions(r)

Speaks(r, u) == \E q \in Questions(r), a \in Answers : u = q \union a

TurnDoes(r, l, m, w, u) == TurnWrites(m, w) /\ Asks(r, l, w, u) /\ Speaks(r, u)

SessionOK(r, l, o, m, w, u) ==
  /\ l \in {"new", "loaded"} => Untouched(w, u)
  /\ l = "loaded" /\ o # "takeover" => m.status # "closed"
  /\ l \in InFlight /\ o \notin TurnOps => l \in {"loaded", "responding"}
  /\ l = "responding" =>
       /\ o = "takeover" => TakesOver(m, w, u)
       /\ o = "close" => Closes(r, m, w, u)
       /\ o = "confirm" => Confirms(r, m, w, u)
  /\ l \in InFlight /\ o \in TurnOps => TurnDoes(r, l, m, w, u)

SessionInv ==
  \A r \in Requests : SessionOK(r, pc[r], op[r], mem[r], written[r], unsent[r])

-----------------------------------------------------------------------------

LEMMA InitSession == Init => SessionInv
BY DEF Init, SessionInv, SessionOK, Untouched, InFlight, InRun

\* A step of r leaves the sessions of the others alone.
LEMMA StepFrame ==
  ASSUME TypeOK, NEW r \in Requests, Step(r), NEW q \in Requests, q # r
  PROVE  /\ pc'[q] = pc[q] /\ op'[q] = op[q] /\ mem'[q] = mem[q]
         /\ written'[q] = written[q] /\ unsent'[q] = unsent[q]
<1>1. pc'[q] = pc[q] /\ op'[q] = op[q]
  BY DEF Step, Work, Load, TakeOver, Close, Confirm, CustomerAppend, HumanAppend,
        HumanCheck, StartWithoutMessage, EnterGraph, RunNodes, EndGraph, Resume,
        Snapshot, Persist, Commit, Abort, FailGraph, StreamCut, WaitCut,
        EndSession, Goto, TypeOK
<1>2. mem'[q] = mem[q] /\ written'[q] = written[q] /\ unsent'[q] = unsent[q]
  BY DEF Step, Work, Load, TakeOver, Close, Confirm, CustomerAppend, HumanAppend,
        HumanCheck, StartWithoutMessage, EnterGraph, RunNodes, EndGraph, Resume,
        Snapshot, Persist, Commit, Abort, FailGraph, StreamCut, WaitCut,
        EndSession, Flush, NoFlush, TypeOK
<1> QED
  BY <1>1, <1>2

\* What a flush of a turn's copy writes, when it moves only the status.
LEMMA FlushEffect ==
  ASSUME TypeOK, NEW r \in Requests, NEW m, NEW messages, Flush(r, m, messages)
  PROVE  /\ mem'[r] = m
         /\ written'[r] = written[r] \union Changed(mem[r], m)
         /\ unsent'[r] = unsent[r] \union messages
BY DEF Flush, TypeOK

LEMMA StatusChange ==
  ASSUME NEW m \in TicketRow, NEW s \in Statuses
  PROVE  /\ Changed(m, [m EXCEPT !.status = s]) = IF m.status = s THEN {} ELSE {"status"}
         /\ [m EXCEPT !.status = s].status = s
BY DEF Changed, TicketRow

\* Before its answer a turn sets IN_PROGRESS or leaves the copy alone.
LEMMA TurnMoves ==
  ASSUME TypeOK, NEW r \in Requests, NEW l, NEW messages,
         SessionOK(r, pc[r], op[r], mem[r], written[r], unsent[r]),
         pc[r] \in InFlight, op[r] \in TurnOps, pc[r] # "responding",
         unsent[r] \union messages \in Questions(r),
         \/ Flush(r, [mem[r] EXCEPT !.status = "in_progress"], messages)
         \/ Flush(r, mem[r], messages)
  PROVE  TurnDoes(r, l, mem'[r], written'[r], unsent'[r])
<1> mem[r] \in TicketRow
  BY DEF TypeOK
<1>1. TurnWrites(mem[r], written[r]) /\ "stamped" \notin written[r]
  BY DEF SessionOK, TurnDoes, Asks
<1>2. unsent'[r] \in Questions(r)
  BY FlushEffect
<1>3. TurnWrites(mem'[r], written'[r]) /\ "stamped" \notin written'[r]
  <2>1. CASE Flush(r, [mem[r] EXCEPT !.status = "in_progress"], messages)
    <3> DEFINE m == [mem[r] EXCEPT !.status = "in_progress"]
    <3>1. mem'[r] = m /\ written'[r] = written[r] \union Changed(mem[r], m)
      BY <2>1, FlushEffect
    <3>2. Changed(mem[r], m) \subseteq {"status"} /\ m.status = "in_progress"
      BY StatusChange DEF Statuses
    <3> HIDE DEF m
    <3> QED
      BY <1>1, <3>1, <3>2 DEF TurnWrites
  <2>2. CASE Flush(r, mem[r], messages)
    <3>1. mem'[r] = mem[r] /\ written'[r] = written[r] \union {}
      BY <2>2, FlushEffect DEF Changed
    <3> QED
      BY <1>1, <3>1
  <2> QED
    BY <2>1, <2>2
<1>4. {} \in Answers
  BY DEF Answers
<1> QED
  BY <1>2, <1>3, <1>4 DEF TurnDoes, Asks, Speaks

LEMMA SessionStep ==
  ASSUME TypeOK, DatedInv, SessionInv, NEW r \in Requests, Step(r)
  PROVE  SessionOK(r, pc'[r], op'[r], mem'[r], written'[r], unsent'[r])
<1> mem[r] \in TicketRow /\ op[r] \in OpKinds /\ DatedRow(mem[r])
  BY DEF TypeOK, DatedInv
<1>s. SessionOK(r, pc[r], op[r], mem[r], written[r], unsent[r])
  BY DEF SessionInv
<1> DEFINE Now == SessionOK(r, pc[r], op[r], mem[r], written[r], unsent[r])
           Then == SessionOK(r, pc'[r], op'[r], mem'[r], written'[r], unsent'[r])
<1> SUFFICES Then
  OBVIOUS
<1> USE DEF InFlight, InRun, TurnOps
\* The session is over: nothing of it is left.
<1>e. ASSUME NEW l \in Finished, EndSession(r, l) PROVE Then
  BY <1>e DEF EndSession, Goto, TypeOK, SessionOK, Finished
<1>1. CASE Load(r)
  <2>1. /\ written'[r] = {} /\ unsent'[r] = {}
        /\ pc'[r] \in {"loaded", "rejected"}
        /\ pc'[r] = "loaded" /\ op'[r] # "takeover" => mem'[r].status # "closed"
    BY <1>1, <1>s DEF Load, Goto, Admits, TypeOK, SessionOK, Untouched
  <2>2. TurnDoes(r, "loaded", mem'[r], {}, {})
    <3>1. {} \in Questions(r) /\ {} \in Answers /\ {} = {} \union {}
      BY DEF Questions, Answers
    <3> QED
      BY <3>1 DEF TurnDoes, TurnWrites, Asks, Speaks
  <2> QED
    BY <2>1, <2>2 DEF SessionOK, Untouched
<1>2. CASE TakeOver(r)
  <2>1. PICK a \in Agents : Flush(r, [mem[r] EXCEPT !.agent = a], {})
    BY <1>2 DEF TakeOver
  <2>2. Changed(mem[r], [mem[r] EXCEPT !.agent = a]) \subseteq {"agent"}
        /\ [mem[r] EXCEPT !.agent = a].agent = a
    BY DEF Changed, TicketRow
  <2>3. pc'[r] = "responding" /\ op'[r] = "takeover" /\ Untouched(written[r], unsent[r])
    BY <1>2, <1>s DEF TakeOver, Goto, TypeOK, SessionOK
  <2>4. TakesOver(mem'[r], written'[r], unsent'[r])
    <3>1. /\ mem'[r] = [mem[r] EXCEPT !.agent = a]
          /\ written'[r] = written[r] \union Changed(mem[r], [mem[r] EXCEPT !.agent = a])
          /\ unsent'[r] = unsent[r] \union {}
      BY <2>1, FlushEffect
    <3> QED
      BY <2>2, <2>3, <3>1 DEF TakesOver, Untouched
  <2> QED
    BY <2>3, <2>4 DEF SessionOK
<1>3. CASE Close(r)
  <2> DEFINE m == [mem[r] EXCEPT !.status = "closed", !.agent = NoAgent]
  <2>1. pc'[r] = "responding" /\ op'[r] = "close" /\ Untouched(written[r], unsent[r])
        /\ mem[r].status # "closed"
    BY <1>3, <1>s DEF Close, Goto, TypeOK, SessionOK
  <2>2. /\ Changed(mem[r], m) \subseteq {"status", "agent"}
        /\ "status" \in Changed(mem[r], m)
        /\ m.status = "closed" /\ m.agent = NoAgent
    BY <2>1 DEF Changed, TicketRow
  <2>3. Flush(r, m, Notice(r))
    BY <1>3 DEF Close, Notice
  <2> HIDE DEF m
  <2>4. Closes(r, mem'[r], written'[r], unsent'[r])
    <3>1. /\ mem'[r] = m /\ unsent'[r] = unsent[r] \union Notice(r)
          /\ written'[r] = written[r] \union Changed(mem[r], m)
      BY <2>3, FlushEffect
    <3> QED
      BY <2>1, <2>2, <3>1 DEF Closes, Untouched
  <2> QED
    BY <2>1, <2>4 DEF SessionOK
<1>4. CASE Confirm(r)
  <2>1. pc'[r] = "responding" /\ op'[r] = "confirm" /\ Untouched(written[r], unsent[r])
    BY <1>4, <1>s DEF Confirm, Goto, TypeOK, SessionOK
  <2>2. Confirms(r, mem'[r], written'[r], unsent'[r])
    <3>1. CASE NoFlush
      BY <2>1, <3>1 DEF NoFlush, Confirms
    <3>2. CASE /\ Flush(r, [mem[r] EXCEPT !.status = "resolved"], Notice(r))
               /\ mem[r].status # "resolved"
      <4>1. /\ mem'[r] = [mem[r] EXCEPT !.status = "resolved"]
            /\ written'[r] = written[r]
                 \union Changed(mem[r], [mem[r] EXCEPT !.status = "resolved"])
            /\ unsent'[r] = unsent[r] \union Notice(r)
        BY <3>2, FlushEffect
      <4>2. /\ Changed(mem[r], [mem[r] EXCEPT !.status = "resolved"]) = {"status"}
            /\ mem'[r].status = "resolved"
        BY <3>2, <4>1, StatusChange DEF Statuses
      <4> QED
        BY <2>1, <4>1, <4>2 DEF Confirms, Untouched
    <3> QED
      BY <1>4, <3>1, <3>2 DEF Confirm, Notice
  <2> QED
    BY <2>1, <2>2 DEF SessionOK
\* The steps of a turn before its answer.
<1>t. ASSUME NEW messages,
             unsent[r] \union messages \in Questions(r),
             \/ Flush(r, [mem[r] EXCEPT !.status = "in_progress"], messages)
             \/ Flush(r, mem[r], messages),
             pc[r] \in InFlight, pc[r] # "responding", op[r] \in TurnOps,
             op'[r] = op[r], pc'[r] \in InFlight \ {"loaded"}
      PROVE  Then
  BY <1>t, <1>s, TurnMoves DEF SessionOK
<1>5. CASE CustomerAppend(r)
  <2>1. unsent[r] \union {[role |-> "customer", text |-> r]} \in Questions(r)
    BY <1>5, <1>s DEF CustomerAppend, SessionOK, Untouched, Questions
  <2>2. op'[r] = op[r] /\ pc'[r] \in {"running", "responding"}
    BY <1>5 DEF CustomerAppend, Goto, TypeOK
  <2>3. \/ Flush(r, [mem[r] EXCEPT !.status = "in_progress"],
                 {[role |-> "customer", text |-> r]})
        \/ Flush(r, mem[r], {[role |-> "customer", text |-> r]})
    BY <1>5 DEF CustomerAppend
  <2>4. pc[r] = "loaded" /\ op[r] = "customer"
    BY <1>5 DEF CustomerAppend
  <2> QED
    BY <1>t, <2>1, <2>2, <2>3, <2>4
<1>6. CASE HumanAppend(r)
  <2>1. unsent[r] \union {[role |-> "human_agent", text |-> r]} \in Questions(r)
    BY <1>6, <1>s DEF HumanAppend, SessionOK, Untouched, Questions
  <2>2. op'[r] = op[r] /\ pc'[r] = "appended" /\ pc[r] = "loaded" /\ op[r] = "human"
        /\ Flush(r, mem[r], {[role |-> "human_agent", text |-> r]})
    BY <1>6 DEF HumanAppend, Goto, TypeOK
  <2> QED
    BY <1>t, <2>1, <2>2
\* The steps that flush nothing.
<1>n. ASSUME NoFlush \/ UNCHANGED <<mem, written, unsent>>, op'[r] = op[r],
             pc[r] \in InFlight, pc[r] # "responding", op[r] \in TurnOps,
             pc'[r] \in InFlight \ {"loaded"}
      PROVE  Then
  <2>1. mem'[r] = mem[r] /\ written'[r] = written[r] /\ unsent'[r] = unsent[r]
    BY <1>n DEF NoFlush
  <2>2. TurnDoes(r, pc[r], mem[r], written[r], unsent[r])
    BY <1>n, <1>s DEF SessionOK
  <2>3. TurnDoes(r, pc'[r], mem'[r], written'[r], unsent'[r])
    BY <1>n, <2>1, <2>2 DEF TurnDoes, Asks
  <2> QED
    BY <1>n, <2>1, <2>3 DEF SessionOK
\* Only a turn is anywhere between its arrival and its response.
<1>o. pc[r] \in InFlight /\ pc[r] \notin {"loaded", "responding"} => op[r] \in TurnOps
  BY <1>s DEF SessionOK
<1>u. pc[r] \in InFlight /\ op[r] \in TurnOps /\ pc[r] # "responding"
        => unsent[r] \in Questions(r)
  BY <1>s DEF SessionOK, TurnDoes, Asks
<1>7. CASE HumanCheck(r)
  <2>1. op'[r] = op[r] /\ pc[r] = "appended" /\ pc'[r] \in {"running", "responding"}
    BY <1>7 DEF HumanCheck, Goto, TypeOK
  <2>2. unsent[r] \union {} \in Questions(r) /\ op[r] \in TurnOps
    BY <2>1, <1>o, <1>u
  <2>3. NoFlush \/ Flush(r, [mem[r] EXCEPT !.status = "in_progress"], {})
    BY <1>7 DEF HumanCheck
  <2> QED
    BY <1>t, <1>n, <2>1, <2>2, <2>3
<1>8. CASE StartWithoutMessage(r)
  <2>1. /\ op'[r] = op[r] /\ pc[r] = "loaded" /\ pc'[r] = "running"
        /\ op[r] \in TurnOps
        /\ Flush(r, [mem[r] EXCEPT !.status = "in_progress"], {})
    BY <1>8 DEF StartWithoutMessage, Goto, TypeOK
  <2>2. unsent[r] \union {} \in Questions(r)
    BY <2>1, <1>u
  <2> QED
    BY <1>t, <2>1, <2>2
<1>9. CASE EnterGraph(r) \/ RunNodes(r) \/ EndGraph(r) \/ Resume(r) \/ Snapshot(r)
  <2>1. /\ NoFlush \/ UNCHANGED <<mem, written, unsent>>
        /\ op'[r] = op[r] /\ pc[r] \in {"running", "graph", "routed", "resuming", "ended"}
        /\ pc'[r] \in {"graph", "resuming", "routed", "ended", "snapped"}
    BY <1>9 DEF EnterGraph, RunNodes, EndGraph, Resume, Snapshot, Goto, TypeOK
  <2> QED
    BY <1>n, <1>o, <2>1
<1>10. CASE StreamCut(r)
  <2>1. /\ NoFlush /\ op'[r] = op[r] /\ pc[r] \in InFlight /\ op[r] \in TurnOps
        /\ pc'[r] = "responding"
    BY <1>10 DEF StreamCut, Streamed, Goto, TypeOK
  <2>2. CASE pc[r] # "responding"
    BY <1>n, <2>1, <2>2
  <2>3. CASE pc[r] = "responding"
    <3>1. mem'[r] = mem[r] /\ written'[r] = written[r] /\ unsent'[r] = unsent[r]
      BY <2>1 DEF NoFlush
    <3> QED
      BY <1>s, <2>1, <2>3, <3>1
  <2> QED
    BY <2>2, <2>3
<1>11. CASE FailGraph(r)
  <2>1. CASE op[r] = "reply"
    BY <1>11, <2>1, <1>e DEF FailGraph, Finished
  <2>2. CASE op[r] # "reply"
    <3>1. /\ NoFlush /\ op'[r] = op[r] /\ pc'[r] = "snapped"
          /\ pc[r] \in {"graph", "routed", "resuming", "ended"}
      BY <1>11, <2>2 DEF FailGraph, Goto, TypeOK
    <3> QED
      BY <1>n, <1>o, <3>1
  <2> QED
    BY <2>1, <2>2
<1>12. CASE Persist(r)
  <2> DEFINE res == result[r]
             escalates == res.interrupted \/ res.needsHuman
             status == NextStatus(res, mem[r].status)
             m == [mem[r] EXCEPT !.status = status, !.stamped = Dated(@, escalates)]
  <2>1. /\ op'[r] = op[r] /\ op[r] \in TurnOps /\ pc[r] = "snapped"
        /\ pc'[r] = "responding"
    BY <1>12, <1>o DEF Persist, Goto, TypeOK
  <2>2. /\ TurnWrites(mem[r], written[r]) /\ "stamped" \notin written[r]
        /\ unsent[r] \in Questions(r)
    BY <1>s, <2>1 DEF SessionOK, TurnDoes, Asks
  <2>3. PICK answer \in Answers : Flush(r, m, answer)
    <3>1. result[r].text \in Texts
      BY DEF TypeOK, Results
    <3>2. {} \in Answers /\ {[role |-> "assistant", text |-> result[r].text]} \in Answers
      BY <3>1 DEF Answers
    <3> QED
      BY <1>12, <3>2 DEF Persist
  <2>4. status = mem[r].status \/ status \in {"open", "in_progress", "escalated"}
    BY DEF NextStatus
  <2>5. escalates => status = "escalated"
    BY DEF NextStatus
  <2>6. m.status = status
    BY DEF TicketRow
  <2>7. /\ Changed(mem[r], m) \subseteq {"status", "stamped"}
        /\ "status" \in Changed(mem[r], m) <=> status # mem[r].status
        /\ "stamped" \in Changed(mem[r], m) => escalates /\ ~ mem[r].stamped
    BY DEF Changed, Dated, TicketRow
  <2>8. "stamped" \in Changed(mem[r], m) => "status" \in Changed(mem[r], m)
    BY <2>5, <2>7 DEF DatedRow
  <2>9. TurnWrites(m, written[r] \union Changed(mem[r], m))
    <3> HIDE DEF m, status, escalates
    <3> QED
      BY <2>2, <2>4, <2>5, <2>6, <2>7, <2>8 DEF TurnWrites
  <2>10. /\ mem'[r] = m /\ written'[r] = written[r] \union Changed(mem[r], m)
         /\ unsent'[r] = unsent[r] \union answer
    <3> HIDE DEF m
    <3> QED
      BY <2>3, FlushEffect
  <2>11. TurnDoes(r, pc'[r], mem'[r], written'[r], unsent'[r])
    <3> HIDE DEF m
    <3> QED
      BY <2>1, <2>2, <2>9, <2>10 DEF TurnDoes, Asks, Speaks
  <2> QED
    BY <2>1, <2>11 DEF SessionOK
<1>13. CASE Commit(r) \/ Abort(r) \/ WaitCut(r)
  BY <1>13, <1>e DEF Commit, Abort, WaitCut, Finished
<1> QED
  BY <1>1, <1>2, <1>3, <1>4, <1>5, <1>6, <1>7, <1>8, <1>9, <1>10, <1>11, <1>12,
     <1>13
  DEF Step, Work

LEMMA SessionsStep ==
  TypeOK /\ DatedInv /\ SessionInv /\ [Next]_vars => SessionInv'
<1> SUFFICES ASSUME TypeOK, DatedInv, SessionInv, [Next]_vars PROVE SessionInv'
  OBVIOUS
<1>1. CASE UNCHANGED vars \/ AllServed
  BY <1>1 DEF AllServed, vars, SessionInv
<1>2. ASSUME NEW r \in Requests, Step(r) PROVE SessionInv'
  <2> SUFFICES ASSUME NEW q \in Requests
               PROVE  SessionOK(q, pc'[q], op'[q], mem'[q], written'[q], unsent'[q])
    BY DEF SessionInv
  <2>1. CASE q = r
    BY <1>2, <2>1, SessionStep
  <2>2. CASE q # r
    BY <1>2, <2>2, StepFrame DEF SessionInv
  <2> QED
    BY <2>1, <2>2
<1> QED
  BY <1>1, <1>2 DEF Next

-----------------------------------------------------------------------------
(* The refinement *)

Done == {q \in Requests : pc[q] = "done"}

\* Only a commit shows anything to a reader of the database.
LEMMA OnlyCommitsShow ==
  ASSUME TypeOK, NEW r \in Requests, Step(r), ~ Commit(r)
  PROVE  row' = row /\ transcript' = transcript /\ Done' = Done
<1>1. row' = row /\ transcript' = transcript
  BY DEF Step, Work, Load, TakeOver, Close, Confirm, CustomerAppend, HumanAppend,
        HumanCheck, StartWithoutMessage, EnterGraph, RunNodes, EndGraph, Resume,
        Snapshot, Persist, Abort, FailGraph, StreamCut, WaitCut, ticketVars
<1>2. pc[r] # "done" /\ pc'[r] # "done"
  BY DEF Step, Work, Load, TakeOver, Close, Confirm, CustomerAppend, HumanAppend,
        HumanCheck, StartWithoutMessage, EnterGraph, RunNodes, EndGraph, Resume,
        Snapshot, Persist, Abort, FailGraph, StreamCut, WaitCut, EndSession,
        Goto, TypeOK, InFlight, InRun
<1>3. \A q \in Requests \ {r} : pc'[q] = pc[q]
  BY StepFrame
<1> QED
  BY <1>1, <1>2, <1>3 DEF Done

\* What a commit makes of the row, column by column.
LEMMA Overlay ==
  ASSUME TypeOK, NEW r \in Requests
  PROVE  /\ Overlaid(r) = [row EXCEPT !.status  = Overlaid(r).status,
                                      !.agent   = Overlaid(r).agent,
                                      !.stamped = Overlaid(r).stamped]
         /\ "status" \notin written[r] => Overlaid(r).status = row.status
         /\ "status" \in written[r] => Overlaid(r).status = mem[r].status
         /\ "agent" \notin written[r] => Overlaid(r).agent = row.agent
         /\ "agent" \in written[r] => Overlaid(r).agent = mem[r].agent
         /\ "stamped" \notin written[r] => Overlaid(r).stamped = row.stamped
         /\ "stamped" \in written[r] => Overlaid(r).stamped = mem[r].stamped
BY DEF Overlaid, TypeOK, TicketRow

\* The commit of r is the ledger's step for r.
LEMMA CommitIsEntry ==
  ASSUME TypeOK, DatedInv, SessionInv, NEW r \in Requests, Commit(r)
  PROVE  /\ r \notin Done
         /\ Done' = Done \union {r}
         /\ \/ Ledger!TakenOver(r) \/ Ledger!Closed(r)
            \/ Ledger!Confirmed(r) \/ Ledger!Turned(r)
<1>1. /\ row' = Overlaid(r) /\ transcript' = transcript \union unsent[r]
      /\ pc[r] = "responding" /\ pc' = [pc EXCEPT ![r] = "done"]
  BY DEF Commit, EndSession, Goto
<1>2. r \notin Done /\ Done' = Done \union {r}
  BY <1>1 DEF Done, TypeOK
<1>3. SessionOK(r, pc[r], op[r], mem[r], written[r], unsent[r])
  BY DEF SessionInv
<1> row \in TicketRow /\ mem[r] \in TicketRow /\ Overlaid(r) \in TicketRow
  BY OverlaidType DEF TypeOK
<1>4. CASE op[r] = "takeover"
  <2>1. TakesOver(mem[r], written[r], unsent[r])
    BY <1>1, <1>3, <1>4 DEF SessionOK
  <2>2. row' = [row EXCEPT !.agent = Overlaid(r).agent]
    <3>1. "status" \notin written[r] /\ "stamped" \notin written[r]
      BY <2>1 DEF TakesOver
    <3>2. row' = [row EXCEPT !.status = row.status, !.agent = Overlaid(r).agent,
                             !.stamped = row.stamped]
      BY <1>1, <3>1, Overlay
    <3> QED
      BY <3>2 DEF TicketRow
  <2>3. Overlaid(r).agent \in Agents \/ Overlaid(r).agent = row.agent
    BY <2>1, Overlay DEF TakesOver
  <2>4. transcript' = transcript
    BY <1>1, <2>1 DEF TakesOver
  <2>5. Ledger!TakenOver(r)
    <3>1. CASE Overlaid(r).agent \in Agents
      BY <2>2, <2>4, <3>1 DEF Ledger!TakenOver
    <3>2. CASE Overlaid(r).agent = row.agent
      BY <2>2, <2>4, <3>2 DEF Ledger!TakenOver, TicketRow
    <3> QED
      BY <2>3, <3>1, <3>2
  <2> QED
    BY <1>2, <2>5
<1>5. CASE op[r] = "close"
  <2>1. Closes(r, mem[r], written[r], unsent[r])
    BY <1>1, <1>3, <1>5 DEF SessionOK
  <2>2. /\ Overlaid(r).status = "closed" /\ Overlaid(r).stamped = row.stamped
        /\ Overlaid(r).agent = NoAgent \/ Overlaid(r).agent = row.agent
    BY <2>1, Overlay DEF Closes
  <2>3. row' \in {[row EXCEPT !.status = "closed"],
                  [row EXCEPT !.status = "closed", !.agent = NoAgent]}
    BY <1>1, <2>2 DEF TicketRow
  <2>4. Ledger!Closed(r)
    BY <1>1, <2>1, <2>3 DEF Ledger!Closed, Ledger!Says, Closes, Notice
  <2> QED
    BY <1>2, <2>4
<1>6. CASE op[r] = "confirm"
  <2>1. Confirms(r, mem[r], written[r], unsent[r])
    BY <1>1, <1>3, <1>6 DEF SessionOK
  <2>2. CASE Untouched(written[r], unsent[r])
    <3>1. row' = row /\ transcript' = transcript
      BY <1>1, <2>2 DEF Untouched, Overlaid, TicketRow
    <3> QED
      BY <1>2, <3>1 DEF Ledger!Confirmed
  <2>3. CASE written[r] = {"status"} /\ mem[r].status = "resolved"
               /\ unsent[r] = Notice(r)
    <3>1. row' = [row EXCEPT !.status = "resolved"]
      BY <1>1, <2>3 DEF Overlaid, TicketRow
    <3> QED
      BY <1>1, <1>2, <2>3, <3>1 DEF Ledger!Confirmed, Ledger!Says, Notice
  <2> QED
    BY <2>1, <2>2, <2>3 DEF Confirms
<1>7. CASE op[r] \in TurnOps
  <2>1. TurnWrites(mem[r], written[r]) /\ Speaks(r, unsent[r])
    BY <1>1, <1>3, <1>7 DEF SessionOK, TurnDoes, InFlight, InRun
  <2>2. /\ row'.status \in Statuses /\ row'.stamped \in BOOLEAN
        /\ row' = [row EXCEPT !.status = row'.status, !.stamped = row'.stamped]
    <3>1. row' \in TicketRow /\ row'.agent = row.agent
      BY <1>1, <2>1, Overlay DEF TurnWrites
    <3> QED
      BY <3>1 DEF TicketRow
  <2>3. Ledger!Turns(row, row')
    <3>1. row'.agent = row.agent
      BY <1>1, <2>1, Overlay DEF TurnWrites
    <3>2. row'.status # row.status =>
            row'.status \in {"open", "in_progress", "escalated"}
      BY <1>1, <2>1, Overlay DEF TurnWrites
    <3>3. row'.stamped # row.stamped => row'.stamped /\ row'.status = "escalated"
      <4> SUFFICES ASSUME row'.stamped # row.stamped
                   PROVE  row'.stamped /\ row'.status = "escalated"
        OBVIOUS
      <4>1. "stamped" \in written[r] /\ row'.stamped = mem[r].stamped
        BY <1>1, Overlay
      <4>2. row'.status = "escalated"
        BY <1>1, <2>1, <4>1, Overlay DEF TurnWrites
      <4>3. mem[r].stamped
        BY <4>1 DEF DatedInv
      <4> QED
        BY <4>1, <4>2, <4>3, Zenon
    <3> QED
      BY <3>1, <3>2, <3>3, Zenon DEF Ledger!Turns
  <2>4. \E question \in {{}, {Ledger!Says("customer", r)},
                          {Ledger!Says("human_agent", r)}},
            answer \in {{}} \union {{Ledger!Says("assistant", t)} : t \in Ledger!Texts} :
          transcript' = transcript \union question \union answer
    <3>1. PICK q \in Questions(r), a \in Answers : unsent[r] = q \union a
      BY <2>1 DEF Speaks
    <3>2. transcript' = transcript \union q \union a
      BY <1>1, <3>1
    <3> QED
      BY <3>1, <3>2 DEF Questions, Answers, Texts, Ledger!Texts, Ledger!Says
  <2>5. Ledger!Turned(r)
    BY <2>2, <2>3, <2>4 DEF Ledger!Turned, Statuses
  <2> QED
    BY <1>2, <2>5
<1> QED
  BY <1>4, <1>5, <1>6, <1>7 DEF TypeOK, OpKinds, TurnOps

LEMMA StepIsEntry ==
  TypeOK /\ DatedInv /\ SessionInv /\ [Next]_vars => [Ledger!Next]_Ledger!vars
<1> SUFFICES ASSUME TypeOK, DatedInv, SessionInv, [Next]_vars
             PROVE  [Ledger!Next]_Ledger!vars
  OBVIOUS
<1>1. CASE UNCHANGED vars \/ AllServed
  BY <1>1 DEF AllServed, vars, Ledger!vars
<1>2. ASSUME NEW r \in Requests, Step(r), ~ Commit(r)
      PROVE  UNCHANGED Ledger!vars
  BY <1>2, OnlyCommitsShow DEF Ledger!vars, Done
<1>3. ASSUME NEW r \in Requests, Commit(r) PROVE Ledger!Next
  BY <1>3, CommitIsEntry DEF Ledger!Next, Done
<1> QED
  BY <1>1, <1>2, <1>3 DEF Next

\* Every behaviour of the desk, with its sessions, locks and faults, is one of
\* the ledger: each request takes effect in one step or not at all.
THEOREM DeskImplementsLedger == Spec => ImplementsLedger
<1>1. Init => Ledger!Init /\ DatedInv /\ NewIsClean
  BY DEF Init, Ledger!Init, NewRow, DatedInv, DatedRow, NewIsClean
<1> QED
  BY <1>1, InitSession, SessionsStep, StepIsEntry, CleanStep, DatedStep,
     TypeCorrect, PTL
  DEF Spec, ImplementsLedger, Ledger!Spec
=============================================================================
