--------------------------- MODULE TicketDeskProofs ---------------------------
(***************************************************************************)
(* What TLAPS proves of TicketDesk for any set of requests and agents.     *)
(***************************************************************************)
EXTENDS TicketDesk, TLAPS

USE OpsAssumption, FaultsAssumption, MarkersAssumption

-----------------------------------------------------------------------------
(* Lemmas about the session operators *)

\* A flush of a well-formed copy and messages keeps the session well-formed.
LEMMA FlushType ==
  ASSUME TypeOK, NEW r \in Requests, NEW m \in TicketRow,
         NEW messages \in SUBSET Messages, Flush(r, m, messages)
  PROVE  /\ holder' \in Requests \union {NoRequest}
         /\ mem' \in [Requests -> TicketRow]
         /\ written' \in [Requests -> SUBSET Columns]
         /\ unsent' \in [Requests -> SUBSET Messages]
<1>1. Changed(mem[r], m) \in SUBSET Columns
  BY DEF Changed, Columns
<1>2. holder' \in Requests \union {NoRequest}
  BY DEF Flush, TypeOK
<1>3. mem' \in [Requests -> TicketRow]
  BY DEF Flush, TypeOK
<1>4. written' \in [Requests -> SUBSET Columns]
  BY <1>1 DEF Flush, TypeOK
<1>5. unsent' \in [Requests -> SUBSET Messages]
  BY DEF Flush, TypeOK
<1> QED
  BY <1>2, <1>3, <1>4, <1>5

\* Ending a session leaves a well-formed, empty one.
LEMMA EndSessionType ==
  ASSUME TypeOK, NEW r \in Requests, NEW l \in PCs, EndSession(r, l)
  PROVE  /\ holder' \in Requests \union {NoRequest}
         /\ pc' \in [Requests -> PCs]
         /\ mem' \in [Requests -> TicketRow]
         /\ written' \in [Requests -> SUBSET Columns]
         /\ unsent' \in [Requests -> SUBSET Messages]
         /\ state' \in [Requests -> SupportState]
         /\ result' \in [Requests -> Results]
<1>1. NewRow \in TicketRow
  BY DEF NewRow, TicketRow, Statuses
<1>2. NoState \in SupportState /\ NoResult \in Results
  BY DEF NoState, SupportState, NoResult, Results, Texts
<1> QED
  BY <1>1, <1>2 DEF EndSession, Goto, TypeOK

\* Committing a well-formed session leaves a well-formed row.
LEMMA OverlaidType ==
  ASSUME TypeOK, NEW r \in Requests
  PROVE  Overlaid(r) \in TicketRow
BY DEF Overlaid, TypeOK, TicketRow

-----------------------------------------------------------------------------
(* Type correctness *)

\* What a run carries to the end of its worker, and what it ends with.
LEMMA WorkedType ==
  ASSUME NEW r \in Requests, NEW s \in SupportState
  PROVE  Worked(r, s) \subseteq SupportState
<1>1. Advised(r) \subseteq SupportState
  BY DEF Advised, SupportState, Texts
<1>2. ASSUME NEW b \in BOOLEAN, NEW u \in BOOLEAN
      PROVE  [needsHuman |-> s.needsHuman \/ b \/ u,
              gate       |-> s.gate \/ u,
              draft      |-> IF b THEN r ELSE s.draft] \in SupportState
  <2>1. (IF b THEN r ELSE s.draft) \in Texts
    BY DEF SupportState, Texts
  <2>2. (s.needsHuman \/ b \/ u) \in BOOLEAN /\ (s.gate \/ u) \in BOOLEAN
    OBVIOUS
  <2> QED
    BY <2>1, <2>2 DEF SupportState
<1>3. Entered(r, s) \subseteq SupportState
  <2> SUFFICES ASSUME NEW e \in Entered(r, s) PROVE e \in SupportState
    OBVIOUS
  <2>1. PICK b \in BOOLEAN, u \in BOOLEAN :
          e = [needsHuman |-> s.needsHuman \/ b \/ u,
               gate       |-> s.gate \/ u,
               draft      |-> IF b THEN r ELSE s.draft]
    BY SMT DEF Entered
  <2> QED
    BY <1>2, <2>1
<1> QED
  BY <1>1, <1>3 DEF Worked

LEMMA AnsweredType ==
  ASSUME NEW text \in Texts, NEW gate \in BOOLEAN
  PROVE  Answered(text, gate) \subseteq Checkpoint
<1>1. [needsHuman |-> FALSE, gate |-> gate, draft |-> text] \in SupportState
  BY DEF SupportState
<1>2. [needsHuman |-> TRUE, gate |-> gate, draft |-> HandoffText] \in SupportState
  BY DEF SupportState, Texts
<1> QED
  BY <1>1, <1>2 DEF Answered, Checkpoint

LEMMA InitType == Init => TypeOK
<1> SUFFICES ASSUME Init PROVE TypeOK
  OBVIOUS
<1>1. NewRow \in TicketRow
  BY DEF NewRow, TicketRow, Statuses
<1>2. NoState \in SupportState /\ NoResult \in Results
  BY DEF NoState, SupportState, NoResult, Results, Texts
<1>3. ckpt \in Checkpoint
  BY <1>2 DEF Init, Checkpoint
<1> QED
  BY <1>1, <1>2, <1>3 DEF Init, TypeOK, OpKinds, PCs

LEMMA StepType == TypeOK /\ [Next]_vars => TypeOK'
<1> SUFFICES ASSUME TypeOK, [Next]_vars PROVE TypeOK'
  OBVIOUS
<1>1. CASE UNCHANGED vars
  BY <1>1 DEF vars, TypeOK
<1>2. CASE AllServed
  BY <1>2 DEF AllServed, vars, TypeOK
<1>3. ASSUME NEW r \in Requests, Step(r) PROVE TypeOK'
  <2> mem[r] \in TicketRow
    BY DEF TypeOK
  <2>1. CASE Load(r)
    BY <2>1 DEF Load, Goto, TypeOK, PCs, InFlight, Finished, graphVars
  <2>2. CASE TakeOver(r)
    <3>1. PICK a \in Agents : Flush(r, [mem[r] EXCEPT !.agent = a], {})
      BY <2>2 DEF TakeOver
    <3>2. [mem[r] EXCEPT !.agent = a] \in TicketRow
      BY DEF TicketRow
    <3> HIDE DEF Flush
    <3> QED
      BY <2>2, <3>1, <3>2, FlushType
      DEF TakeOver, Goto, TypeOK, PCs, InFlight, ticketVars, graphVars
  <2>3. CASE Close(r)
    <3>1. [mem[r] EXCEPT !.status = "closed", !.agent = NoAgent] \in TicketRow
      BY DEF TicketRow, Statuses
    <3>2. {[role |-> "system", text |-> r]} \in SUBSET Messages
      BY DEF Messages, Roles, Texts
    <3> QED
      BY <2>3, <3>1, <3>2, FlushType
      DEF Close, Goto, TypeOK, PCs, InFlight, ticketVars, graphVars
  <2>4. CASE Confirm(r)
    <3>1. [mem[r] EXCEPT !.status = "resolved"] \in TicketRow
      BY DEF TicketRow, Statuses
    <3>2. {[role |-> "system", text |-> r]} \in SUBSET Messages
      BY DEF Messages, Roles, Texts
    <3>3. CASE mem[r].status = "resolved"
      BY <2>4, <3>3
      DEF Confirm, NoFlush, Goto, TypeOK, PCs, InFlight, ticketVars, graphVars
    <3>4. CASE mem[r].status # "resolved"
      BY <2>4, <3>1, <3>2, <3>4, FlushType
      DEF Confirm, Goto, TypeOK, PCs, InFlight, ticketVars, graphVars
    <3> QED
      BY <3>3, <3>4
  <2>5. CASE CustomerAppend(r)
    <3> DEFINE m == IF RunsGraph(mem[r])
                      THEN [mem[r] EXCEPT !.status = "in_progress"] ELSE mem[r]
    <3>1. m \in TicketRow
      BY DEF TicketRow, Statuses
    <3>2. {[role |-> "customer", text |-> r]} \in SUBSET Messages
      BY DEF Messages, Roles, Texts
    <3>3. Flush(r, m, {[role |-> "customer", text |-> r]})
      BY <2>5 DEF CustomerAppend
    <3> HIDE DEF m
    <3> QED
      BY <2>5, <3>1, <3>2, <3>3, FlushType
      DEF CustomerAppend, Goto, TypeOK, PCs, InFlight, InRun, ticketVars,
          graphVars
  <2>6. CASE HumanAppend(r)
    <3>1. {[role |-> "human_agent", text |-> r]} \in SUBSET Messages
      BY DEF Messages, Roles, Texts
    <3> QED
      BY <2>6, <3>1, FlushType
      DEF HumanAppend, Goto, TypeOK, PCs, InFlight, ticketVars, graphVars
  <2>7. CASE HumanCheck(r)
    <3>1. [mem[r] EXCEPT !.status = "in_progress"] \in TicketRow
      BY DEF TicketRow, Statuses
    <3>2. CASE Flush(r, [mem[r] EXCEPT !.status = "in_progress"], {})
                /\ Goto(r, "running") /\ UNCHANGED replied
      BY <2>7, <3>1, <3>2, FlushType
      DEF HumanCheck, Goto, TypeOK, PCs, InFlight, ticketVars, graphVars
    <3>3. CASE NoFlush /\ Goto(r, "responding")
                /\ replied' = replied \union {r}
      BY <2>7, <3>3
      DEF HumanCheck, NoFlush, Goto, TypeOK, PCs, InFlight, ticketVars,
          graphVars
    <3> QED
      BY <2>7, <3>2, <3>3 DEF HumanCheck
  <2>8. CASE StartWithoutMessage(r)
    <3>1. [mem[r] EXCEPT !.status = "in_progress"] \in TicketRow
      BY DEF TicketRow, Statuses
    <3> QED
      BY <2>8, <3>1, FlushType
      DEF StartWithoutMessage, Goto, TypeOK, PCs, InFlight, ticketVars,
          graphVars
  <2>9. CASE EnterGraph(r)
    BY <2>9
    DEF EnterGraph, Goto, TypeOK, PCs, InFlight, InRun, Checkpoint, SupportState,
        ticketVars
  <2>10. CASE RunNodes(r)
    <3>1. PICK s \in Worked(r, state[r]) \union {state[r]} :
            /\ state' = [state EXCEPT ![r] = s]
            /\ ckpt' = [phase |-> "running", values |-> s]
      BY <2>10 DEF RunNodes
    <3>2. s \in SupportState
      BY <3>1, WorkedType DEF TypeOK
    <3>3. ckpt' \in Checkpoint /\ state' \in [Requests -> SupportState]
      BY <3>1, <3>2 DEF TypeOK, Checkpoint
    <3> HIDE DEF SupportState
    <3> QED
      BY <2>10, <3>3
      DEF RunNodes, Goto, TypeOK, PCs, InFlight, InRun, ticketVars
  <2>11. CASE EndGraph(r)
    <3> DEFINE text == IF Gated(state[r]) THEN r ELSE state[r].draft
    <3>a. text \in Texts
      BY DEF TypeOK, SupportState, Texts
    <3>1. Answered(text, state[r].gate) \subseteq Checkpoint
      BY <3>a, AnsweredType DEF TypeOK, SupportState
    <3>2. ckpt' \in Checkpoint
      BY <2>11, <3>1 DEF EndGraph, TypeOK, Checkpoint
    <3> QED
      BY <2>11, <3>2
      DEF EndGraph, Goto, TypeOK, PCs, InFlight, InRun, ticketVars
  <2>12. CASE Resume(r)
    <3>1. Answered(r, state[r].gate) \subseteq Checkpoint
      BY AnsweredType DEF TypeOK, SupportState, Texts
    <3> QED
      BY <2>12, <3>1
      DEF Resume, Goto, TypeOK, PCs, InFlight, InRun, ticketVars
  <2>13. CASE Snapshot(r)
    <3> DEFINE waits == ckpt.phase = "interrupted"
               draft == ckpt.values.draft
               asks == waits \/ ckpt.values.needsHuman
               text == IF waits /\ draft = NoRequest THEN HandoffText ELSE draft
               read == [interrupted |-> waits, needsHuman |-> asks,
                        error |-> FALSE, text |-> text]
               unread == [NoResult EXCEPT !.text = r]
    <3>a. waits \in BOOLEAN /\ asks \in BOOLEAN
      OBVIOUS
    <3>b. text \in Texts
      BY DEF TypeOK, Checkpoint, SupportState, Texts
    <3>c. read \in Results
      <4> HIDE DEF waits, asks, text
      <4> QED
        BY <3>a, <3>b DEF Results
    <3>d. unread \in Results
      BY DEF NoResult, Results, Texts
    <3>e. \/ result' = [result EXCEPT ![r] = read]
          \/ result' = [result EXCEPT ![r] = unread]
      BY <2>13 DEF Snapshot
    <3>1. result' \in [Requests -> Results]
      <4> HIDE DEF read, unread
      <4> QED
        BY <3>c, <3>d, <3>e DEF TypeOK
    <3> QED
      BY <2>13, <3>1
      DEF Snapshot, NoFlush, Goto, TypeOK, PCs, InFlight, InRun, ticketVars,
          graphVars
  <2>14. CASE Persist(r)
    <3> DEFINE res == result[r]
               escalates == res.interrupted \/ res.needsHuman
               m == [mem[r] EXCEPT !.status = NextStatus(res, mem[r].status),
                                   !.stamped = Dated(@, escalates)]
    <3>1. res \in Results
      BY DEF TypeOK
    <3>2. NextStatus(res, mem[r].status) \in Statuses
      BY DEF NextStatus, Statuses, TicketRow
    <3>3. m \in TicketRow
      BY <3>1, <3>2 DEF TicketRow, Dated, Results
    <3>4. {[role |-> "assistant", text |-> res.text]} \in SUBSET Messages
      BY <3>1 DEF Messages, Roles, Results
    <3>5. \E messages \in SUBSET Messages : Flush(r, m, messages)
      BY <2>14, <3>4 DEF Persist
    <3> HIDE DEF m
    <3> QED
      BY <2>14, <3>3, <3>5, FlushType
      DEF Persist, Goto, TypeOK, PCs, InFlight, ticketVars, graphVars
  <2>15. CASE Commit(r)
    BY <2>15, OverlaidType, EndSessionType
    DEF Commit, TypeOK, PCs, Finished
  <2>16. CASE Abort(r)
    BY <2>16, EndSessionType DEF Abort, TypeOK, PCs, Finished
  <2>17. CASE FailGraph(r)
    <3>1. CASE op[r] = "reply"
      BY <2>17, <3>1, EndSessionType
      DEF FailGraph, TypeOK, PCs, Finished, ticketVars
    <3>2. CASE op[r] # "reply"
      <4>1. [NoResult EXCEPT !.error = TRUE, !.text = r] \in Results
        BY DEF NoResult, Results, Texts
      <4> QED
        BY <2>17, <3>2, <4>1
        DEF FailGraph, NoFlush, Goto, TypeOK, PCs, InFlight, InRun, ticketVars
    <3> QED
      BY <3>1, <3>2
  <2>18. CASE StreamCut(r)
    BY <2>18
    DEF StreamCut, NoFlush, Goto, TypeOK, PCs, InFlight, ticketVars,
        graphVars
  <2>19. CASE WaitCut(r)
    BY <2>19, EndSessionType
    DEF WaitCut, TypeOK, PCs, Finished, ticketVars
  <2> QED
    BY <1>3, <2>1, <2>2, <2>3, <2>4, <2>5, <2>6, <2>7, <2>8, <2>9, <2>10,
       <2>11, <2>12, <2>13, <2>14, <2>15, <2>16, <2>17, <2>18, <2>19
    DEF Step, Work
<1> QED
  BY <1>1, <1>2, <1>3 DEF Next

\* Every session, row, transcript and checkpoint stays in its domain, with any
\* number of requests and with every fault the model has.
THEOREM TypeCorrect == Spec => []TypeOK
BY InitType, StepType, PTL DEF Spec

-----------------------------------------------------------------------------
(* One turn at a time *)

\* From the first flush that matters to the commit a turn holds the row lock.
Driving == InRun \union {"appended", "running"}

LockHeld ==
  \A r \in Requests : pc[r] \in Driving /\ op[r] # "resolve" => holder = r

\* A reply was admitted on an escalated copy, so its status always updates.
RepliesLoadEscalated ==
  \A r \in Requests :
    pc[r] = "loaded" /\ op[r] = "reply" => mem[r].status = "escalated"

LockInv == LockHeld /\ RepliesLoadEscalated

\* A flush never takes the lock from another request, and one that inserts a
\* message or changes a column ends up with it.
LEMMA FlushLock ==
  ASSUME NEW r \in Requests, NEW m, NEW messages, Flush(r, m, messages)
  PROVE  /\ holder \in Requests => holder' = holder
         /\ messages # {} \/ m # mem[r] => holder' = r
         /\ holder = r => holder' = r
BY DEF Flush

\* Another request's copy is its own business.
LEMMA FlushFrame ==
  ASSUME TypeOK, NEW r \in Requests, NEW m, NEW messages,
         Flush(r, m, messages), NEW q \in Requests, q # r
  PROVE  mem'[q] = mem[q] /\ written'[q] = written[q]
BY DEF Flush, TypeOK

\* A message is an update: whoever flushes one has the lock.
LEMMA AppendLock ==
  ASSUME TypeOK, NEW r \in Requests, NEW m, NEW messages,
         Flush(r, m, messages), messages # {}
  PROVE  /\ holder' = r
         /\ \A q \in Requests \ {r} : mem'[q] = mem[q] /\ holder # q
<1>1. holder' = r
  BY FlushLock
<1>2. ASSUME NEW q \in Requests \ {r} PROVE mem'[q] = mem[q]
  BY FlushFrame
<1>3. holder \in {NoRequest, r}
  BY DEF Flush
<1> QED
  BY <1>1, <1>2, <1>3

LEMMA LockStep == TypeOK /\ LockInv /\ [Next]_vars => LockInv'
<1> SUFFICES ASSUME TypeOK, LockInv, [Next]_vars PROVE LockInv'
  OBVIOUS
<1> USE DEF LockInv, LockHeld, RepliesLoadEscalated
<1>1. CASE UNCHANGED vars
  BY <1>1 DEF vars
<1>2. CASE AllServed
  BY <1>2 DEF AllServed, vars
<1>3. ASSUME NEW r \in Requests, Step(r) PROVE LockInv'
  \* What a step of r has to do: keep the lock where it is for the others, hold
  \* it itself if it drives, and load an escalated ticket if it is a reply.
  <2> SUFFICES
        /\ \A q \in Requests \ {r} :
             /\ pc'[q] = pc[q] /\ op'[q] = op[q]
             /\ pc[q] = "loaded" => mem'[q] = mem[q]
             /\ holder = q => holder' = q
        /\ pc'[r] \in Driving /\ op'[r] # "resolve" => holder' = r
        /\ pc'[r] = "loaded" /\ op'[r] = "reply" => mem'[r].status = "escalated"
    OBVIOUS
  <2> USE DEF TypeOK, Driving, InRun, Goto
  <2>1. CASE Load(r)
    BY <2>1 DEF Load, Admits
  <2>2. CASE TakeOver(r)
    <3>1. PICK a \in Agents : Flush(r, [mem[r] EXCEPT !.agent = a], {})
      BY <2>2 DEF TakeOver
    <3> QED
      BY <2>2, <3>1, FlushLock, FlushFrame DEF TakeOver
  <2>3. CASE Close(r)
    BY <2>3, FlushLock, FlushFrame DEF Close
  <2>4. CASE Confirm(r)
    BY <2>4, FlushLock, FlushFrame DEF Confirm, NoFlush
  <2>5. CASE CustomerAppend(r)
    <3>1. PICK m : Flush(r, m, {[role |-> "customer", text |-> r]})
      BY <2>5 DEF CustomerAppend
    <3>2. /\ holder' = r
          /\ \A q \in Requests \ {r} : mem'[q] = mem[q] /\ holder # q
      <4> HIDE DEF TypeOK
      <4> QED
        BY <3>1, AppendLock
    <3>3. PICK x : x # "loaded" /\ pc' = [pc EXCEPT ![r] = x] /\ op' = op
      BY <2>5 DEF CustomerAppend
    <3>4. pc'[r] # "loaded" /\ \A q \in Requests \ {r} : pc'[q] = pc[q]
      BY <3>3
    <3> QED
      BY <3>2, <3>3, <3>4
  <2>6. CASE HumanAppend(r)
    <3>1. Flush(r, mem[r], {[role |-> "human_agent", text |-> r]})
      BY <2>6 DEF HumanAppend
    <3>2. /\ holder' = r
          /\ \A q \in Requests \ {r} : mem'[q] = mem[q] /\ holder # q
      <4> HIDE DEF TypeOK
      <4> QED
        BY <3>1, AppendLock
    <3> QED
      BY <2>6, <3>2 DEF HumanAppend
  <2>7. CASE HumanCheck(r)
    BY <2>7, FlushLock, FlushFrame DEF HumanCheck, NoFlush
  <2>8. CASE StartWithoutMessage(r)
    <3>1. op[r] = "reply" => [mem[r] EXCEPT !.status = "in_progress"] # mem[r]
      BY <2>8 DEF StartWithoutMessage, TicketRow
    <3> QED
      BY <2>8, <3>1, FlushLock, FlushFrame DEF StartWithoutMessage
  <2>9. CASE EnterGraph(r)
    BY <2>9 DEF EnterGraph
  <2>10. CASE RunNodes(r)
    BY <2>10 DEF RunNodes
  <2>11. CASE EndGraph(r)
    BY <2>11 DEF EndGraph
  <2>12. CASE Resume(r)
    BY <2>12 DEF Resume
  <2>13. CASE Snapshot(r)
    BY <2>13 DEF Snapshot, NoFlush
  <2>14. CASE Persist(r)
    <3>1. PICK m, messages : Flush(r, m, messages)
      BY <2>14 DEF Persist
    <3> QED
      BY <2>14, <3>1, FlushLock, FlushFrame DEF Persist
  <2>15. CASE Commit(r)
    BY <2>15 DEF Commit, EndSession
  <2>16. CASE Abort(r)
    BY <2>16 DEF Abort, EndSession
  <2>17. CASE FailGraph(r)
    BY <2>17 DEF FailGraph, EndSession, NoFlush
  <2>18. CASE StreamCut(r)
    BY <2>18 DEF StreamCut, NoFlush
  <2>19. CASE WaitCut(r)
    BY <2>19 DEF WaitCut, EndSession
  <2> QED
    BY <1>3, <2>1, <2>2, <2>3, <2>4, <2>5, <2>6, <2>7, <2>8, <2>9, <2>10,
       <2>11, <2>12, <2>13, <2>14, <2>15, <2>16, <2>17, <2>18, <2>19
    DEF Step, Work
<1> QED
  BY <1>1, <1>2, <1>3 DEF Next

LEMMA LockStart == Init => LockInv
BY DEF Init, LockInv, LockHeld, RepliesLoadEscalated, Driving, InRun

\* The row lock makes the graph runs of turns and replies mutually exclusive;
\* /resolve, which appends no message, is the exception the property names.
THEOREM TurnsAreSerial == Spec => []OneTurnAtATime
<1>1. LockInv => OneTurnAtATime
  BY DEF LockInv, LockHeld, OneTurnAtATime, Driving
<1> QED
  BY <1>1, LockStart, LockStep, TypeCorrect, PTL DEF Spec

-----------------------------------------------------------------------------
(* The queue is dated *)

\* A copy is dated if being escalated implies being stamped; a stamp in a copy
\* is either still to be written by its session or already in the row, because
\* nothing ever takes a stamp out of the row.
DatedRow(t) == t.status = "escalated" => t.stamped

DatedInv ==
  /\ DatedRow(row)
  /\ \A r \in Requests :
       /\ DatedRow(mem[r])
       /\ "stamped" \in written[r] => mem[r].stamped
       /\ mem[r].stamped => "stamped" \in written[r] \/ row.stamped

\* A request that has not arrived has nothing to write.
NewIsClean == \A r \in Requests : pc[r] = "new" => written[r] = {}

LEMMA CleanStep == TypeOK /\ NewIsClean /\ [Next]_vars => NewIsClean'
<1> SUFFICES ASSUME TypeOK, NewIsClean, [Next]_vars PROVE NewIsClean'
  OBVIOUS
<1>1. CASE UNCHANGED vars \/ AllServed
  BY <1>1 DEF AllServed, vars, NewIsClean
<1>2. ASSUME NEW r \in Requests, Step(r) PROVE NewIsClean'
  <2>1. pc'[r] # "new" /\ \A q \in Requests \ {r} : pc'[q] = pc[q]
    BY <1>2
    DEF Step, Work, Load, TakeOver, Close, Confirm, CustomerAppend, HumanAppend,
        HumanCheck, StartWithoutMessage, EnterGraph, RunNodes, EndGraph, Resume,
        Snapshot, Persist, Commit, Abort, FailGraph, StreamCut, WaitCut,
        EndSession, Goto, TypeOK
  <2>2. \A q \in Requests \ {r} : written'[q] = written[q]
    BY <1>2
    DEF Step, Work, Load, TakeOver, Close, Confirm, CustomerAppend, HumanAppend,
        HumanCheck, StartWithoutMessage, EnterGraph, RunNodes, EndGraph, Resume,
        Snapshot, Persist, Commit, Abort, FailGraph, StreamCut, WaitCut,
        EndSession, Flush, NoFlush, TypeOK
  <2> QED
    BY <2>1, <2>2 DEF NewIsClean
<1> QED
  BY <1>1, <1>2 DEF Next

\* A flush of a dated copy that keeps the stamp preserves the invariant.
LEMMA FlushDated ==
  ASSUME TypeOK, DatedInv, NEW r \in Requests, NEW m \in TicketRow, NEW messages,
         DatedRow(m), mem[r].stamped => m.stamped,
         Flush(r, m, messages), row' = row
  PROVE  DatedInv'
<1>1. mem[r] \in TicketRow /\ written[r] \in SUBSET Columns
  BY DEF TypeOK
<1>2. mem' = [mem EXCEPT ![r] = m]
      /\ written' = [written EXCEPT ![r] = @ \union Changed(mem[r], m)]
  BY DEF Flush
<1>3. "stamped" \in Changed(mem[r], m) <=> mem[r].stamped # m.stamped
  BY DEF Changed
<1>4. "stamped" \in written'[r] => m.stamped
  BY <1>1, <1>2, <1>3 DEF DatedInv, TypeOK, TicketRow
<1>5. m.stamped => "stamped" \in written'[r] \/ row.stamped
  BY <1>1, <1>2, <1>3 DEF DatedInv, TypeOK, TicketRow
<1> QED
  BY <1>2, <1>4, <1>5 DEF DatedInv, TypeOK, DatedRow

\* So does the end of a session, which commits or drops what it wrote.
LEMMA EndSessionDated ==
  ASSUME TypeOK, DatedInv, NEW r \in Requests, NEW l, EndSession(r, l),
         row' = row \/ row' = Overlaid(r)
  PROVE  DatedInv'
<1>1. row.stamped => row'.stamped
  <2>1. \/ row'.stamped = row.stamped
        \/ "stamped" \in written[r] /\ row'.stamped = mem[r].stamped
    BY DEF Overlaid
  <2> QED
    BY <2>1, Zenon DEF DatedInv
<1>2. DatedRow(row')
  <2>1. CASE row' = row
    BY <2>1 DEF DatedInv, DatedRow
  <2>2. CASE row' = Overlaid(r)
    <3>1. row'.status = IF "status" \in written[r] THEN mem[r].status ELSE row.status
      BY <2>2 DEF Overlaid
    <3>2. row'.stamped = IF "stamped" \in written[r] THEN mem[r].stamped ELSE row.stamped
      BY <2>2 DEF Overlaid
    <3>3. CASE "stamped" \in written[r]
      BY <3>2, <3>3, Zenon DEF DatedInv, DatedRow
    <3>4. CASE "stamped" \notin written[r]
      <4>1. row'.stamped = row.stamped
        BY <3>2, <3>4
      <4>2. row'.status = mem[r].status \/ row'.status = row.status
        BY <3>1
      <4> QED
        BY <3>4, <4>1, <4>2, Zenon DEF DatedInv, DatedRow
    <3> QED
      BY <3>3, <3>4
  <2> QED
    BY <2>1, <2>2
<1>3. DatedRow(NewRow) /\ ~ NewRow.stamped
  BY DEF DatedRow, NewRow
<1>4. /\ mem'[r] = NewRow /\ written'[r] = {}
      /\ \A q \in Requests \ {r} : mem'[q] = mem[q] /\ written'[q] = written[q]
  BY DEF EndSession, TypeOK
<1>5. ASSUME NEW q \in Requests
      PROVE  /\ DatedRow(mem'[q])
             /\ "stamped" \in written'[q] => mem'[q].stamped
             /\ mem'[q].stamped => "stamped" \in written'[q] \/ row'.stamped
  <2>1. CASE q = r
    BY <1>3, <1>4, <2>1
  <2>2. CASE q # r
    BY <1>1, <1>4, <2>2, Zenon DEF DatedInv
  <2> QED
    BY <2>1, <2>2
<1> QED
  BY <1>2, <1>5 DEF DatedInv, DatedRow

LEMMA DatedStep == TypeOK /\ NewIsClean /\ DatedInv /\ [Next]_vars => DatedInv'
<1> SUFFICES ASSUME TypeOK, NewIsClean, DatedInv, [Next]_vars PROVE DatedInv'
  OBVIOUS
<1>1. CASE UNCHANGED <<row, mem, written>>
  BY <1>1 DEF DatedInv, DatedRow
<1>2. CASE UNCHANGED vars \/ AllServed
  BY <1>1, <1>2 DEF AllServed, vars
<1>3. ASSUME NEW r \in Requests, Step(r) PROVE DatedInv'
  <2>1. mem[r] \in TicketRow /\ DatedRow(mem[r])
    BY DEF TypeOK, DatedInv
  <2> USE DEF ticketVars
  \* Steps that flush: the copy keeps its stamp and escalates only with one.
  <2>2. CASE Load(r)
    <3>1. written' = written /\ row' = row /\ written[r] = {}
      BY <2>2 DEF Load, NewIsClean
    <3>2. mem'[r] = row /\ \A q \in Requests \ {r} : mem'[q] = mem[q]
      BY <2>2 DEF Load, TypeOK
    <3>3. ASSUME NEW q \in Requests
          PROVE  /\ DatedRow(mem'[q])
                 /\ "stamped" \in written'[q] => mem'[q].stamped
                 /\ mem'[q].stamped => "stamped" \in written'[q] \/ row'.stamped
      <4>1. CASE q = r
        BY <3>1, <3>2, <4>1 DEF DatedInv
      <4>2. CASE q # r
        BY <3>1, <3>2, <4>2, Zenon DEF DatedInv
      <4> QED
        BY <4>1, <4>2
    <3> QED
      BY <3>1, <3>3 DEF DatedInv, DatedRow
  <2>3. CASE TakeOver(r)
    <3>1. PICK a \in Agents : Flush(r, [mem[r] EXCEPT !.agent = a], {})
      BY <2>3 DEF TakeOver
    <3>2. [mem[r] EXCEPT !.agent = a] \in TicketRow
          /\ DatedRow([mem[r] EXCEPT !.agent = a])
      BY <2>1 DEF TicketRow, DatedRow
    <3> QED
      BY <2>1, <2>3, <3>1, <3>2, FlushDated DEF TakeOver, TicketRow
  <2>4. ASSUME NEW s \in Statuses \ {"escalated"},
               NEW a \in Agents \union {NoAgent}, NEW messages,
               Flush(r, [mem[r] EXCEPT !.status = s, !.agent = a], messages),
               row' = row
        PROVE  DatedInv'
    <3>1. [mem[r] EXCEPT !.status = s, !.agent = a] \in TicketRow
          /\ DatedRow([mem[r] EXCEPT !.status = s, !.agent = a])
          /\ [mem[r] EXCEPT !.status = s, !.agent = a].stamped = mem[r].stamped
      BY <2>1 DEF TicketRow, DatedRow
    <3> QED
      BY <2>4, <3>1, FlushDated
  <2>5. ASSUME NEW s \in Statuses \ {"escalated"}, NEW messages,
               Flush(r, [mem[r] EXCEPT !.status = s], messages), row' = row
        PROVE  DatedInv'
    <3>1. [mem[r] EXCEPT !.status = s] \in TicketRow
          /\ DatedRow([mem[r] EXCEPT !.status = s])
          /\ [mem[r] EXCEPT !.status = s].stamped = mem[r].stamped
      BY <2>1 DEF TicketRow, DatedRow
    <3> QED
      BY <2>5, <3>1, FlushDated
  <2>6. ASSUME NEW messages, Flush(r, mem[r], messages), row' = row
        PROVE  DatedInv'
    BY <2>1, <2>6, FlushDated
  <2>7. CASE Close(r)
    BY <2>4, <2>7 DEF Close, Statuses
  <2>8. CASE Confirm(r)
    BY <1>1, <2>5, <2>8 DEF Confirm, NoFlush, Statuses
  <2>9. CASE CustomerAppend(r)
    BY <2>5, <2>6, <2>9 DEF CustomerAppend, Statuses
  <2>10. CASE HumanAppend(r)
    BY <2>6, <2>10 DEF HumanAppend
  <2>11. CASE HumanCheck(r)
    BY <1>1, <2>5, <2>11 DEF HumanCheck, NoFlush, Statuses
  <2>12. CASE StartWithoutMessage(r)
    BY <2>5, <2>12 DEF StartWithoutMessage, Statuses
  <2>13. CASE Persist(r)
    <3> DEFINE res == result[r]
               escalates == res.interrupted \/ res.needsHuman
               status == NextStatus(res, mem[r].status)
               m == [mem[r] EXCEPT !.status = status,
                                   !.stamped = Dated(@, escalates)]
    <3>1. res \in Results
      BY DEF TypeOK
    <3>2. status \in Statuses /\ (status = "escalated" => escalates)
      BY <2>1 DEF NextStatus, Statuses, TicketRow
    <3>3. m \in TicketRow /\ DatedRow(m) /\ (mem[r].stamped => m.stamped)
      BY <2>1, <3>1, <3>2 DEF TicketRow, Dated, Results, DatedRow
    <3>4. PICK messages : Flush(r, m, messages)
      BY <2>13 DEF Persist
    <3>5. row' = row
      BY <2>13 DEF Persist
    <3> HIDE DEF m
    <3> QED
      BY <3>3, <3>4, <3>5, FlushDated
  \* Steps that end the session.
  <2>14. CASE Commit(r)
    BY <2>14, EndSessionDated DEF Commit
  <2>15. CASE Abort(r)
    BY <2>15, EndSessionDated DEF Abort
  <2>16. CASE FailGraph(r)
    BY <1>1, <2>16, EndSessionDated DEF FailGraph, NoFlush
  <2>18. CASE WaitCut(r)
    BY <2>18, EndSessionDated DEF WaitCut
  \* Steps that leave the row and the session alone.
  <2>17. CASE EnterGraph(r) \/ RunNodes(r) \/ EndGraph(r) \/ Resume(r)
              \/ Snapshot(r) \/ StreamCut(r)
    BY <1>1, <2>17
    DEF EnterGraph, RunNodes, EndGraph, Resume, Snapshot, StreamCut, NoFlush
  <2> QED
    BY <1>3, <2>2, <2>3, <2>7, <2>8, <2>9, <2>10, <2>11, <2>12, <2>13, <2>14,
       <2>15, <2>16, <2>17, <2>18
    DEF Step, Work
<1> QED
  BY <1>2, <1>3 DEF Next

\* No interleaving of stale sessions puts an undated ticket in the queue.
THEOREM QueueStaysDated == Spec => []QueueIsDated
<1>1. Init => DatedInv /\ NewIsClean
  BY DEF Init, DatedInv, DatedRow, NewRow, NewIsClean
<1>2. DatedInv => QueueIsDated
  BY DEF DatedInv, DatedRow, QueueIsDated
<1> QED
  BY <1>1, <1>2, CleanStep, DatedStep, TypeCorrect, PTL DEF Spec

-----------------------------------------------------------------------------
(* A closed ticket stays closed *)

\* Once nobody is in flight on a closed ticket, only a takeover can get past
\* the guards, and a takeover does not write the status.
AfterClose ==
  /\ row.status = "closed"
  /\ \A r \in Requests :
       pc[r] \in InFlight => /\ op[r] = "takeover"
                            /\ pc[r] \in {"loaded", "responding"}
                            /\ "status" \notin written[r]

LEMMA AfterCloseStep ==
  TypeOK /\ NewIsClean /\ AfterClose /\ [Next]_vars => AfterClose'
<1> SUFFICES ASSUME TypeOK, NewIsClean, AfterClose, [Next]_vars
             PROVE  AfterClose'
  OBVIOUS
<1>1. CASE UNCHANGED vars \/ AllServed
  BY <1>1 DEF AllServed, vars, AfterClose
<1>2. ASSUME NEW r \in Requests, Step(r) PROVE AfterClose'
  <2>1. Load(r) \/ TakeOver(r) \/ Commit(r) \/ Abort(r)
    BY <1>2
    DEF Step, Work, Close, Confirm, CustomerAppend, HumanAppend, HumanCheck,
        StartWithoutMessage, EnterGraph, RunNodes, EndGraph, Resume, Snapshot,
        Persist, FailGraph, StreamCut, WaitCut, Streamed, AfterClose, InFlight, InRun
  <2>2. /\ \A q \in Requests \ {r} : pc'[q] = pc[q] /\ op'[q] = op[q]
        /\ \A q \in Requests \ {r} : written'[q] = written[q]
    BY <2>1 DEF Load, TakeOver, Commit, Abort, EndSession, Flush, Goto, TypeOK
  <2>3. row'.status = "closed"
    BY <2>1 DEF Load, TakeOver, Commit, Abort, Overlaid, AfterClose, InFlight,
                ticketVars
  <2>4. pc'[r] \in InFlight => /\ op'[r] = "takeover"
                              /\ pc'[r] \in {"loaded", "responding"}
                              /\ "status" \notin written'[r]
    <3>1. CASE Load(r)
      BY <3>1 DEF Load, Goto, Admits, NewIsClean, AfterClose, TypeOK, InFlight, InRun
    <3>2. CASE TakeOver(r)
      <4>1. PICK a \in Agents : Flush(r, [mem[r] EXCEPT !.agent = a], {})
        BY <3>2 DEF TakeOver
      <4>2. mem[r] \in TicketRow
        BY DEF TypeOK
      <4>3. "status" \notin Changed(mem[r], [mem[r] EXCEPT !.agent = a])
        BY <4>2 DEF Changed, TicketRow
      <4>4. written'[r] = written[r] \union Changed(mem[r], [mem[r] EXCEPT !.agent = a])
        BY <4>1 DEF Flush, TypeOK
      <4> QED
        BY <3>2, <4>3, <4>4 DEF TakeOver, Goto, AfterClose, TypeOK, InFlight
    <3>3. CASE Commit(r) \/ Abort(r)
      BY <3>3 DEF Commit, Abort, EndSession, Goto, TypeOK, InFlight, InRun
    <3> QED
      BY <2>1, <3>1, <3>2, <3>3
  <2> QED
    BY <2>2, <2>3, <2>4 DEF AfterClose
<1> QED
  BY <1>1, <1>2 DEF Next

\* Only a request that loaded the ticket before its close was committed can
\* reopen it; with none of them left, the archive is final.
THEOREM ArchiveIsFinal == Spec => ClosedStaysClosed
<1>1. Init => NewIsClean
  BY DEF Init, NewIsClean
<1>2. Quiet /\ row.status = "closed" => AfterClose
  BY DEF Quiet, AfterClose
<1>3. AfterClose => row.status = "closed"
  BY DEF AfterClose
<1> QED
  BY <1>1, <1>2, <1>3, CleanStep, AfterCloseStep, TypeCorrect, PTL
  DEF Spec, ClosedStaysClosed

-----------------------------------------------------------------------------
(* Answers follow their questions *)

\* What a flush does to what was said.
LEMMA FlushMessages ==
  ASSUME TypeOK, NEW r \in Requests, NEW m, NEW messages, Flush(r, m, messages)
  PROVE  /\ unsent'[r] = unsent[r] \union messages
         /\ \A q \in Requests \ {r} : unsent'[q] = unsent[q]
         /\ messages # {} => holder \in {NoRequest, r}
         /\ \A q \in Requests : holder = q => holder' = q
BY DEF Flush, TypeOK

\* A step of one request leaves the others alone, and once a customer's turn has
\* the lock, what it flushed is either still its own or committed: without faults
\* only a turn that waits for the lock is ever rolled back.
LEMMA StepKeepsOthers ==
  ASSUME TypeOK, ~ Faults, NEW r \in Requests, Step(r)
  PROVE  /\ pc'[r] # "new"
         /\ pc[r] # "new" => op'[r] = op[r]
         /\ \A q \in Requests \ {r} :
              /\ pc'[q] = pc[q] /\ op'[q] = op[q]
              /\ unsent'[q] = unsent[q]
              /\ holder = q => holder' = q
         /\ transcript' \in {transcript, transcript \union unsent[r]}
         /\ holder = r /\ op[r] = "customer" =>
              unsent[r] \subseteq transcript' \/ (holder' = r /\ unsent[r] \subseteq unsent'[r])
<1> DEFINE Frame ==
      /\ pc'[r] # "new"
      /\ pc[r] # "new" => op'[r] = op[r]
      /\ \A q \in Requests \ {r} :
           /\ pc'[q] = pc[q] /\ op'[q] = op[q]
           /\ unsent'[q] = unsent[q]
           /\ holder = q => holder' = q
      /\ transcript' \in {transcript, transcript \union unsent[r]}
      /\ holder = r /\ op[r] = "customer" =>
           unsent[r] \subseteq transcript' \/ (holder' = r /\ unsent[r] \subseteq unsent'[r])
<1> SUFFICES Frame
  OBVIOUS
<1> USE DEF TypeOK, Goto, ticketVars, NoFlush
<1>1. CASE Load(r)
  BY <1>1 DEF Load
\* Steps that flush.
<1>2. ASSUME NEW m, NEW messages, Flush(r, m, messages),
             UNCHANGED <<transcript, op>>, pc'[r] # "new",
             \E l : Goto(r, l)
      PROVE  Frame
  BY <1>2, FlushMessages
\* Steps that leave the session alone.
<1>3. ASSUME UNCHANGED <<holder, unsent, transcript, op>>, pc'[r] # "new",
             \E l : Goto(r, l)
      PROVE  Frame
  BY <1>3
\* Steps that end it.
<1>4. ASSUME UNCHANGED op, \E l \in {"done", "aborted"} : EndSession(r, l),
             transcript' \in {transcript, transcript \union unsent[r]},
             holder = r /\ op[r] = "customer" => unsent[r] \subseteq transcript'
      PROVE  Frame
  BY <1>4 DEF EndSession
<1> HIDE DEF Frame
<1>5. CASE TakeOver(r) \/ Close(r)
  BY <1>2, <1>5 DEF TakeOver, Close
<1>6. CASE Confirm(r)
  BY <1>2, <1>3, <1>6 DEF Confirm
<1>7. CASE CustomerAppend(r) \/ HumanAppend(r)
  BY <1>2, <1>7 DEF CustomerAppend, HumanAppend
<1>8. CASE HumanCheck(r)
  BY <1>2, <1>3, <1>8 DEF HumanCheck
<1>9. CASE StartWithoutMessage(r)
  BY <1>2, <1>9 DEF StartWithoutMessage
<1>10. CASE Persist(r)
  BY <1>2, <1>10 DEF Persist
<1>11. CASE EnterGraph(r) \/ RunNodes(r) \/ EndGraph(r)
  BY <1>3, <1>11 DEF EnterGraph, RunNodes, EndGraph
<1>12. CASE Resume(r) \/ Snapshot(r) \/ StreamCut(r)
  BY <1>3, <1>12 DEF Resume, Snapshot, StreamCut
<1>13. CASE FailGraph(r)
  BY <1>3, <1>4, <1>13 DEF FailGraph
<1>14. CASE Commit(r)
  BY <1>4, <1>14 DEF Commit
<1>15. CASE WaitCut(r) \/ Abort(r)
  BY <1>4, <1>15 DEF WaitCut, Abort
<1> QED
  BY <1>1, <1>5, <1>6, <1>7, <1>8, <1>9, <1>10, <1>11, <1>12, <1>13, <1>14, <1>15
  DEF Step, Work

Question(t) == [role |-> "customer", text |-> t]
Answer(t) == [role |-> "assistant", text |-> t]

\* If t is the text of a customer's request, the request has stored its question,
\* or holds the lock until it does.
Asked(t) ==
  t \in Requests =>
    /\ pc[t] # "new"
    /\ op[t] = "customer" =>
         Question(t) \in transcript \/ (holder = t /\ Question(t) \in unsent[t])

\* Every text that a checkpoint, a run or a result carries was asked for, so an
\* answer is only flushed where its question is visible.
DraftsAsked ==
  /\ Asked(ckpt.values.draft)
  /\ \A q \in Requests : Asked(state[q].draft) /\ Asked(result[q].text)

TurnsAsked ==
  \A r \in Requests :
    pc[r] \in Driving /\ op[r] = "customer" => Question(r) \in unsent[r]

AnswersAsked ==
  \A t \in Requests :
    /\ Answer(t) \in transcript =>
         pc[t] # "new" /\ (op[t] = "customer" => Question(t) \in transcript)
    /\ \A q \in Requests : Answer(t) \in unsent[q] =>
         /\ pc[t] # "new"
         /\ op[t] = "customer" => Question(t) \in transcript \union unsent[q]

AskedInv == DraftsAsked /\ TurnsAsked /\ AnswersAsked

LEMMA AskedStays ==
  ASSUME TypeOK, ~ Faults, NEW r \in Requests, Step(r), NEW t, Asked(t)
  PROVE  Asked(t)'
<1> SUFFICES ASSUME t \in Requests PROVE Asked(t)'
  BY DEF Asked
<1>1. CASE t = r
  BY <1>1, StepKeepsOthers DEF Asked, Question
<1>2. CASE t # r
  <2>1. /\ pc'[t] = pc[t] /\ op'[t] = op[t] /\ unsent'[t] = unsent[t]
        /\ holder = t => holder' = t
        /\ transcript \subseteq transcript'
    BY <1>2, StepKeepsOthers
  <2> QED
    BY <2>1 DEF Asked, Question
<1> QED
  BY <1>1, <1>2

\* The texts a step hands on: those it finds, canned ones, and its own name if
\* it is in a run.
Handed(r) ==
  {ckpt.values.draft, state[r].draft, result[r].text, HandoffText, NoRequest}
    \union (IF pc[r] \in InRun THEN {r} ELSE {})

LEMMA TextsMove ==
  ASSUME TypeOK, ~ Faults, NEW r \in Requests, Step(r)
  PROVE  /\ ckpt'.values.draft \in Handed(r)
         /\ state'[r].draft \in Handed(r) /\ result'[r].text \in Handed(r)
         /\ \A q \in Requests \ {r} : state'[q] = state[q] /\ result'[q] = result[q]
<1> DEFINE Moved ==
      /\ ckpt'.values.draft \in Handed(r)
      /\ state'[r].draft \in Handed(r) /\ result'[r].text \in Handed(r)
      /\ \A q \in Requests \ {r} : state'[q] = state[q] /\ result'[q] = result[q]
<1> SUFFICES Moved
  OBVIOUS
<1> USE DEF TypeOK, graphVars
<1>1. CASE \/ Load(r) \/ TakeOver(r) \/ Close(r) \/ Confirm(r) \/ CustomerAppend(r)
           \/ HumanAppend(r) \/ HumanCheck(r) \/ StartWithoutMessage(r)
           \/ Persist(r) \/ StreamCut(r)
  <2>1. UNCHANGED <<ckpt, state, result>>
    BY <1>1 DEF Load, TakeOver, Close, Confirm, CustomerAppend, HumanAppend,
                HumanCheck, StartWithoutMessage, Persist, StreamCut
  <2> QED
    BY <2>1 DEF Handed
<1>2. CASE EnterGraph(r)
  <2>1. ckpt'.values = ckpt.values
    BY <1>2 DEF EnterGraph, Checkpoint
  <2> QED
    BY <1>2, <2>1 DEF EnterGraph, Handed
<1>3. CASE RunNodes(r)
  <2>1. PICK s \in Worked(r, state[r]) \union {state[r]} :
          /\ state' = [state EXCEPT ![r] = s]
          /\ ckpt' = [phase |-> "running", values |-> s]
    BY <1>3 DEF RunNodes
  <2>2. \A e \in Entered(r, state[r]) : e.draft \in {r, state[r].draft}
    BY SMT DEF Entered
  <2>3. \A e \in Advised(r) : e.draft = r
    BY DEF Advised
  <2>4. s.draft \in {r, state[r].draft}
    BY <2>2, <2>3 DEF Worked
  <2> QED
    BY <1>3, <2>1, <2>4 DEF RunNodes, Handed, InRun
<1>4. CASE EndGraph(r)
  <2>1. \A c \in Answered(IF Gated(state[r]) THEN r ELSE state[r].draft, state[r].gate) :
          c.values.draft \in {r, state[r].draft, HandoffText}
    BY DEF Answered
  <2>2. ckpt'.values.draft \in {r, state[r].draft, HandoffText}
    BY <1>4, <2>1 DEF EndGraph
  <2> QED
    BY <1>4, <2>2 DEF EndGraph, Handed, InRun
<1>5. CASE Resume(r)
  <2>1. \A c \in Answered(r, state[r].gate) : c.values.draft \in {r, HandoffText}
    BY DEF Answered
  <2> QED
    BY <1>5, <2>1 DEF Resume, Handed, InRun
<1>6. CASE Snapshot(r)
  <2>1. result'[r].text \in {ckpt.values.draft, HandoffText}
    BY <1>6 DEF Snapshot
  <2> QED
    BY <1>6, <2>1 DEF Snapshot, Handed
<1>7. ASSUME UNCHANGED ckpt, NEW l, EndSession(r, l) PROVE Moved
  BY <1>7 DEF EndSession, NoState, NoResult, Handed
<1>8. CASE FailGraph(r)
  <2>1. CASE op[r] = "reply"
    BY <1>7, <1>8, <2>1 DEF FailGraph
  <2>2. CASE op[r] # "reply"
    <3>1. /\ result' = [result EXCEPT ![r] = [NoResult EXCEPT !.error = TRUE, !.text = r]]
          /\ UNCHANGED <<ckpt, state>> /\ pc[r] \in InRun
      BY <1>8, <2>2 DEF FailGraph, InRun
    <3>2. [NoResult EXCEPT !.error = TRUE, !.text = r].text = r
      BY DEF NoResult
    <3> QED
      BY <3>1, <3>2 DEF Handed
  <2> QED
    BY <2>1, <2>2
<1>9. CASE Commit(r) \/ WaitCut(r) \/ Abort(r)
  BY <1>7, <1>9 DEF Commit, WaitCut, Abort
<1> HIDE DEF Moved
<1> QED
  BY <1>1, <1>2, <1>3, <1>4, <1>5, <1>6, <1>8, <1>9 DEF Step, Work

\* Only Persist flushes an answer, under the lock.
LEMMA AnswersMove ==
  ASSUME TypeOK, ~ Faults, NEW r \in Requests, Step(r)
  PROVE  /\ unsent'[r] = {} \/ unsent[r] \subseteq unsent'[r]
         /\ \A t \in Requests : Answer(t) \in unsent'[r] =>
              \/ Answer(t) \in unsent[r]
              \/ t = result[r].text /\ holder \in {NoRequest, r}
         /\ pc'[r] \in Driving /\ op'[r] = "customer" =>
              \/ pc[r] \in Driving /\ op[r] = "customer" /\ unsent[r] \subseteq unsent'[r]
              \/ Question(r) \in unsent'[r]
<1> DEFINE Moved ==
      /\ unsent'[r] = {} \/ unsent[r] \subseteq unsent'[r]
      /\ \A t \in Requests : Answer(t) \in unsent'[r] =>
           \/ Answer(t) \in unsent[r]
           \/ t = result[r].text /\ holder \in {NoRequest, r}
      /\ pc'[r] \in Driving /\ op'[r] = "customer" =>
           \/ pc[r] \in Driving /\ op[r] = "customer" /\ unsent[r] \subseteq unsent'[r]
           \/ Question(r) \in unsent'[r]
<1> SUFFICES Moved
  OBVIOUS
<1> USE DEF TypeOK, Goto
\* Steps that leave the session's messages alone, and start no turn of a customer.
<1>1. ASSUME unsent' = unsent, UNCHANGED op,
             pc[r] \in Driving \/ op[r] # "customer" \/ pc'[r] \notin Driving
      PROVE  Moved
  BY <1>1
\* Steps that flush messages that are no answers, likewise.
<1>2. ASSUME NEW m, NEW messages, Flush(r, m, messages), UNCHANGED op,
             \A t \in Requests : Answer(t) \notin messages,
             \/ pc[r] \in Driving \/ op[r] # "customer" \/ pc'[r] \notin Driving
             \/ Question(r) \in messages
      PROVE  Moved
  BY <1>2, FlushMessages
<1>3. ASSUME UNCHANGED op, NEW l \in {"done", "aborted"}, EndSession(r, l)
      PROVE  Moved
  BY <1>3 DEF EndSession, Driving, InRun
<1>4. CASE Persist(r)
  <2>1. PICK m, messages :
          /\ messages \in {{}, {[role |-> "assistant", text |-> result[r].text]}}
          /\ Flush(r, m, messages)
    BY <1>4 DEF Persist
  <2>2. \A t \in Requests : Answer(t) \in messages => t = result[r].text
    BY <2>1 DEF Answer
  <2>3. pc'[r] = "responding" /\ "responding" \notin Driving
    BY <1>4 DEF Persist, Driving, InRun
  <2> QED
    BY <2>1, <2>2, <2>3, FlushMessages
<1>5. CASE Load(r)
  BY <1>5 DEF Load, Driving, InRun
<1> HIDE DEF Moved
<1>6. \A t, q \in Requests : /\ Answer(t) # Question(q)
                             /\ Answer(t) # [role |-> "system", text |-> q]
                             /\ Answer(t) # [role |-> "human_agent", text |-> q]
  BY DEF Answer, Question
<1>7. "responding" \notin Driving /\ "appended" \in Driving /\ "running" \in Driving
      /\ InRun \subseteq Driving
  BY DEF Driving, InRun
<1>8. CASE TakeOver(r) \/ Close(r)
  <2>1. PICK m, messages :
          /\ messages \in {{}, {[role |-> "system", text |-> r]}}
          /\ Flush(r, m, messages)
    BY <1>8 DEF TakeOver, Close
  <2>2. pc'[r] = "responding" /\ UNCHANGED op
    BY <1>8 DEF TakeOver, Close
  <2> QED
    BY <1>2, <1>6, <1>7, <2>1, <2>2
<1>9. CASE Confirm(r)
  BY <1>1, <1>2, <1>6, <1>7, <1>9 DEF Confirm, NoFlush
<1>10. CASE CustomerAppend(r)
  BY <1>2, <1>6, <1>7, <1>10 DEF CustomerAppend, Question
<1>11. CASE HumanAppend(r)
  BY <1>2, <1>6, <1>11 DEF HumanAppend
<1>12. CASE HumanCheck(r)
  BY <1>1, <1>2, <1>7, <1>12 DEF HumanCheck, NoFlush
<1>13. CASE StartWithoutMessage(r)
  BY <1>2, <1>13 DEF StartWithoutMessage
<1>14. CASE EnterGraph(r) \/ RunNodes(r) \/ EndGraph(r)
  BY <1>1, <1>7, <1>14 DEF EnterGraph, RunNodes, EndGraph, InRun
<1>15. CASE Resume(r) \/ Snapshot(r) \/ StreamCut(r)
  BY <1>1, <1>7, <1>15 DEF Resume, Snapshot, StreamCut, NoFlush, InRun
<1>16. CASE FailGraph(r)
  BY <1>1, <1>3, <1>7, <1>16 DEF FailGraph, NoFlush, InRun
<1>17. CASE Commit(r) \/ WaitCut(r) \/ Abort(r)
  BY <1>3, <1>17 DEF Commit, WaitCut, Abort
<1> QED
  BY <1>4, <1>5, <1>8, <1>9, <1>10, <1>11, <1>12, <1>13, <1>14, <1>15, <1>16, <1>17
  DEF Step, Work

LEMMA AskedStep ==
  ASSUME ~ Faults
  PROVE  TypeOK /\ LockInv /\ AskedInv /\ [Next]_vars => AskedInv'
<1> SUFFICES ASSUME TypeOK, LockInv, AskedInv, [Next]_vars PROVE AskedInv'
  OBVIOUS
<1>1. CASE UNCHANGED vars \/ AllServed
  BY <1>1 DEF AllServed, vars, AskedInv, DraftsAsked, TurnsAsked, AnswersAsked, Asked
<1>2. ASSUME NEW r \in Requests, Step(r) PROVE AskedInv'
  <2>1. \A t : Asked(t) => Asked(t)'
    BY <1>2, AskedStays
  <2>2. pc[r] \in InRun => Asked(r)
    BY DEF Asked, AskedInv, TurnsAsked, LockInv, LockHeld, Driving, InRun
  <2>3. \A t \in Handed(r) : Asked(t)
    BY <2>2 DEF Handed, AskedInv, DraftsAsked, Asked
  <2>4. DraftsAsked'
    BY <1>2, <2>1, <2>3, TextsMove DEF AskedInv, DraftsAsked
  <2>5. TurnsAsked'
    BY <1>2, StepKeepsOthers, AnswersMove DEF AskedInv, TurnsAsked, Question
  <2>6. AnswersAsked'
    <3> SUFFICES ASSUME NEW t \in Requests
                 PROVE  /\ Answer(t) \in transcript' =>
                             /\ pc'[t] # "new"
                             /\ op'[t] = "customer" => Question(t) \in transcript'
                        /\ \A q \in Requests : Answer(t) \in unsent'[q] =>
                             /\ pc'[t] # "new"
                             /\ op'[t] = "customer" =>
                                  Question(t) \in transcript' \union unsent'[q]
      BY DEF AnswersAsked, Answer, Question
    <3>1. pc[t] # "new" => pc'[t] # "new" /\ op'[t] = op[t]
      BY <1>2, StepKeepsOthers
    <3>2. transcript' \in {transcript, transcript \union unsent[r]}
      BY <1>2, StepKeepsOthers
    <3>3. Answer(t) \in transcript' =>
            pc[t] # "new" /\ (op[t] = "customer" => Question(t) \in transcript')
      BY <3>2 DEF AskedInv, AnswersAsked
    <3>4. ASSUME NEW q \in Requests, Answer(t) \in unsent'[q]
          PROVE  /\ pc[t] # "new"
                 /\ op[t] = "customer" => Question(t) \in transcript' \union unsent'[q]
      <4>1. CASE q # r
        BY <1>2, <3>2, <3>4, <4>1, StepKeepsOthers DEF AskedInv, AnswersAsked
      <4>2. CASE q = r /\ Answer(t) \in unsent[r]
        BY <1>2, <3>2, <3>4, <4>2, AnswersMove DEF AskedInv, AnswersAsked
      <4>3. CASE q = r /\ t = result[r].text /\ holder \in {NoRequest, r}
        <5>1. Asked(t)
          BY <4>3 DEF AskedInv, DraftsAsked
        <5>2. op[t] = "customer" => Question(t) \in transcript
                                    \/ (t = r /\ Question(t) \in unsent[r])
          BY <4>3, <5>1 DEF Asked
        <5> QED
          BY <1>2, <3>2, <3>4, <4>3, <5>1, <5>2, AnswersMove DEF Asked
      <4> QED
        BY <1>2, <3>4, <4>1, <4>2, <4>3, AnswersMove
    <3> QED
      BY <3>1, <3>3, <3>4
  <2> QED
    BY <2>4, <2>5, <2>6 DEF AskedInv
<1> QED
  BY <1>1, <1>2 DEF Next

\* As long as every session reaches its commit, no answer to a customer's turn is
\* committed before the turn's message, although drafts travel through checkpoints
\* that every request reads and no transaction takes back.
THEOREM AnswersAreAsked ==
  ASSUME ~ Faults
  PROVE  Spec => []AnswersFollowQuestions
<1>1. Init => AskedInv
  BY DEF Init, AskedInv, DraftsAsked, TurnsAsked, AnswersAsked, Asked, NoState,
         NoResult, Driving, InRun
<1>2. AskedInv => AnswersFollowQuestions
  BY DEF AskedInv, AnswersAsked, AnswersFollowQuestions, Answer, Question
<1> QED
  BY <1>1, <1>2, LockStart, LockStep, TypeCorrect, AskedStep, PTL DEF Spec

-----------------------------------------------------------------------------
(* Waiting threads are queued *)

Queued == {"escalated", "resolved", "closed"}

\* What a session knows of the thread.  Whoever drives it has put the ticket in
\* progress and is alone; a session that has read or written a status while the
\* thread waits is about to queue the ticket.
KnowsThread(r) ==
  /\ op[r] # "resolve"
  /\ pc[r] \in {"new", "loaded", "appended"} => written[r] = {}
  /\ written[r] # {} => holder = r
  /\ pc[r] \in InRun \union {"running"} => mem[r].status = "in_progress"
  /\ pc[r] \in {"graph", "routed"} => ckpt.phase = "running"
  /\ ckpt.phase = "interrupted" =>
       /\ pc[r] = "snapped" => result[r].interrupted
       /\ pc[r] = "responding" /\ "status" \in written[r] => mem[r].status \in Queued

\* r has the interrupt before it and will commit the escalation.
Fixing(r) ==
  \/ pc[r] = "ended"
  \/ pc[r] = "snapped" /\ result[r].interrupted
  \/ pc[r] = "responding" /\ "status" \in written[r] /\ mem[r].status = "escalated"

Covered ==
  ckpt.phase = "interrupted" /\ row.status \notin Queued
    => holder \in Requests /\ Fixing(holder)

QueueInv == Covered /\ \A r \in Requests : KnowsThread(r)

\* What a flush leaves in the session.
LEMMA FlushSession ==
  ASSUME TypeOK, NEW r \in Requests, NEW m, NEW messages, Flush(r, m, messages)
  PROVE  /\ mem'[r] = m
         /\ m = mem[r] => written'[r] = written[r]
         /\ "status" \in written'[r] <=> "status" \in written[r] \/ m.status # mem[r].status
         /\ written'[r] # {} => written[r] # {} \/ holder' = r
         /\ holder' # holder => holder = NoRequest /\ holder' = r
<1>1. /\ mem' = [mem EXCEPT ![r] = m]
      /\ written' = [written EXCEPT ![r] = @ \union Changed(mem[r], m)]
      /\ holder' = IF messages # {} \/ m # mem[r] THEN r ELSE holder
      /\ messages # {} \/ m # mem[r] => holder \in {NoRequest, r}
  BY DEF Flush
<1>2. mem'[r] = m /\ written'[r] = written[r] \union Changed(mem[r], m)
  BY <1>1 DEF TypeOK
<1>3. "status" \in Changed(mem[r], m) <=> m.status # mem[r].status
  BY DEF Changed
<1>4. m = mem[r] => Changed(mem[r], m) = {}
  BY DEF Changed
<1> QED
  BY <1>1, <1>2, <1>3, <1>4

\* A step of r touches no other session, moves the thread only while it drives
\* it, and the row only with its commit.
LEMMA OthersAlone ==
  ASSUME TypeOK, ~ Faults, NEW r \in Requests, Step(r)
  PROVE  /\ \A q \in Requests \ {r} :
              /\ pc'[q] = pc[q] /\ op'[q] = op[q] /\ mem'[q] = mem[q]
              /\ written'[q] = written[q] /\ result'[q] = result[q]
              /\ holder = q => holder' = q
         /\ pc[r] \notin Driving => ckpt' = ckpt
         /\ pc[r] # "responding" => row' = row
<1> DEFINE Alone ==
      /\ \A q \in Requests \ {r} :
           /\ pc'[q] = pc[q] /\ op'[q] = op[q] /\ mem'[q] = mem[q]
           /\ written'[q] = written[q] /\ result'[q] = result[q]
           /\ holder = q => holder' = q
      /\ pc[r] \notin Driving => ckpt' = ckpt
      /\ pc[r] # "responding" => row' = row
<1> SUFFICES Alone
  OBVIOUS
<1> USE DEF TypeOK, Goto, ticketVars, graphVars, NoFlush
<1>1. ASSUME NEW m, NEW messages, Flush(r, m, messages), \E l : Goto(r, l),
             UNCHANGED <<row, op, ckpt, result>>
      PROVE  Alone
  BY <1>1 DEF Flush
<1>2. ASSUME UNCHANGED <<row, op, mem, written, holder>>, \E l : Goto(r, l),
             \E x : result' = [result EXCEPT ![r] = x],
             pc[r] \notin Driving => ckpt' = ckpt
      PROVE  Alone
  BY <1>2
<1>3. ASSUME \E l : EndSession(r, l), UNCHANGED <<op, ckpt>>,
             pc[r] # "responding" => row' = row
      PROVE  Alone
  BY <1>3 DEF EndSession
<1>4. result' = result => \E x : result' = [result EXCEPT ![r] = x]
  <2>1. result = [result EXCEPT ![r] = result[r]]
    OBVIOUS
  <2> QED
    BY <2>1
<1>5. CASE Load(r)
  BY <1>5 DEF Load
<1> HIDE DEF Alone
<1>6. CASE TakeOver(r) \/ Close(r)
  BY <1>1, <1>6 DEF TakeOver, Close
<1>7. CASE Confirm(r)
  BY <1>1, <1>2, <1>4, <1>7 DEF Confirm
<1>8. CASE CustomerAppend(r) \/ HumanAppend(r)
  BY <1>1, <1>8 DEF CustomerAppend, HumanAppend
<1>9. CASE HumanCheck(r)
  BY <1>1, <1>2, <1>4, <1>9 DEF HumanCheck
<1>10. CASE StartWithoutMessage(r)
  BY <1>1, <1>10 DEF StartWithoutMessage
<1>11. CASE Persist(r)
  BY <1>1, <1>11 DEF Persist
<1>12. CASE EnterGraph(r) \/ RunNodes(r) \/ EndGraph(r)
  BY <1>2, <1>4, <1>12 DEF EnterGraph, RunNodes, EndGraph, Driving, InRun
<1>13. CASE Resume(r)
  BY <1>2, <1>4, <1>13 DEF Resume, Driving, InRun
<1>14. CASE Snapshot(r)
  BY <1>2, <1>14 DEF Snapshot
<1>15. CASE StreamCut(r)
  BY <1>2, <1>4, <1>15 DEF StreamCut
<1>16. CASE FailGraph(r)
  BY <1>2, <1>3, <1>16 DEF FailGraph, InRun
<1>17. CASE Commit(r)
  BY <1>3, <1>17 DEF Commit
<1>18. CASE WaitCut(r) \/ Abort(r)
  BY <1>3, <1>18 DEF WaitCut, Abort
<1> QED
  BY <1>5, <1>6, <1>7, <1>8, <1>9, <1>10, <1>11, <1>12, <1>13, <1>14, <1>15, <1>16,
     <1>17, <1>18
  DEF Step, Work

\* The step keeps what its own session knows, and the thread covered.
LEMMA OwnStep ==
  ASSUME TypeOK, LockInv, QueueInv, ~ Faults, "resolve" \notin Ops,
         NEW r \in Requests, Step(r)
  PROVE  KnowsThread(r)' /\ Covered'
<1>1. mem[r] \in TicketRow /\ KnowsThread(r) /\ Covered
  BY DEF TypeOK, QueueInv
<1>2. pc[r] \in Driving => holder = r
  BY <1>1 DEF LockInv, LockHeld, KnowsThread
<1> USE DEF TypeOK, Goto, ticketVars, graphVars, NoFlush
\* r flushes m and goes on, neither fixing anything before nor leaving a status
\* that hides an interrupt.
<1>3. ASSUME NEW m, NEW messages, Flush(r, m, messages),
             UNCHANGED <<row, op, ckpt, result>>, written[r] = {},
             NEW l \in {"running", "appended", "responding"}, Goto(r, l),
             pc[r] \in {"loaded", "appended"},
             \/ l = "running" /\ m.status = "in_progress"
             \/ l = "appended" /\ m = mem[r]
             \/ l = "responding" /\ (m.status = mem[r].status \/ m.status \in Queued)
      PROVE  KnowsThread(r)' /\ Covered'
  <2>1. pc'[r] = l /\ op'[r] = op[r]
    BY <1>3
  <2>2. KnowsThread(r)'
    BY <1>1, <1>3, <2>1, FlushSession DEF KnowsThread, InRun
  <2>3. ckpt.phase = "interrupted" /\ row.status \notin Queued =>
          holder \in Requests \ {r} /\ Fixing(holder)
    BY <1>1, <1>3 DEF Covered, Fixing
  <2>4. Covered'
    BY <1>3, <2>3, FlushSession, OthersAlone DEF Covered, Fixing
  <2> QED
    BY <2>2, <2>4
<1>4. \A s \in Statuses : [mem[r] EXCEPT !.status = s].status = s
  BY <1>1 DEF TicketRow
<1>5. CASE Load(r)
  <2>1. pc'[r] \in {"loaded", "rejected"} /\ op'[r] # "resolve"
    BY <1>5 DEF Load
  <2>2. KnowsThread(r)'
    BY <1>1, <1>5, <2>1 DEF Load, KnowsThread, InRun
  <2>3. Covered'
    BY <1>1, <1>5, OthersAlone DEF Load, Covered, Fixing
  <2> QED
    BY <2>2, <2>3
<1>6. CASE TakeOver(r)
  <2>1. PICK a \in Agents : Flush(r, [mem[r] EXCEPT !.agent = a], {})
    BY <1>6 DEF TakeOver
  <2>2. [mem[r] EXCEPT !.agent = a].status = mem[r].status
    BY <1>1 DEF TicketRow
  <2> QED
    BY <1>1, <1>3, <1>6, <2>1, <2>2 DEF TakeOver, KnowsThread
<1>7. CASE Close(r)
  <2>1. [mem[r] EXCEPT !.status = "closed", !.agent = NoAgent].status = "closed"
    BY <1>1 DEF TicketRow
  <2> QED
    BY <1>1, <1>3, <1>7, <2>1 DEF Close, KnowsThread, Queued
<1>8. CASE Confirm(r)
  <2>1. CASE mem[r].status = "resolved"
    <3>1. pc'[r] = "responding" /\ op'[r] = op[r] /\ written[r] = {}
          /\ UNCHANGED <<row, holder, ckpt, mem, written, result>>
      BY <1>1, <1>8, <2>1 DEF Confirm, KnowsThread
    <3>2. KnowsThread(r)'
      BY <1>1, <3>1 DEF KnowsThread, InRun
    <3>3. Covered'
      BY <1>1, <1>8, <3>1, OthersAlone DEF Covered, Fixing, Confirm
    <3> QED
      BY <3>2, <3>3
  <2>2. CASE mem[r].status # "resolved"
    BY <1>1, <1>3, <1>4, <1>8, <2>2 DEF Confirm, KnowsThread, Queued, Statuses
  <2> QED
    BY <2>1, <2>2
<1>9. CASE CustomerAppend(r)
  BY <1>1, <1>3, <1>4, <1>9 DEF CustomerAppend, KnowsThread, Statuses
<1>10. CASE HumanAppend(r)
  BY <1>1, <1>3, <1>10 DEF HumanAppend, KnowsThread
<1>11. CASE HumanCheck(r)
  <2>1. CASE NoFlush /\ Goto(r, "responding")
    <3>1. pc'[r] = "responding" /\ op'[r] = op[r] /\ written[r] = {}
          /\ UNCHANGED <<row, holder, ckpt, mem, written, result>>
      BY <1>1, <1>11, <2>1 DEF HumanCheck, KnowsThread
    <3>2. KnowsThread(r)'
      BY <1>1, <3>1 DEF KnowsThread, InRun
    <3>3. Covered'
      BY <1>1, <1>11, <3>1, OthersAlone DEF Covered, Fixing, HumanCheck
    <3> QED
      BY <3>2, <3>3
  <2>2. CASE Flush(r, [mem[r] EXCEPT !.status = "in_progress"], {}) /\ Goto(r, "running")
    BY <1>1, <1>3, <1>4, <1>11, <2>2 DEF HumanCheck, KnowsThread, Statuses
  <2> QED
    BY <1>11, <2>1, <2>2 DEF HumanCheck
<1>12. CASE StartWithoutMessage(r)
  BY <1>1, <1>3, <1>4, <1>12 DEF StartWithoutMessage, KnowsThread, Statuses
\* r moves the thread, under the lock.
<1>13. ASSUME UNCHANGED <<row, op, mem, written, holder, result>>, pc[r] \in Driving \ {"appended"},
              pc'[r] \in {"graph", "routed", "resuming", "ended"},
              pc'[r] \in {"graph", "routed"} => ckpt'.phase = "running",
              ckpt'.phase = "interrupted" =>
                \/ pc'[r] = "ended"
                \/ ckpt.phase = "interrupted" /\ pc[r] = "running"
       PROVE  KnowsThread(r)' /\ Covered'
  <2>1. KnowsThread(r)'
    BY <1>1, <1>2, <1>13 DEF KnowsThread, Driving, InRun
  <2>2. Covered'
    BY <1>1, <1>2, <1>13 DEF Covered, Fixing, Driving, InRun
  <2> QED
    BY <2>1, <2>2
<1>14. CASE EnterGraph(r)
  <2>1. /\ UNCHANGED <<row, op, mem, written, holder, result>> /\ pc[r] = "running"
        /\ \/ pc'[r] = "graph" /\ ckpt'.phase = "running"
           \/ UNCHANGED ckpt /\ pc'[r] \in {"graph", "resuming", "ended"}
              /\ (pc'[r] = "graph" => ckpt.phase = "running")
    BY <1>14 DEF EnterGraph, Checkpoint
  <2> QED
    BY <1>13, <2>1 DEF Driving
<1>15. CASE RunNodes(r)
  <2>1. ckpt'.phase = "running"
    BY <1>15 DEF RunNodes
  <2> QED
    BY <1>13, <1>15, <2>1 DEF RunNodes, Driving, InRun
<1>16. CASE EndGraph(r) \/ Resume(r)
  BY <1>13, <1>16 DEF EndGraph, Resume, Driving, InRun
\* r reads the thread and writes what it found.
<1>17. CASE Snapshot(r)
  <2>1. /\ result'[r].interrupted = (ckpt.phase = "interrupted")
        /\ pc'[r] = "snapped" /\ pc[r] = "ended"
        /\ UNCHANGED <<row, op, mem, written, holder, ckpt>>
    BY <1>17 DEF Snapshot
  <2>2. ckpt.phase = "interrupted" => result'[r].interrupted
    BY <2>1
  <2>3. KnowsThread(r)'
    BY <1>1, <2>1, <2>2 DEF KnowsThread, InRun
  <2>4. holder = r
    BY <1>2, <2>1 DEF Driving, InRun
  <2> QED
    BY <2>1, <2>2, <2>3, <2>4 DEF Covered, Fixing
<1>18. CASE Persist(r)
  <2> DEFINE m == [mem[r] EXCEPT
                     !.status = NextStatus(result[r], mem[r].status),
                     !.stamped = Dated(@, result[r].interrupted \/ result[r].needsHuman)]
  <2>1. PICK messages : Flush(r, m, messages)
    BY <1>18 DEF Persist
  <2>2. m.status = NextStatus(result[r], mem[r].status)
    BY <1>1 DEF TicketRow
  <2>3. pc[r] = "snapped" /\ pc'[r] = "responding" /\ UNCHANGED <<row, op, ckpt, result>>
    BY <1>18 DEF Persist
  <2>4. holder = r /\ mem[r].status = "in_progress"
    BY <1>1, <1>2, <2>3 DEF KnowsThread, Driving, InRun
  <2>5. result[r].interrupted => m.status = "escalated"
    BY <2>2 DEF NextStatus
  <2> HIDE DEF m
  <2>6. holder' = r /\ mem'[r] = m
        /\ (result[r].interrupted => "status" \in written'[r])
    BY <2>1, <2>4, <2>5, FlushSession
  <2>7. KnowsThread(r)'
    BY <1>1, <2>3, <2>5, <2>6 DEF KnowsThread, InRun, Queued
  <2>8. Covered'
    BY <1>1, <2>3, <2>4, <2>5, <2>6 DEF Covered, Fixing
  <2> QED
    BY <2>7, <2>8
<1>19. CASE StreamCut(r)
  <2>1. /\ pc[r] \in {"graph", "routed"} /\ pc'[r] = "responding"
        /\ UNCHANGED <<row, op, mem, written, holder, ckpt, result>>
    BY <1>19 DEF StreamCut
  <2>2. ckpt.phase = "running"
    BY <1>1, <2>1 DEF KnowsThread
  <2> QED
    BY <1>1, <2>1, <2>2 DEF KnowsThread, Covered, InRun
\* r ends its session: with its commit, or where it had nothing to fix.
<1>20. ASSUME UNCHANGED <<row, op, ckpt>>, NEW l \in {"done", "aborted"}, EndSession(r, l),
              ckpt.phase = "running" \/ pc[r] = "loaded"
       PROVE  KnowsThread(r)' /\ Covered'
  <2>1. /\ pc'[r] = l /\ op'[r] = op[r] /\ written'[r] = {}
        /\ holder' = IF holder = r THEN NoRequest ELSE holder
    BY <1>20 DEF EndSession
  <2>2. KnowsThread(r)'
    BY <1>1, <2>1 DEF KnowsThread, InRun
  <2>3. Covered'
    BY <1>1, <1>20, <2>1, OthersAlone DEF Covered, Fixing
  <2> QED
    BY <2>2, <2>3
<1>21. CASE FailGraph(r)
  <2>1. pc[r] \in {"graph", "routed"} /\ ckpt.phase = "running"
    BY <1>1, <1>21 DEF FailGraph, KnowsThread
  <2>2. CASE op[r] = "reply"
    BY <1>20, <1>21, <2>1, <2>2 DEF FailGraph
  <2>3. CASE op[r] # "reply"
    <3>1. pc'[r] = "snapped" /\ UNCHANGED <<row, op, mem, written, holder, ckpt>>
      BY <1>21, <2>3 DEF FailGraph
    <3> QED
      BY <1>1, <2>1, <3>1 DEF KnowsThread, Covered, InRun
  <2> QED
    BY <2>2, <2>3
<1>22. CASE WaitCut(r)
  BY <1>20, <1>22 DEF WaitCut
<1>23. CASE Commit(r)
  <2>1. /\ pc[r] = "responding" /\ pc'[r] = "done" /\ op'[r] = op[r] /\ written'[r] = {}
        /\ holder' = IF holder = r THEN NoRequest ELSE holder
        /\ UNCHANGED ckpt
        /\ row' = Overlaid(r)
    BY <1>23 DEF Commit, EndSession
  <2>2. row'.status = IF "status" \in written[r] THEN mem[r].status ELSE row.status
    BY <2>1 DEF Overlaid
  <2>3. KnowsThread(r)'
    BY <1>1, <2>1 DEF KnowsThread, InRun
  <2>4. Covered'
    <3>1. CASE "status" \in written[r]
      BY <1>1, <2>1, <2>2, <3>1 DEF Covered, KnowsThread
    <3>2. CASE "status" \notin written[r]
      BY <1>1, <2>1, <2>2, <3>2, OthersAlone DEF Covered, Fixing
    <3> QED
      BY <3>1, <3>2
  <2> QED
    BY <2>3, <2>4
<1>24. CASE Abort(r)
  BY <1>24 DEF Abort
<1> QED
  BY <1>5, <1>6, <1>7, <1>8, <1>9, <1>10, <1>11, <1>12, <1>14, <1>15, <1>16, <1>17,
     <1>18, <1>19, <1>21, <1>22, <1>23, <1>24
  DEF Step, Work

LEMMA QueueStep ==
  ASSUME ~ Faults, "resolve" \notin Ops
  PROVE  TypeOK /\ LockInv /\ QueueInv /\ [Next]_vars => QueueInv'
<1> SUFFICES ASSUME TypeOK, LockInv, QueueInv, [Next]_vars PROVE QueueInv'
  OBVIOUS
<1>1. CASE UNCHANGED vars \/ AllServed
  BY <1>1 DEF AllServed, vars, QueueInv, KnowsThread, Covered, Fixing
<1>2. ASSUME NEW r \in Requests, Step(r) PROVE QueueInv'
  <2>1. KnowsThread(r)' /\ Covered'
    BY <1>2, OwnStep
  <2>2. ASSUME NEW q \in Requests \ {r} PROVE KnowsThread(q)'
    <3>1. /\ pc'[q] = pc[q] /\ op'[q] = op[q] /\ mem'[q] = mem[q]
          /\ written'[q] = written[q] /\ result'[q] = result[q]
          /\ holder = q => holder' = q
          /\ pc[r] \notin Driving => ckpt' = ckpt
      BY <1>2, <2>2, OthersAlone
    <3>2. op[r] # "resolve" /\ KnowsThread(q)
      BY DEF QueueInv, KnowsThread
    <3>3. ckpt' # ckpt => holder = r
      BY <3>1, <3>2 DEF LockInv, LockHeld
    <3>4. pc[q] \in InRun \/ written[q] # {} => holder = q
      BY <3>2 DEF LockInv, LockHeld, Driving, KnowsThread
    <3>5. CASE ckpt' = ckpt
      BY <3>1, <3>2, <3>5 DEF KnowsThread
    <3>6. CASE ckpt' # ckpt
      <4>1. pc[q] \notin InRun /\ written[q] = {}
        BY <3>3, <3>4, <3>6, <2>2
      <4> QED
        BY <3>1, <3>2, <4>1 DEF KnowsThread, InRun
    <3> QED
      BY <3>5, <3>6
  <2> QED
    BY <2>1, <2>2 DEF QueueInv
<1> QED
  BY <1>1, <1>2 DEF Next

\* Without /resolve, which runs the graph without the row lock, and as long as
\* every session reaches its commit, an interrupt that is left behind when
\* nobody is in flight has its ticket in the queue, resolved or closed.
THEOREM WaitingStaysQueued ==
  ASSUME ~ Faults, "resolve" \notin Ops
  PROVE  Spec => []WaitingIsQueued
<1>1. Init => QueueInv
  BY DEF Init, QueueInv, KnowsThread, Covered, Driving, InRun
<1>2. TypeOK /\ QueueInv => WaitingIsQueued
  BY DEF QueueInv, Covered, Fixing, Queued, WaitingIsQueued, Quiet, InFlight, InRun, TypeOK
<1> QED
  BY <1>1, <1>2, LockStart, LockStep, TypeCorrect, QueueStep, PTL DEF Spec

=============================================================================
