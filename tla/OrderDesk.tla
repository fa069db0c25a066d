------------------------------- MODULE OrderDesk -------------------------------
(***************************************************************************)
(* One order and the turns whose workers call tools on it.  A customer may *)
(* have several tickets about one order, so the turns overlap: the lock    *)
(* that keeps two turns of one ticket apart is not theirs.  A tool flushes *)
(* its row into the transaction of its turn; the turn commits at its end,  *)
(* also when the graph failed after the tool, or the stream was cut.       *)
(*                                                                         *)
(* Left out: the lookups, which change nothing; the customer check; ids,   *)
(* currency and dates.  The facts of the order are PolicyRules' claim.     *)
(***************************************************************************)
EXTENDS PolicyRules, FiniteSets

CONSTANTS
  Turns,    \* turns, each of a ticket of its own
  NoTurn,   \* nobody holds the lock on the orders row
  MaxCalls  \* writing tool calls in one turn

ASSUME TurnsAssumption == NoTurn \notin Turns /\ MaxCalls \in Nat

VARIABLES
  order,    \* committed orders.status
  shipment, \* committed shipments.status, "none" before there is one
  refunds,  \* committed refunds
  returns,  \* committed returns
  holder,   \* the turn whose transaction holds the orders row
  turn,     \* what each turn has loaded, flushed and not committed
  told      \* what the committed answers report

deskVars == <<claim, order, shipment, refunds, returns, holder, turn, told>>

OrderStatuses == {"pending", "paid", "processing", "shipped", "delivered",
                  "cancelled", "returned"}
ShipmentStatuses == {"none", "processing", "shipped", "in_transit",
                     "out_for_delivery", "delivered", "delayed", "lost"}

\* A row is known by its turn and its number in it; number 0 is the turn's
\* cancellation, which is no row.
Ids == Turns \X (0 .. MaxCalls)
Refund == [id : Ids, amount : Amounts, reason : Reasons,
           status : {"requested", "pending_approval"}]
\* Only defective_product differs from the other return reasons.
Return == [id : Ids, inspection : BOOLEAN]

\* A turn is in the hands of one worker, which has its own tools; "cancelling"
\* is cancel_order between its decision and its flush.
Turn == [pc : {"new", "billing", "logistics", "cancelling", "over"},
         calls : 0 .. MaxCalls, cancels : BOOLEAN,
         refunds : SUBSET Refund, returns : SUBSET Return]

Fresh == [pc |-> "new", calls |-> 0, cancels |-> FALSE,
          refunds |-> {}, returns |-> {}]

OrderInit ==
  /\ Init
  /\ order \in {"pending", "paid", "processing"}
  /\ shipment \in {"none", "processing"}
  /\ refunds = {} /\ returns = {} /\ told = {}
  /\ holder = NoTurn
  /\ turn = [t \in Turns |-> Fresh]

-----------------------------------------------------------------------------
(* The tools *)

Start(t) ==
  /\ turn[t].pc = "new"
  /\ \E worker \in {"billing", "logistics"} :
       turn' = [turn EXCEPT ![t].pc = worker]
  /\ UNCHANGED <<claim, order, shipment, refunds, returns, holder, told>>

\* A writing call takes the next number of its turn.
NextId(t) == <<t, turn[t].calls + 1>>
Calls(t, worker) == turn[t].pc = worker /\ turn[t].calls < MaxCalls
Working(t) == turn[t].pc \in {"billing", "logistics"}

\* Mutant of NewRefund: only an inspection asks for a human.
NewRefundInspected(t) ==
  [id |-> NextId(t), amount |-> claim.amount, reason |-> claim.reason,
   status |-> IF CanRefund(claim).inspection THEN "pending_approval"
                                             ELSE "requested"]

\* Mutant of NewRefund: what needs no human is executed at once.
NewRefundExecuted(t) ==
  [id |-> NextId(t), amount |-> claim.amount, reason |-> claim.reason,
   status |-> IF CanRefund(claim).requiresHuman THEN "pending_approval"
                                                ELSE "executed"]

NewRefund(t) ==
  [id |-> NextId(t), amount |-> claim.amount, reason |-> claim.reason,
   status |-> IF CanRefund(claim).requiresHuman THEN "pending_approval"
                                                ELSE "requested"]

\* create_refund_request asks the engine again, for the reason it is given, and
\* looks at no other refund, at the order's status or at its returns.
CreateRefund(t) ==
  /\ Calls(t, "billing")
  /\ CanRefund(claim).eligible
  /\ turn' = [turn EXCEPT ![t].calls = @ + 1,
                          ![t].refunds = @ \union {NewRefund(t)}]
  /\ UNCHANGED <<claim, order, shipment, refunds, returns, holder, told>>

\* create_return_request accepts any order; an unknown reason becomes "other".
CreateReturn(t) ==
  /\ Calls(t, "logistics")
  /\ \E defective \in BOOLEAN :
       turn' = [turn EXCEPT ![t].calls = @ + 1,
                  ![t].returns =
                    @ \union {[id |-> NextId(t), inspection |-> defective]}]
  /\ UNCHANGED <<claim, order, shipment, refunds, returns, holder, told>>

\* cancel_order decides on what it loads, its own cancellation included.
DecideCancel(t) ==
  /\ Calls(t, "logistics") /\ ~ turn[t].cancels
  /\ CanCancel(order, shipment)
  /\ turn' = [turn EXCEPT ![t].pc = "cancelling"]
  /\ UNCHANGED <<claim, order, shipment, refunds, returns, holder, told>>

\* The UPDATE waits for the row.
FlushCancel(t) ==
  /\ turn[t].pc = "cancelling"
  /\ holder \in {NoTurn, t}
  /\ holder' = t
  /\ turn' = [turn EXCEPT ![t].pc = "logistics", ![t].calls = @ + 1,
                          ![t].cancels = TRUE]
  /\ UNCHANGED <<claim, order, shipment, refunds, returns, told>>

-----------------------------------------------------------------------------
(* The end of a turn *)

Release(t) ==
  /\ holder' = IF holder = t THEN NoTurn ELSE holder
  /\ turn' = [turn EXCEPT ![t] = [Fresh EXCEPT !.pc = "over"]]

Save(t) ==
  /\ order' = IF turn[t].cancels THEN "cancelled" ELSE order
  /\ refunds' = refunds \union turn[t].refunds
  /\ returns' = returns \union turn[t].returns
  /\ Release(t)

Report(t) ==
  {r.id : r \in turn[t].refunds \union turn[t].returns}
    \union (IF turn[t].cancels THEN {<<t, 0>>} ELSE {})

\* Mutant of Answer: the answer is saved apart from what the tools flushed.
AnswerAlone(t) ==
  /\ Working(t)
  /\ told' = told \union Report(t)
  /\ UNCHANGED <<order, refunds, returns>>
  /\ Release(t)
  /\ UNCHANGED <<claim, shipment>>

\* The worker has seen every result: its answer and its rows commit together.
Answer(t) ==
  /\ Working(t)
  /\ told' = told \union Report(t)
  /\ Save(t)
  /\ UNCHANGED <<claim, shipment>>

\* The graph fails or the stream is cut after the tools: the error is persisted
\* and what they flushed is committed, though no answer reports it.
FallSilent(t) ==
  /\ Working(t)
  /\ Save(t)
  /\ UNCHANGED <<claim, shipment, told>>

\* The session dies.
Die(t) ==
  /\ Working(t) \/ turn[t].pc = "cancelling"
  /\ Release(t)
  /\ UNCHANGED <<claim, order, shipment, refunds, returns, told>>

-----------------------------------------------------------------------------
(* The world outside *)

\* The warehouse sends what is not cancelled; its UPDATE waits for the row.
Ship ==
  /\ order \in {"paid", "processing"} /\ holder = NoTurn
  /\ order' = "shipped" /\ shipment' = "shipped"
  /\ UNCHANGED <<claim, refunds, returns, holder, turn, told>>

Arrive ==
  /\ order = "shipped" /\ holder = NoTurn
  /\ Deliver
  /\ order' = "delivered" /\ shipment' = "delivered"
  /\ UNCHANGED <<refunds, returns, holder, turn, told>>

\* Days, identity and reasons move as in PolicyRules.
Elsewhere ==
  /\ NextDay \/ Verify \/ Restate
  /\ UNCHANGED <<order, shipment, refunds, returns, holder, turn, told>>

OrderNext ==
  \/ \E t \in Turns :
       \/ Start(t) \/ CreateRefund(t) \/ CreateReturn(t)
       \/ DecideCancel(t) \/ FlushCancel(t)
       \/ Answer(t) \/ FallSilent(t) \/ Die(t)
  \/ Ship \/ Arrive \/ Elsewhere

OrderSpec == OrderInit /\ [][OrderNext]_deskVars

-----------------------------------------------------------------------------
(* Properties *)

OrderTypeOK ==
  /\ claim \in Claims
  /\ order \in OrderStatuses /\ shipment \in ShipmentStatuses
  /\ refunds \subseteq Refund /\ returns \subseteq Return
  /\ holder \in Turns \union {NoTurn}
  /\ turn \in [Turns -> Turn]
  /\ told \subseteq Ids

\* What a committed answer reports is in the database: whatever turns fail, are
\* cut or die, no customer reads of a refund, a return or a cancellation that
\* was rolled back, and no cancelled order is shipped under a reported one.
ReportsAreKept ==
  \A id \in told :
    \/ \E r \in refunds \union returns : r.id = id
    \/ id[2] = 0 /\ order = "cancelled"

\* Every refund row stands on the facts of its order, whatever was called in
\* which order and whatever has happened since: the parcel had arrived unless a
\* charge was doubled, a final sale was not given back on a change of mind, and
\* an amount over the threshold waits for approval.
RefundsAreGrounded ==
  \A r \in refunds :
    /\ claim.days # NotDelivered \/ (claim.duplicate /\ r.reason # "withdrawal")
    /\ claim.finalSale /\ r.reason = "customer_preference" => claim.duplicate
    /\ r.amount > Threshold => r.status = "pending_approval"

-----------------------------------------------------------------------------
(* What a policy claims and the code does not keep *)

\* payment_policy.md: "Duplicate charges: refund one payment".  An order charged
\* twice and not delivered has at most one refund.
OneRefundPerDuplicate ==
  claim.days = NotDelivered => Cardinality(refunds) <= 1
=============================================================================
