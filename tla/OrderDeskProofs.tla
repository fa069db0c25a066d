---------------------------- MODULE OrderDeskProofs ----------------------------
(***************************************************************************)
(* What holds of an order for any number of overlapping turns and calls.   *)
(***************************************************************************)
EXTENDS OrderDesk, TLAPS

\* A cancellation that was decided has a call left for its flush.
RoomToFlush == \A t \in Turns : turn[t].pc = "cancelling" => turn[t].calls < MaxCalls

\* What RefundsAreGrounded says of one refund.
Grounded(r) ==
  /\ claim.days # NotDelivered \/ (claim.duplicate /\ r.reason # "withdrawal")
  /\ claim.finalSale /\ r.reason = "customer_preference" => claim.duplicate
  /\ r.amount > Threshold => r.status = "pending_approval"

\* It is inductive when the refunds that are flushed and not committed count.
AllGrounded ==
  /\ \A r \in refunds : Grounded(r)
  /\ \A t \in Turns : \A r \in turn[t].refunds : Grounded(r)

IInv == OrderTypeOK /\ RoomToFlush /\ AllGrounded

-----------------------------------------------------------------------------
(* Types *)

LEMMA FreshIsTurn == Fresh \in Turn /\ [Fresh EXCEPT !.pc = "over"] \in Turn
<1>1. 0 \in 0 .. MaxCalls
  BY TurnsAssumption
<1>2. Fresh \in Turn
  BY <1>1 DEF Fresh, Turn
<1>3. \A row \in Turn : [row EXCEPT !.pc = "over"] \in Turn
  BY DEF Turn
<1> QED
  BY <1>2, <1>3

LEMMA NextIdIsId ==
  ASSUME NEW t \in Turns, NEW n \in 0 .. MaxCalls, n < MaxCalls
  PROVE  <<t, n + 1>> \in Ids /\ n + 1 \in 0 .. MaxCalls
<1>1. n + 1 \in 0 .. MaxCalls
  BY TurnsAssumption
<1> QED
  BY <1>1 DEF Ids

LEMMA NewRefundIsRefund ==
  ASSUME OrderTypeOK, NEW t \in Turns, turn[t].calls < MaxCalls
  PROVE  NewRefund(t) \in Refund
<1>1. NextId(t) \in Ids
  <2>1. turn[t].calls \in 0 .. MaxCalls
    BY DEF OrderTypeOK, Turn
  <2> QED
    BY <2>1, NextIdIsId DEF NextId
<1>2. claim.amount \in Amounts /\ claim.reason \in Reasons
  BY DEF OrderTypeOK, Claims
<1> QED
  BY <1>1, <1>2 DEF NewRefund, Refund

\* Only the warehouse and the customer move the facts of the order: they stay in
\* their type, and of what grounds a refund only the arrival is added.
LEMMA FactsStay ==
  ASSUME claim \in Claims, Next \/ UNCHANGED claim
  PROVE  /\ claim' \in Claims
         /\ claim.days # NotDelivered => claim'.days # NotDelivered
         /\ claim'.duplicate = claim.duplicate
         /\ claim'.finalSale = claim.finalSale
<1> USE DEF Claims, NotDelivered
<1>1. CASE Deliver
  BY <1>1, 0 \in Nat DEF Deliver
<1>2. CASE NextDay
  <2>1. claim.days \in Nat /\ claim.days + 1 \in Nat
    BY <1>2, RulesAssumption DEF NextDay
  <2> QED
    BY <1>2, <2>1 DEF NextDay
<1>3. CASE Verify
  BY <1>3 DEF Verify
<1>4. CASE Restate
  BY <1>4 DEF Restate
<1> QED
  BY <1>1, <1>2, <1>3, <1>4 DEF Next

\* What grounded a refund grounds it for good.
LEMMA GroundsStay ==
  ASSUME claim \in Claims, Next \/ UNCHANGED claim, NEW r, Grounded(r)
  PROVE  Grounded(r)'
BY FactsStay DEF Grounded

\* The engine grounds what it grants.
LEMMA GrantIsGround ==
  ASSUME OrderTypeOK, NEW t \in Turns, CanRefund(claim).eligible
  PROVE  Grounded(NewRefund(t))
<1>1. /\ NewRefund(t).reason = claim.reason
      /\ NewRefund(t).amount = claim.amount
      /\ NewRefund(t).status = IF CanRefund(claim).requiresHuman
                                 THEN "pending_approval" ELSE "requested"
  BY DEF NewRefund
<1>2. claim.duplicate \in BOOLEAN /\ claim.finalSale \in BOOLEAN
  BY DEF OrderTypeOK, Claims
<1>3. claim.amount > Threshold => CanRefund(claim).requiresHuman
  BY DEF CanRefund, Granted, Denied
<1>4. claim.days # NotDelivered \/ (claim.duplicate /\ claim.reason # "withdrawal")
  BY <1>2 DEF CanRefund, Granted, Denied, Within
<1>5. claim.finalSale /\ claim.reason = "customer_preference" => claim.duplicate
  BY <1>2 DEF CanRefund, Granted, Denied
<1> QED
  BY <1>1, <1>3, <1>4, <1>5 DEF Grounded

-----------------------------------------------------------------------------
(* Steps *)

\* One turn's record is replaced by another, nothing else that is shared but the
\* lock moves.
LEMMA TurnMoves ==
  ASSUME IInv, NEW t \in Turns, NEW row \in Turn,
         turn' = [turn EXCEPT ![t] = row],
         row.pc = "cancelling" => row.calls < MaxCalls,
         \A r \in row.refunds : Grounded(r),
         UNCHANGED <<claim, order, shipment, refunds, returns>>,
         told' \subseteq Ids,
         holder' \in Turns \union {NoTurn}
  PROVE  IInv'
<1>1. turn \in [Turns -> Turn]
  BY DEF IInv, OrderTypeOK
<1>2. turn' \in [Turns -> Turn] /\ turn'[t] = row
      /\ \A u \in Turns \ {t} : turn'[u] = turn[u]
  BY <1>1
<1>3. OrderTypeOK'
  BY <1>2 DEF IInv, OrderTypeOK
<1>4. RoomToFlush'
  BY <1>2 DEF IInv, RoomToFlush
<1>5. \A r : Grounded(r) => Grounded(r)'
  BY GroundsStay DEF IInv, OrderTypeOK
<1>6. AllGrounded'
  BY <1>2, <1>5 DEF IInv, AllGrounded
<1> QED
  BY <1>3, <1>4, <1>6 DEF IInv

\* A turn ends: what it flushed may join what is committed, and its lock goes.
LEMMA TurnEnds ==
  ASSUME IInv, NEW t \in Turns, Release(t), UNCHANGED <<claim, shipment>>,
         order' \in {order, "cancelled"}, told' \subseteq Ids,
         refunds' \subseteq refunds \union turn[t].refunds,
         returns' \subseteq returns \union turn[t].returns
  PROVE  IInv'
<1> DEFINE row == [Fresh EXCEPT !.pc = "over"]
<1>1. turn \in [Turns -> Turn] /\ turn[t] \in Turn
  BY DEF IInv, OrderTypeOK
<1>2. row \in Turn /\ row.refunds = {} /\ row.pc = "over"
  BY FreshIsTurn DEF Fresh
<1>3. turn' = [turn EXCEPT ![t] = row]
  BY DEF Release
<1> HIDE DEF row
<1>4. turn' \in [Turns -> Turn] /\ turn'[t] = row
      /\ \A u \in Turns \ {t} : turn'[u] = turn[u]
  BY <1>1, <1>2, <1>3
<1>5. turn[t].refunds \subseteq Refund /\ turn[t].returns \subseteq Return
  BY <1>1 DEF Turn
<1>6. OrderTypeOK'
  <2>1. holder' \in Turns \union {NoTurn}
    BY DEF IInv, OrderTypeOK, Release
  <2>2. order' \in OrderStatuses
    BY DEF IInv, OrderTypeOK, OrderStatuses
  <2>3. refunds' \subseteq Refund /\ returns' \subseteq Return
    BY <1>5 DEF IInv, OrderTypeOK
  <2> QED
    BY <1>4, <2>1, <2>2, <2>3 DEF IInv, OrderTypeOK
<1>7. RoomToFlush'
  BY <1>2, <1>4 DEF IInv, RoomToFlush
<1>8. \A r : Grounded(r) => Grounded(r)'
  BY GroundsStay DEF IInv, OrderTypeOK
<1>9. AllGrounded'
  BY <1>2, <1>4, <1>8 DEF IInv, AllGrounded
<1> QED
  BY <1>6, <1>7, <1>9 DEF IInv

\* The order and the facts about it move; no turn does.
LEMMA OrderMoves ==
  ASSUME IInv, Next \/ UNCHANGED claim,
         order' \in OrderStatuses, shipment' \in ShipmentStatuses,
         UNCHANGED <<refunds, returns, holder, turn, told>>
  PROVE  IInv'
<1>1. claim' \in Claims
  BY FactsStay DEF IInv, OrderTypeOK
<1>2. \A r : Grounded(r) => Grounded(r)'
  BY GroundsStay DEF IInv, OrderTypeOK
<1>3. OrderTypeOK'
  BY <1>1 DEF IInv, OrderTypeOK
<1>4. RoomToFlush'
  BY DEF IInv, RoomToFlush
<1>5. AllGrounded'
  BY <1>2 DEF IInv, AllGrounded
<1> QED
  BY <1>3, <1>4, <1>5 DEF IInv

LEMMA ReportsAreIds ==
  ASSUME OrderTypeOK, NEW t \in Turns
  PROVE  Report(t) \subseteq Ids
<1>1. turn[t].refunds \subseteq Refund /\ turn[t].returns \subseteq Return
  BY DEF OrderTypeOK, Turn
<1>2. \A r \in Refund : r.id \in Ids
  BY DEF Refund
<1>3. \A r \in Return : r.id \in Ids
  BY DEF Return
<1>4. <<t, 0>> \in Ids
  BY TurnsAssumption DEF Ids
<1> QED
  BY <1>1, <1>2, <1>3, <1>4 DEF Report

LEMMA InitIsGood == OrderInit => IInv
<1> SUFFICES ASSUME OrderInit PROVE IInv
  OBVIOUS
<1>1. claim \in Claims
  BY DEF OrderInit, Init, Claims
<1>2. turn \in [Turns -> Turn] /\ \A t \in Turns : turn[t] = Fresh
  BY FreshIsTurn DEF OrderInit
<1>3. OrderTypeOK
  BY <1>1, <1>2 DEF OrderInit, OrderTypeOK, OrderStatuses, ShipmentStatuses
<1>4. RoomToFlush /\ AllGrounded
  BY <1>2 DEF OrderInit, RoomToFlush, AllGrounded, Fresh
<1> QED
  BY <1>3, <1>4 DEF IInv

LEMMA StepIsGood == IInv /\ [OrderNext]_deskVars => IInv'
<1> SUFFICES ASSUME IInv, [OrderNext]_deskVars PROVE IInv'
  OBVIOUS
<1> USE DEF IInv
<1>0. /\ claim \in Claims /\ order \in OrderStatuses
      /\ shipment \in ShipmentStatuses /\ told \subseteq Ids
      /\ holder \in Turns \union {NoTurn} /\ turn \in [Turns -> Turn]
  BY DEF OrderTypeOK
<1>1. ASSUME NEW t \in Turns, Start(t) PROVE IInv'
  <2> PICK worker \in {"billing", "logistics"} :
        turn' = [turn EXCEPT ![t].pc = worker]
    BY <1>1 DEF Start
  <2> DEFINE row == [turn[t] EXCEPT !.pc = worker]
  <2>1. row \in Turn /\ row.pc = worker /\ row.refunds = turn[t].refunds
    BY <1>0 DEF Turn
  <2>2. turn' = [turn EXCEPT ![t] = row]
    BY <1>0
  <2> HIDE DEF row
  <2>3. \A r \in row.refunds : Grounded(r)
    BY <2>1 DEF AllGrounded
  <2> QED
    BY <1>0, <1>1, <2>1, <2>2, <2>3, TurnMoves DEF Start
<1>2. ASSUME NEW t \in Turns, CreateRefund(t) PROVE IInv'
  <2> DEFINE row == [turn[t] EXCEPT !.calls = @ + 1,
                                    !.refunds = @ \union {NewRefund(t)}]
  <2>1. turn[t] \in Turn /\ turn[t].pc = "billing" /\ turn[t].calls < MaxCalls
    BY <1>0, <1>2 DEF CreateRefund, Calls
  <2>2. turn[t].calls + 1 \in 0 .. MaxCalls
    BY <2>1, NextIdIsId DEF Turn
  <2>3. NewRefund(t) \in Refund /\ Grounded(NewRefund(t))
    BY <1>2, <2>1, NewRefundIsRefund, GrantIsGround DEF CreateRefund
  <2>4. row \in Turn /\ row.pc = "billing"
        /\ row.refunds = turn[t].refunds \union {NewRefund(t)}
    BY <2>1, <2>2, <2>3 DEF Turn
  <2>5. turn' = [turn EXCEPT ![t] = row]
    BY <1>0, <1>2 DEF CreateRefund
  <2> HIDE DEF row
  <2>6. \A r \in row.refunds : Grounded(r)
    BY <2>3, <2>4 DEF AllGrounded
  <2> QED
    BY <1>0, <1>2, <2>4, <2>5, <2>6, TurnMoves DEF CreateRefund
<1>3. ASSUME NEW t \in Turns, CreateReturn(t) PROVE IInv'
  <2> PICK defective \in BOOLEAN :
        turn' = [turn EXCEPT ![t].calls = @ + 1,
                   ![t].returns =
                     @ \union {[id |-> NextId(t), inspection |-> defective]}]
    BY <1>3 DEF CreateReturn
  <2> DEFINE new == [id |-> NextId(t), inspection |-> defective]
             row == [turn[t] EXCEPT !.calls = @ + 1,
                                    !.returns = @ \union {new}]
  <2>1. turn[t] \in Turn /\ turn[t].pc = "logistics" /\ turn[t].calls < MaxCalls
    BY <1>0, <1>3 DEF CreateReturn, Calls
  <2>2. turn[t].calls + 1 \in 0 .. MaxCalls /\ NextId(t) \in Ids
    BY <2>1, NextIdIsId DEF Turn, NextId
  <2>3. new \in Return
    BY <2>2 DEF Return
  <2>5. turn' = [turn EXCEPT ![t] = row]
    BY <1>0
  <2> HIDE DEF new
  <2>4. row \in Turn /\ row.pc = "logistics" /\ row.refunds = turn[t].refunds
    BY <2>1, <2>2, <2>3 DEF Turn
  <2> HIDE DEF row
  <2>6. \A r \in row.refunds : Grounded(r)
    BY <2>4 DEF AllGrounded
  <2> QED
    BY <1>0, <1>3, <2>4, <2>5, <2>6, TurnMoves DEF CreateReturn
<1>4. ASSUME NEW t \in Turns, DecideCancel(t) PROVE IInv'
  <2> DEFINE row == [turn[t] EXCEPT !.pc = "cancelling"]
  <2>1. row \in Turn /\ row.calls = turn[t].calls /\ row.refunds = turn[t].refunds
    BY <1>0 DEF Turn
  <2>2. turn' = [turn EXCEPT ![t] = row] /\ turn[t].calls < MaxCalls
    BY <1>0, <1>4 DEF DecideCancel, Calls
  <2> HIDE DEF row
  <2>3. \A r \in row.refunds : Grounded(r)
    BY <2>1 DEF AllGrounded
  <2> QED
    BY <1>0, <1>4, <2>1, <2>2, <2>3, TurnMoves DEF DecideCancel
<1>5. ASSUME NEW t \in Turns, FlushCancel(t) PROVE IInv'
  <2> DEFINE row == [turn[t] EXCEPT !.pc = "logistics", !.calls = @ + 1,
                                    !.cancels = TRUE]
  <2>1. turn[t] \in Turn /\ turn[t].calls < MaxCalls
    BY <1>0, <1>5 DEF FlushCancel, RoomToFlush
  <2>2. turn[t].calls + 1 \in 0 .. MaxCalls
    BY <2>1, NextIdIsId DEF Turn
  <2>3. row \in Turn /\ row.pc = "logistics" /\ row.refunds = turn[t].refunds
    BY <2>1, <2>2 DEF Turn
  <2>4. turn' = [turn EXCEPT ![t] = row]
    BY <1>0, <1>5 DEF FlushCancel
  <2> HIDE DEF row
  <2>5. \A r \in row.refunds : Grounded(r)
    BY <2>3 DEF AllGrounded
  <2> QED
    BY <1>0, <1>5, <2>3, <2>4, <2>5, TurnMoves DEF FlushCancel
<1>6. ASSUME NEW t \in Turns, Answer(t) PROVE IInv'
  <2>1. told' \subseteq Ids
    BY <1>0, <1>6, ReportsAreIds DEF Answer
  <2>2. Release(t) /\ UNCHANGED <<claim, shipment>> /\ order' \in {order, "cancelled"}
        /\ refunds' \subseteq refunds \union turn[t].refunds
        /\ returns' \subseteq returns \union turn[t].returns
    BY <1>6 DEF Answer, Save
  <2> QED
    BY <2>1, <2>2, TurnEnds
<1>7. ASSUME NEW t \in Turns, FallSilent(t) PROVE IInv'
  <2>1. Release(t) /\ UNCHANGED <<claim, shipment, told>>
        /\ order' \in {order, "cancelled"}
        /\ refunds' \subseteq refunds \union turn[t].refunds
        /\ returns' \subseteq returns \union turn[t].returns
    BY <1>7 DEF FallSilent, Save
  <2> QED
    BY <1>0, <2>1, TurnEnds
<1>8. ASSUME NEW t \in Turns, Die(t) PROVE IInv'
  <2>1. Release(t)
        /\ UNCHANGED <<claim, order, shipment, refunds, returns, told>>
    BY <1>8 DEF Die
  <2> QED
    BY <1>0, <2>1, TurnEnds
<1>9. CASE Ship
  BY <1>9, OrderMoves DEF Ship, OrderStatuses, ShipmentStatuses
<1>10. CASE Arrive
  BY <1>10, OrderMoves DEF Arrive, Next, OrderStatuses, ShipmentStatuses
<1>11. CASE Elsewhere
  <2>1. Next /\ UNCHANGED <<order, shipment, refunds, returns, holder, turn, told>>
    BY <1>11 DEF Elsewhere, Next
  <2> QED
    BY <1>0, <2>1, OrderMoves
<1>12. CASE UNCHANGED deskVars
  BY <1>0, <1>12, OrderMoves DEF deskVars
<1> QED
  BY <1>1, <1>2, <1>3, <1>4, <1>5, <1>6, <1>7, <1>8, <1>9, <1>10, <1>11, <1>12
  DEF OrderNext

LEMMA InvariantHolds == OrderSpec => []IInv
BY InitIsGood, StepIsGood, PTL DEF OrderSpec

-----------------------------------------------------------------------------
(* Theorems *)

\* The rows, the lock and the turns keep their types: no turn writes more rows
\* than it has calls.
THEOREM OrderTypeCorrect == OrderSpec => []OrderTypeOK
<1>1. IInv => OrderTypeOK
  BY DEF IInv
<1> QED
  BY <1>1, InvariantHolds, PTL

\* However many turns and calls there are, and whatever happens to the order in
\* between, every refund row stands on the facts of its order.
THEOREM RefundsStayGrounded == OrderSpec => []RefundsAreGrounded
<1>1. IInv => RefundsAreGrounded
  BY DEF IInv, AllGrounded, Grounded, RefundsAreGrounded
<1> QED
  BY <1>1, InvariantHolds, PTL

\* A reported row was committed before its report could be read, no row is ever
\* taken back, and a cancelled order is left alone.
THEOREM ReportsStayKept == OrderSpec => []ReportsAreKept
<1>1. OrderInit => ReportsAreKept
  BY DEF OrderInit, ReportsAreKept
<1>2. ReportsAreKept /\ [OrderNext]_deskVars => ReportsAreKept'
  <2> SUFFICES ASSUME ReportsAreKept, [OrderNext]_deskVars,
                      NEW id \in told'
               PROVE  \/ \E r \in refunds' \union returns' : r.id = id
                      \/ id[2] = 0 /\ order' = "cancelled"
    BY DEF ReportsAreKept
  <2>1. /\ refunds \subseteq refunds' /\ returns \subseteq returns'
        /\ order = "cancelled" => order' = "cancelled"
    BY DEF OrderNext, Start, CreateRefund, CreateReturn, DecideCancel, FlushCancel,
           Answer, FallSilent, Die, Save, Release, Ship, Arrive, Elsewhere, deskVars
  <2>2. CASE id \in told
    BY <2>1, <2>2 DEF ReportsAreKept
  <2>3. CASE id \notin told
    <3>1. PICK t \in Turns : Answer(t)
      BY <2>3 DEF OrderNext, Start, CreateRefund, CreateReturn, DecideCancel,
           FlushCancel, FallSilent, Die, Save, Release, Ship, Arrive, Elsewhere,
           deskVars
    <3>2. id \in Report(t)
      BY <2>3, <3>1 DEF Answer
    <3>3. /\ turn[t].refunds \subseteq refunds' /\ turn[t].returns \subseteq returns'
          /\ turn[t].cancels => order' = "cancelled"
      BY <3>1 DEF Answer, Save
    <3>4. CASE id \in {r.id : r \in turn[t].refunds \union turn[t].returns}
      BY <3>3, <3>4
    <3>5. CASE turn[t].cancels /\ id = <<t, 0>>
      BY <3>3, <3>5
    <3> QED
      BY <3>2, <3>4, <3>5 DEF Report
  <2> QED
    BY <2>2, <2>3
<1> QED
  BY <1>1, <1>2, PTL DEF OrderSpec
=============================================================================
