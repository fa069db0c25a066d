--------------------------- MODULE WorldLoaderProofs ---------------------------
(***************************************************************************)
(* What TLAPS proves of WorldLoader, and of the world it loads, for any    *)
(* number of scripts and turns, any profile, and any number of copies of   *)
(* the labelled orders.                                                    *)
(***************************************************************************)
EXTENDS WorldLoader, FiniteSetTheorems, SequenceTheorems, TLAPS

USE LoadersAssumption

-----------------------------------------------------------------------------
(* Type correctness *)

\* Scripts that have committed or given up: a load is counted once for each.
Over == {l \in Loaders : loader[l].pc \in {"export", "exported", "left"}}

LoaderTypes ==
  /\ LoaderTypeOK
  /\ locker \in Loaders \union Turns \union {Nobody}
  /\ loads <= Cardinality(Over)

\* A script's record with another pc.
LEMMA GoesType ==
  ASSUME LoaderTypes, NEW l \in Loaders,
         NEW pc \in {"threads", "messages", "tickets", "insert", "commit",
                     "export", "exported", "left"},
         Goes(l, pc)
  PROVE  /\ loader' \in [Loaders -> Script]
         /\ loader'[l].pc = pc /\ loader'[l].replaces = loader[l].replaces
         /\ loader'[l].threads = loader[l].threads
         /\ loader'[l].messages = loader[l].messages
         /\ \A k \in Loaders \ {l} : loader'[k] = loader[k]
<1> DEFINE s == [loader[l] EXCEPT !.pc = pc]
<1>1. loader \in [Loaders -> Script] /\ loader[l] \in Script
  BY DEF LoaderTypes, LoaderTypeOK
<1>2. /\ s \in Script /\ s.pc = pc /\ s.replaces = loader[l].replaces
      /\ s.threads = loader[l].threads /\ s.messages = loader[l].messages
  BY <1>1 DEF Script
<1>3. loader' = [loader EXCEPT ![l] = s]
  BY DEF Goes
<1> HIDE DEF s
<1> QED
  BY <1>1, <1>2, <1>3

\* A script that starts to replace the world, and what its first DELETEs take.
LEMMA DeletesType ==
  ASSUME LoaderTypes, NEW l \in Loaders
  PROVE  /\ loader' = [loader EXCEPT ![l].pc = "threads", ![l].replaces = TRUE] =>
              /\ loader' \in [Loaders -> Script]
              /\ loader'[l].pc = "threads" /\ loader'[l].replaces
              /\ \A k \in Loaders \ {l} : loader'[k] = loader[k]
         /\ loader' = [loader EXCEPT ![l].pc = "messages", ![l].threads = thread] =>
              /\ loader' \in [Loaders -> Script]
              /\ loader'[l].pc = "messages" /\ loader'[l].replaces = loader[l].replaces
              /\ loader'[l].threads = thread
              /\ \A k \in Loaders \ {l} : loader'[k] = loader[k]
         /\ loader' = [loader EXCEPT ![l].pc = "tickets", ![l].old = rows,
                                     ![l].messages = messages] =>
              /\ loader' \in [Loaders -> Script]
              /\ loader'[l].pc = "tickets" /\ loader'[l].replaces = loader[l].replaces
              /\ loader'[l].threads = loader[l].threads
              /\ \A k \in Loaders \ {l} : loader'[k] = loader[k]
<1>1. /\ loader \in [Loaders -> Script] /\ loader[l] \in Script
      /\ rows \in 0 .. Cardinality(Loaders) /\ thread \subseteq Turns /\ messages \subseteq Turns
  BY DEF LoaderTypes, LoaderTypeOK
<1> DEFINE s == [loader[l] EXCEPT !.pc = "threads", !.replaces = TRUE]
           t == [loader[l] EXCEPT !.pc = "messages", !.threads = thread]
           m == [loader[l] EXCEPT !.pc = "tickets", !.old = rows, !.messages = messages]
<1>2. s \in Script /\ s.pc = "threads" /\ s.replaces
  BY <1>1 DEF Script
<1>3. /\ t \in Script /\ t.pc = "messages" /\ t.replaces = loader[l].replaces
      /\ t.threads = thread
  BY <1>1 DEF Script
<1>4. /\ m \in Script /\ m.pc = "tickets" /\ m.replaces = loader[l].replaces
      /\ m.threads = loader[l].threads
  BY <1>1 DEF Script
<1>5. ASSUME NEW x \in Script, loader' = [loader EXCEPT ![l] = x]
      PROVE  /\ loader' \in [Loaders -> Script] /\ loader'[l] = x
             /\ \A k \in Loaders \ {l} : loader'[k] = loader[k]
  BY <1>1, <1>5
<1>6. ASSUME loader' = [loader EXCEPT ![l].pc = "threads", ![l].replaces = TRUE]
      PROVE  loader' = [loader EXCEPT ![l] = s]
  BY <1>1, <1>6
<1>7. ASSUME loader' = [loader EXCEPT ![l].pc = "messages", ![l].threads = thread]
      PROVE  loader' = [loader EXCEPT ![l] = t]
  BY <1>1, <1>7
<1>8. ASSUME loader' = [loader EXCEPT ![l].pc = "tickets", ![l].old = rows,
                                      ![l].messages = messages]
      PROVE  loader' = [loader EXCEPT ![l] = m]
  BY <1>1, <1>8
<1> HIDE DEF s, t, m
<1> QED
  BY <1>2, <1>3, <1>4, <1>5, <1>6, <1>7, <1>8

\* Over only grows, and by the script that commits.
LEMMA OverGrows ==
  ASSUME Over \subseteq Over'
  PROVE  /\ Cardinality(Over) \in Nat /\ Cardinality(Over') \in Nat
         /\ Cardinality(Over) <= Cardinality(Over')
         /\ Over # Over' => Cardinality(Over) + 1 <= Cardinality(Over')
         /\ Cardinality(Over') <= Cardinality(Loaders)
         /\ Cardinality(Loaders) \in Nat
<1>1. Over' \subseteq Loaders /\ IsFiniteSet(Loaders)
  BY DEF Over
<1>2. /\ IsFiniteSet(Over') /\ Cardinality(Over') <= Cardinality(Loaders)
  BY <1>1, FS_Subset
<1>3. /\ IsFiniteSet(Over) /\ Cardinality(Over) <= Cardinality(Over')
      /\ Cardinality(Over) = Cardinality(Over') => Over = Over'
  BY <1>2, FS_Subset
<1>4. Cardinality(Over) \in Nat /\ Cardinality(Over') \in Nat /\ Cardinality(Loaders) \in Nat
  BY <1>1, <1>2, <1>3, FS_CardinalityType
<1> QED
  BY <1>2, <1>3, <1>4

LEMMA LoaderTypeStep ==
  LoaderTypes /\ [LoaderNext]_allVars => LoaderTypes'
<1> SUFFICES ASSUME LoaderTypes, [LoaderNext]_allVars PROVE LoaderTypes'
  OBVIOUS
<1> USE DEF At
<1>1. CASE UNCHANGED loaderVars
  BY <1>1 DEF loaderVars, LoaderTypes, LoaderTypeOK, Over, Alongside
<1>2. besides \subseteq Turns /\ Alongside \subseteq Turns
  BY DEF LoaderTypes, LoaderTypeOK, Alongside
<1>3. ASSUME NEW l \in Loaders, Noted,
             \/ Count(l) \/ DeleteThreads(l) \/ DeleteMessages(l) \/ DeleteTickets(l)
             \/ PersistWorld(l) \/ CommitWorld(l) \/ Export(l) \/ Break(l)
      PROVE  LoaderTypes'
  <2>1. /\ loader' \in [Loaders -> Script]
        /\ \A k \in Loaders \ {l} : loader'[k] = loader[k]
    <3>1. CASE Count(l)
      BY <3>1, GoesType, DeletesType DEF Count, Leaves, Goes
    <3>2. CASE DeleteThreads(l) \/ DeleteMessages(l)
      BY <3>2, DeletesType DEF DeleteThreads, DeleteMessages
    <3>3. CASE DeleteTickets(l) \/ PersistWorld(l)
      BY <3>3, GoesType DEF DeleteTickets, PersistWorld, Leaves, Goes
    <3>4. CASE CommitWorld(l) \/ Export(l) \/ Break(l)
      BY <3>4, GoesType DEF CommitWorld, Export, Break, Leaves, Goes
    <3> QED
      BY <1>3, <3>1, <3>2, <3>3, <3>4
  <2>2. UNCHANGED turn /\ besides' \subseteq Turns
    BY <1>2, <1>3
    DEF Count, DeleteThreads, DeleteMessages, DeleteTickets, PersistWorld,
        CommitWorld, Export, Break, Noted
  <2>3. /\ \A k \in Loaders : loader'[k].pc = "commit" => locker' = k
        /\ \A u \in Alongside : locker' = u
        /\ locker' \in Loaders \union Turns \union {Nobody}
    <3>1. loader[l].pc = "commit" => locker = l
      BY DEF LoaderTypes, LoaderTypeOK
    <3>2. /\ locker' # locker => (locker = Nobody /\ locker' = l)
                                \/ (locker = l /\ locker' = Nobody)
          /\ loader'[l].pc = "commit" => locker' = l
      <4>1. CASE Count(l) \/ DeleteThreads(l) \/ DeleteMessages(l)
        <5>1. locker' = locker
          BY <4>1 DEF Count, DeleteThreads, DeleteMessages
        <5>2. loader'[l].pc # "commit"
          BY <4>1, GoesType, DeletesType DEF Count, DeleteThreads, DeleteMessages, Leaves, Goes
        <5> QED
          BY <5>1, <5>2
      <4>2. CASE DeleteTickets(l) \/ PersistWorld(l)
        BY <4>2, GoesType DEF DeleteTickets, PersistWorld, Leaves, Goes
      <4>3. CASE CommitWorld(l) \/ Export(l) \/ Break(l)
        BY <3>1, <4>3, GoesType DEF CommitWorld, Export, Break, Leaves, Goes
      <4> QED
        BY <1>3, <4>1, <4>2, <4>3
    <3> QED
      BY <1>2, <2>1, <3>2 DEF LoaderTypes, LoaderTypeOK
  <2>4. /\ loader[l].pc \in {"export", "exported", "left"}
             => loader'[l].pc \in {"export", "exported", "left"}
        /\ \/ UNCHANGED <<rows, loads, thread, messages>>
           \/ /\ loader[l].pc = "commit" /\ loader'[l].pc = "export"
              /\ loads' = loads + 1 /\ rows' = loads'
              /\ thread' \subseteq thread /\ messages' \subseteq messages
    BY <1>3, GoesType
    DEF Count, DeleteThreads, DeleteMessages, DeleteTickets, PersistWorld,
        CommitWorld, Export, Break, Replacing, Leaves, Goes
  <2>5. Over \subseteq Over' /\ (loads' # loads => l \in Over' \ Over)
    BY <2>1, <2>4 DEF Over
  <2>6. loads' \in 0 .. Cardinality(Loaders) /\ loads' <= Cardinality(Over')
    BY <2>4, <2>5, OverGrows DEF LoaderTypes, LoaderTypeOK
  <2> QED
    BY <2>1, <2>2, <2>3, <2>4, <2>6 DEF LoaderTypes, LoaderTypeOK, Alongside
<1>4. ASSUME NEW u \in Turns, Noted, Ask(u) \/ Run(u) \/ End(u)
      PROVE  LoaderTypes'
  <2>1. UNCHANGED <<loader, rows, loads>> /\ besides' \subseteq Turns
        /\ Over' = Over
    BY <1>2, <1>4 DEF Ask, Run, End, Noted, Over
  <2>2. /\ turn' \in [Turns -> {"new", "asked", "answered", "over"}]
        /\ thread' \subseteq Turns /\ messages' \subseteq Turns
        /\ locker' \in Turns \union {Nobody} \union {locker}
    BY <1>4 DEF Ask, Run, End, LoaderTypes, LoaderTypeOK
  <2>3. /\ \A k \in Loaders : loader[k].pc = "commit" => locker' = k
        /\ \A v \in Turns : turn'[v] \in {"asked", "answered"} => locker' = v
    BY <1>4 DEF Ask, Run, End, Alongside, LoaderTypes, LoaderTypeOK
  <2> QED
    BY <2>1, <2>2, <2>3 DEF LoaderTypes, LoaderTypeOK, Alongside
<1> QED
  BY <1>1, <1>3, <1>4 DEF LoaderNext, LoaderStep, allVars

LEMMA LoaderTypeInit == LoaderInit => LoaderTypes
<1> SUFFICES ASSUME LoaderInit PROVE LoaderTypes
  OBVIOUS
<1>1. Cardinality(Loaders) \in Nat
  BY FS_CardinalityType
<1>2. Over = {}
  BY DEF Over, LoaderInit
<1>3. Cardinality(Over) = 0
  BY <1>2, FS_EmptySet
<1>4. loader \in [Loaders -> Script]
  BY <1>1 DEF LoaderInit, Script
<1>5. Alongside = {} /\ \A l \in Loaders : ~ At(l, "commit")
  BY DEF LoaderInit, Alongside, At
<1> QED
  BY <1>1, <1>3, <1>4, <1>5 DEF LoaderInit, LoaderTypes, LoaderTypeOK

\* One transaction at a time works on the ticket, and there are never more loads
\* than scripts.
THEOREM LoaderTypeCorrect == LoaderSpec => []LoaderTypeOK
<1>1. LoaderTypes => LoaderTypeOK
  BY DEF LoaderTypes
<1> QED
  BY <1>1, LoaderTypeInit, LoaderTypeStep, PTL DEF LoaderSpec

-----------------------------------------------------------------------------
(* Worlds in use *)

\* A script that has the ticket's keys to itself has either found no world, or
\* deleted the one there was: what its DELETEs took is then all there is, but
\* for checkpoints of turns that ran meanwhile.
ScriptInv(l) ==
  /\ loader[l].pc = "new" => ~ loader[l].replaces
  /\ loader[l].pc \in {"threads", "messages", "tickets"} => loader[l].replaces
  /\ locker = l => At(l, "commit") \/ (At(l, "insert") /\ loader[l].replaces)
  /\ At(l, "commit") \/ (At(l, "insert") /\ loader[l].replaces) => locker = l
  /\ At(l, "commit") /\ ~ loader[l].replaces => rows = 0
  /\ locker = l /\ loader[l].replaces => messages \subseteq loader[l].messages
  /\ loader[l].pc \in {"messages", "tickets", "insert", "commit"} /\ loader[l].replaces
       => thread \subseteq loader[l].threads \union besides

\* Nobody talks about a ticket that does not exist.
NoWorldNoTurns == rows = 0 => messages = {} /\ thread = {} /\ Alongside = {}

ScriptsInv == NoWorldNoTurns /\ \A l \in Loaders : ScriptInv(l)

LEMMA ScriptsStep ==
  LoaderTypes /\ ScriptsInv /\ [LoaderNext]_allVars => ScriptsInv'
<1> SUFFICES ASSUME LoaderTypes, ScriptsInv, [LoaderNext]_allVars PROVE ScriptsInv'
  OBVIOUS
<1> USE DEF At
<1>1. CASE UNCHANGED loaderVars
  BY <1>1 DEF loaderVars, ScriptsInv, ScriptInv, NoWorldNoTurns, Alongside
<1>2. ASSUME NEW l \in Loaders, Noted,
             \/ Count(l) \/ DeleteThreads(l) \/ DeleteMessages(l) \/ DeleteTickets(l)
             \/ PersistWorld(l) \/ CommitWorld(l) \/ Export(l) \/ Break(l)
      PROVE  ScriptsInv'
  <2>1. \A k \in Loaders \ {l} : loader'[k] = loader[k]
    BY <1>2, GoesType, DeletesType
    DEF Count, DeleteThreads, DeleteMessages, DeleteTickets, PersistWorld,
        CommitWorld, Export, Break, Leaves, Goes
  <2>2. /\ UNCHANGED turn /\ besides \subseteq besides'
        /\ thread' \subseteq thread /\ messages' \subseteq messages
        /\ rows' # rows => loader[l].pc = "commit" /\ rows' # 0
        /\ locker' # locker => (locker = Nobody /\ locker' = l)
                                \/ (locker = l /\ locker' = Nobody)
    BY <1>2
    DEF Count, DeleteThreads, DeleteMessages, DeleteTickets, PersistWorld,
        CommitWorld, Export, Break, Noted, LoaderTypes, LoaderTypeOK
  <2>3. ScriptInv(l)
    BY DEF ScriptsInv
  <2>4. ScriptInv(l)'
    <3>1. CASE Count(l)
      BY <1>2, <2>3, <3>1, GoesType, DeletesType DEF Count, Leaves, Goes, ScriptInv
    <3>2. CASE DeleteThreads(l)
      BY <2>3, <3>2, DeletesType DEF DeleteThreads, ScriptInv
    <3>3. CASE DeleteMessages(l)
      BY <2>2, <2>3, <3>3, DeletesType DEF DeleteMessages, ScriptInv
    <3>4. CASE DeleteTickets(l)
      BY <2>2, <2>3, <3>4, GoesType DEF DeleteTickets, Leaves, Goes, ScriptInv
    <3>5. CASE PersistWorld(l)
      BY <2>2, <2>3, <3>5, GoesType DEF PersistWorld, Leaves, Goes, ScriptInv
    <3>6. CASE CommitWorld(l) \/ Export(l) \/ Break(l)
      BY <2>3, <3>6, GoesType
      DEF CommitWorld, Export, Break, Leaves, Goes, ScriptInv, Replacing
    <3> QED
      BY <1>2, <3>1, <3>2, <3>3, <3>4, <3>5, <3>6
  <2>5. ASSUME NEW k \in Loaders \ {l} PROVE ScriptInv(k)'
    <3>1. ScriptInv(k) /\ loader'[k] = loader[k] /\ k # Nobody
      BY <2>1 DEF ScriptsInv
    <3>2. loader[k].pc = "commit" => rows' = rows
      BY <2>2, <3>1 DEF LoaderTypes, LoaderTypeOK
    <3> QED
      BY <2>2, <2>5, <3>1, <3>2 DEF ScriptInv
  <2>6. NoWorldNoTurns'
    BY <2>2 DEF ScriptsInv, NoWorldNoTurns, Alongside
  <2> QED
    BY <2>4, <2>5, <2>6 DEF ScriptsInv
<1>3. ASSUME NEW u \in Turns, Noted, Ask(u) \/ Run(u) \/ End(u)
      PROVE  ScriptsInv'
  <2>1. UNCHANGED <<loader, rows>> /\ besides \subseteq besides'
    BY <1>3 DEF Ask, Run, End, Noted
  <2>2. \A l \in Loaders : locker' = l <=> locker = l
    BY <1>3 DEF Ask, Run, End, LoaderTypes, LoaderTypeOK, Alongside
  <2>3. \A l \in Loaders : locker = l => messages' = messages
    BY <1>3 DEF Ask, Run, End, LoaderTypes, LoaderTypeOK, Alongside
  <2>4. \A l \in Loaders : Replacing(l) => thread' \subseteq thread \union besides'
    BY <1>3 DEF Ask, Run, End, Noted, Alongside
  <2>5. rows # 0
    BY <1>3 DEF Ask, Run, End, ScriptsInv, NoWorldNoTurns, Alongside
  <2>6. ASSUME NEW l \in Loaders PROVE ScriptInv(l)'
    <3>1. ScriptInv(l)
      BY DEF ScriptsInv
    <3> QED
      BY <2>1, <2>2, <2>3, <2>4, <3>1 DEF ScriptInv, Replacing
  <2> QED
    BY <2>1, <2>5, <2>6 DEF ScriptsInv, NoWorldNoTurns
<1> QED
  BY <1>1, <1>2, <1>3 DEF LoaderNext, LoaderStep, allVars

LEMMA ScriptsInit == LoaderInit => ScriptsInv
BY DEF LoaderInit, ScriptsInv, ScriptInv, NoWorldNoTurns, Alongside, At

\* Only a commit changes what is loaded, and then this is what it finds.
LEMMA LoadsFind ==
  ASSUME LoaderTypes, ScriptsInv, [LoaderNext]_allVars, rows' # rows
  PROVE  \E l \in Loaders :
           /\ At(l, "commit") /\ loader'[l].pc = "export"
           /\ rows # 0 => loader[l].replaces
           /\ messages' = {} /\ thread' \subseteq besides
<1>1. PICK l \in Loaders : CommitWorld(l)
  BY DEF LoaderNext, LoaderStep, allVars, loaderVars, Count, DeleteThreads,
         DeleteMessages, DeleteTickets, PersistWorld, Export, Break, Ask, Run, End
<1>2. ScriptInv(l) /\ NoWorldNoTurns
  BY DEF ScriptsInv
<1>3. loader'[l].pc = "export"
  BY <1>1, GoesType DEF CommitWorld
<1>4. CASE loader[l].replaces
  BY <1>1, <1>2, <1>3, <1>4 DEF CommitWorld, ScriptInv, At
<1>5. CASE ~ loader[l].replaces
  BY <1>1, <1>2, <1>3, <1>5 DEF CommitWorld, ScriptInv, NoWorldNoTurns, At
<1> QED
  BY <1>4, <1>5

\* However many scripts start together, a world in use is only replaced by a
\* script that was asked to.
THEOREM WorldsStayInUse == LoaderSpec => WorldsStay
<1>1. LoaderTypes /\ ScriptsInv /\ [LoaderNext]_allVars =>
        [rows # 0 /\ rows' # rows =>
           \E l \in Loaders : loader[l].replaces /\ At(l, "commit")
                              /\ loader'[l].pc = "export"]_allVars
  BY LoadsFind
<1> QED
  BY <1>1, LoaderTypeInit, LoaderTypeStep, ScriptsInit, ScriptsStep, PTL
  DEF LoaderSpec, WorldsStay

\* A replaced ticket starts without messages, and without the thread of its
\* predecessor unless a turn ran beside the script.
THEOREM ReplacementsStartFresh == LoaderSpec => ReplacedWorldsStartFresh
<1>1. LoaderTypes /\ ScriptsInv /\ [LoaderNext]_allVars =>
        [rows' # rows => messages' = {} /\ thread' \subseteq besides]_allVars
  BY LoadsFind
<1> QED
  BY <1>1, LoaderTypeInit, LoaderTypeStep, ScriptsInit, ScriptsStep, PTL
  DEF LoaderSpec, ReplacedWorldsStartFresh

-----------------------------------------------------------------------------
(* Coherent worlds *)

\* What the integrity check demands of an order, and that nothing happened in the
\* future.
Coherent(o) ==
  /\ o.age \in Nat /\ o.paid \in Nat
  /\ o.shipped = NotDelivered \/ (o.shipped \in Nat /\ o.shipped <= o.age)
  /\ o.delivered = NotDelivered \/ (o.delivered \in Nat /\ o.delivered <= o.shipped)
  /\ o.shipment \in {"none", "processing"} \/ o.shipped \in Nat
  /\ o.refund # "none" => o.status \in {"shipped", "delivered", "returned"} /\ o.paid >= 1

\* What a recipe has to say for that.
Sound(r) ==
  /\ r.age \in Nat /\ r.delivered \in Nat
  /\ ShipmentOf(r) \notin {"none", "processing"} => r.age >= 1
  /\ ShipmentOf(r) = "delivered" => r.age >= 2 /\ r.delivered >= 1
  /\ r.refund # "none" => r.status \in {"shipped", "delivered", "returned"} /\ ~ r.unpaid
  /\ r.kind = "double_payment" => r.extraPaid /\ ~ r.unpaid /\ r.status = "delivered"

LEMMA BundleCoherent ==
  ASSUME NEW r, NEW customer, Sound(r)
  PROVE  /\ Coherent(AddOrderBundle(customer, r))
         /\ r.kind = "double_payment" => AddOrderBundle(customer, r).paid >= 2
<1> DEFINE o == AddOrderBundle(customer, r)
<1>1. /\ o.age = r.age /\ o.status = r.status /\ o.refund = r.refund
      /\ o.shipment = ShipmentOf(r)
      /\ o.paid = (IF r.status = "pending" \/ r.unpaid THEN 0 ELSE 1)
                    + (IF r.extraPaid THEN 1 ELSE 0)
      /\ o.shipped = IF ShipmentOf(r) \in {"none", "processing"} THEN NotDelivered
                                                               ELSE r.age - 1
      /\ o.delivered = IF ShipmentOf(r) = "delivered" THEN DeliveredAgo(r) ELSE NotDelivered
  BY DEF AddOrderBundle
<1>2. ShipmentOf(r) = "delivered" => DeliveredAgo(r) \in 0 .. r.age - 1
  BY DEF Sound, DeliveredAgo
<1> HIDE DEF o
<1>3. /\ Coherent(o)
      /\ r.kind = "double_payment" => o.paid >= 2
  BY <1>1, <1>2 DEF Sound, Coherent, NotDelivered
<1> QED
  BY <1>3 DEF o

\* What the labelled recipes share, and each of them.
LEMMA LabelledSound ==
  /\ Sound(DoublePayment) /\ DoublePayment.before = <<>>
  /\ Sound(DelayedShipment) /\ DelayedShipment.before = <<>>
  /\ Sound(DeliveredMissing) /\ DeliveredMissing.before = <<>>
  /\ Sound(RefundOutsideWindow) /\ RefundOutsideWindow.before = <<>>
  /\ Sound(DefectiveWarranty) /\ DefectiveWarranty.before = <<>>
  /\ Sound(HighValueRefund) /\ HighValueRefund.before = <<>>
  /\ Sound(CancelAfterShip) /\ CancelAfterShip.before = <<>>
  /\ Sound(FinalSale) /\ FinalSale.before = <<>>
  /\ Sound(GoldTier) /\ GoldTier.before = <<>>
  /\ Sound(FailedPayment) /\ FailedPayment.before = <<>>
  /\ Sound(HappyPath) /\ HappyPath.before = <<>>
<1> USE WorldAssumption
<1>1. Sound(DoublePayment) /\ DoublePayment.before = <<>>
  BY DEF DoublePayment, Asked, Sound, ShipmentOf
<1>2. Sound(DelayedShipment) /\ DelayedShipment.before = <<>>
  BY DEF DelayedShipment, Asked, Sound, ShipmentOf
<1>3. Sound(DeliveredMissing) /\ DeliveredMissing.before = <<>>
  BY DEF DeliveredMissing, Asked, Sound, ShipmentOf
<1>4. Sound(RefundOutsideWindow) /\ RefundOutsideWindow.before = <<>>
  BY DEF RefundOutsideWindow, Asked, Sound, ShipmentOf
<1>5. Sound(DefectiveWarranty) /\ DefectiveWarranty.before = <<>>
  BY DEF DefectiveWarranty, Asked, Sound, ShipmentOf
<1>6. Sound(HighValueRefund) /\ HighValueRefund.before = <<>>
  BY DEF HighValueRefund, Asked, Sound, ShipmentOf
<1>7. Sound(CancelAfterShip) /\ CancelAfterShip.before = <<>>
  BY DEF CancelAfterShip, Asked, Sound, ShipmentOf
<1>8. Sound(FinalSale) /\ FinalSale.before = <<>>
  BY DEF FinalSale, Asked, Sound, ShipmentOf
<1>9. Sound(GoldTier) /\ GoldTier.before = <<>>
  BY DEF GoldTier, Asked, Sound, ShipmentOf
<1>10. Sound(FailedPayment) /\ FailedPayment.before = <<>>
  BY DEF FailedPayment, Asked, Sound, ShipmentOf
<1>11. Sound(HappyPath) /\ HappyPath.before = <<>>
  BY DEF HappyPath, Asked, Sound, ShipmentOf
<1> QED
  BY <1>1, <1>2, <1>3, <1>4, <1>5, <1>6, <1>7, <1>8, <1>9, <1>10, <1>11

LEMMA FraudRiskSound ==
  /\ Sound(FraudRisk) /\ Len(FraudRisk.before) = 2
  /\ Sound(FraudRisk.before[1]) /\ Sound(FraudRisk.before[2])
<1> DEFINE cheap == ProductByCategory("accessories", BOOLEAN)
           first == [Asked EXCEPT !.product = cheap, !.age = 40, !.delivered = 6]
           second == [Asked EXCEPT !.product = cheap, !.status = "pending",
                                   !.age = 3, !.failed = 2]
<1>1. Sound(first) /\ Sound(second)
  BY DEF Asked, Sound, ShipmentOf
<1>2. /\ FraudRisk.before = <<first, second>>
      /\ FraudRisk.kind = "fraud_risk" /\ FraudRisk.status = "paid"
      /\ FraudRisk.age = 1 /\ FraudRisk.delivered = 0
      /\ FraudRisk.refund = "none" /\ FraudRisk.shipment = "unset"
  BY DEF FraudRisk, Asked
<1> HIDE DEF first, second
<1>3. Sound(FraudRisk)
  BY <1>2 DEF Sound, ShipmentOf
<1> QED
  BY <1>1, <1>2, <1>3

\* Every recipe a builder follows.
LEMMA RecipesSound ==
  /\ Len(Anomalies) = 10 /\ Len(Showcase) = 10
  /\ \A i \in 1 .. 10 : \A r \in {Anomalies[i], Showcase[i]} :
       /\ Sound(r) /\ Len(r.before) \in Nat
       /\ \A j \in 1 .. Len(r.before) : Sound(r.before[j])
<1>1. Len(Anomalies) = 10 /\ Len(Showcase) = 10
  BY DEF Anomalies, Showcase
<1>2. \A i \in 1 .. 10 : \A r \in {Anomalies[i], Showcase[i]} :
        r = FraudRisk \/ (Sound(r) /\ r.before = <<>>)
  BY LabelledSound DEF Anomalies, Showcase
<1>3. ASSUME NEW r, r = FraudRisk \/ (Sound(r) /\ r.before = <<>>)
      PROVE  /\ Sound(r) /\ Len(r.before) \in Nat
             /\ \A j \in 1 .. Len(r.before) : Sound(r.before[j])
  BY <1>3, FraudRiskSound
<1> QED
  BY <1>1, <1>2, <1>3

LEMMA RandomSound ==
  ASSUME NEW status \in STATUSES, NEW r \in Timed(status)
  PROVE  Sound(r)
<1> DEFINE Shown(o, a, d) ==
      /\ o.age = a /\ o.delivered = d /\ o.status = status
      /\ o.shipment = "unset" /\ o.refund = "none" /\ o.kind = "unlabelled"
<1>1. ASSUME NEW o, NEW a \in Nat, NEW d \in Nat, Shown(o, a, d),
             a >= 1 \/ status \in {"pending", "paid"},
             (a >= 2 /\ d >= 1) \/ status \notin {"delivered", "returned"}
      PROVE  Sound(o)
  BY <1>1 DEF Sound, ShipmentOf, STATUSES
<1>2. ASSUME NEW a, NEW e, NEW d
      PROVE  /\ Shown(RandomOrder(status, a, e, d), a, d)
             /\ \A u : Shown([RandomOrder(status, a, e, d) EXCEPT !.unpaid = u], a, d)
  BY DEF RandomOrder, Asked
<1> HIDE DEF Shown
<1>3. CASE status \in {"pending", "paid"}
  <2>1. r \in {RandomOrder(status, a, e, 0) : a \in Between(0, 2), e \in Between(5, 12)}
    BY <1>3 DEF Timed
  <2>2. PICK a \in Between(0, 2), e \in Between(5, 12) : r = RandomOrder(status, a, e, 0)
    BY <2>1
  <2>3. Shown(r, a, 0) /\ a \in {0, 2}
    BY <1>2, <2>2 DEF Between
  <2> QED
    BY <1>1, <1>3, <2>3
<1>4. CASE status = "processing"
  <2>1. r \in {RandomOrder(status, a, e, 0) : a \in Between(1, 4), e \in Between(5, 12)}
    BY <1>4 DEF Timed
  <2>2. PICK a \in Between(1, 4), e \in Between(5, 12) : r = RandomOrder(status, a, e, 0)
    BY <2>1
  <2>3. Shown(r, a, 0) /\ a \in {1, 4}
    BY <1>2, <2>2 DEF Between
  <2> QED
    BY <1>1, <1>4, <2>3
<1>5. CASE status = "shipped"
  <2>1. r \in {RandomOrder(status, a, a + e, 0) : a \in Between(1, 5), e \in Between(2, 6)}
    BY <1>5 DEF Timed
  <2>2. PICK a \in Between(1, 5), e \in Between(2, 6) : r = RandomOrder(status, a, a + e, 0)
    BY <2>1
  <2>3. Shown(r, a, 0) /\ a \in {1, 5}
    BY <1>2, <2>2 DEF Between
  <2> QED
    BY <1>1, <1>5, <2>3
<1>6. CASE status = "delivered"
  <2>1. r \in UNION {{RandomOrder(status, a, d, d) :
                       d \in Between(4, IF a < 10 THEN a ELSE 10)} : a \in Between(8, 15)}
    BY <1>6 DEF Timed
  <2>2. PICK a \in Between(8, 15) :
          r \in {RandomOrder(status, a, d, d) :
                   d \in Between(4, IF a < 10 THEN a ELSE 10)}
    BY <2>1
  <2>3. PICK d \in Between(4, IF a < 10 THEN a ELSE 10) : r = RandomOrder(status, a, d, d)
    BY <2>2
  <2>4. Shown(r, a, d) /\ a \in {8, 15} /\ d \in {4, 8, 10}
    BY <1>2, <2>3 DEF Between
  <2> QED
    BY <1>1, <1>6, <2>4
<1>7. CASE status = "returned"
  <2>1. r \in {RandomOrder(status, a, d, d) : a \in Between(10, 15), d \in Between(4, 10)}
    BY <1>7 DEF Timed
  <2>2. PICK a \in Between(10, 15), d \in Between(4, 10) : r = RandomOrder(status, a, d, d)
    BY <2>1
  <2>3. Shown(r, a, d) /\ a \in {10, 15} /\ d \in {4, 10}
    BY <1>2, <2>2 DEF Between
  <2> QED
    BY <1>1, <1>7, <2>3
<1>8. CASE status = "cancelled"
  <2>1. r \in {[RandomOrder(status, a, e, 0) EXCEPT !.unpaid = u] :
              a \in Between(1, 10), e \in Between(5, 12), u \in BOOLEAN}
    BY <1>8 DEF Timed
  <2>2. PICK a \in Between(1, 10), e \in Between(5, 12), u \in BOOLEAN :
          r = [RandomOrder(status, a, e, 0) EXCEPT !.unpaid = u]
    BY <2>1
  <2>3. Shown(r, a, 0) /\ a \in {1, 10}
    BY <1>2, <2>2 DEF Between
  <2> QED
    BY <1>1, <1>8, <2>3
<1> QED
  BY <1>3, <1>4, <1>5, <1>6, <1>7, <1>8 DEF STATUSES

\* Orders and labels are sequences, of whatever.
IsSequence(s) == \E S : s \in Seq(S)

Joins(u, s, t) ==
  /\ IsSequence(u)
  /\ Len(s) \in Nat /\ Len(t) \in Nat /\ Len(u) = Len(s) + Len(t)
  /\ \A i \in 1 .. Len(s) : u[i] = s[i]
  /\ \A i \in 1 .. Len(t) : u[Len(s) + i] = t[i]

Extends(u, s, x) ==
  /\ IsSequence(u)
  /\ Len(s) \in Nat /\ Len(u) = Len(s) + 1
  /\ \A i \in 1 .. Len(s) : u[i] = s[i]
  /\ u[Len(s) + 1] = x

LEMMA SequencesGrow ==
  ASSUME NEW s, NEW t, IsSequence(s), IsSequence(t)
  PROVE  Joins(s \o t, s, t)
<1>1. PICK S, T : s \in Seq(S) /\ t \in Seq(T)
  BY DEF IsSequence
<1>2. s \in Seq(S \union T) /\ t \in Seq(S \union T)
  BY <1>1, SeqMonotonic
<1>3. s \o t \in Seq(S \union T)
  BY <1>2
<1> QED
  BY <1>2, <1>3 DEF IsSequence, Joins

LEMMA SequencesAppend ==
  ASSUME NEW s, NEW x, IsSequence(s)
  PROVE  Extends(Append(s, x), s, x)
<1>1. PICK S : s \in Seq(S)
  BY DEF IsSequence
<1>2. s \in Seq(S \union {x}) /\ x \in S \union {x}
  BY <1>1, SeqMonotonic
<1>3. Append(s, x) \in Seq(S \union {x})
  BY <1>2
<1> QED
  BY <1>2, <1>3 DEF IsSequence, Extends

\* Every label of a double payment has an order that was paid twice.
LabelsPaid ==
  \A i \in 1 .. Len(scenarios) :
    scenarios[i].kind = "double_payment" =>
      /\ scenarios[i].order \in 1 .. Len(orders)
      /\ orders[scenarios[i].order].paid >= 2

WorldInv ==
  /\ IsSequence(orders) /\ IsSequence(scenarios)
  /\ built \in Nat /\ world # "rejected"
  /\ \A i \in 1 .. Len(orders) : Coherent(orders[i])
  /\ LabelsPaid

Label(r, place) ==
  [kind |-> r.kind, order |-> place, says |-> r.says, human |-> r.human,
   reason |-> r.reason, verified |-> r.verified]

\* A recipe's orders follow those before, its own last, and so does its label.
LEMMA BuildAdds ==
  ASSUME IsSequence(orders), IsSequence(scenarios),
         NEW r, NEW customer, Build(r, customer), Len(r.before) \in Nat
  PROVE  /\ IsSequence(orders')
         /\ Len(orders) \in Nat /\ Len(orders') \in Nat /\ Len(orders) < Len(orders')
         /\ \A i \in 1 .. Len(orders) : orders'[i] = orders[i]
         /\ orders'[Len(orders')] = AddOrderBundle(customer, r)
         /\ \A i \in 1 .. Len(orders') :
              \/ i \in 1 .. Len(orders) \/ i = Len(orders')
              \/ \E j \in 1 .. Len(r.before) :
                   orders'[i] = AddOrderBundle(customer, r.before[j])
         /\ Extends(scenarios', scenarios, Label(r, Len(orders')))
         /\ built' = built + 1 /\ world' = world /\ day' = day
<1> DEFINE n == Len(r.before)
           before == [i \in 1 .. n |-> AddOrderBundle(customer, r.before[i])]
           o == AddOrderBundle(customer, r)
           some == orders \o before
<1>1. /\ orders' = some \o <<o>>
      /\ scenarios' = Append(scenarios, Label(r, Len(orders')))
      /\ built' = built + 1 /\ world' = world /\ day' = day
  BY DEF Build, Label
<1>2. /\ IsSequence(before) /\ Len(before) = n
      /\ \A j \in 1 .. n : before[j] = AddOrderBundle(customer, r.before[j])
  <2>1. before \in [1 .. n -> {before[j] : j \in 1 .. n}]
    OBVIOUS
  <2>2. \A j \in 1 .. n : before[j] = AddOrderBundle(customer, r.before[j])
    OBVIOUS
  <2> HIDE DEF before
  <2>3. before \in Seq({before[j] : j \in 1 .. n})
    BY <2>1, SeqDef
  <2>4. Len(before) = n
    BY <2>1, <2>3, LenProperties
  <2> QED
    BY <2>2, <2>3, <2>4 DEF IsSequence
<1> HIDE DEF before, o
<1>3. IsSequence(<<o>>) /\ Len(<<o>>) = 1 /\ <<o>>[1] = o
  <2>1. <<o>> \in Seq({o})
    OBVIOUS
  <2> QED
    BY <2>1 DEF IsSequence
<1>4. /\ IsSequence(some) /\ Len(some) \in Nat
      /\ Len(orders) \in Nat /\ Len(some) = Len(orders) + n
      /\ \A i \in 1 .. Len(orders) : some[i] = orders[i]
      /\ \A i \in 1 .. n : some[Len(orders) + i] = before[i]
  <2>1. Joins(some, orders, before)
    BY <1>2, SequencesGrow, Zenon
  <2>2. Len(some) \in Nat
    BY <2>1 DEF Joins
  <2> QED
    BY <1>2, <2>1, <2>2 DEF Joins
<1>5. /\ IsSequence(orders') /\ Len(orders') = Len(some) + 1
      /\ \A i \in 1 .. Len(some) : orders'[i] = some[i]
      /\ orders'[Len(some) + 1] = o
  <2> HIDE DEF some
  <2>1. Joins(some \o <<o>>, some, <<o>>)
    BY <1>3, <1>4, SequencesGrow, Zenon
  <2> QED
    BY <1>1, <1>3, <2>1 DEF Joins
<1> HIDE DEF some
<1>6. ASSUME NEW i \in 1 .. Len(orders), i \in 1 .. Len(some) PROVE orders'[i] = orders[i]
  BY <1>4, <1>5, <1>6
<1>7. ASSUME NEW i \in 1 .. Len(orders'), i \notin 1 .. Len(orders), i # Len(orders')
      PROVE  \E j \in 1 .. n : orders'[i] = AddOrderBundle(customer, r.before[j])
  <2>1. /\ i - Len(orders) \in 1 .. n /\ i = Len(orders) + (i - Len(orders))
        /\ i \in 1 .. Len(some)
    <3>1. /\ n \in Nat /\ Len(orders) \in Nat /\ Len(some) = Len(orders) + n
          /\ Len(orders') = Len(some) + 1
      BY <1>4, <1>5
    <3> HIDE DEF n
    <3> QED
      BY <1>7, <3>1
  <2>2. i \in 1 .. Len(some)
    BY <2>1
  <2>3. some[i] = before[i - Len(orders)]
    BY <1>4, <2>1
  <2>4. orders'[i] = AddOrderBundle(customer, r.before[i - Len(orders)])
    BY <1>2, <1>5, <2>1, <2>2, <2>3
  <2> QED
    BY <2>1, <2>4
<1>8. Extends(scenarios', scenarios, Label(r, Len(orders')))
  <2>1. Extends(Append(scenarios, Label(r, Len(orders'))), scenarios, Label(r, Len(orders')))
    BY SequencesAppend, Zenon
  <2> QED
    BY <1>1, <2>1
<1>9. /\ Len(orders') \in Nat /\ Len(orders) < Len(orders')
      /\ Len(some) + 1 = Len(orders') /\ 1 .. Len(orders) \subseteq 1 .. Len(some)
  BY <1>2, <1>4, <1>5
<1> QED
  BY <1>1, <1>4, <1>5, <1>6, <1>7, <1>8, <1>9 DEF o

LEMMA BuildKeeps ==
  ASSUME WorldInv, NEW r, NEW customer, Build(r, customer), Sound(r),
         Len(r.before) \in Nat, \A j \in 1 .. Len(r.before) : Sound(r.before[j])
  PROVE  WorldInv'
<1> DEFINE o == AddOrderBundle(customer, r)
           label == Label(r, Len(orders'))
<1>1. IsSequence(orders) /\ IsSequence(scenarios)
  BY DEF WorldInv
<1>2. /\ Coherent(o) /\ (r.kind = "double_payment" => o.paid >= 2)
      /\ \A j \in 1 .. Len(r.before) : Coherent(AddOrderBundle(customer, r.before[j]))
  BY BundleCoherent
<1>3. label.kind = r.kind /\ label.order = Len(orders')
  BY DEF Label
<1> HIDE DEF o, label
<1>4. /\ IsSequence(orders')
      /\ Len(orders) \in Nat /\ Len(orders') \in Nat /\ Len(orders) < Len(orders')
      /\ \A i \in 1 .. Len(orders) : orders'[i] = orders[i]
      /\ orders'[Len(orders')] = o
      /\ \A i \in 1 .. Len(orders') :
           \/ i \in 1 .. Len(orders) \/ i = Len(orders')
           \/ \E j \in 1 .. Len(r.before) :
                orders'[i] = AddOrderBundle(customer, r.before[j])
      /\ Extends(scenarios', scenarios, label)
      /\ built' = built + 1 /\ world' = world
  BY <1>1, BuildAdds DEF o, label
<1>5. \A i \in 1 .. Len(orders') : Coherent(orders'[i])
  <2> TAKE i \in 1 .. Len(orders')
  <2>1. CASE i \in 1 .. Len(orders)
    BY <1>4, <2>1 DEF WorldInv
  <2>2. CASE i = Len(orders')
    BY <1>2, <1>4, <2>2
  <2>3. CASE \E j \in 1 .. Len(r.before) :
               orders'[i] = AddOrderBundle(customer, r.before[j])
    BY <1>2, <2>3
  <2> QED
    BY <1>4, <2>1, <2>2, <2>3
<1>6. LabelsPaid'
  <2> SUFFICES ASSUME NEW i \in 1 .. Len(scenarios'), scenarios'[i].kind = "double_payment"
               PROVE  /\ scenarios'[i].order \in 1 .. Len(orders')
                      /\ orders'[scenarios'[i].order].paid >= 2
    BY DEF LabelsPaid
  <2>1. CASE i = Len(scenarios) + 1
    BY <1>2, <1>3, <1>4, <2>1 DEF Extends
  <2>2. CASE i \in 1 .. Len(scenarios)
    <3>1. /\ scenarios'[i] = scenarios[i]
          /\ scenarios[i].order \in 1 .. Len(orders)
          /\ orders[scenarios[i].order].paid >= 2
      BY <1>4, <2>2 DEF WorldInv, LabelsPaid, Extends
    <3> QED
      BY <1>4, <3>1
  <2>3. i \in 1 .. Len(scenarios) \/ i = Len(scenarios) + 1
    BY <1>4 DEF Extends
  <2> QED
    BY <2>1, <2>2, <2>3
<1>7. built' \in Nat /\ world' # "rejected"
  BY <1>4 DEF WorldInv
<1>8. IsSequence(scenarios')
  BY <1>4 DEF Extends
<1> QED
  BY <1>4, <1>5, <1>6, <1>7, <1>8 DEF WorldInv

LEMMA WorldStep ==
  WorldInv /\ [LoaderNext]_allVars => WorldInv'
<1> SUFFICES ASSUME WorldInv, [LoaderNext]_allVars PROVE WorldInv'
  OBVIOUS
<1>1. CASE UNCHANGED <<built, orders, scenarios, world>>
  BY <1>1 DEF WorldInv, LabelsPaid
<1>2. CASE OverlayAnomalies
  <2>1. (built % Len(Anomalies)) + 1 \in 1 .. 10
    <3>1. built \in Nat /\ Len(Anomalies) = 10
      BY RecipesSound DEF WorldInv
    <3>2. \A k \in Nat : k % 10 \in 0 .. 9
      OBVIOUS
    <3> QED
      BY <3>1, <3>2
  <2> QED
    BY <1>2, <2>1, RecipesSound, BuildKeeps DEF OverlayAnomalies
<1>3. CASE BuildShowcase
  <2>1. built - Copies * Len(Anomalies) + 1 \in 1 .. 10
    BY <1>3, RecipesSound, WorldAssumption DEF BuildShowcase, WorldInv
  <2> QED
    BY <1>3, <2>1, RecipesSound, BuildKeeps DEF BuildShowcase
<1>4. CASE AddRandomOrder
  <2>1. PICK customer \in NextOwners, status \in STATUSES :
          \E r \in Timed(status) : orders' = Append(orders, AddOrderBundle(customer, r))
    BY <1>4 DEF AddRandomOrder
  <2>2. PICK o : orders' = Append(orders, o) /\ Coherent(o)
    BY <2>1, RandomSound, BundleCoherent
  <2>3. /\ IsSequence(orders') /\ Len(orders') = Len(orders) + 1 /\ Len(orders) \in Nat
        /\ \A i \in 1 .. Len(orders) : orders'[i] = orders[i]
        /\ orders'[Len(orders) + 1] = o
    <3>1. IsSequence(orders)
      BY DEF WorldInv
    <3>2. Extends(Append(orders, o), orders, o)
      BY <3>1, SequencesAppend, Zenon
    <3> QED
      BY <2>2, <3>2 DEF Extends
  <2>4. \A i \in 1 .. Len(orders') : Coherent(orders'[i])
    BY <2>2, <2>3 DEF WorldInv
  <2>5. UNCHANGED <<scenarios, built, world>>
    BY <1>4 DEF AddRandomOrder
  <2>6. LabelsPaid'
    BY <2>3, <2>5 DEF LabelsPaid, WorldInv
  <2> QED
    BY <2>3, <2>4, <2>5, <2>6 DEF WorldInv
<1>5. CASE Finish
  <2>1. /\ UNCHANGED <<built, orders, scenarios>>
        /\ world' = IF Integral THEN "ready" ELSE "rejected"
        /\ 1 .. customers \subseteq Owners
    BY <1>5 DEF Finish, Enough
  <2>2. Integral
    BY <2>1 DEF Integral, WorldInv, LabelsPaid, Coherent
  <2> QED
    BY <2>1, <2>2 DEF WorldInv, LabelsPaid
<1>6. CASE AddStranger \/ Later
  BY <1>1, <1>6 DEF AddStranger, Later
<1> QED
  BY <1>1, <1>2, <1>3, <1>4, <1>5, <1>6 DEF LoaderNext, Generate, allVars, worldVars

LEMMA WorldInitially == LoaderInit => WorldInv
<1> SUFFICES ASSUME LoaderInit PROVE WorldInv
  OBVIOUS
<1>1. orders = <<>> /\ scenarios = <<>> /\ built = 0 /\ world = "growing"
  BY DEF LoaderInit, WorldInit
<1>2. IsSequence(<<>>)
  <2>1. <<>> \in Seq({})
    OBVIOUS
  <2> QED
    BY <2>1 DEF IsSequence
<1> QED
  BY <1>1, <1>2 DEF WorldInv, LabelsPaid

\* Whatever the profile and whatever is drawn, the generator's own integrity check
\* passes, and no delivery or shipment lies in the future.
THEOREM WorldsStayCoherent == LoaderSpec => []WorldsAreCoherent
<1>1. WorldInv => WorldsAreCoherent
  BY DEF WorldInv, Coherent, WorldsAreCoherent
<1> QED
  BY <1>1, WorldInitially, WorldStep, PTL DEF LoaderSpec

-----------------------------------------------------------------------------
(* The catalog the labels are about *)

LEMMA FirstIs ==
  ASSUME NEW places, NEW n \in places, places \subseteq Nat, \A j \in places : n <= j
  PROVE  FirstOf(places) = PRODUCT_SPECS[n]
<1> DEFINE first == CHOOSE i \in places : \A j \in places : i <= j
<1>1. first \in places /\ \A j \in places : first <= j
  OBVIOUS
<1> HIDE DEF first
<1>2. first = n
  BY <1>1
<1> QED
  BY <1>2 DEF FirstOf, first

LEMMA CatalogIs ==
  /\ DOMAIN PRODUCT_SPECS = 1 .. 24
  /\ \A i \in {1, 2, 3, 20} : PRODUCT_SPECS[i].category = "smartphones"
  /\ \A i \in {4, 5, 6, 21} : PRODUCT_SPECS[i].category = "laptops"
  /\ \A i \in {7, 8, 9, 22} : PRODUCT_SPECS[i].category = "monitors"
  /\ \A i \in {10, 11, 12, 23} : PRODUCT_SPECS[i].category = "headphones"
  /\ \A i \in {13, 14, 15} : PRODUCT_SPECS[i].category = "keyboards"
  /\ \A i \in {16, 17, 18, 19, 24} : PRODUCT_SPECS[i].category = "accessories"
  /\ \A i \in {4, 10, 16, 17, 21} : PRODUCT_SPECS[i].finalSale = FALSE
  /\ PRODUCT_SPECS[18].finalSale = TRUE
  /\ PRODUCT_SPECS[4].price = 5499 /\ PRODUCT_SPECS[5].price = 3499
  /\ PRODUCT_SPECS[6].price = 2199 /\ PRODUCT_SPECS[21].price = 7999
  /\ PRODUCT_SPECS[10].price = 700
  /\ PRODUCT_SPECS[4].warranty = 365
BY DEF PRODUCT_SPECS, Item

\* The places of a category's products that are, or are not, sold for good.
Places(category, sale) ==
  {i \in DOMAIN PRODUCT_SPECS : /\ PRODUCT_SPECS[i].category = category
                                /\ PRODUCT_SPECS[i].finalSale = sale}

LEMMA PlacesFound ==
  ASSUME NEW category, NEW sale, Places(category, sale) # {}
  PROVE  ProductByCategory(category, {sale}) = FirstOf(Places(category, sale))
<1>1. {i \in DOMAIN PRODUCT_SPECS : /\ PRODUCT_SPECS[i].category = category
                                    /\ PRODUCT_SPECS[i].finalSale \in {sale}}
        = Places(category, sale)
  BY Zenon DEF Places
<1> QED
  BY <1>1, Zenon DEF ProductByCategory

LEMMA HeadphonesIs ==
  LET p == ProductByCategory("headphones", {FALSE})
  IN p.price = 700
<1> DEFINE found == Places("headphones", FALSE)
<1>1. 10 \in found /\ found \subseteq Nat
  BY CatalogIs DEF Places
<1>2. \A j \in found : 10 <= j
  <2>1. \A j \in 1 .. 24 : j \in {1, 2, 3, 4, 5, 6, 7, 8, 9} \/ 10 <= j
    OBVIOUS
  <2> QED
    BY <2>1, CatalogIs DEF Places
<1> HIDE DEF found
<1>3. FirstOf(found) = PRODUCT_SPECS[10]
  BY <1>1, <1>2, FirstIs
<1>4. ProductByCategory("headphones", {FALSE}) = FirstOf(found)
  BY <1>1, PlacesFound DEF found
<1> QED
  BY <1>3, <1>4, CatalogIs

LEMMA LaptopIs ==
  LET p == ProductByCategory("laptops", {FALSE})
  IN p.category = "laptops" /\ p.price = 5499 /\ p.warranty = 365
<1> DEFINE found == Places("laptops", FALSE)
<1>1. 4 \in found /\ found \subseteq Nat
  BY CatalogIs DEF Places
<1>2. \A j \in found : 4 <= j
  <2>1. \A j \in 1 .. 24 : j \in {1, 2, 3} \/ 4 <= j
    OBVIOUS
  <2> QED
    BY <2>1, CatalogIs DEF Places
<1> HIDE DEF found
<1>3. FirstOf(found) = PRODUCT_SPECS[4]
  BY <1>1, <1>2, FirstIs
<1>4. ProductByCategory("laptops", {FALSE}) = FirstOf(found)
  BY <1>1, PlacesFound DEF found
<1> QED
  BY <1>3, <1>4, CatalogIs

LEMMA CheapFinalIs ==
  ProductByCategory("accessories", {TRUE}).finalSale = TRUE
<1> DEFINE found == Places("accessories", TRUE)
<1>1. 18 \in found /\ found \subseteq Nat
  BY CatalogIs DEF Places
<1>2. \A j \in found : 18 <= j
  <2>1. \A j \in 1 .. 24 : \/ j \in {1, 2, 3, 4, 5, 6, 7, 8, 9}
                           \/ j \in {10, 11, 12, 13, 14, 15, 16, 17}
                           \/ 18 <= j
    OBVIOUS
  <2> QED
    BY <2>1, CatalogIs DEF Places
<1> HIDE DEF found
<1>3. FirstOf(found) = PRODUCT_SPECS[18]
  BY <1>1, <1>2, FirstIs
<1>4. ProductByCategory("accessories", {TRUE}) = FirstOf(found)
  BY <1>1, PlacesFound DEF found
<1> QED
  BY <1>3, <1>4, CatalogIs

\* The first laptop above the threshold is on sale on the usual terms, because the
\* one that is not is cheaper than the first.
LEMMA DearLaptopIs ==
  ASSUME Threshold \in Nat, Threshold < PRODUCT_SPECS[21].price
  PROVE  LET p == FirstOver(Threshold, {"laptops"})
         IN p.category = "laptops" /\ p.finalSale = FALSE /\ p.price > Threshold
<1> DEFINE found == {i \in DOMAIN PRODUCT_SPECS :
                       /\ PRODUCT_SPECS[i].price > Threshold
                       /\ PRODUCT_SPECS[i].category = "laptops"}
<1>1. FirstOver(Threshold, {"laptops"}) = FirstOf(found)
  <2>1. found = {i \in DOMAIN PRODUCT_SPECS :
                   /\ PRODUCT_SPECS[i].price > Threshold
                   /\ PRODUCT_SPECS[i].category \in {"laptops"}}
    BY Zenon
  <2> QED
    BY <2>1, Zenon DEF FirstOver
<1>2. /\ found \subseteq Nat
      /\ \A j \in {1, 2, 3, 7, 8, 9, 10} : j \notin found
      /\ \A j \in {11, 12, 13, 14, 15, 16, 17, 18, 19, 20} : j \notin found
  BY CatalogIs
<1>3. \A j \in found : \/ j \in {1, 2, 3, 4, 5, 6, 7, 8, 9, 10} \/ 21 <= j
                       \/ j \in {11, 12, 13, 14, 15, 16, 17, 18, 19, 20}
  <2>1. \A j \in 1 .. 24 : \/ j \in {1, 2, 3, 4, 5, 6, 7, 8, 9, 10} \/ 21 <= j
                           \/ j \in {11, 12, 13, 14, 15, 16, 17, 18, 19, 20}
    OBVIOUS
  <2> QED
    BY <2>1, CatalogIs
<1>4. CASE Threshold < PRODUCT_SPECS[4].price
  <2>1. 4 \in found
    BY <1>4, CatalogIs
  <2> HIDE DEF found
  <2>2. \A j \in found : 4 <= j
    BY <1>2, <1>3
  <2>3. FirstOf(found) = PRODUCT_SPECS[4]
    BY <1>2, <2>1, <2>2, FirstIs
  <2> QED
    BY <1>1, <1>4, <2>3, CatalogIs
<1>5. CASE ~ (Threshold < PRODUCT_SPECS[4].price)
  <2>1. 21 \in found /\ 4 \notin found /\ 5 \notin found /\ 6 \notin found
    BY <1>5, CatalogIs
  <2> HIDE DEF found
  <2>2. \A j \in found : 21 <= j
    BY <1>2, <1>3, <2>1
  <2>3. FirstOf(found) = PRODUCT_SPECS[21]
    BY <1>2, <2>1, <2>2, FirstIs
  <2> QED
    BY <1>1, <2>3, CatalogIs
<1> QED
  BY <1>4, <1>5

-----------------------------------------------------------------------------
(* The labels *)

\* The numbers of the policy under which the labels are right: headphones are below
\* the threshold and some laptop is above it, and the laptop whose label asks for a
\* human needs one, for its price or for its inspection.
LabelledPolicy ==
  /\ Threshold \in Nat /\ 700 <= Threshold /\ Threshold < PRODUCT_SPECS[21].price
  /\ InspectionAfter \in Nat
  /\ Threshold < PRODUCT_SPECS[4].price \/ InspectionAfter < Window + 20

\* A verified claim of one payment, for no reason the policy favours.
Plain(s, o) == s.verified = TRUE /\ s.reason = "customer_preference" /\ o.paid = 1

\* What a label's order has that makes it right, whatever the day.
Bears(s, o) ==
  \/ /\ s.says = "granted" /\ s.human = FALSE /\ s.verified = TRUE
     /\ s.reason = "customer_preference" /\ o.paid = 2 /\ o.product.price <= Threshold
     /\ o.product.price \in Nat
  \/ /\ s.says = "granted" /\ s.human = TRUE /\ s.verified = TRUE
     /\ s.reason = "defective_product" /\ o.paid = 1 /\ o.delivered = Window + 20
     /\ o.product.category = "laptops" /\ o.product.warranty = 365
     /\ o.product.price = PRODUCT_SPECS[4].price
  \/ /\ s.says = "granted" /\ s.human = TRUE /\ Plain(s, o) /\ o.delivered = 6
     /\ o.product.finalSale = FALSE /\ o.product.price > Threshold
  \/ /\ s.says = "denied" /\ s.human = FALSE /\ Plain(s, o) /\ o.delivered \in Nat
     /\ o.product.finalSale = TRUE \/ o.delivered > Window
  \/ s.says = "held" /\ s.human = TRUE /\ s.verified = FALSE
  \/ s.says = "not_cancelled" /\ o.status = "shipped"
  \/ s.says = "missing" /\ s.human = TRUE /\ o.shipment = "delivered" /\ o.received = FALSE
  \/ s.says = "late" /\ o.shipment = "in_transit" /\ o.eta = -15
  \/ s.says = "unpaid" /\ o.paid = 0 /\ o.failed >= 2 /\ o.shipment = "none"
  \/ s.says = "tracked" /\ o.shipment = "in_transit"

LEMMA LabelIs ==
  ASSUME NEW r, NEW place
  PROVE  /\ Label(r, place).kind = r.kind /\ Label(r, place).order = place
         /\ Label(r, place).says = r.says /\ Label(r, place).human = r.human
         /\ Label(r, place).reason = r.reason /\ Label(r, place).verified = r.verified
BY DEF Label

LEMMA BundleIs ==
  ASSUME NEW r, NEW customer
  PROVE  LET o == AddOrderBundle(customer, r)
         IN /\ o.product = r.product /\ o.status = r.status
            /\ o.received = r.received /\ o.eta = r.eta - r.age
            /\ o.shipment = ShipmentOf(r)
            /\ o.delivered = IF ShipmentOf(r) = "delivered" THEN DeliveredAgo(r)
                                                            ELSE NotDelivered
            /\ o.paid = (IF r.status = "pending" \/ r.unpaid THEN 0 ELSE 1)
                          + (IF r.extraPaid THEN 1 ELSE 0)
            /\ o.failed = r.failed + (IF r.unpaid THEN 1 ELSE 0)
BY DEF AddOrderBundle

\* What most recipes ask for: a delivered order, paid once.
LEMMA DeliveredIs ==
  ASSUME NEW r, NEW customer, r.status = "delivered", r.shipment = "unset",
         r.extraPaid = FALSE, r.unpaid = FALSE,
         r.age \in Nat, r.delivered \in Nat, r.delivered <= r.age
  PROVE  LET o == AddOrderBundle(customer, r)
         IN /\ o.paid = 1 /\ o.delivered = r.age - r.delivered
            /\ o.product = r.product /\ o.received = r.received
            /\ o.shipment = "delivered"
<1>1. ShipmentOf(r) = "delivered"
  BY DEF ShipmentOf
<1>2. DeliveredAgo(r) = r.age - r.delivered
  BY DEF DeliveredAgo
<1> QED
  BY <1>1, <1>2, BundleIs

LEMMA RefundsBear ==
  ASSUME LabelledPolicy, NEW customer, NEW place
  PROVE  \A r \in {DoublePayment, DefectiveWarranty, HighValueRefund} :
           Bears(Label(r, place), AddOrderBundle(customer, r))
<1> USE WorldAssumption
<1>1. ASSUME NEW r, r = DoublePayment
      PROVE  Bears(Label(r, place), AddOrderBundle(customer, r))
  <2>1. /\ r.says = "granted" /\ r.human = FALSE /\ r.verified = TRUE
        /\ r.reason = "customer_preference" /\ r.extraPaid = TRUE /\ r.unpaid = FALSE
        /\ r.status = "delivered" /\ r.product = ProductByCategory("headphones", {FALSE})
    BY <1>1 DEF DoublePayment, Asked
  <2>2. /\ AddOrderBundle(customer, r).paid = 2
        /\ AddOrderBundle(customer, r).product = r.product
    BY <2>1, BundleIs
  <2>3. r.product.price = 700
    BY <2>1, HeadphonesIs
  <2> QED
    BY <2>1, <2>2, <2>3, LabelIs DEF Bears, LabelledPolicy
<1>2. ASSUME NEW r, r = DefectiveWarranty
      PROVE  Bears(Label(r, place), AddOrderBundle(customer, r))
  <2> DEFINE dear == ProductByCategory("laptops", {FALSE}).price > 1000
  <2>1. /\ r.says = "granted" /\ r.verified = TRUE
        /\ r.reason = "defective_product" /\ r.extraPaid = FALSE /\ r.unpaid = FALSE
        /\ r.status = "delivered" /\ r.shipment = "unset"
        /\ r.age = Window + 25 /\ r.delivered = 5
    BY <1>2 DEF DefectiveWarranty, Asked
  <2>2. /\ AddOrderBundle(customer, r).paid = 1
        /\ AddOrderBundle(customer, r).delivered = Window + 20
        /\ AddOrderBundle(customer, r).product = r.product
    <3>1. /\ r.age \in Nat /\ r.delivered \in Nat /\ r.delivered <= r.age
          /\ r.age - r.delivered = Window + 20
      BY <2>1
    <3>2. /\ r.status = "delivered" /\ r.shipment = "unset"
          /\ r.extraPaid = FALSE /\ r.unpaid = FALSE
      BY <2>1
    <3>3. /\ AddOrderBundle(customer, r).paid = 1
          /\ AddOrderBundle(customer, r).delivered = r.age - r.delivered
          /\ AddOrderBundle(customer, r).product = r.product
      BY <3>1, <3>2, DeliveredIs
    <3> QED
      BY <3>1, <3>3
  <2>3. /\ r.product.category = "laptops" /\ r.product.price = 5499
        /\ r.product.warranty = 365
    <3>1. r.product = ProductByCategory("laptops", {FALSE})
      BY <1>2 DEF DefectiveWarranty, Asked
    <3> QED
      BY <3>1, LaptopIs
  <2>4. r.human = TRUE
    <3>1. r.human = dear
      BY <1>2 DEF DefectiveWarranty, Asked
    <3>2. dear = TRUE
      BY LaptopIs
    <3> HIDE DEF dear
    <3> QED
      BY <3>1, <3>2
  <2>5. PRODUCT_SPECS[4].price = 5499
    BY CatalogIs
  <2> QED
    BY <2>1, <2>2, <2>3, <2>4, <2>5, LabelIs DEF Bears
<1>3. ASSUME NEW r, r = HighValueRefund
      PROVE  Bears(Label(r, place), AddOrderBundle(customer, r))
  <2>1. /\ r.says = "granted" /\ r.human = TRUE /\ r.verified = TRUE
        /\ r.reason = "customer_preference" /\ r.extraPaid = FALSE /\ r.unpaid = FALSE
        /\ r.status = "delivered" /\ r.shipment = "unset"
        /\ r.product = FirstOver(Threshold, {"laptops"})
        /\ r.age = 10 /\ r.delivered = 4
    BY <1>3 DEF HighValueRefund, Asked
  <2>2. /\ AddOrderBundle(customer, r).paid = 1
        /\ AddOrderBundle(customer, r).delivered = 6
        /\ AddOrderBundle(customer, r).product = r.product
    <3>1. /\ r.age \in Nat /\ r.delivered \in Nat /\ r.delivered <= r.age
          /\ r.age - r.delivered = 6
      BY <2>1
    <3>2. /\ r.status = "delivered" /\ r.shipment = "unset"
          /\ r.extraPaid = FALSE /\ r.unpaid = FALSE
      BY <2>1
    <3>3. /\ AddOrderBundle(customer, r).paid = 1
          /\ AddOrderBundle(customer, r).delivered = r.age - r.delivered
          /\ AddOrderBundle(customer, r).product = r.product
      BY <3>1, <3>2, DeliveredIs
    <3> QED
      BY <3>1, <3>3
  <2>3. r.product.finalSale = FALSE /\ r.product.price > Threshold
    BY <2>1, DearLaptopIs DEF LabelledPolicy
  <2> QED
    BY <2>1, <2>2, <2>3, LabelIs DEF Bears, Plain
<1> QED
  BY <1>1, <1>2, <1>3

\* A plain claim that is refused on the day its order is made, and ever after.
Refused(r) ==
  /\ r.says = "denied" /\ r.human = FALSE /\ r.verified = TRUE
  /\ r.reason = "customer_preference" /\ r.extraPaid = FALSE /\ r.unpaid = FALSE
  /\ r.status = "delivered" /\ r.shipment = "unset"
  /\ r.age \in Nat /\ r.delivered \in Nat /\ r.delivered <= r.age
  /\ r.age - r.delivered > Window \/ r.product.finalSale = TRUE

LEMMA RefusalsBear ==
  ASSUME NEW customer, NEW place
  PROVE  \A r \in {RefundOutsideWindow, FinalSale, GoldTier} :
           Bears(Label(r, place), AddOrderBundle(customer, r))
<1> USE WorldAssumption
<1>1. Refused(RefundOutsideWindow)
  BY DEF RefundOutsideWindow, Asked, Refused
<1>2. Refused(GoldTier)
  BY DEF GoldTier, Asked, Refused
<1>3. Refused(FinalSale)
  <2>1. FinalSale.product = ProductByCategory("accessories", {TRUE})
    BY DEF FinalSale, Asked
  <2>2. FinalSale.product.finalSale = TRUE
    BY <2>1, CheapFinalIs
  <2> QED
    BY <2>2 DEF FinalSale, Asked, Refused
<1>4. ASSUME NEW r, Refused(r)
      PROVE  Bears(Label(r, place), AddOrderBundle(customer, r))
  <2>1. /\ AddOrderBundle(customer, r).paid = 1
        /\ AddOrderBundle(customer, r).delivered = r.age - r.delivered
        /\ AddOrderBundle(customer, r).product = r.product
    BY <1>4, DeliveredIs DEF Refused
  <2>2. r.age - r.delivered \in Nat
    BY <1>4 DEF Refused
  <2> QED
    BY <1>4, <2>1, <2>2, LabelIs DEF Bears, Plain, Refused
<1> QED
  BY <1>1, <1>2, <1>3, <1>4

LEMMA OthersBear ==
  ASSUME NEW customer, NEW place
  PROVE  \A r \in {DelayedShipment, DeliveredMissing, CancelAfterShip, FraudRisk,
                   FailedPayment, HappyPath} :
           Bears(Label(r, place), AddOrderBundle(customer, r))
<1>1. Bears(Label(DelayedShipment, place), AddOrderBundle(customer, DelayedShipment))
  <2> DEFINE r == DelayedShipment
  <2>1. /\ r.says = "late" /\ r.status = "shipped" /\ r.shipment = "in_transit"
        /\ r.eta = 5 /\ r.age = 20
    BY DEF DelayedShipment, Asked
  <2> HIDE DEF r
  <2>2. ShipmentOf(r) = "in_transit"
    BY <2>1 DEF ShipmentOf
  <2> QED
    BY <2>1, <2>2, LabelIs, BundleIs DEF Bears, r
<1>2. Bears(Label(DeliveredMissing, place), AddOrderBundle(customer, DeliveredMissing))
  <2> DEFINE r == DeliveredMissing
  <2>1. /\ r.says = "missing" /\ r.human = TRUE /\ r.status = "delivered"
        /\ r.shipment = "unset" /\ r.received = FALSE
    BY DEF DeliveredMissing, Asked
  <2> HIDE DEF r
  <2>2. ShipmentOf(r) = "delivered"
    BY <2>1 DEF ShipmentOf
  <2> QED
    BY <2>1, <2>2, LabelIs, BundleIs DEF Bears, r
<1>3. Bears(Label(CancelAfterShip, place), AddOrderBundle(customer, CancelAfterShip))
  <2>1. CancelAfterShip.says = "not_cancelled" /\ CancelAfterShip.status = "shipped"
    BY DEF CancelAfterShip, Asked
  <2> QED
    BY <2>1, LabelIs, BundleIs DEF Bears
<1>4. Bears(Label(FraudRisk, place), AddOrderBundle(customer, FraudRisk))
  <2>1. FraudRisk.says = "held" /\ FraudRisk.human = TRUE /\ FraudRisk.verified = FALSE
    BY DEF FraudRisk, Asked
  <2> QED
    BY <2>1, LabelIs DEF Bears
<1>5. Bears(Label(FailedPayment, place), AddOrderBundle(customer, FailedPayment))
  <2> DEFINE r == FailedPayment
  <2>1. /\ r.says = "unpaid" /\ r.status = "pending" /\ r.shipment = "unset"
        /\ r.failed = 2 /\ r.unpaid = FALSE /\ r.extraPaid = FALSE
    BY DEF FailedPayment, Asked
  <2> HIDE DEF r
  <2>2. ShipmentOf(r) = "none"
    BY <2>1 DEF ShipmentOf
  <2> QED
    BY <2>1, <2>2, LabelIs, BundleIs DEF Bears, r
<1>6. Bears(Label(HappyPath, place), AddOrderBundle(customer, HappyPath))
  <2> DEFINE r == HappyPath
  <2>1. r.says = "tracked" /\ r.status = "shipped" /\ r.shipment = "in_transit"
    BY DEF HappyPath, Asked
  <2> HIDE DEF r
  <2>2. ShipmentOf(r) = "in_transit"
    BY <2>1 DEF ShipmentOf
  <2> QED
    BY <2>1, <2>2, LabelIs, BundleIs DEF Bears, r
<1> QED
  BY <1>1, <1>2, <1>3, <1>4, <1>5, <1>6

LEMMA RecipesBear ==
  ASSUME LabelledPolicy, NEW customer, NEW place, NEW i \in 1 .. 10
  PROVE  /\ Bears(Label(Anomalies[i], place), AddOrderBundle(customer, Anomalies[i]))
         /\ Bears(Label(Showcase[i], place), AddOrderBundle(customer, Showcase[i]))
<1> DEFINE Right(r) == Bears(Label(r, place), AddOrderBundle(customer, r))
<1>1. /\ Right(DoublePayment) /\ Right(DefectiveWarranty) /\ Right(HighValueRefund)
      /\ Right(RefundOutsideWindow) /\ Right(FinalSale) /\ Right(GoldTier)
      /\ Right(DelayedShipment) /\ Right(DeliveredMissing) /\ Right(CancelAfterShip)
      /\ Right(FraudRisk) /\ Right(FailedPayment) /\ Right(HappyPath)
  BY RefundsBear, RefusalsBear, OthersBear
<1> HIDE DEF Right
<1>2. Right(Anomalies[i]) /\ Right(Showcase[i])
  <2>1. i \in {1, 2, 3, 4, 5, 6, 7, 8, 9, 10}
    OBVIOUS
  <2> QED
    BY <1>1, <2>1 DEF Anomalies, Showcase
<1> QED
  BY <1>2 DEF Right

-----------------------------------------------------------------------------
(* What a label's order has decides what the rules say *)

\* The claim of a label, as the tools hand it to the engine.
LEMMA ClaimIs ==
  ASSUME NEW s
  PROVE  LET o == orders[s.order]
             c == ClaimOf(s)
         IN /\ c.amount = o.product.price /\ c.finalSale = o.product.finalSale
            /\ c.reason = s.reason /\ c.verified = s.verified
            /\ c.warranty = o.product.warranty
            /\ o.paid = 2 => c.duplicate = TRUE
            /\ o.paid = 1 => c.duplicate = FALSE
            /\ o.product.category = "laptops" => c.electronics = TRUE
            /\ o.delivered \in Nat => c.days = o.delivered + day
<1> DEFINE o == orders[s.order]
           twice == o.paid >= 2
           electronic == o.product.category \in ELECTRONICS
           days == DaysSinceDelivery(o)
           c == ClaimOf(s)
<1>1. /\ c.amount = o.product.price /\ c.finalSale = o.product.finalSale
      /\ c.reason = s.reason /\ c.verified = s.verified
      /\ c.warranty = o.product.warranty /\ c.duplicate = twice
      /\ c.electronics = electronic /\ c.days = days
  <2> HIDE DEF days
  <2> QED
    BY DEF ClaimOf, days
<1>2. /\ o.paid = 2 => twice = TRUE
      /\ o.paid = 1 => twice = FALSE
  OBVIOUS
<1>3. o.product.category = "laptops" => electronic = TRUE
  BY DEF ELECTRONICS
<1>4. o.delivered \in Nat => days = o.delivered + day
  BY DEF DaysSinceDelivery, NotDelivered
<1> HIDE DEF c, days, twice, electronic
<1> QED
  BY <1>1, <1>2, <1>3, <1>4 DEF c

LEMMA QuietOrders ==
  ASSUME NEW o, o.shipment # "delivered"
  PROVE  TriggerOf(o) = NoTrigger
<1>1. (o.shipment = "delivered" /\ ~ o.received) = FALSE
  OBVIOUS
<1> QED
  BY <1>1 DEF TriggerOf, EscalationFromFacts, ShouldEscalate, NoTrigger, ALWAYS_ESCALATE

LEMMA MissingOrders ==
  ASSUME NEW o, o.shipment = "delivered", o.received = FALSE
  PROVE  TriggerOf(o) # NoTrigger
BY DEF TriggerOf, EscalationFromFacts, NoTrigger

LEMMA GrantedIs ==
  ASSUME NEW c, NEW fee, NEW inspection \in BOOLEAN
  PROVE  /\ Granted(c, fee, inspection).eligible = TRUE
         /\ c.amount > Threshold \/ inspection => Granted(c, fee, inspection).requiresHuman = TRUE
         /\ ~ (c.amount > Threshold) /\ ~ inspection =>
              Granted(c, fee, inspection).requiresHuman = FALSE
<1> DEFINE asks == c.amount > Threshold \/ inspection
<1>1. /\ Granted(c, fee, inspection).eligible = TRUE
      /\ Granted(c, fee, inspection).requiresHuman = asks
  <2> HIDE DEF asks
  <2> QED
    BY DEF Granted, asks
<1>2. asks \in BOOLEAN
  BY Zenon
<1>3. (asks = TRUE <=> asks) /\ (asks = FALSE <=> ~ asks)
  BY <1>2, Zenon
<1> QED
  BY <1>1, <1>3, Zenon

LEMMA DeniedIs ==
  Denied(FALSE).eligible = FALSE /\ Denied(FALSE).requiresHuman = FALSE
BY DEF Denied

\* A label that grants: while the order's term lasts the rules do, and whoever they
\* grant a refund has a human beside it exactly when the label says so.
LEMMA GrantsAgree ==
  ASSUME WorldAssumption, LabelledPolicy, day \in Nat,
         NEW s, Bears(s, orders[s.order]), s.says = "granted"
  PROVE  LET decision == CanRefund(ClaimOf(s))
         IN /\ day <= Window - 6 /\ Window <= 175 => decision.eligible
            /\ decision.eligible => decision.requiresHuman = s.human
<1> DEFINE o == orders[s.order]
           c == ClaimOf(s)
           decision == CanRefund(c)
<1>1. /\ c.amount = o.product.price /\ c.finalSale = o.product.finalSale
      /\ c.reason = s.reason /\ c.verified = s.verified
      /\ c.warranty = o.product.warranty
      /\ o.paid = 2 => c.duplicate = TRUE
      /\ o.paid = 1 => c.duplicate = FALSE
      /\ o.product.category = "laptops" => c.electronics = TRUE
      /\ o.delivered \in Nat => c.days = o.delivered + day
  BY ClaimIs
<1> HIDE DEF c
<1>2. CASE o.paid = 2 /\ s.human = FALSE /\ s.verified = TRUE
           /\ s.reason = "customer_preference" /\ o.product.price <= Threshold
           /\ o.product.price \in Nat
  <2>1. decision = Granted(c, FALSE, FALSE)
    BY <1>1, <1>2 DEF CanRefund
  <2>2. ~ (c.amount > Threshold)
    BY <1>1, <1>2 DEF LabelledPolicy
  <2>3. decision.eligible = TRUE /\ decision.requiresHuman = FALSE
    BY <2>1, <2>2, GrantedIs
  <2> QED
    BY <1>2, <2>3 DEF c
<1>3. CASE s.human = TRUE /\ s.verified = TRUE
           /\ s.reason = "defective_product" /\ o.paid = 1 /\ o.delivered = Window + 20
           /\ o.product.category = "laptops" /\ o.product.warranty = 365
           /\ o.product.price = PRODUCT_SPECS[4].price
  <2>1. /\ c.days = Window + 20 + day /\ c.days \in Nat
        /\ c.warranty = 365 /\ c.duplicate = FALSE /\ c.electronics = TRUE
        /\ c.verified = TRUE /\ c.reason = "defective_product"
    BY <1>1, <1>3 DEF WorldAssumption
  <2>2. decision = IF Within(c, 365) THEN Granted(c, FALSE, Inspected(c)) ELSE Denied(FALSE)
    BY <2>1, Zenon DEF CanRefund
  <2>3. day <= Window - 6 /\ Window <= 175 => Within(c, 365)
    BY <2>1 DEF Within, WorldAssumption, NotDelivered
  <2>4. c.amount > Threshold \/ Inspected(c)
    BY <1>1, <1>3, <2>1 DEF LabelledPolicy, Inspected, WorldAssumption
  <2>5. /\ Granted(c, FALSE, Inspected(c)).eligible = TRUE
        /\ Granted(c, FALSE, Inspected(c)).requiresHuman = TRUE
    <3>1. Inspected(c) \in BOOLEAN
      BY <2>1 DEF Inspected
    <3> QED
      BY <2>4, <3>1, GrantedIs, Zenon
  <2>6. CASE Within(c, 365)
    BY <1>3, <2>2, <2>5, <2>6, Zenon DEF c, decision
  <2>7. CASE ~ Within(c, 365)
    <3>1. decision = Denied(FALSE)
      BY <2>2, <2>7, Zenon
    <3>2. decision.eligible = FALSE
      BY <3>1, DeniedIs
    <3> QED
      BY <2>3, <2>7, <3>2, Zenon DEF c
  <2> QED
    BY <2>6, <2>7
<1>4. CASE s.human = TRUE /\ Plain(s, o) /\ o.delivered = 6
           /\ o.product.finalSale = FALSE /\ o.product.price > Threshold
  <2>1. /\ c.days = 6 + day /\ c.days \in Nat /\ c.duplicate = FALSE
        /\ c.finalSale = FALSE /\ c.amount > Threshold
        /\ c.reason = "customer_preference" /\ c.verified = TRUE
    BY <1>1, <1>4 DEF Plain
  <2>2. decision = IF Within(c, Window) THEN Granted(c, TRUE, Inspected(c)) ELSE Denied(FALSE)
    BY <2>1 DEF CanRefund
  <2>3. day <= Window - 6 => Within(c, Window)
    BY <2>1 DEF Within, WorldAssumption, NotDelivered
  <2>4. /\ Granted(c, TRUE, Inspected(c)).eligible = TRUE
        /\ Granted(c, TRUE, Inspected(c)).requiresHuman = TRUE
        /\ Denied(FALSE).eligible = FALSE
    BY <2>1 DEF Granted, Denied
  <2> QED
    BY <1>4, <2>2, <2>3, <2>4 DEF c
<1> QED
  BY <1>2, <1>3, <1>4 DEF Bears

LEMMA DenialsAgree ==
  ASSUME WorldAssumption, day \in Nat,
         NEW s, Bears(s, orders[s.order]), s.says = "denied"
  PROVE  CanRefund(ClaimOf(s)) = Denied(FALSE) /\ s.human = FALSE
<1> DEFINE o == orders[s.order]
           c == ClaimOf(s)
<1>1. /\ c.finalSale = o.product.finalSale
      /\ c.reason = s.reason /\ c.verified = s.verified
      /\ o.paid = 1 => c.duplicate = FALSE
      /\ o.delivered \in Nat => c.days = o.delivered + day
  BY ClaimIs
<1> HIDE DEF c
<1>2. /\ s.human = FALSE /\ Plain(s, o) /\ o.delivered \in Nat
      /\ o.product.finalSale = TRUE \/ o.delivered > Window
  BY DEF Bears
<1>3. /\ c.days = o.delivered + day /\ c.days \in Nat /\ c.duplicate = FALSE
      /\ c.reason = "customer_preference" /\ c.verified = TRUE
      /\ c.finalSale = TRUE \/ c.days > Window
  BY <1>1, <1>2 DEF Plain, WorldAssumption
<1>4. ~ (Within(c, Window) /\ ~ (c.finalSale /\ c.reason = "customer_preference"))
  BY <1>3 DEF Within, WorldAssumption
<1>5. CanRefund(c) = Denied(FALSE)
  BY <1>3, <1>4 DEF CanRefund
<1> QED
  BY <1>2, <1>5 DEF c

\* Every other label, on any day.
LEMMA OthersAgree ==
  ASSUME WorldAssumption, day \in Nat,
         NEW s, Bears(s, orders[s.order]), s.says \notin {"granted", "denied"}
  PROVE  Agrees(s)
<1> DEFINE o == orders[s.order]
<1>1. CASE s.says = "held" /\ s.human = TRUE /\ s.verified = FALSE
  <2>1. ClaimOf(s).verified = FALSE
    BY <1>1 DEF ClaimOf
  <2>2. CanRefund(ClaimOf(s)) = Denied(TRUE)
    BY <2>1 DEF CanRefund
  <2>3. CanRefund(ClaimOf(s)).requiresHuman = TRUE
    BY <2>2 DEF Denied
  <2> QED
    BY <1>1, <2>3 DEF Agrees
<1>2. CASE s.says = "not_cancelled" /\ o.status = "shipped"
  BY <1>2 DEF Agrees, CanCancel
<1>3. CASE /\ s.says = "missing" /\ s.human = TRUE
           /\ o.shipment = "delivered" /\ o.received = FALSE
  <2>1. (TriggerOf(o) # NoTrigger) = TRUE
    BY <1>3, MissingOrders
  <2> QED
    BY <1>3, <2>1 DEF Agrees
<1>4. CASE s.says = "late" /\ o.shipment = "in_transit" /\ o.eta = -15
  <2>1. TriggerOf(o) = NoTrigger
    BY <1>4, QuietOrders
  <2> QED
    BY <1>4, <2>1 DEF Agrees
<1>5. CASE s.says = "unpaid" /\ o.paid = 0 /\ o.failed >= 2 /\ o.shipment = "none"
  <2>1. TriggerOf(o) = NoTrigger
    BY <1>5, QuietOrders
  <2> QED
    BY <1>5, <2>1 DEF Agrees
<1>6. CASE s.says = "tracked" /\ o.shipment = "in_transit"
  <2>1. TriggerOf(o) = NoTrigger
    BY <1>6, QuietOrders
  <2> QED
    BY <1>6, <2>1 DEF Agrees
<1> QED
  BY <1>1, <1>2, <1>3, <1>4, <1>5, <1>6 DEF Bears

LEMMA BearersAgree ==
  ASSUME WorldAssumption, LabelledPolicy, day \in Nat, NEW s, Bears(s, orders[s.order])
  PROVE  /\ day <= Window - 6 /\ Window <= 175 => Agrees(s)
         /\ \/ Agrees(s)
            \/ s.says = "granted" /\ ~ CanRefund(ClaimOf(s)).eligible
<1>1. CASE s.says = "granted"
  <2>1. CanRefund(ClaimOf(s)).eligible
          /\ CanRefund(ClaimOf(s)).requiresHuman = s.human => Agrees(s)
    BY <1>1 DEF Agrees
  <2> QED
    BY <1>1, <2>1, GrantsAgree
<1>2. CASE s.says = "denied"
  <2>1. CanRefund(ClaimOf(s)) = Denied(FALSE) /\ s.human = FALSE
    BY <1>2, DenialsAgree
  <2> QED
    BY <1>2, <2>1, DeniedIs DEF Agrees
<1> QED
  BY <1>1, <1>2, OthersAgree

-----------------------------------------------------------------------------
(* Labels, whatever is drawn and however much time passes *)

LabelInv ==
  /\ day \in Nat
  /\ \A i \in 1 .. Len(scenarios) :
       /\ scenarios[i].order \in 1 .. Len(orders)
       /\ Bears(scenarios[i], orders[scenarios[i].order])

\* A labelled order that is built leaves the labels before it to their orders.
LEMMA BuildBears ==
  ASSUME WorldInv, LabelInv, NEW r, NEW customer, Build(r, customer),
         Len(r.before) \in Nat,
         \A place : Bears(Label(r, place), AddOrderBundle(customer, r))
  PROVE  LabelInv'
<1> DEFINE o == AddOrderBundle(customer, r)
           label == Label(r, Len(orders'))
<1>1. IsSequence(orders) /\ IsSequence(scenarios)
  BY DEF WorldInv
<1>2. Bears(label, o) /\ label.order = Len(orders')
  BY LabelIs
<1> HIDE DEF o, label
<1>3. /\ Len(orders) \in Nat /\ Len(orders') \in Nat /\ Len(orders) < Len(orders')
      /\ \A i \in 1 .. Len(orders) : orders'[i] = orders[i]
      /\ orders'[Len(orders')] = o
      /\ Extends(scenarios', scenarios, label) /\ day' = day
  BY <1>1, BuildAdds DEF o, label
<1>4. ASSUME NEW i \in 1 .. Len(scenarios')
      PROVE  /\ scenarios'[i].order \in 1 .. Len(orders')
             /\ Bears(scenarios'[i], orders'[scenarios'[i].order])
  <2>1. CASE i = Len(scenarios) + 1
    <3>1. scenarios'[i] = label
      BY <1>3, <2>1 DEF Extends
    <3>2. Len(orders') \in 1 .. Len(orders')
      BY <1>3
    <3> QED
      BY <1>2, <1>3, <3>1, <3>2
  <2>2. CASE i \in 1 .. Len(scenarios)
    <3>1. scenarios'[i] = scenarios[i]
      BY <1>3, <2>2 DEF Extends
    <3>2. /\ scenarios[i].order \in 1 .. Len(orders)
          /\ Bears(scenarios[i], orders[scenarios[i].order])
      BY <2>2 DEF LabelInv
    <3>3. 1 .. Len(orders) \subseteq 1 .. Len(orders')
      BY <1>3
    <3> QED
      BY <1>3, <3>1, <3>2, <3>3
  <2>3. i \in 1 .. Len(scenarios) \/ i = Len(scenarios) + 1
    BY <1>3 DEF Extends
  <2> QED
    BY <2>1, <2>2, <2>3
<1>5. day' \in Nat
  BY <1>3 DEF LabelInv
<1> QED
  BY <1>4, <1>5 DEF LabelInv

LEMMA LabelStep ==
  ASSUME LabelledPolicy
  PROVE  WorldInv /\ LabelInv /\ [LoaderNext]_allVars => LabelInv'
<1> SUFFICES ASSUME WorldInv, LabelInv, [LoaderNext]_allVars PROVE LabelInv'
  OBVIOUS
<1>1. CASE UNCHANGED <<orders, scenarios, day>>
  BY <1>1 DEF LabelInv
<1>2. CASE OverlayAnomalies
  <2>1. (built % Len(Anomalies)) + 1 \in 1 .. 10
    <3>1. built \in Nat /\ Len(Anomalies) = 10
      BY RecipesSound DEF WorldInv
    <3>2. \A k \in Nat : k % 10 \in 0 .. 9
      OBVIOUS
    <3> QED
      BY <3>1, <3>2
  <2>2. PICK i \in 1 .. 10 : Build(Anomalies[i], customers + 1)
    BY <1>2, <2>1 DEF OverlayAnomalies
  <2>3. Len(Anomalies[i].before) \in Nat
    BY RecipesSound
  <2> QED
    BY <2>2, <2>3, RecipesBear, BuildBears
<1>3. CASE BuildShowcase
  <2>1. built - Copies * Len(Anomalies) + 1 \in 1 .. 10
    BY <1>3, RecipesSound, WorldAssumption DEF BuildShowcase, WorldInv
  <2>2. PICK i \in 1 .. 10 : Build(Showcase[i], ShowcaseCustomer)
    BY <1>3, <2>1 DEF BuildShowcase
  <2>3. Len(Showcase[i].before) \in Nat
    BY RecipesSound
  <2> QED
    BY <2>2, <2>3, RecipesBear, BuildBears
<1>4. CASE AddRandomOrder
  <2>1. PICK o : orders' = Append(orders, o)
    BY <1>4 DEF AddRandomOrder
  <2>2. Extends(orders', orders, o)
    BY <2>1, SequencesAppend DEF WorldInv
  <2>3. /\ 1 .. Len(orders) \subseteq 1 .. Len(orders')
        /\ \A i \in 1 .. Len(orders) : orders'[i] = orders[i]
    BY <2>2 DEF Extends
  <2>4. UNCHANGED <<scenarios, day>>
    BY <1>4 DEF AddRandomOrder
  <2> QED
    BY <2>3, <2>4 DEF LabelInv
<1>5. CASE AddStranger \/ Finish
  BY <1>1, <1>5 DEF AddStranger, Finish
<1>6. CASE Later
  <2>1. day' \in Nat /\ UNCHANGED <<orders, scenarios>>
    BY <1>6, WorldAssumption DEF Later
  <2> QED
    BY <2>1 DEF LabelInv
<1> QED
  BY <1>1, <1>2, <1>3, <1>4, <1>5, <1>6 DEF LoaderNext, Generate, allVars, worldVars

LEMMA LabelInit == LoaderInit => LabelInv
BY DEF LoaderInit, WorldInit, LabelInv

\* With a refund window short enough for the labelled laptop's warranty to outlast
\* it, every label agrees with the rules until the high-value order leaves it.
THEOREM LabelsStayRight ==
  ASSUME LabelledPolicy, Window <= 175
  PROVE  LoaderSpec => []LabelsMatchPolicy
<1>1. WorldInv /\ LabelInv => LabelsMatchPolicy
  BY BearersAgree, WorldAssumption DEF LabelInv, LabelsMatchPolicy
<1>2. WorldInv /\ LabelInv /\ [LoaderNext]_allVars => (WorldInv /\ LabelInv)'
  BY WorldStep, LabelStep
<1> QED
  BY <1>1, <1>2, WorldInitially, LabelInit, PTL DEF LoaderSpec

\* Whatever the refund window, and however late: a label that no longer agrees is
\* a refund that the rules have come to refuse.
THEOREM OnlyGrantsEnd ==
  ASSUME LabelledPolicy
  PROVE  LoaderSpec => []OnlyGrantsExpire
<1>1. WorldInv /\ LabelInv => OnlyGrantsExpire
  BY BearersAgree, WorldAssumption DEF LabelInv, OnlyGrantsExpire
<1>2. WorldInv /\ LabelInv /\ [LoaderNext]_allVars => (WorldInv /\ LabelInv)'
  BY WorldStep, LabelStep
<1> QED
  BY <1>1, <1>2, WorldInitially, LabelInit, PTL DEF LoaderSpec
=============================================================================
