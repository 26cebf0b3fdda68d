------------------------ MODULE PledgeService_proofs ------------------------
(***************************************************************************)
(* Proofs about PledgeService, for any sets of campaigns, tiers, pledges,  *)
(* payments and goroutines, and whatever failures happen.                  *)
(*                                                                         *)
(* The properties of the books are not inductive: that a capture is        *)
(* applied to a pledge nobody has booked yet depends on what the requests, *)
(* the deliveries and the confirmations in flight may carry.  Support says *)
(* so, and BooksStep sums up what one step of the service does to the      *)
(* books; the properties follow from the two.                              *)
(***************************************************************************)
EXTENDS PledgeService, FiniteSetTheorems, TLAPS

USE SetsAssumption, NoEventAssumption, RowsAssumption, NoTxnAssumption

(* The row of a pledge exists from the insert on.                          *)
RowsFollowRequests ==
  \A p \in Pledge : request[p] \in {"new", "refused", "clashed"}
                      <=> status[p] = "ABSENT"

(* Only an order the backer was given can be paid.                         *)
PaidOrdersAreOpen ==
  \A m \in Payment : charged[m] # "none" => request[Charge[m].order] = "open"

(* A goroutine works on an event the provider has sent, and payment_events *)
(* holds no other.                                                         *)
EventsAreEmitted ==
  /\ \A e \in recorded : Emitted(e)
  /\ \A h \in Handler : step[h] # "idle" => /\ delivery[h] \in Event
                                            /\ Emitted(delivery[h])

(* A confirmation has read a captured payment of its own order.            *)
FetchedWasTaken ==
  \A p \in Pledge :
    fetched[p] # NoPayment => /\ charged[fetched[p]] = "captured"
                              /\ Charge[fetched[p]].order = p

Support == /\ TypeOK
           /\ RowsFollowRequests
           /\ PaidOrdersAreOpen
           /\ EventsAreEmitted
           /\ FetchedWasTaken

----------------------------------------------------------------------------
(* The four ways a step touches the books.                                 *)

Inserted(p) ==
  /\ status[p] = "ABSENT"
  /\ status' = [status EXCEPT ![p] = "CREATED"]
  /\ UNCHANGED <<raised, backers, claimed, paidBy, ledger, outbox>>

Failed(p) ==
  /\ status[p] \in {"CREATED", "AUTHORIZED"}
  /\ status' = [status EXCEPT ![p] = "FAILED"]
  /\ UNCHANGED <<raised, backers, claimed, paidBy, ledger, outbox>>

Capturable(p, m) ==
  /\ status[p] \in {"CREATED", "AUTHORIZED", "FAILED"}
  /\ Charge[m].order = p
  /\ charged[m] = "captured"

Counted(p, m) == Capturable(p, m) /\ ~MustHold(p, m) /\ CountCapture(p, m)

Held(p, m) == Capturable(p, m) /\ MustHold(p, m) /\ HoldForRefund(p, m)

BooksStep ==
  \/ UNCHANGED books
  \/ \E p \in Pledge : Inserted(p) \/ Failed(p)
  \/ \E p \in Pledge, m \in Payment : Counted(p, m) \/ Held(p, m)

LEMMA FailureStep ==
  ASSUME TypeOK, NEW p \in Pledge, ApplyFailure(p)
  PROVE  UNCHANGED books \/ Failed(p)
BY DEF TypeOK, ApplyFailure, Failed, CanTransitionTo, Allowed, Terminal,
       Status, books

LEMMA CaptureStep ==
  ASSUME TypeOK, NEW p \in Pledge, NEW m \in Payment, ApplyCapture(p, m),
         Charge[m].order = p, charged[m] = "captured"
  PROVE  UNCHANGED books \/ Counted(p, m) \/ Held(p, m)
<1>1. status[p] \in Status \cup {"ABSENT"}
  BY DEF TypeOK
<1>2. ASSUME status[p] \notin CaptureApplied, CanTransitionTo(status[p], "CAPTURED")
      PROVE  status[p] \in {"CREATED", "AUTHORIZED", "FAILED"}
  BY <1>1, <1>2 DEF CanTransitionTo, Allowed, CaptureApplied, Status
<1>3. QED
  BY <1>2 DEF ApplyCapture, Counted, Held, Capturable

(* Every step of the service is one of the four or leaves the books alone. *)
LEMMA NextIsBooksStep ==
  ASSUME Support, [Next]_vars
  PROVE  BooksStep
<1> USE DEF Support
<1>1. CASE UNCHANGED vars
  BY <1>1 DEF vars, books, BooksStep
<1>2. ASSUME NEW c \in Campaign, SetLive(c) \/ DeadlineNears(c)
      PROVE  BooksStep
  BY <1>2 DEF SetLive, DeadlineNears, books, BooksStep
<1>3. ASSUME NEW p \in Pledge, InsertPledge(p)
      PROVE  BooksStep
  <2>1. status[p] = "ABSENT"
    BY <1>3 DEF InsertPledge, RowsFollowRequests
  <2>2. QED
    BY <1>3, <2>1 DEF InsertPledge, Inserted, books, BooksStep
<1>4. ASSUME NEW p \in Pledge,
             \/ RefusePledge(p) \/ CreateOrder(p) \/ AttachOrder(p)
             \/ CreateDies(p) \/ ConfirmFails(p)
             \/ \E m \in Payment : ConfirmFetch(p, m)
      PROVE  BooksStep
  BY <1>4 DEF RefusePledge, CreateOrder, AttachOrder, CreateDies, ConfirmFails,
              ConfirmFetch, BooksStep
<1>5. ASSUME NEW p \in Pledge, ConfirmApply(p)
      PROVE  BooksStep
  <2>1. /\ fetched[p] \in Payment
        /\ Charge[fetched[p]].order = p
        /\ charged[fetched[p]] = "captured"
    BY <1>5 DEF ConfirmApply, TypeOK, FetchedWasTaken
  <2>2. UNCHANGED books \/ Counted(p, fetched[p]) \/ Held(p, fetched[p])
    BY <1>5, <2>1, CaptureStep DEF ConfirmApply
  <2>3. QED
    BY <2>1, <2>2 DEF BooksStep
<1>6. ASSUME NEW m \in Payment, Pay(m)
      PROVE  BooksStep
  BY <1>6 DEF Pay, BooksStep
<1>7. ASSUME NEW e \in Event, LoseKey(e) \/ \E h \in Handler : Receive(h, e)
      PROVE  BooksStep
  BY <1>7 DEF LoseKey, Receive, BooksStep
<1>8. ASSUME NEW h \in Handler,
             RejectDuplicate(h) \/ RollBack(h) \/ Release(h) \/ Crash(h)
      PROVE  BooksStep
  BY <1>8 DEF RejectDuplicate, RollBack, Release, Crash, BooksStep
<1>9. ASSUME NEW h \in Handler, Process(h)
      PROVE  BooksStep
  <2> DEFINE e == delivery[h]
             m == e.payment
             p == Charge[m].order
  <2>1. e \in Event /\ Emitted(e)
    BY <1>9 DEF Process, EventsAreEmitted
  <2>2. m \in Payment /\ p \in Pledge /\ e.kind \in EventKind
    BY <2>1 DEF Event
  <2>3. Apply(e)
    BY <1>9 DEF Process
  <2>4. CASE e.kind = "payment.captured"
    <3>1. charged[m] = "captured"
      BY <2>1, <2>4 DEF Emitted
    <3>2. ApplyCapture(p, m)
      BY <2>3, <2>4 DEF Apply
    <3>3. UNCHANGED books \/ Counted(p, m) \/ Held(p, m)
      BY <2>2, <3>1, <3>2, CaptureStep
    <3>4. QED
      BY <2>2, <3>3 DEF BooksStep
  <2>5. CASE e.kind = "payment.failed"
    <3>1. ApplyFailure(p)
      BY <2>3, <2>5 DEF Apply
    <3>2. QED
      BY <2>2, <3>1, FailureStep DEF BooksStep
  <2>6. CASE e.kind = "payment.authorized"
    BY <2>3, <2>6 DEF Apply, BooksStep
  <2>7. QED
    BY <2>2, <2>4, <2>5, <2>6 DEF EventKind
<1>10. QED
  BY <1>1, <1>2, <1>3, <1>4, <1>5, <1>6, <1>7, <1>8, <1>9 DEF Next
----------------------------------------------------------------------------
(* Support is an invariant.                                                *)

BooksTypeOK ==
  /\ raised  \in [Campaign -> Nat]
  /\ backers \in [Campaign -> Nat]
  /\ claimed \in [Tier -> Nat]
  /\ status  \in [Pledge -> Status \cup {"ABSENT"}]
  /\ paidBy  \in [Pledge -> Payment \cup {NoPayment}]
  /\ ledger  \in [Pledge -> Txn \cup {NoTxn}]
  /\ outbox  \in [Pledge -> Seq({"pledge.captured", "pledge.refund_required"})]

LEMMA BodyTyped ==
  ASSUME NEW p \in Pledge
  PROVE  /\ Body[p].campaign \in Campaign
         /\ Body[p].tier \in Tier \cup {NoTier}
         /\ Body[p].amount \in Nat
OBVIOUS

LEMMA TxnTyped ==
  ASSUME NEW p \in Pledge, NEW m \in Payment
  PROVE  /\ [credit |-> "CAMPAIGN_ESCROW", amount |-> Body[p].amount,
             fee |-> Charge[m].fee] \in Txn
         /\ [credit |-> "BACKER_REFUND_PAYABLE", amount |-> Charge[m].amount,
             fee |-> Charge[m].fee] \in Txn
BY DEF Txn

LEMMA BooksTyped ==
  ASSUME BooksTypeOK, BooksStep
  PROVE  BooksTypeOK'
<1> USE DEF BooksTypeOK
<1>1. CASE UNCHANGED books
  BY <1>1 DEF books
<1>2. ASSUME NEW p \in Pledge, Inserted(p) \/ Failed(p)
      PROVE  BooksTypeOK'
  BY <1>2 DEF Inserted, Failed, Status
<1>3. ASSUME NEW p \in Pledge, NEW m \in Payment, Counted(p, m)
      PROVE  BooksTypeOK'
  <2> USE <1>3 DEF Counted, CountCapture
  <2>1. raised' \in [Campaign -> Nat]
    BY BodyTyped
  <2>2. backers' \in [Campaign -> Nat]
    <3>1. \/ backers' = [backers EXCEPT ![Body[p].campaign] = @ + 1]
          \/ UNCHANGED backers
      BY DEF CountBacker
    <3>2. QED
      BY <3>1, BodyTyped
  <2>7. claimed' \in [Tier -> Nat]
    <3>1. CASE Body[p].tier = NoTier
      BY <3>1
    <3>2. CASE Body[p].tier # NoTier
      BY <3>2, BodyTyped, SMTT(30)
    <3>3. QED
      BY <3>1, <3>2
  <2>3. /\ status' \in [Pledge -> Status \cup {"ABSENT"}]
        /\ paidBy' \in [Pledge -> Payment \cup {NoPayment}]
    BY DEF Status
  <2>4. ledger' \in [Pledge -> Txn \cup {NoTxn}]
    BY TxnTyped DEF RecordCapture
  <2>5. outbox' \in [Pledge -> Seq({"pledge.captured", "pledge.refund_required"})]
    BY DEF InsertOutbox
  <2>6. QED
    BY <2>1, <2>2, <2>3, <2>4, <2>5, <2>7
<1>4. ASSUME NEW p \in Pledge, NEW m \in Payment, Held(p, m)
      PROVE  BooksTypeOK'
  <2> USE <1>4 DEF Held, HoldForRefund
  <2>1. ledger' \in [Pledge -> Txn \cup {NoTxn}]
    BY TxnTyped DEF RecordCapture
  <2>2. outbox' \in [Pledge -> Seq({"pledge.captured", "pledge.refund_required"})]
    BY DEF InsertOutbox
  <2>3. QED
    BY <2>1, <2>2 DEF Status
<1>5. QED
  BY <1>1, <1>2, <1>3, <1>4 DEF BooksStep

(* What a transaction may not see is a set of pledges.                     *)
LEMMA UnseenTyped ==
  ASSUME TypeOK, [Next]_vars
  PROVE  unseen' \in [Pledge -> SUBSET Pledge]
<1>1. unseen \in [Pledge -> SUBSET Pledge]
  BY DEF TypeOK
<1>2. ASSUME Overtake
      PROVE  unseen' \in [Pledge -> SUBSET Pledge]
  BY <1>1, <1>2 DEF Overtake
<1>3. ASSUME NEW p, Begin(p)
      PROVE  unseen' \in [Pledge -> SUBSET Pledge]
  BY <1>1, <1>3 DEF Begin
<1>4. CASE UNCHANGED vars
  BY <1>1, <1>4 DEF vars
<1>5. ASSUME NEW c \in Campaign, SetLive(c) \/ DeadlineNears(c)
      PROVE  unseen' = unseen
  BY <1>5 DEF SetLive, DeadlineNears
<1>6. ASSUME NEW p \in Pledge,
             \/ RefusePledge(p) \/ InsertPledge(p) \/ CreateOrder(p)
             \/ AttachOrder(p) \/ CreateDies(p) \/ ConfirmFails(p)
      PROVE  unseen' = unseen
  BY <1>6 DEF RefusePledge, InsertPledge, CreateOrder, AttachOrder, CreateDies,
              ConfirmFails
<1>7. ASSUME NEW p \in Pledge, NEW m \in Payment, ConfirmFetch(p, m)
      PROVE  Begin(p)
  BY <1>7 DEF ConfirmFetch
<1>8. ASSUME NEW p \in Pledge, ConfirmApply(p)
      PROVE  Overtake
  BY <1>8 DEF ConfirmApply
<1>9. ASSUME NEW e \in Event, NEW h \in Handler, Receive(h, e)
      PROVE  unseen' = unseen \/ Begin(Charge[e.payment].order)
  BY <1>9 DEF Receive
<1>10. ASSUME NEW h \in Handler, Process(h)
       PROVE  Overtake
  BY <1>10 DEF Process
<1>11. ASSUME NEW h \in Handler,
              RejectDuplicate(h) \/ RollBack(h) \/ Release(h) \/ Crash(h)
       PROVE  unseen' = unseen
  BY <1>11 DEF RejectDuplicate, RollBack, Release, Crash
<1>12. ASSUME NEW x, Pay(x) \/ LoseKey(x)
       PROVE  unseen' = unseen
  BY <1>12 DEF Pay, LoseKey
<1>13. QED
  BY <1>1, <1>2, <1>3, <1>4, <1>5, <1>6, <1>7, <1>8, <1>9, <1>10, <1>11, <1>12
     DEF Next

(* What a step leaves of the variables around the books.                   *)
LEMMA SupportTyped ==
  ASSUME Support, [Next]_vars
  PROVE  TypeOK'
<1>1. BooksTypeOK'
  BY NextIsBooksStep, BooksTyped DEF Support, TypeOK, BooksTypeOK
<1> DEFINE AroundOK ==
      /\ window   \in [Campaign -> {"DRAFT", "OPEN", "CLOSING"}]
      /\ request  \in [Pledge -> {"new", "refused", "clashed", "inserted",
                                  "failed", "ordered", "open", "dead"}]
      /\ attached \subseteq Pledge
      /\ recorded \subseteq Event
      /\ keys     \subseteq Event
      /\ charged  \in [Payment -> {"none", "failed", "captured"}]
      /\ acked    \subseteq Event
      /\ step     \in [Handler -> {"idle", "apply", "release"}]
      /\ delivery \in [Handler -> Event \cup {NoEvent}]
      /\ fetched  \in [Pledge -> Payment \cup {NoPayment}]
<1>2. AroundOK'
  <2>1. AroundOK
    BY DEF Support, TypeOK
  <2>2. CASE UNCHANGED vars
    BY <2>1, <2>2 DEF vars
  <2>3. ASSUME NEW c \in Campaign, SetLive(c) \/ DeadlineNears(c)
        PROVE  AroundOK'
    BY <2>1, <2>3 DEF SetLive, DeadlineNears, webhookVars
  <2>4. ASSUME NEW p \in Pledge,
               \/ RefusePledge(p) \/ InsertPledge(p) \/ CreateOrder(p)
               \/ AttachOrder(p) \/ CreateDies(p)
        PROVE  AroundOK'
    BY <2>1, <2>4, SMTT(30) DEF RefusePledge, InsertPledge, CreateOrder, AttachOrder,
                      CreateDies, webhookVars
  <2>5. ASSUME NEW p \in Pledge,
               \/ ConfirmApply(p) \/ ConfirmFails(p)
               \/ \E m \in Payment : ConfirmFetch(p, m)
        PROVE  AroundOK'
    BY <2>1, <2>5, SMTT(30) DEF ConfirmApply, ConfirmFails, ConfirmFetch, webhookVars
  <2>6. ASSUME NEW m \in Payment, Pay(m)
        PROVE  AroundOK'
    BY <2>1, <2>6 DEF Pay, webhookVars
  <2>7. ASSUME NEW e \in Event, NEW h \in Handler, Receive(h, e)
        PROVE  AroundOK'
    <3>1. UNCHANGED <<window, request, attached, recorded, charged, fetched>>
      BY <2>7 DEF Receive
    <3>2. keys' = keys \/ keys' = keys \cup {e}
      BY <2>7 DEF Receive
    <3>3. acked' = acked \/ acked' = acked \cup {e}
      BY <2>7 DEF Receive
    <3>4. \/ step' = step /\ delivery' = delivery
          \/ /\ step' = [step EXCEPT ![h] = "apply"]
             /\ delivery' = [delivery EXCEPT ![h] = e]
      BY <2>7 DEF Receive
    <3>5. keys' \subseteq Event /\ acked' \subseteq Event
      BY <2>1, <3>2, <3>3
    <3>6. step' \in [Handler -> {"idle", "apply", "release"}]
      BY <2>1, <3>4
    <3>7. delivery' \in [Handler -> Event \cup {NoEvent}]
      BY <2>1, <3>4
    <3>8. QED
      BY <2>1, <3>1, <3>5, <3>6, <3>7
  <2>8. ASSUME NEW e \in Event, LoseKey(e)
        PROVE  AroundOK'
    BY <2>1, <2>8 DEF LoseKey
  <2>9. ASSUME NEW h \in Handler, RejectDuplicate(h) \/ Process(h)
        PROVE  AroundOK'
    <3>1. delivery[h] \in Event
      BY <2>9 DEF Support, EventsAreEmitted, RejectDuplicate, Process
    <3>2. QED
      BY <2>1, <2>9, <3>1 DEF RejectDuplicate, Process, Finish
  <2>10. ASSUME NEW h \in Handler, RollBack(h) \/ Release(h) \/ Crash(h)
         PROVE  AroundOK'
    BY <2>1, <2>10 DEF RollBack, Release, Crash, Finish
  <2>11. QED
    BY <2>2, <2>3, <2>4, <2>5, <2>6, <2>7, <2>8, <2>9, <2>10 DEF Next
<1>3. unseen' \in [Pledge -> SUBSET Pledge]
  BY UnseenTyped DEF Support
<1>4. QED
  BY <1>1, <1>2, <1>3 DEF BooksTypeOK, TypeOK
(* What the provider has reported stays so, and an open order stays open.  *)
OutsideStays ==
  /\ \A m \in Payment : charged[m] # "none" => charged'[m] = charged[m]
  /\ \A p \in Pledge : request[p] = "open" => request'[p] = "open"

LEMMA OutsideIsMonotone ==
  ASSUME TypeOK, [Next]_vars
  PROVE  OutsideStays
<1> USE DEF OutsideStays
<1>1. CASE UNCHANGED vars
  BY <1>1 DEF vars
<1>2. ASSUME NEW m \in Payment, Pay(m)
      PROVE  OutsideStays
  BY <1>2 DEF Pay, TypeOK
<1>3. ASSUME NEW p \in Pledge,
             \/ RefusePledge(p) \/ InsertPledge(p) \/ CreateOrder(p)
             \/ AttachOrder(p) \/ CreateDies(p)
      PROVE  OutsideStays
  BY <1>3, SMTT(30) DEF RefusePledge, InsertPledge, CreateOrder, AttachOrder, CreateDies,
              TypeOK
<1>4. ASSUME \/ \E c \in Campaign : SetLive(c) \/ DeadlineNears(c)
             \/ \E p \in Pledge : \/ ConfirmApply(p) \/ ConfirmFails(p)
                                  \/ \E m \in Payment : ConfirmFetch(p, m)
             \/ \E e \in Event : LoseKey(e) \/ \E h \in Handler : Receive(h, e)
             \/ \E h \in Handler : \/ RejectDuplicate(h) \/ Process(h)
                                   \/ RollBack(h) \/ Release(h) \/ Crash(h)
      PROVE  OutsideStays
  <2>1. charged' = charged /\ request' = request
    BY <1>4 DEF SetLive, DeadlineNears, ConfirmApply, ConfirmFails, ConfirmFetch,
                LoseKey, Receive, RejectDuplicate, Process, RollBack, Release,
                Crash
  <2>2. QED
    BY <2>1
<1>5. QED
  BY <1>1, <1>2, <1>3, <1>4 DEF Next

LEMMA RowsStay ==
  ASSUME TypeOK, NEW p \in Pledge, NEW m \in Payment,
         ApplyCapture(p, m) \/ ApplyFailure(p) \/ UNCHANGED books
  PROVE  \A q \in Pledge : status'[q] = "ABSENT" <=> status[q] = "ABSENT"
<1>1. CASE UNCHANGED books
  BY <1>1 DEF books
<1>2. CASE ApplyCapture(p, m) /\ ~UNCHANGED books
  <2>1. \/ status' = [status EXCEPT ![p] = "CAPTURED"]
        \/ status' = [status EXCEPT ![p] = "REFUND_PENDING"]
    BY <1>2 DEF ApplyCapture, CountCapture, HoldForRefund
  <2>2. status[p] # "ABSENT"
    BY <1>2 DEF ApplyCapture, CanTransitionTo, Allowed
  <2>3. QED
    BY <2>1, <2>2 DEF TypeOK
<1>3. CASE ApplyFailure(p) /\ ~UNCHANGED books
  <2>1. status' = [status EXCEPT ![p] = "FAILED"] /\ status[p] # "ABSENT"
    BY <1>3 DEF ApplyFailure, CanTransitionTo, Allowed
  <2>2. QED
    BY <2>1 DEF TypeOK
<1>4. QED
  BY <1>1, <1>2, <1>3

LEMMA RowsInvariant ==
  ASSUME Support, [Next]_vars
  PROVE  RowsFollowRequests'
<1> USE DEF Support, RowsFollowRequests
<1>1. CASE UNCHANGED vars
  BY <1>1 DEF vars
<1>2. ASSUME NEW p \in Pledge,
             \/ RefusePledge(p) \/ InsertPledge(p) \/ CreateOrder(p)
             \/ AttachOrder(p) \/ CreateDies(p)
      PROVE  RowsFollowRequests'
  BY <1>2 DEF RefusePledge, InsertPledge, CreateOrder, AttachOrder, CreateDies,
              books, TypeOK
<1>3. ASSUME NEW p \in Pledge, ConfirmApply(p)
      PROVE  RowsFollowRequests'
  <2>1. fetched[p] \in Payment /\ ApplyCapture(p, fetched[p]) /\ request' = request
    BY <1>3 DEF ConfirmApply, TypeOK
  <2>2. QED
    BY <2>1, RowsStay
<1>4. ASSUME NEW h \in Handler, Process(h)
      PROVE  RowsFollowRequests'
  <2>1. /\ delivery[h].payment \in Payment
        /\ Charge[delivery[h].payment].order \in Pledge
    BY <1>4 DEF Process, EventsAreEmitted, Event
  <2>2. \/ ApplyCapture(Charge[delivery[h].payment].order, delivery[h].payment)
        \/ ApplyFailure(Charge[delivery[h].payment].order)
        \/ UNCHANGED books
    BY <1>4 DEF Process, Apply
  <2>3. request' = request
    BY <1>4 DEF Process
  <2>4. QED
    BY <2>1, <2>2, <2>3, RowsStay
<1>5. ASSUME \/ \E c \in Campaign : SetLive(c) \/ DeadlineNears(c)
             \/ \E p \in Pledge : \/ ConfirmFails(p)
                                  \/ \E m \in Payment : ConfirmFetch(p, m)
             \/ \E m \in Payment : Pay(m)
             \/ \E e \in Event : LoseKey(e) \/ \E h \in Handler : Receive(h, e)
             \/ \E h \in Handler : \/ RejectDuplicate(h) \/ RollBack(h)
                                   \/ Release(h) \/ Crash(h)
      PROVE  RowsFollowRequests'
  <2>1. status' = status /\ request' = request
    BY <1>5 DEF SetLive, DeadlineNears, ConfirmFails, ConfirmFetch, Pay, LoseKey,
                Receive, RejectDuplicate, RollBack, Release, Crash, books
  <2>2. QED
    BY <2>1
<1>6. QED
  BY <1>1, <1>2, <1>3, <1>4, <1>5 DEF Next

LEMMA PaidOrdersInvariant ==
  ASSUME Support, [Next]_vars
  PROVE  PaidOrdersAreOpen'
<1> USE DEF Support, PaidOrdersAreOpen
<1>1. OutsideStays
  BY OutsideIsMonotone
<1>2. ASSUME NEW m \in Payment, Pay(m)
      PROVE  PaidOrdersAreOpen'
  BY <1>2 DEF Pay, TypeOK
<1>3. CASE \A m \in Payment : ~Pay(m)
  <2>1. charged' = charged
    BY <1>3 DEF Next, vars, SetLive, DeadlineNears, RefusePledge, InsertPledge,
                CreateOrder, AttachOrder, CreateDies, ConfirmApply, ConfirmFails,
                ConfirmFetch, LoseKey, Receive, RejectDuplicate, Process,
                RollBack, Release, Crash
  <2>2. QED
    BY <1>1, <2>1 DEF OutsideStays
<1>4. QED
  BY <1>2, <1>3

LEMMA EventsInvariant ==
  ASSUME Support, [Next]_vars
  PROVE  EventsAreEmitted'
<1> USE DEF Support, EventsAreEmitted
<1>1. ASSUME NEW e \in Event, Emitted(e)
      PROVE  Emitted(e)'
  BY <1>1, OutsideIsMonotone DEF OutsideStays, Emitted, Event, TypeOK
<1>2. recorded \subseteq Event
  BY DEF TypeOK
<1>3. CASE recorded' = recorded /\ step' = step /\ delivery' = delivery
  BY <1>1, <1>2, <1>3
<1>4. ASSUME NEW e \in Event, NEW h \in Handler, Receive(h, e)
      PROVE  EventsAreEmitted'
  <2>1. recorded' = recorded /\ Emitted(e)
    BY <1>4 DEF Receive
  <2>2. \/ step' = step /\ delivery' = delivery
        \/ /\ step' = [step EXCEPT ![h] = "apply"]
           /\ delivery' = [delivery EXCEPT ![h] = e]
    BY <1>4 DEF Receive
  <2>3. QED
    BY <1>1, <1>2, <2>1, <2>2, ZenonT(60) DEF TypeOK
<1>5. ASSUME NEW h \in Handler, Process(h)
      PROVE  EventsAreEmitted'
  <2>1. /\ recorded' = recorded \cup {delivery[h]}
        /\ delivery[h] \in Event /\ Emitted(delivery[h])
    BY <1>5 DEF Process
  <2>2. \/ /\ step' = [step EXCEPT ![h] = "idle"]
           /\ delivery' = [delivery EXCEPT ![h] = NoEvent]
        \/ /\ step' = [step EXCEPT ![h] = "release"]
           /\ delivery' = delivery
    BY <1>5 DEF Process, Finish
  <2>3. \A f \in Handler : step'[f] # "idle" => /\ step[f] # "idle"
                                                /\ delivery'[f] = delivery[f]
    BY <1>5, <2>2 DEF Process, TypeOK
  <2>4. QED
    BY <1>1, <1>2, <2>1, <2>3
<1>6. ASSUME NEW h \in Handler,
             RejectDuplicate(h) \/ RollBack(h) \/ Release(h) \/ Crash(h)
      PROVE  EventsAreEmitted'
  <2>1. recorded' = recorded
    BY <1>6 DEF RejectDuplicate, RollBack, Release, Crash
  <2>2. \/ /\ step' = [step EXCEPT ![h] = "idle"]
           /\ delivery' = [delivery EXCEPT ![h] = NoEvent]
        \/ /\ step' = [step EXCEPT ![h] = "release"] /\ step[h] = "apply"
           /\ delivery' = delivery
    BY <1>6 DEF RejectDuplicate, RollBack, Release, Crash, Finish
  <2>3. \A f \in Handler : step'[f] # "idle" => /\ step[f] # "idle"
                                                /\ delivery'[f] = delivery[f]
    BY <2>2 DEF TypeOK
  <2>4. QED
    BY <1>1, <1>2, <2>1, <2>3
<1>7. CASE UNCHANGED vars
  BY <1>3, <1>7 DEF vars
<1>8. ASSUME \/ \E c \in Campaign : SetLive(c) \/ DeadlineNears(c)
             \/ \E p \in Pledge : \/ RefusePledge(p) \/ InsertPledge(p)
                                  \/ CreateOrder(p) \/ AttachOrder(p)
                                  \/ CreateDies(p) \/ ConfirmApply(p)
                                  \/ ConfirmFails(p)
                                  \/ \E m \in Payment : ConfirmFetch(p, m)
             \/ \E m \in Payment : Pay(m)
             \/ \E e \in Event : LoseKey(e)
      PROVE  EventsAreEmitted'
  BY <1>3, <1>8 DEF SetLive, DeadlineNears, RefusePledge, InsertPledge,
                    CreateOrder, AttachOrder, CreateDies, ConfirmApply,
                    ConfirmFails, ConfirmFetch, Pay, LoseKey, webhookVars
<1>9. QED
  BY <1>4, <1>5, <1>6, <1>7, <1>8 DEF Next

LEMMA FetchedInvariant ==
  ASSUME Support, [Next]_vars
  PROVE  FetchedWasTaken'
<1>1. ASSUME NEW q \in Pledge, NEW m \in Payment, ConfirmFetch(q, m)
      PROVE  \A p \in Pledge :
               \/ fetched'[p] = fetched[p]
               \/ p = q /\ fetched'[p] = m /\ charged[m] = "captured"
                        /\ Charge[m].order = p
  BY <1>1 DEF Support, TypeOK, ConfirmFetch
<1>2. ASSUME NEW q \in Pledge, ConfirmApply(q) \/ ConfirmFails(q)
      PROVE  \A p \in Pledge : fetched'[p] \in {fetched[p], NoPayment}
  BY <1>2 DEF Support, TypeOK, ConfirmApply, ConfirmFails
<1>3. ASSUME \/ UNCHANGED vars
             \/ \E c \in Campaign : SetLive(c) \/ DeadlineNears(c)
             \/ \E p \in Pledge : \/ RefusePledge(p) \/ InsertPledge(p)
                                  \/ CreateOrder(p) \/ AttachOrder(p)
                                  \/ CreateDies(p)
             \/ \E m \in Payment : Pay(m)
             \/ \E e \in Event : LoseKey(e) \/ \E h \in Handler : Receive(h, e)
             \/ \E h \in Handler : \/ RejectDuplicate(h) \/ Process(h)
                                   \/ RollBack(h) \/ Release(h) \/ Crash(h)
      PROVE  fetched' = fetched
  BY <1>3 DEF vars, SetLive, DeadlineNears, RefusePledge, InsertPledge,
              CreateOrder, AttachOrder, CreateDies, Pay, LoseKey, Receive,
              RejectDuplicate, Process, RollBack, Release, Crash
<1>4. \A p \in Pledge :
        \/ fetched'[p] = fetched[p]
        \/ fetched'[p] = NoPayment
        \/ \E m \in Payment : /\ fetched'[p] = m /\ charged[m] = "captured"
                              /\ Charge[m].order = p
  <2>1. CASE fetched' = fetched
    BY <2>1
  <2>2. QED
    BY <1>1, <1>2, <1>3, <2>1 DEF Next
<1>5. \A m \in Payment : charged[m] = "captured" => charged'[m] = "captured"
  BY OutsideIsMonotone DEF OutsideStays, Support
<1>6. SUFFICES ASSUME NEW p \in Pledge, fetched'[p] # NoPayment
               PROVE  /\ charged'[fetched'[p]] = "captured"
                      /\ Charge[fetched'[p]].order = p
  BY DEF FetchedWasTaken
<1>7. CASE fetched'[p] = fetched[p]
  <2>1. fetched[p] \in Payment
    BY <1>6, <1>7 DEF Support, TypeOK
  <2>2. charged[fetched[p]] = "captured" /\ Charge[fetched[p]].order = p
    BY <1>6, <1>7 DEF Support, FetchedWasTaken
  <2>3. QED
    BY <1>5, <1>7, <2>1, <2>2
<1>8. QED
  BY <1>4, <1>5, <1>6, <1>7

LEMMA SupportInit == Init => Support
BY DEF Init, Support, TypeOK, RowsFollowRequests, PaidOrdersAreOpen,
       EventsAreEmitted, FetchedWasTaken

LEMMA SupportStep == Support /\ [Next]_vars => Support'
BY SupportTyped, RowsInvariant, PaidOrdersInvariant, EventsInvariant,
   FetchedInvariant DEF Support

LEMMA SupportInvariant == Spec => []Support
BY SupportInit, SupportStep, PTL DEF Spec

(* Every variable keeps its type, whatever fails.                          *)
THEOREM TypeCorrect == Spec => []TypeOK
<1>1. Support => TypeOK
  BY DEF Support
<1>2. QED
  BY SupportInvariant, <1>1, PTL
----------------------------------------------------------------------------
(* The books follow the pledges.                                           *)

(* The three shapes a pledge can have on the books.                        *)
Open(p) ==
  /\ status[p] \in {"ABSENT", "CREATED", "FAILED"}
  /\ paidBy[p] = NoPayment /\ ledger[p] = NoTxn /\ outbox[p] = << >>

InEscrow(p) ==
  /\ status[p] = "CAPTURED"
  /\ ledger[p] = [credit |-> "CAMPAIGN_ESCROW", amount |-> Body[p].amount,
                  fee |-> Charge[paidBy[p]].fee]
  /\ outbox[p] = <<"pledge.captured">>

OwedBack(p) ==
  /\ status[p] = "REFUND_PENDING"
  /\ ledger[p] = [credit |-> "BACKER_REFUND_PAYABLE",
                  amount |-> Charge[paidBy[p]].amount,
                  fee |-> Charge[paidBy[p]].fee]
  /\ outbox[p] = <<"pledge.refund_required">>

LEMMA BooksShapes ==
  BooksMatchStatus <=> \A p \in Pledge : InEscrow(p) \/ OwedBack(p) \/ Open(p)
BY DEF BooksMatchStatus, InEscrow, OwedBack, Open

LEMMA CountedIsInEscrow ==
  ASSUME TypeOK, NEW p \in Pledge, NEW m \in Payment, Counted(p, m), Open(p)
  PROVE  InEscrow(p)'
<1>1. ledger[p] = NoTxn /\ outbox[p] = << >>
  BY DEF Open
<1>2. /\ status'[p] = "CAPTURED"
      /\ paidBy'[p] = m
      /\ ledger'[p] = [credit |-> "CAMPAIGN_ESCROW", amount |-> Body[p].amount,
                       fee |-> Charge[m].fee]
      /\ outbox'[p] = Append(<< >>, "pledge.captured")
  BY <1>1 DEF Counted, CountCapture, RecordCapture, InsertOutbox, TypeOK
<1>3. Append(<< >>, "pledge.captured") = <<"pledge.captured">>
  OBVIOUS
<1>4. QED
  BY <1>2, <1>3 DEF InEscrow

LEMMA HeldIsOwedBack ==
  ASSUME TypeOK, NEW p \in Pledge, NEW m \in Payment, Held(p, m), Open(p)
  PROVE  OwedBack(p)'
<1>1. ledger[p] = NoTxn /\ outbox[p] = << >>
  BY DEF Open
<1>2. /\ status'[p] = "REFUND_PENDING"
      /\ paidBy'[p] = m
      /\ ledger'[p] = [credit |-> "BACKER_REFUND_PAYABLE",
                       amount |-> Charge[m].amount, fee |-> Charge[m].fee]
      /\ outbox'[p] = Append(<< >>, "pledge.refund_required")
  BY <1>1 DEF Held, HoldForRefund, RecordCapture, InsertOutbox, TypeOK
<1>3. Append(<< >>, "pledge.refund_required") = <<"pledge.refund_required">>
  OBVIOUS
<1>4. QED
  BY <1>2, <1>3 DEF OwedBack

(* A capture leaves the rows of the other pledges as they are.             *)
LEMMA OthersStay ==
  ASSUME TypeOK, NEW p \in Pledge, NEW m \in Payment, NEW q \in Pledge, q # p,
         Counted(p, m) \/ Held(p, m)
  PROVE  /\ status'[q] = status[q] /\ paidBy'[q] = paidBy[q]
         /\ ledger'[q] = ledger[q] /\ outbox'[q] = outbox[q]
BY SMTT(30) DEF Counted, Held, CountCapture, HoldForRefund, RecordCapture, InsertOutbox,
       TypeOK

LEMMA BooksStepMatches ==
  ASSUME TypeOK, BooksMatchStatus, BooksStep
  PROVE  BooksMatchStatus'
<1>1. ASSUME NEW q \in Pledge
      PROVE  InEscrow(q)' \/ OwedBack(q)' \/ Open(q)'
  <2>1. InEscrow(q) \/ OwedBack(q) \/ Open(q)
    BY BooksShapes
  <2>2. CASE UNCHANGED books
    BY <2>1, <2>2 DEF books, InEscrow, OwedBack, Open
  <2>3. ASSUME NEW p \in Pledge, Inserted(p) \/ Failed(p)
        PROVE  InEscrow(q)' \/ OwedBack(q)' \/ Open(q)'
    BY <2>1, <2>3, SMTT(30) DEF Inserted, Failed, InEscrow, OwedBack, Open, TypeOK
  <2>4. ASSUME NEW p \in Pledge, NEW m \in Payment, Counted(p, m) \/ Held(p, m)
        PROVE  InEscrow(q)' \/ OwedBack(q)' \/ Open(q)'
    <3>1. CASE q # p
      BY <2>1, <2>4, <3>1, OthersStay DEF InEscrow, OwedBack, Open
    <3>2. CASE q = p
      <4>1. Open(p)
        BY <2>1, <2>4, <3>2 DEF Counted, Held, Capturable, InEscrow, OwedBack
      <4>2. QED
        BY <2>4, <3>2, <4>1, CountedIsInEscrow, HeldIsOwedBack
    <3>3. QED
      BY <3>1, <3>2
  <2>5. QED
    BY <2>2, <2>3, <2>4 DEF BooksStep
<1>2. QED
  BY <1>1 DEF BooksMatchStatus, InEscrow, OwedBack, Open

(* A captured pledge has exactly one ledger transaction and one outbox     *)
(* message, of the right kind and amount; an unpaid one has none.          *)
THEOREM BooksCorrect == Spec => []BooksMatchStatus
<1>1. Init => BooksMatchStatus
  BY DEF Init, BooksMatchStatus
<1>2. Support /\ BooksMatchStatus /\ [Next]_vars => BooksMatchStatus'
  BY NextIsBooksStep, BooksStepMatches DEF Support
<1>3. QED
  BY <1>1, <1>2, SupportInvariant, PTL DEF Spec

LEMMA BooksStepKeepsCapture ==
  ASSUME TypeOK, BooksStep, NEW p \in Pledge, status[p] \in CaptureApplied
  PROVE  UNCHANGED <<status[p], paidBy[p], ledger[p], outbox[p]>>
<1>1. CASE UNCHANGED books
  BY <1>1 DEF books
<1>2. ASSUME NEW q \in Pledge, Inserted(q) \/ Failed(q)
      PROVE  UNCHANGED <<status[p], paidBy[p], ledger[p], outbox[p]>>
  BY <1>2 DEF Inserted, Failed, CaptureApplied, TypeOK
<1>3. ASSUME NEW q \in Pledge, NEW m \in Payment, Counted(q, m) \/ Held(q, m)
      PROVE  UNCHANGED <<status[p], paidBy[p], ledger[p], outbox[p]>>
  <2>1. p # q
    BY <1>3 DEF Counted, Held, Capturable, CaptureApplied
  <2>2. QED
    BY <1>3, <2>1, OthersStay
<1>4. QED
  BY <1>1, <1>2, <1>3 DEF BooksStep

(* No event, retry or confirmation changes a pledge whose capture has been *)
(* applied.                                                                *)
THEOREM CaptureFinal == Spec => CaptureIsFinal
<1>1. Support /\ [Next]_vars =>
        [\A p \in Pledge :
           status[p] \in CaptureApplied =>
             UNCHANGED <<status[p], paidBy[p], ledger[p], outbox[p]>>]_vars
  BY NextIsBooksStep, BooksStepKeepsCapture DEF Support
<1>2. QED
  BY <1>1, SupportInvariant, PTL DEF Spec, CaptureIsFinal

(* Every status change follows the table of model.go.                      *)
THEOREM TableFollowed == Spec => StatusFollowsTable
<1>1. ASSUME TypeOK, BooksStep, NEW p \in Pledge, status[p] # "ABSENT"
      PROVE  \/ CanTransitionTo(status[p], status'[p])
             \/ /\ CanTransitionTo(status[p], "CAPTURED")
                /\ CanTransitionTo("CAPTURED", status'[p])
  <2> USE DEF CanTransitionTo, Allowed
  <2>1. CASE status'[p] = status[p]
    BY <2>1
  <2>2. ASSUME NEW q \in Pledge, Inserted(q) \/ Failed(q), status'[p] # status[p]
        PROVE  CanTransitionTo(status[p], status'[p])
    BY <1>1, <2>2 DEF Inserted, Failed, TypeOK
  <2>3. ASSUME NEW q \in Pledge, NEW m \in Payment, Counted(q, m) \/ Held(q, m),
               status'[p] # status[p]
        PROVE  /\ CanTransitionTo(status[p], "CAPTURED")
               /\ CanTransitionTo("CAPTURED", status'[p])
    <3>1. p = q
      BY <1>1, <2>3, OthersStay
    <3>2. status'[p] \in {"CAPTURED", "REFUND_PENDING"}
      BY <1>1, <2>3, <3>1 DEF Counted, Held, CountCapture, HoldForRefund, TypeOK
    <3>3. QED
      BY <2>3, <3>1, <3>2 DEF Counted, Held, Capturable
  <2>4. QED
    BY <1>1, <2>1, <2>2, <2>3 DEF BooksStep, books
<1>2. Support /\ [Next]_vars =>
        [\A p \in Pledge :
           status[p] # "ABSENT" =>
             \/ CanTransitionTo(status[p], status'[p])
             \/ /\ CanTransitionTo(status[p], "CAPTURED")
                /\ CanTransitionTo("CAPTURED", status'[p])]_vars
  BY <1>1, NextIsBooksStep DEF Support
<1>3. QED
  BY <1>2, SupportInvariant, PTL DEF Spec, StatusFollowsTable
LEMMA BooksStepTaken ==
  ASSUME TypeOK, BookedMoneyWasTaken, OutsideStays, BooksStep
  PROVE  BookedMoneyWasTaken'
<1>1. ASSUME NEW q \in Pledge, paidBy'[q] # NoPayment
      PROVE  /\ charged[paidBy'[q]] = "captured"
             /\ Charge[paidBy'[q]].order = q
             /\ paidBy'[q] \in Payment
  <2>1. CASE paidBy' = paidBy
    BY <1>1, <2>1 DEF BookedMoneyWasTaken, TypeOK
  <2>2. ASSUME NEW p \in Pledge, NEW m \in Payment, Counted(p, m) \/ Held(p, m)
        PROVE  /\ charged[paidBy'[q]] = "captured"
               /\ Charge[paidBy'[q]].order = q
               /\ paidBy'[q] \in Payment
    <3>1. paidBy' = [paidBy EXCEPT ![p] = m]
      BY <2>2 DEF Counted, Held, CountCapture, HoldForRefund
    <3>2. charged[m] = "captured" /\ Charge[m].order = p
      BY <2>2 DEF Counted, Held, Capturable
    <3>3. QED
      BY <1>1, <3>1, <3>2 DEF BookedMoneyWasTaken, TypeOK
  <2>3. QED
    BY <2>1, <2>2 DEF BooksStep, Inserted, Failed, books
<1>2. QED
  BY <1>1 DEF BookedMoneyWasTaken, OutsideStays

(* Only money the provider took for this very order is on the books.       *)
THEOREM BookedIsTaken == Spec => []BookedMoneyWasTaken
<1>1. Init => BookedMoneyWasTaken
  BY DEF Init, BookedMoneyWasTaken
<1>2. Support /\ BookedMoneyWasTaken /\ [Next]_vars => BookedMoneyWasTaken'
  BY NextIsBooksStep, OutsideIsMonotone, BooksStepTaken DEF Support
<1>3. QED
  BY <1>1, <1>2, SupportInvariant, PTL DEF Spec

(* What an event does, and that no later step undoes it.                   *)
Applied(e) ==
  LET p == Charge[e.payment].order IN
  /\ e.kind = "payment.captured" => status[p] \in CaptureApplied
  /\ e.kind = "payment.failed"   => status[p] \in CaptureApplied \cup {"FAILED"}

LEMMA AppliedStays ==
  ASSUME TypeOK, BooksStep, NEW e \in Event, Applied(e)
  PROVE  Applied(e)'
<1>1. Charge[e.payment].order \in Pledge
  BY DEF Event
<1>2. ASSUME NEW p \in Pledge, status[p] \in CaptureApplied
      PROVE  status'[p] \in CaptureApplied
  BY <1>2, BooksStepKeepsCapture
<1>3. ASSUME NEW p \in Pledge, status[p] = "FAILED"
      PROVE  status'[p] \in CaptureApplied \cup {"FAILED"}
  BY <1>3 DEF BooksStep, books, Inserted, Failed, Counted, Held, CountCapture,
              HoldForRefund, CaptureApplied, TypeOK
<1>4. QED
  BY <1>1, <1>2, <1>3 DEF Applied

LEMMA ProcessApplies ==
  ASSUME Support, BooksMatchStatus, NEW h \in Handler, Process(h),
         NEW e \in Event, delivery[h] = e
  PROVE  Applied(e)'
<1> DEFINE m == e.payment
           p == Charge[m].order
<1>1. Emitted(e) /\ m \in Payment /\ p \in Pledge
  BY DEF Support, EventsAreEmitted, Process, Event
<1>2. status[p] \in {"CREATED", "FAILED"} \cup CaptureApplied
  <2>1. charged[m] # "none"
    BY <1>1 DEF Emitted
  <2>2. request[p] = "open"
    BY <1>1, <2>1 DEF Support, PaidOrdersAreOpen
  <2>3. status[p] # "ABSENT"
    BY <1>1, <2>2 DEF Support, RowsFollowRequests
  <2>4. QED
    BY <1>1, <2>3 DEF BooksMatchStatus, CaptureApplied
<1>3. Apply(e)
  BY DEF Process
<1>4. CASE e.kind = "payment.captured"
  <2>1. ApplyCapture(p, m)
    BY <1>3, <1>4 DEF Apply
  <2>2. status'[p] \in CaptureApplied
    <3>1. \/ status[p] \in CaptureApplied /\ status' = status
          \/ status' = [status EXCEPT ![p] = "CAPTURED"]
          \/ status' = [status EXCEPT ![p] = "REFUND_PENDING"]
      BY <2>1 DEF ApplyCapture, CountCapture, HoldForRefund, books
    <3>2. QED
      BY <1>1, <3>1 DEF CaptureApplied, Support, TypeOK
  <2>3. QED
    BY <1>4, <2>2 DEF Applied
<1>5. CASE e.kind = "payment.failed"
  <2>1. ApplyFailure(p)
    BY <1>3, <1>5 DEF Apply
  <2>2. status'[p] \in CaptureApplied \cup {"FAILED"}
    BY <1>1, <1>2, <2>1 DEF ApplyFailure, CanTransitionTo, Allowed, Terminal,
                            CaptureApplied, books, Support, TypeOK
  <2>3. QED
    BY <1>5, <2>2 DEF Applied
<1>6. CASE e.kind \notin {"payment.captured", "payment.failed"}
  BY <1>6 DEF Applied
<1>7. QED
  BY <1>4, <1>5, <1>6

(* Recording an event and applying it are one step, and nothing takes the  *)
(* effect back.                                                            *)
THEOREM RecordedApplied == Spec => []RecordedIsApplied
<1>1. RecordedIsApplied <=> \A e \in recorded : Applied(e)
  BY DEF RecordedIsApplied, Applied
<1>2. Init => RecordedIsApplied
  BY DEF Init, RecordedIsApplied
<1>3. ASSUME Support, BooksMatchStatus, RecordedIsApplied, [Next]_vars
      PROVE  RecordedIsApplied'
  <2>1. BooksStep
    BY <1>3, NextIsBooksStep
  <2>2. ASSUME NEW e \in recorded
        PROVE  Applied(e)'
    <3>1. e \in Event /\ Applied(e)
      BY <1>1, <1>3 DEF Support, TypeOK
    <3>2. QED
      BY <1>3, <2>1, <3>1, AppliedStays DEF Support
  <2>3. ASSUME NEW h \in Handler, Process(h)
        PROVE  RecordedIsApplied'
    <3>1. recorded' = recorded \cup {delivery[h]} /\ delivery[h] \in Event
      BY <1>3, <2>3 DEF Process, Support, EventsAreEmitted
    <3>2. \A e \in Event : delivery[h] = e => Applied(e)'
      BY <1>3, <2>3, ProcessApplies
    <3>3. \A e \in recorded' : Applied(e)'
      BY <2>2, <3>1, <3>2
    <3>4. QED
      BY <3>3 DEF RecordedIsApplied, Applied
  <2>4. CASE recorded' = recorded
    <3>1. \A e \in recorded' : Applied(e)'
      BY <2>2, <2>4
    <3>2. QED
      BY <3>1 DEF RecordedIsApplied, Applied
  <2>5. recorded' = recorded \/ \E h \in Handler : Process(h)
    BY <1>3 DEF Next, vars, webhookVars, SetLive, DeadlineNears, RefusePledge,
                InsertPledge, CreateOrder, AttachOrder, CreateDies,
                ConfirmApply, ConfirmFails, ConfirmFetch, Pay, LoseKey, Receive,
                RejectDuplicate, RollBack, Release, Crash
  <2>6. QED
    BY <2>3, <2>4, <2>5
<1>4. QED
  BY <1>2, <1>3, SupportInvariant, BooksCorrect, PTL DEF Spec

----------------------------------------------------------------------------
(* The service implements PledgeOutcome.                                   *)

LEMMA OutcomeInit == Init => Outcome!Init
BY DEF Init, Outcome!Init, Fate, CaptureApplied

LEMMA OutcomeStep ==
  ASSUME TypeOK, BooksStep
  PROVE  Outcome!Next \/ UNCHANGED <<[p \in Pledge |-> Fate(p)], raised, claimed>>
<1>1. CASE UNCHANGED books
  BY <1>1 DEF books, Fate
<1>2. ASSUME NEW p \in Pledge, Inserted(p) \/ Failed(p)
      PROVE  UNCHANGED <<[q \in Pledge |-> Fate(q)], raised, claimed>>
  BY <1>2 DEF Inserted, Failed, Fate, CaptureApplied, TypeOK
<1>3. ASSUME NEW p \in Pledge, NEW m \in Payment, Counted(p, m)
      PROVE  Outcome!Count(p)
  <2> DEFINE t == Body[p].tier
  <2>1. claimed' = [u \in Tier |-> IF u = t THEN claimed[u] + 1 ELSE claimed[u]]
    <3>1. claimed' = IF t = NoTier THEN claimed ELSE [claimed EXCEPT ![t] = @ + 1]
      BY <1>3 DEF Counted, CountCapture
    <3>2. DOMAIN claimed = Tier /\ claimed = [u \in Tier |-> claimed[u]]
      BY DEF TypeOK
    <3>3. CASE t = NoTier
      BY <3>1, <3>2, <3>3
    <3>4. CASE t # NoTier
      BY <3>1, <3>2, <3>4
    <3> QED
      BY <3>3, <3>4
  <2>2. ASSUME t \in Tier, TierInfo[t].limit # Unlimited
        PROVE  claimed[t] < TierInfo[t].limit
    <3>1. claimed[t] \in Nat /\ TierInfo[t].limit \in Nat
      BY <2>2 DEF TypeOK
    <3>2. ~(claimed[t] >= TierInfo[t].limit)
      BY <1>3, <2>2 DEF Counted, MustHold, SoldOut
    <3> QED
      BY <3>1, <3>2
  <2> DEFINE fates == [q \in Pledge |-> Fate(q)]
  <2>3. fates[p] = "unpaid"
    BY <1>3 DEF Counted, Capturable, CaptureApplied, Fate
  <2>4. fates' = [fates EXCEPT ![p] = "counted"]
    <3>1. status' = [status EXCEPT ![p] = "CAPTURED"]
      BY <1>3 DEF Counted, CountCapture
    <3>2. \A q \in Pledge : Fate(q)' = IF q = p THEN "counted" ELSE Fate(q)
      BY <3>1 DEF Fate, CaptureApplied, TypeOK
    <3> QED
      BY <3>2
  <2>5. raised' = [raised EXCEPT ![Body[p].campaign] = @ + Body[p].amount]
    BY <1>3 DEF Counted, CountCapture
  <2> QED
    BY <2>1, <2>2, <2>3, <2>4, <2>5 DEF Outcome!Count
<1>4. ASSUME NEW p \in Pledge, NEW m \in Payment, Held(p, m)
      PROVE  Outcome!Owe(p)
  BY <1>4 DEF Held, Capturable, HoldForRefund, Outcome!Owe, Fate,
              CaptureApplied, TypeOK
<1>5. QED
  BY <1>1, <1>2, <1>3, <1>4 DEF BooksStep, Outcome!Next

(* Whatever is delivered, repeated, lost or rolled back, each pledge is    *)
(* decided once, and the total and the tier's claims move with the         *)
(* decision.                                                               *)
THEOREM ImplementsOutcome == Spec => DecidesOnce
<1>1. Support /\ [Next]_vars =>
        [Outcome!Next]_<<[p \in Pledge |-> Fate(p)], raised, claimed>>
  BY NextIsBooksStep, OutcomeStep DEF Support
<1>2. QED
  BY OutcomeInit, <1>1, SupportInvariant, PTL DEF Spec, DecidesOnce, Outcome!Spec
----------------------------------------------------------------------------
(* The counters that are kept beside the pledges, campaigns.raised_amount, *)
(* campaigns.backer_count and reward_tiers.claimed_count: they are never   *)
(* recomputed, so that they agree with the captured pledges is an          *)
(* invariant over all of history. One step counts at most one pledge, and  *)
(* only one that was not counted; the cardinalities then move as the       *)
(* counters do.                                                            *)

(* A step that is not a capture leaves the captured pledges alone.         *)
Quiet == /\ UNCHANGED <<raised, backers, claimed>>
         /\ \A p \in Pledge : status'[p] \in {"CAPTURED", "SETTLED"}
                                <=> status[p] \in {"CAPTURED", "SETTLED"}

LEMMA QuietOrCounted ==
  ASSUME TypeOK, BooksStep
  PROVE  Quiet \/ \E p \in Pledge, m \in Payment : Counted(p, m)
<1>1. CASE UNCHANGED books
  BY <1>1 DEF books, Quiet
<1>2. ASSUME NEW p \in Pledge, Inserted(p) \/ Failed(p)
      PROVE  Quiet
  BY <1>2 DEF Inserted, Failed, Quiet, TypeOK
<1>3. ASSUME NEW p \in Pledge, NEW m \in Payment, Held(p, m)
      PROVE  Quiet
  BY <1>3 DEF Held, Capturable, HoldForRefund, Quiet, TypeOK
<1>4. QED
  BY <1>1, <1>2, <1>3 DEF BooksStep

LEMMA QuietSets ==
  ASSUME Quiet
  PROVE  /\ \A c \in Campaign : CountedFor(c)' = CountedFor(c)
         /\ \A t \in Tier : ClaimsOn(t)' = ClaimsOn(t)
BY DEF Quiet, CountedFor, ClaimsOn

LEMMA CountedStatus ==
  ASSUME TypeOK, NEW p \in Pledge, NEW m \in Payment, Counted(p, m)
  PROVE  /\ status' = [status EXCEPT ![p] = "CAPTURED"]
         /\ status[p] \notin {"CAPTURED", "SETTLED"}
BY DEF Counted, Capturable, CountCapture

(* A count adds its own pledge to its own campaign and tier.               *)
LEMMA CountedSets ==
  ASSUME TypeOK, NEW p \in Pledge, NEW m \in Payment, Counted(p, m)
  PROVE  /\ \A c \in Campaign :
              /\ p \notin CountedFor(c)
              /\ CountedFor(c)' = IF Body[p].campaign = c
                                  THEN CountedFor(c) \cup {p}
                                  ELSE CountedFor(c)
         /\ \A t \in Tier :
              /\ p \notin ClaimsOn(t)
              /\ ClaimsOn(t)' = IF Body[p].tier = t THEN ClaimsOn(t) \cup {p}
                                ELSE ClaimsOn(t)
<1>1. /\ status' = [status EXCEPT ![p] = "CAPTURED"]
      /\ status[p] \notin {"CAPTURED", "SETTLED"}
  BY CountedStatus
<1>2. \A q \in Pledge : status'[q] \in {"CAPTURED", "SETTLED"}
                         <=> q = p \/ status[q] \in {"CAPTURED", "SETTLED"}
  BY <1>1 DEF TypeOK
<1>3. ASSUME NEW c \in Campaign
      PROVE  /\ p \notin CountedFor(c)
             /\ CountedFor(c)' = IF Body[p].campaign = c
                                 THEN CountedFor(c) \cup {p}
                                 ELSE CountedFor(c)
  BY <1>1, <1>2 DEF CountedFor
<1>4. ASSUME NEW t \in Tier
      PROVE  /\ p \notin ClaimsOn(t)
             /\ ClaimsOn(t)' = IF Body[p].tier = t THEN ClaimsOn(t) \cup {p}
                               ELSE ClaimsOn(t)
  BY <1>1, <1>2 DEF ClaimsOn
<1>5. QED
  BY <1>3, <1>4

LEMMA CountedClaims ==
  ASSUME TypeOK, NEW p \in Pledge, NEW m \in Payment, Counted(p, m),
         NEW t \in Tier
  PROVE  claimed'[t] = IF Body[p].tier = t THEN claimed[t] + 1 ELSE claimed[t]
<1>1. claimed' = IF Body[p].tier = NoTier THEN claimed
                 ELSE [claimed EXCEPT ![Body[p].tier] = @ + 1]
  BY DEF Counted, CountCapture
<1>2. claimed \in [Tier -> Nat] /\ NoTier # t
  BY DEF TypeOK
<1>3. Body[p].tier \in Tier \cup {NoTier}
  BY BodyTyped
<1>4. CASE Body[p].tier = NoTier
  BY <1>1, <1>2, <1>4
<1>5. CASE Body[p].tier \in Tier
  <2>1. claimed' = [claimed EXCEPT ![Body[p].tier] = @ + 1]
    BY <1>1, <1>5
  <2>2. QED
    BY <1>2, <1>5, <2>1
<1>6. QED
  BY <1>3, <1>4, <1>5

LEMMA LimitTyped ==
  ASSUME NEW t \in Tier
  PROVE  TierInfo[t].limit \in Nat \cup {Unlimited}
<1>1. TierInfo[t] \in [campaign : Campaign, min : Nat,
                       limit : Nat \cup {Unlimited}]
  OBVIOUS
<1>2. QED
  BY <1>1

----------------------------------------------------------------------------
(* claimed_count.                                                          *)

LEMMA ClaimsFinite ==
  ASSUME NEW t \in Tier
  PROVE  IsFiniteSet(ClaimsOn(t)) /\ Cardinality(ClaimsOn(t)) \in Nat
<1>1. ClaimsOn(t) \subseteq Pledge
  BY DEF ClaimsOn
<1>2. IsFiniteSet(ClaimsOn(t))
  BY <1>1, FS_Subset
<1>3. QED
  BY <1>2, FS_CardinalityType

LEMMA BooksStepClaims ==
  ASSUME TypeOK, ClaimedIsCaptured, BooksStep
  PROVE  ClaimedIsCaptured'
<1>1. CASE Quiet
  BY <1>1, QuietSets DEF ClaimedIsCaptured, Quiet
<1>2. ASSUME NEW p \in Pledge, NEW m \in Payment, Counted(p, m), NEW t \in Tier
      PROVE  claimed'[t] = Cardinality(ClaimsOn(t)')
  <2>1. claimed[t] = Cardinality(ClaimsOn(t))
    BY DEF ClaimedIsCaptured
  <2>2. CASE Body[p].tier = t
    <3>1. claimed'[t] = claimed[t] + 1
      BY <1>2, <2>2, CountedClaims
    <3>2. Cardinality(ClaimsOn(t) \cup {p}) = Cardinality(ClaimsOn(t)) + 1
      BY <1>2, CountedSets, ClaimsFinite, FS_AddElement
    <3>3. QED
      BY <1>2, <2>1, <2>2, <3>1, <3>2, CountedSets
  <2>3. CASE Body[p].tier # t
    <3>1. claimed'[t] = claimed[t]
      BY <1>2, <2>3, CountedClaims
    <3>2. QED
      BY <1>2, <2>1, <2>3, <3>1, CountedSets
  <2>4. QED
    BY <2>2, <2>3
<1>3. QED
  BY <1>1, <1>2, QuietOrCounted DEF ClaimedIsCaptured

(* A tier's claimed_count is the number of captured pledges on it.         *)
THEOREM ClaimedCorrect == Spec => []ClaimedIsCaptured
<1>1. Init => ClaimedIsCaptured
  <2>1. ASSUME Init, NEW t \in Tier
        PROVE  claimed[t] = Cardinality(ClaimsOn(t))
    <3>1. ClaimsOn(t) = {}
      BY <2>1 DEF Init, ClaimsOn
    <3>2. QED
      BY <2>1, <3>1, FS_EmptySet DEF Init
  <2>2. QED
    BY <2>1 DEF ClaimedIsCaptured
<1>2. Support /\ ClaimedIsCaptured /\ [Next]_vars => ClaimedIsCaptured'
  BY NextIsBooksStep, BooksStepClaims DEF Support
<1>3. QED
  BY <1>1, <1>2, SupportInvariant, PTL DEF Spec

LEMMA BooksStepOversold ==
  ASSUME TypeOK, TierNotOversold, BooksStep
  PROVE  TierNotOversold'
<1>1. CASE Quiet
  BY <1>1 DEF TierNotOversold, Quiet
<1>2. ASSUME NEW p \in Pledge, NEW m \in Payment, Counted(p, m), NEW t \in Tier,
             TierInfo[t].limit # Unlimited
      PROVE  claimed'[t] <= TierInfo[t].limit
  <2>1. /\ claimed[t] \in Nat /\ TierInfo[t].limit \in Nat
        /\ claimed[t] <= TierInfo[t].limit
    BY <1>2, LimitTyped DEF TypeOK, TierNotOversold
  <2>2. CASE Body[p].tier = t
    <3>1. ~(claimed[t] >= TierInfo[t].limit)
      <4>1. ~MustHold(p, m) /\ NoTier # t
        BY <1>2 DEF Counted
      <4>2. QED
        BY <1>2, <2>2, <4>1 DEF MustHold, SoldOut
    <3>2. claimed'[t] = claimed[t] + 1
      BY <1>2, <2>2, CountedClaims
    <3>3. QED
      BY <2>1, <3>1, <3>2
  <2>3. CASE Body[p].tier # t
    BY <1>2, <2>1, <2>3, CountedClaims
  <2>4. QED
    BY <2>2, <2>3
<1>3. QED
  BY <1>1, <1>2, QuietOrCounted DEF TierNotOversold

(* No tier is ever sold beyond its limit, however many checkouts race for  *)
(* its last slot.                                                          *)
THEOREM NeverOversold == Spec => []TierNotOversold
<1>1. Init => TierNotOversold
  <2>1. ASSUME Init, NEW t \in Tier, TierInfo[t].limit # Unlimited
        PROVE  claimed[t] <= TierInfo[t].limit
    BY <2>1, LimitTyped DEF Init
  <2>2. QED
    BY <2>1 DEF TierNotOversold
<1>2. Support /\ TierNotOversold /\ [Next]_vars => TierNotOversold'
  BY NextIsBooksStep, BooksStepOversold DEF Support
<1>3. QED
  BY <1>1, <1>2, SupportInvariant, PTL DEF Spec

----------------------------------------------------------------------------
(* The reasons for a refund.                                               *)

LEMMA ClaimsOnlyGrow ==
  ASSUME TypeOK, BooksStep, NEW t \in Tier, SoldOut(t)
  PROVE  SoldOut(t)'
<1>1. CASE Quiet
  BY <1>1 DEF Quiet, SoldOut
<1>2. ASSUME NEW p \in Pledge, NEW m \in Payment, Counted(p, m)
      PROVE  SoldOut(t)'
  <2>1. claimed'[t] \in {claimed[t], claimed[t] + 1} /\ claimed[t] \in Nat
    BY <1>2, CountedClaims DEF TypeOK
  <2>2. TierInfo[t].limit \in Nat /\ claimed[t] >= TierInfo[t].limit
    BY LimitTyped DEF SoldOut
  <2>3. claimed'[t] >= TierInfo[t].limit
    BY <2>1, <2>2
  <2>4. QED
    BY <2>3 DEF SoldOut
<1>3. QED
  BY <1>1, <1>2, QuietOrCounted

LEMMA BooksStepReason ==
  ASSUME TypeOK, RefundHasReason, BooksStep
  PROVE  RefundHasReason'
<1>1. ASSUME NEW q \in Pledge, status'[q] = "REFUND_PENDING"
      PROVE  MustHold(q, paidBy[q])' /\ Body[q].tier \in Tier \cup {NoTier}
  <2>1. ASSUME NEW m \in Payment, MustHold(q, m), paidBy'[q] = m
        PROVE  MustHold(q, paidBy[q])'
    BY <2>1, ClaimsOnlyGrow, BodyTyped DEF MustHold
  <2>2. CASE status[q] = "REFUND_PENDING"
    <3>1. paidBy'[q] = paidBy[q]
      BY <2>2, BooksStepKeepsCapture DEF CaptureApplied
    <3>2. MustHold(q, paidBy[q])
      BY <2>2 DEF RefundHasReason, MustHold
    <3>3. QED
      BY <3>1, <3>2, ClaimsOnlyGrow, BodyTyped DEF MustHold
  <2>3. CASE status[q] # "REFUND_PENDING"
    <3>1. PICK m \in Payment : Held(q, m)
      <4>1. ~UNCHANGED books /\ \A p \in Pledge : ~Inserted(p) /\ ~Failed(p)
        BY <1>1, <2>3 DEF books, Inserted, Failed, TypeOK
      <4>2. \A p \in Pledge, m \in Payment : ~Counted(p, m)
        BY <1>1, <2>3, CountedStatus, ZenonT(60) DEF TypeOK
      <4>3. PICK p \in Pledge, m \in Payment : Held(p, m)
        BY <4>1, <4>2 DEF BooksStep
      <4>4. p = q
        BY <1>1, <2>3, <4>3, OthersStay
      <4>5. QED
        BY <4>3, <4>4
    <3>2. MustHold(q, m) /\ paidBy'[q] = m
      BY <3>1 DEF Held, HoldForRefund, TypeOK
    <3>3. QED
      BY <2>1, <3>2, BodyTyped
  <2>4. QED
    BY <2>2, <2>3, BodyTyped
<1>2. QED
  BY <1>1 DEF RefundHasReason, MustHold, SoldOut

(* Money is handed back only for a mismatch or a tier that stays sold out. *)
THEOREM RefundsHaveReasons == Spec => []RefundHasReason
<1>1. Init => RefundHasReason
  BY DEF Init, RefundHasReason
<1>2. Support /\ RefundHasReason /\ [Next]_vars => RefundHasReason'
  BY NextIsBooksStep, BooksStepReason DEF Support
<1>3. QED
  BY <1>1, <1>2, SupportInvariant, PTL DEF Spec

----------------------------------------------------------------------------
(* raised_amount.                                                          *)

LEMMA PaiseOfNone == Paise({}) = {}
BY DEF Paise

(* One more pledge adds its amount.                                        *)
LEMMA PaiseOfOneMore ==
  ASSUME NEW S \in SUBSET Pledge, NEW p \in Pledge, p \notin S,
         IsFiniteSet(Paise(S))
  PROVE  /\ IsFiniteSet(Paise(S \cup {p}))
         /\ Cardinality(Paise(S \cup {p})) = Cardinality(Paise(S)) + Body[p].amount
<1> DEFINE Mine == {p} \X (1..Body[p].amount)
<1>1. Paise(S \cup {p}) = Paise(S) \cup Mine
  BY DEF Paise
<1>2. Paise(S) \cap Mine = {}
  BY DEF Paise
<1>3. Body[p].amount \in Nat /\ 1 \in Int /\ Body[p].amount \in Int
  BY BodyTyped
<1>4. IsFiniteSet({p}) /\ Cardinality({p}) = 1
  BY FS_Singleton
<1>5. /\ IsFiniteSet(1..Body[p].amount)
      /\ Cardinality(1..Body[p].amount) = Body[p].amount
  <2>1. \A n \in Nat : IsFiniteSet(1..n) /\ Cardinality(1..n) = n
    BY FS_Interval, SMTT(30)
  <2>2. QED
    BY <1>3, <2>1
<1>6. IsFiniteSet(Mine) /\ Cardinality(Mine) = 1 * Body[p].amount
  BY <1>4, <1>5, FS_Product
<1>7. Cardinality(Paise(S)) \in Nat
  BY FS_CardinalityType
<1>8. /\ IsFiniteSet(Paise(S) \cup Mine)
      /\ Cardinality(Paise(S) \cup Mine)
           = Cardinality(Paise(S)) + Cardinality(Mine) - Cardinality({})
  BY <1>2, <1>6, FS_Union
<1>9. Cardinality({}) = 0
  BY FS_EmptySet
<1> HIDE DEF Mine
<1>10. Cardinality(Paise(S) \cup Mine) = Cardinality(Paise(S)) + Body[p].amount
  BY <1>3, <1>6, <1>7, <1>8, <1>9
<1>11. QED
  BY <1>1, <1>8, <1>10

RaisedInductive ==
  \A c \in Campaign : /\ IsFiniteSet(Paise(CountedFor(c)))
                      /\ raised[c] = Cardinality(Paise(CountedFor(c)))

LEMMA BooksStepRaised ==
  ASSUME TypeOK, RaisedInductive, BooksStep
  PROVE  RaisedInductive'
<1>1. CASE Quiet
  <2>1. \A c \in Campaign : Paise(CountedFor(c))' = Paise(CountedFor(c))
    BY <1>1, QuietSets DEF Paise
  <2>2. QED
    BY <1>1, <2>1 DEF RaisedInductive, Quiet
<1>2. ASSUME NEW p \in Pledge, NEW m \in Payment, Counted(p, m),
             NEW c \in Campaign
      PROVE  /\ IsFiniteSet(Paise(CountedFor(c))')
             /\ raised'[c] = Cardinality(Paise(CountedFor(c))')
  <2>1. /\ IsFiniteSet(Paise(CountedFor(c)))
        /\ raised[c] = Cardinality(Paise(CountedFor(c)))
    BY DEF RaisedInductive
  <2>2. CountedFor(c) \in SUBSET Pledge /\ p \notin CountedFor(c)
    BY <1>2, CountedSets DEF CountedFor
  <2>3. CASE Body[p].campaign = c
    <3>1. Paise(CountedFor(c))' = Paise(CountedFor(c) \cup {p})
      BY <1>2, <2>3, CountedSets DEF Paise
    <3>2. raised'[c] = raised[c] + Body[p].amount
      BY <1>2, <2>3 DEF Counted, CountCapture, TypeOK
    <3>3. QED
      BY <2>1, <2>2, <3>1, <3>2, PaiseOfOneMore
  <2>4. CASE Body[p].campaign # c
    <3>1. Paise(CountedFor(c))' = Paise(CountedFor(c))
      BY <1>2, <2>4, CountedSets DEF Paise
    <3>2. raised'[c] = raised[c]
      BY <1>2, <2>4 DEF Counted, CountCapture, TypeOK
    <3>3. QED
      BY <2>1, <3>1, <3>2
  <2>5. QED
    BY <2>3, <2>4
<1>3. QED
  BY <1>1, <1>2, QuietOrCounted DEF RaisedInductive

(* The total a campaign shows is the sum of its captured pledges.          *)
THEOREM RaisedCorrect == Spec => []RaisedIsCaptured
<1>1. Init => RaisedInductive
  <2>1. ASSUME Init, NEW c \in Campaign
        PROVE  Paise(CountedFor(c)) = {}
    <3>1. CountedFor(c) = {}
      BY <2>1 DEF Init, CountedFor
    <3>2. QED
      BY <3>1, PaiseOfNone
  <2>2. ASSUME Init, NEW c \in Campaign
        PROVE  raised[c] = 0
    BY <2>2 DEF Init
  <2>3. QED
    BY <2>1, <2>2, FS_EmptySet DEF RaisedInductive
<1>2. Support /\ RaisedInductive /\ [Next]_vars => RaisedInductive'
  BY NextIsBooksStep, BooksStepRaised DEF Support
<1>3. RaisedInductive => RaisedIsCaptured
  BY DEF RaisedInductive, RaisedIsCaptured
<1>4. QED
  BY <1>1, <1>2, <1>3, SupportInvariant, PTL DEF Spec

----------------------------------------------------------------------------
(* backer_count.                                                           *)

BackersOf(c) == { Body[p].backer : p \in CountedFor(c) }

BackersInductive ==
  \A c \in Campaign : /\ IsFiniteSet(BackersOf(c))
                      /\ Cardinality(BackersOf(c)) <= backers[c]
                      /\ backers[c] <= Cardinality(CountedFor(c))

LEMMA CountedFinite ==
  ASSUME NEW c \in Campaign
  PROVE  IsFiniteSet(CountedFor(c)) /\ Cardinality(CountedFor(c)) \in Nat
<1>1. CountedFor(c) \subseteq Pledge
  BY DEF CountedFor
<1>2. IsFiniteSet(CountedFor(c))
  BY <1>1, FS_Subset
<1>3. QED
  BY <1>2, FS_CardinalityType

(* However stale the sub-select is, the count goes up by one, or the same  *)
(* backer is already counted and it stays.                                 *)
LEMMA CountedBackers ==
  ASSUME TypeOK, NEW p \in Pledge, NEW m \in Payment, Counted(p, m)
  PROVE  /\ \A c \in Campaign \ {Body[p].campaign} : backers'[c] = backers[c]
         /\ \/ backers'[Body[p].campaign] = backers[Body[p].campaign] + 1
            \/ /\ backers'[Body[p].campaign] = backers[Body[p].campaign]
               /\ Body[p].backer \in BackersOf(Body[p].campaign)
<1> DEFINE c0    == Body[p].campaign
           prior == { q \in Pledge \ {p} : /\ Body[q].campaign = c0
                                           /\ Body[q].backer = Body[p].backer
                                           /\ status[q] \in {"CAPTURED", "SETTLED"} }
<1>1. \/ backers' = [backers EXCEPT ![c0] = @ + 1]
      \/ prior # {} /\ UNCHANGED backers
  BY DEF Counted, CountCapture, CountBacker
<1>2. c0 \in Campaign /\ backers \in [Campaign -> Nat]
  BY BodyTyped DEF TypeOK
<1>3. prior # {} => Body[p].backer \in BackersOf(c0)
  BY DEF BackersOf, CountedFor
<1> HIDE DEF c0, prior
<1>4. /\ \A c \in Campaign \ {c0} : backers'[c] = backers[c]
      /\ \/ backers'[c0] = backers[c0] + 1
         \/ backers'[c0] = backers[c0] /\ Body[p].backer \in BackersOf(c0)
  BY <1>1, <1>2, <1>3
<1>5. QED
  BY <1>4 DEF c0

LEMMA BooksStepBackers ==
  ASSUME TypeOK, BackersInductive, BooksStep
  PROVE  BackersInductive'
<1>1. CASE Quiet
  <2>1. \A c \in Campaign : BackersOf(c)' = BackersOf(c)
    BY <1>1, QuietSets DEF BackersOf
  <2>2. QED
    BY <1>1, <2>1, QuietSets DEF BackersInductive, Quiet
<1>2. ASSUME NEW p \in Pledge, NEW m \in Payment, Counted(p, m),
             NEW c \in Campaign
      PROVE  /\ IsFiniteSet(BackersOf(c)')
             /\ Cardinality(BackersOf(c)') <= backers'[c]
             /\ backers'[c] <= Cardinality(CountedFor(c)')
  <2>1. /\ IsFiniteSet(BackersOf(c))
        /\ Cardinality(BackersOf(c)) <= backers[c]
        /\ backers[c] <= Cardinality(CountedFor(c))
        /\ backers[c] \in Nat
    BY DEF BackersInductive, TypeOK
  <2>2. /\ Cardinality(BackersOf(c)) \in Nat
        /\ IsFiniteSet(CountedFor(c)) /\ Cardinality(CountedFor(c)) \in Nat
    BY <2>1, CountedFinite, FS_CardinalityType
  <2>3. CASE Body[p].campaign # c
    <3>1. CountedFor(c)' = CountedFor(c) /\ backers'[c] = backers[c]
      BY <1>2, <2>3, CountedSets, CountedBackers
    <3>2. BackersOf(c)' = BackersOf(c)
      BY <3>1 DEF BackersOf
    <3>3. QED
      BY <2>1, <3>1, <3>2
  <2>4. CASE Body[p].campaign = c
    <3>1. CountedFor(c)' = CountedFor(c) \cup {p} /\ p \notin CountedFor(c)
      BY <1>2, <2>4, CountedSets
    <3>2. BackersOf(c)' = BackersOf(c) \cup {Body[p].backer}
      BY <3>1 DEF BackersOf
    <3>3. Cardinality(CountedFor(c)') = Cardinality(CountedFor(c)) + 1
      BY <2>2, <3>1, FS_AddElement
    <3>4. /\ IsFiniteSet(BackersOf(c)')
          /\ Cardinality(BackersOf(c)')
               = IF Body[p].backer \in BackersOf(c)
                 THEN Cardinality(BackersOf(c)) ELSE Cardinality(BackersOf(c)) + 1
      <4> DEFINE S == BackersOf(c)
                 b == Body[p].backer
      <4> HIDE DEF S, b
      <4>1. IsFiniteSet(S)
        BY <2>1 DEF S
      <4>2. /\ IsFiniteSet(S \cup {b})
            /\ Cardinality(S \cup {b}) = IF b \in S THEN Cardinality(S)
                                        ELSE Cardinality(S) + 1
        BY <4>1, FS_AddElement
      <4>3. QED
        BY <3>2, <4>2 DEF S, b
    <3>5. \/ backers'[c] = backers[c] + 1
          \/ backers'[c] = backers[c] /\ Body[p].backer \in BackersOf(c)
      BY <1>2, <2>4, CountedBackers
    <3>6. QED
      BY <2>1, <2>2, <3>3, <3>4, <3>5
  <2>5. QED
    BY <2>3, <2>4
<1>3. QED
  BY <1>1, <1>2, QuietOrCounted DEF BackersInductive

(* backer_count never falls below the number of distinct backers, nor does *)
(* it exceed the number of captured pledges, although the sub-select that  *)
(* looks for an earlier pledge may run on an old snapshot.                 *)
THEOREM BackersCorrect == Spec => []BackersBounded
<1>1. Init => BackersInductive
  <2>1. ASSUME Init, NEW c \in Campaign
        PROVE  CountedFor(c) = {} /\ BackersOf(c) = {} /\ backers[c] = 0
    BY <2>1 DEF Init, CountedFor, BackersOf
  <2>2. ASSUME Init, NEW c \in Campaign
        PROVE  /\ IsFiniteSet(BackersOf(c))
               /\ Cardinality(BackersOf(c)) <= backers[c]
               /\ backers[c] <= Cardinality(CountedFor(c))
    <3>1. Cardinality({}) = 0 /\ IsFiniteSet({})
      BY FS_EmptySet
    <3>2. CountedFor(c) = {} /\ BackersOf(c) = {} /\ backers[c] = 0
      BY <2>1, <2>2
    <3>3. QED
      BY <3>1, <3>2
  <2>3. QED
    BY <2>2 DEF BackersInductive
<1>2. Support /\ BackersInductive /\ [Next]_vars => BackersInductive'
  BY NextIsBooksStep, BooksStepBackers DEF Support
<1>3. BackersInductive => BackersBounded
  BY DEF BackersInductive, BackersBounded, BackersOf
<1>4. QED
  BY <1>1, <1>2, <1>3, SupportInvariant, PTL DEF Spec

(* Total, slots and limit of every campaign and tier are right together.   *)
THEOREM TotalsCorrect == Spec => []TotalsAreCaptured
<1>1. RaisedIsCaptured /\ ClaimedIsCaptured /\ TierNotOversold
        => TotalsAreCaptured
  BY DEF TotalsAreCaptured
<1>2. QED
  BY <1>1, RaisedCorrect, ClaimedCorrect, NeverOversold, PTL
============================================================================
