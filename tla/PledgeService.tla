--------------------------- MODULE PledgeService ---------------------------
(***************************************************************************)
(* The pledge service of CineFund: internal/pledge/service.go with the     *)
(* SQL of repo.go and the ledger of ledger.go, running in any number of    *)
(* request goroutines against one Postgres, one Redis and the payment      *)
(* provider.                                                               *)
(*                                                                         *)
(* The unit of atomicity is what the code makes atomic: one database       *)
(* transaction (TxRunner.Do), one Redis command, one call to the provider. *)
(* Between two of them anything else may run, and the goroutine may die.   *)
(* A transaction takes its row locks (pledge, tier, campaign) before it    *)
(* reads what it decides on and keeps them to the commit, so it is one     *)
(* step; the one read that is not under a lock, the EXISTS of              *)
(* IncrementCampaignRaised, may miss what "unseen" holds (CountBacker).    *)
(*                                                                         *)
(* A pledge is named by the request that creates it, an order by its       *)
(* pledge, and a webhook event by the payment and what happened to it.     *)
(*                                                                         *)
(* A definition whose name ends in _Something beside the one it is a       *)
(* faulty variant of takes no part in the specification: put in the place  *)
(* of the definition that follows, it shows that a property can fail.      *)
(***************************************************************************)
EXTENDS Integers, Sequences, FiniteSets

CONSTANTS
  Campaign, User, Tier, Pledge, Payment,
  Handler,     \* goroutines serving POST /webhooks/razorpay
  NoTier,      \* a pledge without a reward tier
  NoPayment,   \* provider_payment_id IS NULL
  NoEvent,     \* a handler that serves no delivery
  NoTxn,       \* no ledger transaction refers to the pledge
  Unlimited,   \* quantity_limit IS NULL
  Creator,     \* [Campaign -> User]
  TierInfo,    \* the reward_tiers rows
  Body,        \* the body of each POST /campaigns/{id}/pledges
  Charge,      \* the payment attempts the provider may make
  Subscribed,  \* the event types the webhook is subscribed to
  Faults       \* the failures that may happen

EventKind == {"payment.authorized", "payment.captured", "payment.failed"}

FaultKind == {"redis_error", "redis_loss", "del_error", "tx_error",
              "commit_unknown", "crash", "provider_down", "attach_error"}

ASSUME SetsAssumption ==
  /\ NoTier \notin Tier
  /\ NoPayment \notin Payment
  /\ Unlimited \notin Nat
  /\ Subscribed \subseteq EventKind
  /\ Faults \subseteq FaultKind
  /\ IsFiniteSet(Pledge)

Event == [payment : Payment, kind : Subscribed]

ASSUME NoEventAssumption == NoEvent \notin Event

(* Handler.CreatePledge lets no amount below 1 through, and a payment the  *)
(* provider reports has moved some money.                                  *)
ASSUME RowsAssumption ==
  /\ Creator \in [Campaign -> User]
  /\ TierInfo \in [Tier -> [campaign : Campaign, min : Nat,
                            limit : Nat \cup {Unlimited}]]
  /\ Body \in [Pledge -> [campaign : Campaign, backer : User,
                          tier : Tier \cup {NoTier}, amount : Nat \ {0}]]
  /\ Charge \in [Payment -> [order : Pledge, amount : Nat \ {0},
                             fee : Nat, noted : BOOLEAN]]

Txn == [credit : {"CAMPAIGN_ESCROW", "BACKER_REFUND_PAYABLE"},
        amount : Nat, fee : Nat]

ASSUME NoTxnAssumption == NoTxn \notin Txn

VARIABLES
  window,    \* [Campaign -> ...] campaigns.status and deadline
  raised,    \* [Campaign -> Nat] campaigns.raised_amount
  backers,   \* [Campaign -> Nat] campaigns.backer_count
  claimed,   \* [Tier -> Nat] reward_tiers.claimed_count
  request,   \* [Pledge -> ...] where the goroutine of CreatePledge is
  status,    \* [Pledge -> ...] pledges.status, "ABSENT" when there is no row
  attached,  \* the pledges whose provider_order_id is set
  paidBy,    \* [Pledge -> ...] pledges.provider_payment_id
  ledger,    \* [Pledge -> ...] ledger_transactions by reference_id
  outbox,    \* [Pledge -> Seq(topic)] outbox rows by aggregate_id
  recorded,  \* payment_events
  keys,      \* the idempotency keys held in Redis
  charged,   \* [Payment -> ...] what the provider knows
  acked,     \* the events the provider has had a 2xx for
  step,      \* [Handler -> ...] where a webhook goroutine is
  delivery,  \* [Handler -> ...] the event it serves
  fetched,   \* [Pledge -> ...] the payment a ConfirmPayment has read
  unseen     \* [Pledge -> ...] captures a transaction under way may not see

books       == <<raised, backers, claimed, status, paidBy, ledger, outbox>>
webhookVars == <<recorded, keys, acked, step, delivery>>
vars == <<window, raised, backers, claimed, request, status, attached, paidBy,
          ledger, outbox, recorded, keys, charged, acked, step, delivery,
          fetched, unseen>>

----------------------------------------------------------------------------
(* The state machine of a pledge (model.go).                               *)

Status == {"CREATED", "AUTHORIZED", "CAPTURED", "FAILED", "REFUND_PENDING",
           "REFUNDED", "REFUND_FAILED", "SETTLED"}

Allowed ==
  { <<"CREATED", "AUTHORIZED">>, <<"CREATED", "CAPTURED">>,
    <<"CREATED", "FAILED">>, <<"CREATED", "REFUND_PENDING">>,
    <<"AUTHORIZED", "CAPTURED">>, <<"AUTHORIZED", "FAILED">>,
    <<"FAILED", "CAPTURED">>,
    <<"CAPTURED", "REFUND_PENDING">>, <<"CAPTURED", "SETTLED">>,
    <<"REFUND_PENDING", "REFUNDED">>, <<"REFUND_PENDING", "REFUND_FAILED">> }

CanTransitionTo(from, to) == from = to \/ <<from, to>> \in Allowed

Terminal == {"REFUNDED", "SETTLED", "REFUND_FAILED"}

CaptureApplied_Forgets ==
  {"SETTLED", "REFUND_PENDING", "REFUNDED", "REFUND_FAILED"}

(* The statuses applyCapture treats as "already applied".                  *)
CaptureApplied == {"CAPTURED", "SETTLED", "REFUND_PENDING", "REFUNDED",
                   "REFUND_FAILED"}

SoldOut(t) == /\ TierInfo[t].limit # Unlimited
              /\ claimed[t] >= TierInfo[t].limit

----------------------------------------------------------------------------
TypeOK ==
  /\ window   \in [Campaign -> {"DRAFT", "OPEN", "CLOSING"}]
  /\ raised   \in [Campaign -> Nat]
  /\ backers  \in [Campaign -> Nat]
  /\ claimed  \in [Tier -> Nat]
  /\ request  \in [Pledge -> {"new", "refused", "clashed", "inserted",
                              "failed", "ordered", "open", "dead"}]
  /\ status   \in [Pledge -> Status \cup {"ABSENT"}]
  /\ attached \subseteq Pledge
  /\ paidBy   \in [Pledge -> Payment \cup {NoPayment}]
  /\ ledger   \in [Pledge -> Txn \cup {NoTxn}]
  /\ outbox   \in [Pledge -> Seq({"pledge.captured",
                                  "pledge.refund_required"})]
  /\ recorded \subseteq Event
  /\ keys     \subseteq Event
  /\ charged  \in [Payment -> {"none", "failed", "captured"}]
  /\ acked    \subseteq Event
  /\ step     \in [Handler -> {"idle", "apply", "release"}]
  /\ delivery \in [Handler -> Event \cup {NoEvent}]
  /\ fetched  \in [Pledge -> Payment \cup {NoPayment}]
  /\ unseen   \in [Pledge -> SUBSET Pledge]

Init ==
  /\ window   = [c \in Campaign |-> "DRAFT"]
  /\ raised   = [c \in Campaign |-> 0]
  /\ backers  = [c \in Campaign |-> 0]
  /\ claimed  = [t \in Tier |-> 0]
  /\ request  = [p \in Pledge |-> "new"]
  /\ status   = [p \in Pledge |-> "ABSENT"]
  /\ attached = {}
  /\ paidBy   = [p \in Pledge |-> NoPayment]
  /\ ledger   = [p \in Pledge |-> NoTxn]
  /\ outbox   = [p \in Pledge |-> << >>]
  /\ recorded = {}
  /\ keys     = {}
  /\ charged  = [m \in Payment |-> "none"]
  /\ acked    = {}
  /\ step     = [h \in Handler |-> "idle"]
  /\ delivery = [h \in Handler |-> NoEvent]
  /\ fetched  = [p \in Pledge |-> NoPayment]
  /\ unseen   = [p \in Pledge |-> {}]

----------------------------------------------------------------------------
(* The campaign around the pledges.                                        *)

(* Store.SetLive: any status becomes LIVE, and COALESCE keeps a deadline   *)
(* that is already set.                                                    *)
SetLive(c) ==
  /\ window' = [window EXCEPT ![c] = IF @ = "DRAFT" THEN "OPEN" ELSE @]
  /\ UNCHANGED <<raised, backers, claimed, request, status, attached, paidBy,
                 ledger, outbox, webhookVars, charged, fetched, unseen>>

(* The clock reaches deadline - 60s. Nothing in the code changes the       *)
(* campaign's status afterwards.                                           *)
DeadlineNears(c) ==
  /\ window[c] = "OPEN"
  /\ window' = [window EXCEPT ![c] = "CLOSING"]
  /\ UNCHANGED <<raised, backers, claimed, request, status, attached, paidBy,
                 ledger, outbox, webhookVars, charged, fetched, unseen>>

----------------------------------------------------------------------------
(* CreatePledge: a transaction, a call to the provider, an UPDATE.         *)

(* The checks of the first transaction, under the campaign and tier locks. *)
MayPledge(p) ==
  LET b == Body[p] IN
  /\ window[b.campaign] = "OPEN"
  /\ Creator[b.campaign] # b.backer
  /\ b.tier # NoTier =>
       /\ TierInfo[b.tier].campaign = b.campaign
       /\ b.amount >= TierInfo[b.tier].min
       /\ ~SoldOut(b.tier)

(* provider_order_id is UNIQUE and InsertPledge writes '' into it, so a    *)
(* row whose order is not attached yet takes the one '' there can be.      *)
OrderIdTaken == \E q \in Pledge : status[q] # "ABSENT" /\ q \notin attached

RefusePledge(p) ==
  /\ request[p] = "new"
  /\ ~MayPledge(p)
  /\ request' = [request EXCEPT ![p] = "refused"]
  /\ UNCHANGED <<window, books, attached, webhookVars, charged, fetched,
                 unseen>>

InsertPledge(p) ==
  /\ request[p] = "new"
  /\ MayPledge(p)
  /\ \/ /\ ~OrderIdTaken
        /\ request' = [request EXCEPT ![p] = "inserted"]
        /\ status'  = [status EXCEPT ![p] = "CREATED"]
     \/ /\ OrderIdTaken
        /\ request' = [request EXCEPT ![p] = "clashed"]
        /\ UNCHANGED status
  /\ UNCHANGED <<window, raised, backers, claimed, attached, paidBy, ledger,
                 outbox, webhookVars, charged, fetched, unseen>>

(* The order is made, or the call fails and the pledge is left behind.     *)
CreateOrder(p) ==
  /\ request[p] = "inserted"
  /\ \/ request' = [request EXCEPT ![p] = "ordered"]
     \/ /\ "provider_down" \in Faults
        /\ request' = [request EXCEPT ![p] = "failed"]
  /\ UNCHANGED <<window, books, attached, webhookVars, charged, fetched,
                 unseen>>

(* A failed attach is only logged: the backer gets the order id anyway.    *)
AttachOrder(p) ==
  /\ request[p] = "ordered"
  /\ request' = [request EXCEPT ![p] = "open"]
  /\ \/ attached' = attached \cup {p}
     \/ /\ "attach_error" \in Faults
        /\ UNCHANGED attached
  /\ UNCHANGED <<window, books, webhookVars, charged, fetched, unseen>>

(* The process dies, or the client's context is cancelled, between steps.  *)
CreateDies(p) ==
  /\ "crash" \in Faults
  /\ request[p] \in {"inserted", "ordered"}
  /\ request' = [request EXCEPT ![p] = "dead"]
  /\ UNCHANGED <<window, books, attached, webhookVars, charged, fetched,
                 unseen>>

----------------------------------------------------------------------------
(* The provider (external): a backer who was given the order id pays or    *)
(* fails to, any number of times, and each outcome is an event.            *)

Pay(m) ==
  /\ charged[m] = "none"
  /\ request[Charge[m].order] = "open"
  /\ \E outcome \in {"failed", "captured"} :
       charged' = [charged EXCEPT ![m] = outcome]
  /\ UNCHANGED <<window, books, request, attached, webhookVars, fetched,
                 unseen>>

Emitted(e) ==
  \/ e.kind = "payment.captured"   /\ charged[e.payment] = "captured"
  \/ e.kind = "payment.failed"     /\ charged[e.payment] = "failed"
  \/ e.kind = "payment.authorized" /\ charged[e.payment] # "none"

----------------------------------------------------------------------------
(* applyCapture and what it calls, as one effect on the books.             *)

CountBacker_ByPledge(p) ==
  backers' = IF \E q \in Pledge \ {p} : /\ Body[q].campaign = Body[p].campaign
                                        /\ Body[q].backer = Body[p].backer
                                        /\ status[q] # "ABSENT"
             THEN backers
             ELSE [backers EXCEPT ![Body[p].campaign] = @ + 1]

(* A transaction that may capture p, or the call before it, is under way.  *)
UnderWay(p) ==
  \/ fetched[p] # NoPayment
  \/ \E h \in Handler : /\ step[h] = "apply"
                        /\ delivery[h].kind = "payment.captured"
                        /\ Charge[delivery[h].payment].order = p

Begin(p) == unseen' = IF UnderWay(p) THEN unseen
                      ELSE [unseen EXCEPT ![p] = {}]

(* A capture of q commits while p's transaction runs: p's sub-select below *)
(* may have its snapshot from before. Pledges on one tier take turns on    *)
(* the tier's row lock first, and see each other.                          *)
Overtakes(q, p) ==
  /\ UnderWay(p) /\ q # p
  /\ Body[p].tier = NoTier \/ Body[p].tier # Body[q].tier
  /\ status[q] # "CAPTURED" /\ status'[q] = "CAPTURED"

Overtake ==
  unseen' = [p \in Pledge |->
               unseen[p] \cup { q \in Pledge : Overtakes(q, p) }]

(* UPDATE campaigns. backer_count grows unless another pledge of the same  *)
(* backer is already captured; that sub-select runs on the snapshot taken  *)
(* when the statement began, before it waited for the campaign row, so it  *)
(* may miss a capture that was committed in between.                       *)
CountBacker(p) ==
  LET c     == Body[p].campaign
      prior == { q \in Pledge \ {p} : /\ Body[q].campaign = c
                                      /\ Body[q].backer = Body[p].backer
                                      /\ status[q] \in {"CAPTURED", "SETTLED"} }
  IN \/ /\ prior \subseteq unseen[p]
        /\ backers' = [backers EXCEPT ![c] = @ + 1]
     \/ prior # {} /\ UNCHANGED backers

(* uq_ledger_txn_reference: the first transaction of a pledge stays.       *)
RecordCapture(p, credit, amount, fee) ==
  ledger' = IF ledger[p] # NoTxn THEN ledger
            ELSE [ledger EXCEPT ![p] = [credit |-> credit, amount |-> amount,
                                        fee |-> fee]]

InsertOutbox(p, topic) == outbox' = [outbox EXCEPT ![p] = Append(@, topic)]

MustHold_Early(p, m) ==
  \/ Charge[m].amount # Body[p].amount
  \/ /\ Body[p].tier # NoTier /\ TierInfo[Body[p].tier].limit # Unlimited
     /\ claimed[Body[p].tier] + 1 >= TierInfo[Body[p].tier].limit

MustHold(p, m) ==
  \/ Charge[m].amount # Body[p].amount
  \/ Body[p].tier # NoTier /\ SoldOut(Body[p].tier)

CountCapture(p, m) ==
  /\ status' = [status EXCEPT ![p] = "CAPTURED"]
  /\ paidBy' = [paidBy EXCEPT ![p] = m]
  /\ raised' = [raised EXCEPT ![Body[p].campaign] = @ + Body[p].amount]
  /\ CountBacker(p)
  /\ claimed' = IF Body[p].tier = NoTier THEN claimed
                ELSE [claimed EXCEPT ![Body[p].tier] = @ + 1]
  /\ RecordCapture(p, "CAMPAIGN_ESCROW", Body[p].amount, Charge[m].fee)
  /\ InsertOutbox(p, "pledge.captured")

HoldForRefund_GivesSlotBack(p, m) ==
  /\ status'  = [status EXCEPT ![p] = "REFUND_PENDING"]
  /\ paidBy'  = [paidBy EXCEPT ![p] = m]
  /\ claimed' = IF Body[p].tier = NoTier THEN claimed
                ELSE [claimed EXCEPT ![Body[p].tier] = @ - 1]
  /\ RecordCapture(p, "BACKER_REFUND_PAYABLE", Charge[m].amount, Charge[m].fee)
  /\ InsertOutbox(p, "pledge.refund_required")
  /\ UNCHANGED <<raised, backers>>

HoldForRefund(p, m) ==
  /\ status' = [status EXCEPT ![p] = "REFUND_PENDING"]
  /\ paidBy' = [paidBy EXCEPT ![p] = m]
  /\ RecordCapture(p, "BACKER_REFUND_PAYABLE", Charge[m].amount, Charge[m].fee)
  /\ InsertOutbox(p, "pledge.refund_required")
  /\ UNCHANGED <<raised, backers, claimed>>

(* provider_payment_id is UNIQUE.                                          *)
PaymentIdTaken(p, m) == \E q \in Pledge \ {p} : paidBy[q] = m

ApplyCapture(p, m) ==
  \/ status[p] \in CaptureApplied /\ UNCHANGED books
  \/ /\ status[p] \notin CaptureApplied
     /\ CanTransitionTo(status[p], "CAPTURED")
     /\ ~PaymentIdTaken(p, m)
     /\ IF MustHold(p, m) THEN HoldForRefund(p, m) ELSE CountCapture(p, m)

ApplyFailure_Stale(p) ==
  /\ status' = [status EXCEPT ![p] = "FAILED"]
  /\ UNCHANGED <<raised, backers, claimed, paidBy, ledger, outbox>>

(* A failure that arrives after the capture is ignored.                    *)
ApplyFailure(p) ==
  \/ /\ status[p] # "FAILED" /\ status[p] \notin Terminal
     /\ CanTransitionTo(status[p], "FAILED")
     /\ status' = [status EXCEPT ![p] = "FAILED"]
     /\ UNCHANGED <<raised, backers, claimed, paidBy, ledger, outbox>>
  \/ /\ \/ status[p] \in Terminal \cup {"FAILED"}
        \/ ~CanTransitionTo(status[p], "FAILED")
     /\ UNCHANGED books
----------------------------------------------------------------------------
(* HandleWebhook: SETNX, the transaction, and DEL when it failed.          *)

(* The provider delivers an event any number of times, also after a 2xx.   *)
(* A key that is already there answers 200 at once; a Redis error is only  *)
(* logged, and the SETNX may have been carried out all the same.           *)
Receive(h, e) ==
  /\ step[h] = "idle"
  /\ Emitted(e)
  /\ \/ /\ e \in keys
        /\ acked' = acked \cup {e}
        /\ UNCHANGED <<keys, step, delivery, unseen>>
     \/ /\ \/ e \notin keys /\ keys' = keys \cup {e}
           \/ /\ "redis_error" \in Faults
              /\ keys' \in {keys, keys \cup {e}}
        /\ step'     = [step EXCEPT ![h] = "apply"]
        /\ delivery' = [delivery EXCEPT ![h] = e]
        /\ Begin(Charge[e.payment].order)
        /\ UNCHANGED acked
  /\ UNCHANGED <<window, books, request, attached, recorded, charged, fetched>>

Finish(h) ==
  /\ step'     = [step EXCEPT ![h] = "idle"]
  /\ delivery' = [delivery EXCEPT ![h] = NoEvent]

(* resolvePledge: by order id, else by the pledge id in the order's notes. *)
Resolvable(m) == Charge[m].order \in attached \/ Charge[m].noted

Apply_SkipsUnknown(e) ==
  LET m == e.payment
      p == Charge[m].order
  IN \/ e.kind = "payment.captured" /\ Resolvable(m) /\ ApplyCapture(p, m)
     \/ e.kind = "payment.failed"   /\ Resolvable(m) /\ ApplyFailure(p)
     \/ /\ e.kind = "payment.authorized" \/ ~Resolvable(m)
        /\ UNCHANGED books

(* What the transaction writes once the event row is in.                   *)
Apply(e) ==
  LET m == e.payment
      p == Charge[m].order
  IN \/ e.kind = "payment.captured" /\ Resolvable(m) /\ ApplyCapture(p, m)
     \/ e.kind = "payment.failed"   /\ Resolvable(m) /\ ApplyFailure(p)
     \/ /\ e.kind \notin {"payment.captured", "payment.failed"}
        /\ UNCHANGED books

(* The event id is in payment_events: 200, and the key stays.              *)
RejectDuplicate(h) ==
  /\ step[h] = "apply"
  /\ delivery[h] \in recorded
  /\ acked' = acked \cup {delivery[h]}
  /\ Finish(h)
  /\ UNCHANGED <<window, books, request, attached, recorded, keys, charged,
                 fetched, unseen>>

(* The event row and all its effects commit together. The answer may be    *)
(* lost, and a commit whose outcome is unknown is handled as a failure.    *)
Process(h) ==
  /\ step[h] = "apply"
  /\ delivery[h] \notin recorded
  /\ recorded' = recorded \cup {delivery[h]}
  /\ Apply(delivery[h])
  /\ Overtake
  /\ \/ acked' = acked \cup {delivery[h]} /\ Finish(h)
     \/ "crash" \in Faults /\ UNCHANGED acked /\ Finish(h)
     \/ /\ "commit_unknown" \in Faults
        /\ step' = [step EXCEPT ![h] = "release"]
        /\ UNCHANGED <<acked, delivery>>
  /\ UNCHANGED <<window, request, attached, keys, charged, fetched>>

(* The transaction rolls back: the pledge cannot be found, or Postgres     *)
(* failed, deadlocked or lost the connection.                              *)
RollBack(h) ==
  /\ step[h] = "apply"
  /\ \/ "tx_error" \in Faults
     \/ /\ delivery[h] \notin recorded
        /\ delivery[h].kind # "payment.authorized"
        /\ ~Resolvable(delivery[h].payment)
  /\ step' = [step EXCEPT ![h] = "release"]
  /\ UNCHANGED <<window, books, request, attached, recorded, keys, charged,
                 acked, delivery, fetched, unseen>>

Release_KeepsKey(h) ==
  /\ step[h] = "release"
  /\ Finish(h)
  /\ UNCHANGED <<window, books, request, attached, recorded, keys, charged,
                 acked, fetched, unseen>>

(* DEL the key, whoever set it, and answer 5xx. A failed DEL is logged.    *)
Release(h) ==
  /\ step[h] = "release"
  /\ \/ keys' = keys \ {delivery[h]}
     \/ "del_error" \in Faults /\ UNCHANGED keys
  /\ Finish(h)
  /\ UNCHANGED <<window, books, request, attached, recorded, charged, acked,
                 fetched, unseen>>

Crash(h) ==
  /\ "crash" \in Faults
  /\ step[h] # "idle"
  /\ Finish(h)
  /\ UNCHANGED <<window, books, request, attached, recorded, keys, charged,
                 acked, fetched, unseen>>

(* The 24 h TTL, an eviction or a restart of Redis.                        *)
LoseKey(e) ==
  /\ "redis_loss" \in Faults
  /\ e \in keys
  /\ keys' = keys \ {e}
  /\ UNCHANGED <<window, books, request, attached, recorded, charged, acked,
                 step, delivery, fetched, unseen>>

----------------------------------------------------------------------------
(* ConfirmPayment: the provider is asked first, the transaction follows.   *)

ConfirmFetch_AnyStatus(p, m) ==
  /\ request[p] = "open"
  /\ fetched[p] = NoPayment
  /\ Charge[m].order = p
  /\ charged[m] # "none"
  /\ fetched' = [fetched EXCEPT ![p] = m]
  /\ Begin(p)
  /\ UNCHANGED <<window, books, request, attached, webhookVars, charged>>

(* findCapture returns a captured payment of the order: the one the caller *)
(* names if it is captured, else the first. Without one nothing is written.*)
ConfirmFetch(p, m) ==
  /\ request[p] = "open"
  /\ fetched[p] = NoPayment
  /\ Charge[m].order = p
  /\ charged[m] = "captured"
  /\ fetched' = [fetched EXCEPT ![p] = m]
  /\ Begin(p)
  /\ UNCHANGED <<window, books, request, attached, webhookVars, charged>>

(* The caller is the backer; the order must be the one attached.           *)
ConfirmApply(p) ==
  /\ fetched[p] # NoPayment
  /\ p \in attached
  /\ ApplyCapture(p, fetched[p])
  /\ Overtake
  /\ fetched' = [fetched EXCEPT ![p] = NoPayment]
  /\ UNCHANGED <<window, request, attached, webhookVars, charged>>

(* ORDER_MISMATCH, a rollback, or the goroutine dies.                      *)
ConfirmFails(p) ==
  /\ fetched[p] # NoPayment
  /\ p \notin attached \/ Faults \cap {"tx_error", "crash"} # {}
  /\ fetched' = [fetched EXCEPT ![p] = NoPayment]
  /\ UNCHANGED <<window, books, request, attached, webhookVars, charged, unseen>>

----------------------------------------------------------------------------
Next ==
  \/ \E c \in Campaign : SetLive(c) \/ DeadlineNears(c)
  \/ \E p \in Pledge : \/ RefusePledge(p) \/ InsertPledge(p) \/ CreateOrder(p)
                       \/ AttachOrder(p) \/ CreateDies(p)
                       \/ ConfirmApply(p) \/ ConfirmFails(p)
                       \/ \E m \in Payment : ConfirmFetch(p, m)
  \/ \E m \in Payment : Pay(m)
  \/ \E e \in Event : LoseKey(e) \/ \E h \in Handler : Receive(h, e)
  \/ \E h \in Handler : \/ RejectDuplicate(h) \/ Process(h) \/ RollBack(h)
                        \/ Release(h) \/ Crash(h)

Spec == Init /\ [][Next]_vars

(* The provider redelivers an event until it has had a 2xx for it; a       *)
(* goroutine takes its next step, and Postgres does not fail for ever.     *)
Redeliver(e) == e \notin acked /\ \E h \in Handler : Receive(h, e)

WebhookFairness ==
  /\ \A e \in Event : SF_vars(Redeliver(e))
  /\ \A h \in Handler : /\ SF_vars(Process(h))
                        /\ WF_vars(RejectDuplicate(h))
                        /\ WF_vars(Release(h))

FairSpec == Spec /\ WebhookFairness

----------------------------------------------------------------------------
(* Properties.                                                             *)

CountedFor(c) == { p \in Pledge : /\ Body[p].campaign = c
                                  /\ status[p] \in {"CAPTURED", "SETTLED"} }

ClaimsOn(t) == { p \in Pledge : /\ Body[p].tier = t
                                /\ status[p] \in {"CAPTURED", "SETTLED"} }

(* The money of a set of pledges, one element for each paisa.              *)
Paise(S) == UNION { {p} \X (1..Body[p].amount) : p \in S }

(* The running total of a campaign is the sum of its captured pledges,     *)
(* however often, in whatever order and by whichever of the webhook and    *)
(* the checkout callback their payments are reported (applyCapture,        *)
(* IncrementCampaignRaised).                                               *)
RaisedIsCaptured ==
  \A c \in Campaign : raised[c] = Cardinality(Paise(CountedFor(c)))

(* A tier's claimed_count is the number of captured pledges on it.         *)
ClaimedIsCaptured ==
  \A t \in Tier : claimed[t] = Cardinality(ClaimsOn(t))

(* chk_tier_not_oversold never fires, although several open checkouts race *)
(* for the last slot and the check in CreatePledge is stale by then.       *)
TierNotOversold ==
  \A t \in Tier : TierInfo[t].limit # Unlimited
                    => claimed[t] <= TierInfo[t].limit

(* The three counters that a page shows and that chk_tier_not_oversold     *)
(* guards are those of the captured pledges, after any race of webhooks,   *)
(* callbacks and checkouts.                                                *)
TotalsAreCaptured == RaisedIsCaptured /\ ClaimedIsCaptured /\ TierNotOversold

(* backer_count lies between the number of distinct backers and the        *)
(* number of captured pledges.                                             *)
BackersBounded ==
  \A c \in Campaign :
    /\ Cardinality({Body[p].backer : p \in CountedFor(c)}) <= backers[c]
    /\ backers[c] <= Cardinality(CountedFor(c))

(* The ledger and the outbox tell the same story as the pledge row: one    *)
(* transaction and one message for a capture, with the pledged amount in   *)
(* the campaign's escrow or the paid amount owed to the backer, and        *)
(* nothing for a pledge whose payment was never taken.                     *)
BooksMatchStatus ==
  \A p \in Pledge :
    \/ /\ status[p] = "CAPTURED"
       /\ ledger[p] = [credit |-> "CAMPAIGN_ESCROW", amount |-> Body[p].amount,
                       fee |-> Charge[paidBy[p]].fee]
       /\ outbox[p] = <<"pledge.captured">>
    \/ /\ status[p] = "REFUND_PENDING"
       /\ ledger[p] = [credit |-> "BACKER_REFUND_PAYABLE",
                       amount |-> Charge[paidBy[p]].amount,
                       fee |-> Charge[paidBy[p]].fee]
       /\ outbox[p] = <<"pledge.refund_required">>
    \/ /\ status[p] \in {"ABSENT", "CREATED", "FAILED"}
       /\ paidBy[p] = NoPayment /\ ledger[p] = NoTxn /\ outbox[p] = << >>

(* Money on the books was taken by the provider, for this very order; so   *)
(* no payment is ever booked for two pledges.                              *)
BookedMoneyWasTaken ==
  \A p \in Pledge :
    paidBy[p] # NoPayment => /\ charged[paidBy[p]] = "captured"
                             /\ Charge[paidBy[p]].order = p

(* An event in payment_events has had its effect: the row and the effect   *)
(* commit together, so a crash or a rollback loses both or neither, and a  *)
(* later event never undoes it.                                            *)
RecordedIsApplied ==
  \A e \in recorded :
    LET p == Charge[e.payment].order IN
    /\ e.kind = "payment.captured" => status[p] \in CaptureApplied
    /\ e.kind = "payment.failed"   => status[p] \in CaptureApplied \cup {"FAILED"}

(* Money is handed back only for a reason that still holds: the amounts    *)
(* differ or every slot of the tier is taken.                              *)
RefundHasReason ==
  \A p \in Pledge :
    status[p] = "REFUND_PENDING" =>
      \/ Charge[paidBy[p]].amount # Body[p].amount
      \/ Body[p].tier # NoTier /\ SoldOut(Body[p].tier)

(* A step moves a pledge along the transition table of model.go, or along  *)
(* two of its edges at once (holdForRefund passes through CAPTURED).       *)
StatusFollowsTable ==
  [][\A p \in Pledge :
       status[p] # "ABSENT" =>
         \/ CanTransitionTo(status[p], status'[p])
         \/ /\ CanTransitionTo(status[p], "CAPTURED")
            /\ CanTransitionTo("CAPTURED", status'[p])]_vars

(* Once a capture is applied, no later event, retry or confirmation        *)
(* changes the pledge, the payment it holds or its ledger transaction.     *)
CaptureIsFinal ==
  [][\A p \in Pledge :
       status[p] \in CaptureApplied =>
         UNCHANGED <<status[p], paidBy[p], ledger[p], outbox[p]>>]_vars

(* The service implements PledgeOutcome: each pledge is counted or owed    *)
(* back at most once, and the campaign's total and the tier's claims move  *)
(* with that decision, into a slot that is free, and by nothing else.      *)
Fate(p) ==
  IF status[p] \notin CaptureApplied THEN "unpaid"
  ELSE IF status[p] \in {"CAPTURED", "SETTLED"} THEN "counted"
  ELSE "owed"

Outcome == INSTANCE PledgeOutcome
             WITH CampaignOf <- [p \in Pledge |-> Body[p].campaign],
                  TierOf     <- [p \in Pledge |-> Body[p].tier],
                  AmountOf   <- [p \in Pledge |-> Body[p].amount],
                  Limited    <- { t \in Tier : TierInfo[t].limit # Unlimited },
                  Limit      <- [t \in Tier |-> TierInfo[t].limit],
                  fate       <- [p \in Pledge |-> Fate(p)],
                  total      <- raised

DecidesOnce == Outcome!Spec

(* docs/01-ARCHITECTURE.md: never 200 on a failure you did not record. An  *)
(* event the provider got a 2xx for is recorded, or is being processed.    *)
AckedIsRecorded ==
  \A e \in acked : e \in recorded \/ \E h \in Handler : delivery[h] = e

(* docs/01-ARCHITECTURE.md: recovery from a provider outage is automatic.  *)
(* A pledge whose order could not be made refuses no other backer.         *)
OutageRecovers ==
  [][\A p, q \in Pledge :
       request[p] = "failed" /\ request[q] = "new" => request'[q] # "clashed"]_vars

(* An event of the order was answered 200 as a duplicate of a delivery     *)
(* that fails: the provider does not come back with it.                    *)
LostToOverlap(p) ==
  \E e \in acked \ recorded :
    /\ e.kind = "payment.captured" /\ Charge[e.payment].order = p
    /\ \E h \in Handler : delivery[h] = e /\ step[h] = "release"

(* A payment the provider captured, and still has to be answered for, ends *)
(* up on the books whatever fails in between. The one exception without a  *)
(* crash or a failed DEL is the 200 that a redelivery gets while the first *)
(* delivery holds the key (HandleWebhook), when that one rolls back later. *)
PaidIsBooked ==
  \A m \in Payment :
    LET p == Charge[m].order IN
    charged[m] = "captured" /\ (\A e \in acked : e.payment # m)
      ~> (status[p] \in CaptureApplied \/ LostToOverlap(p))
============================================================================
