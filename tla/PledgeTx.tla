------------------------------ MODULE PledgeTx ------------------------------
(***************************************************************************)
(* The transactions of the pledge service statement by statement, with the *)
(* row locks Postgres gives them under READ COMMITTED: CreatePledge, the   *)
(* webhook's and the checkout callback's, and the statements of campaigns  *)
(* that wait for the same rows. PledgeService takes a transaction as one   *)
(* step; here is what that rests on.                                       *)
(*                                                                         *)
(* A webhook inserts its event first, whose foreign key takes the pledge's *)
(* row FOR KEY SHARE, and then asks for the same row FOR UPDATE. A write   *)
(* is seen by others when its transaction commits, so the columns change   *)
(* in Commit alone; what a statement computed is kept by the transaction.  *)
(* The accounts of the ledger are taken in one order, PLATFORM_ESCROW      *)
(* before any other, by every capture: one row stands for all of them.     *)
(***************************************************************************)
EXTENDS Integers, FiniteSets

CONSTANTS
  Campaign, User, Tier, Pledge,
  Call,       \* transactions of webhooks and confirmations
  NoTier, Free,
  Creator,    \* [Campaign -> User]
  Body,       \* [Pledge -> ...] what POST /campaigns/{id}/pledges asks for
  TierOf,     \* [Tier -> Campaign]
  Limit,      \* [Tier -> Nat] quantity_limit
  Kind,       \* [Call -> ...] what a call reports
  PledgeOf,   \* [Call -> Pledge]
  PaidRight,  \* the calls that report the pledged amount
  MaxRollbacks  \* bound of the rollbacks that are not a deadlock's

Tx == Pledge \cup Call   \* a pledge stands for the CreatePledge that makes it

Row == ({"pledge"} \X Pledge) \cup ({"tier"} \X Tier)
         \cup ({"campaign"} \X Campaign) \cup {<<"escrow", "INR">>}

Escrow == <<"escrow", "INR">>

ASSUME TxAssumption ==
  /\ Pledge \cap Call = {} /\ Free \notin Tx /\ NoTier \notin Tier
  /\ IsFiniteSet(Pledge)
  /\ Creator \in [Campaign -> User]
  /\ Body \in [Pledge -> [campaign : Campaign, backer : User,
                          tier : Tier \cup {NoTier}, amount : Nat \ {0}]]
  /\ TierOf \in [Tier -> Campaign] /\ Limit \in [Tier -> Nat \ {0}]
  /\ Kind \in [Call -> {"captured", "failed", "confirm"}]
  /\ PledgeOf \in [Call -> Pledge]
  /\ PaidRight \subseteq Call
  /\ MaxRollbacks \in Nat

VARIABLES
  live,       \* campaigns whose status is LIVE
  offered,    \* the reward_tiers rows there are
  status,     \* [Pledge -> ...] pledges.status, committed
  raised, backers,  \* [Campaign -> Nat] as committed
  claimed,    \* [Tier -> Nat] as committed
  lock,       \* [Row -> ...] who has a row FOR UPDATE or has written it
  share,      \* [Pledge -> SUBSET Call] who has it FOR KEY SHARE
  pc,         \* [Tx -> ...] the next statement of a transaction
  total,      \* [Call -> Nat] raised_amount as its UPDATE computed it
  seen,       \* [Call -> SUBSET Pledge] the captured pledges in the
              \* snapshot of that UPDATE
  rollbacks

columns == <<live, offered, status, raised, backers, claimed>>
vars    == <<columns, lock, share, pc, total, seen, rollbacks>>

----------------------------------------------------------------------------
CaptureApplied == {"CAPTURED", "REFUND_PENDING"}

(* A transaction that has begun and not ended.                             *)
Under == {"event", "pledge", "tier", "insert", "snapshot", "raise", "count",
          "hold", "commit_count", "commit_hold"}

(* Types; and only a transaction that is under way has a row.              *)
TypeOK ==
  /\ live      \subseteq Campaign
  /\ offered   \subseteq Tier
  /\ status    \in [Pledge -> {"ABSENT", "CREATED", "FAILED"}
                                \cup CaptureApplied]
  /\ raised    \in [Campaign -> Nat] /\ backers \in [Campaign -> Nat]
  /\ claimed   \in [Tier -> Nat]
  /\ lock      \in [Row -> Tx \cup {Free}]
  /\ share     \in [Pledge -> SUBSET Call]
  /\ pc        \in [Tx -> Under \cup {"begin", "done", "refused"}]
  /\ total     \in [Call -> Nat]
  /\ seen      \in [Call -> SUBSET Pledge]
  /\ rollbacks \in 0..MaxRollbacks
  /\ \A w \in Row : lock[w] # Free => pc[lock[w]] \in Under
  /\ \A p \in Pledge : \A x \in share[p] : pc[x] \in Under

Init ==
  /\ live      = {}
  /\ offered   = {}
  /\ status    = [p \in Pledge |-> "ABSENT"]
  /\ raised    = [c \in Campaign |-> 0]
  /\ backers   = [c \in Campaign |-> 0]
  /\ claimed   = [t \in Tier |-> 0]
  /\ lock      = [w \in Row |-> Free]
  /\ share     = [p \in Pledge |-> {}]
  /\ pc        = [x \in Tx |-> "begin"]
  /\ total     = [x \in Call |-> 0]
  /\ seen      = [x \in Call |-> {}]
  /\ rollbacks = 0

----------------------------------------------------------------------------
(* Locks.                                                                  *)

PledgeRow(p)   == <<"pledge", p>>
CampaignRow(p) == <<"campaign", Body[p].campaign>>
TierRow(p)     == <<"tier", Body[p].tier>>

(* As if the UPDATE of the campaign locked the pledges it counts.          *)
Wanted_AndPrior(x) ==
  LET p == IF x \in Call THEN PledgeOf[x] ELSE x IN
  CASE pc[x] = "begin" /\ x \in Pledge    -> CampaignRow(p)
    [] pc[x] \in {"event", "pledge"}      -> PledgeRow(p)
    [] pc[x] = "tier"                     -> TierRow(p)
    [] pc[x] = "snapshot"
         -> IF \E q \in Pledge : q # p /\ Body[q].backer = Body[p].backer
            THEN PledgeRow(CHOOSE q \in Pledge :
                             q # p /\ Body[q].backer = Body[p].backer)
            ELSE PledgeRow(p)
    [] pc[x] = "raise"                    -> CampaignRow(p)
    [] OTHER                              -> Escrow

(* The row the next statement of a transaction locks.                      *)
Wanted(x) ==
  LET p == IF x \in Call THEN PledgeOf[x] ELSE x IN
  CASE pc[x] = "begin" /\ x \in Pledge           -> CampaignRow(p)
    [] pc[x] \in {"event", "pledge", "snapshot"} -> PledgeRow(p)
    [] pc[x] = "tier"                            -> TierRow(p)
    [] pc[x] = "raise"                           -> CampaignRow(p)
    [] OTHER                                     -> Escrow

Locking == {"event", "pledge", "tier", "snapshot", "raise", "count", "hold"}

(* Who must end before the next statement of x can run. FOR KEY SHARE      *)
(* waits for FOR UPDATE, and FOR UPDATE for both.                          *)
Blockers(x) ==
  IF pc[x] \notin Locking /\ ~(x \in Pledge /\ pc[x] = "begin") THEN {}
  ELSE ({lock[Wanted(x)]} \ {Free, x})
         \cup (IF pc[x] = "pledge" THEN share[PledgeOf[x]] \ {x} ELSE {})

Holds(x) == [lock EXCEPT ![Wanted(x)] = x]

(* COMMIT or ROLLBACK gives back every lock.                               *)
Released(x) ==
  /\ lock'  = [w \in Row |-> IF lock[w] = x THEN Free ELSE lock[w]]
  /\ share' = [p \in Pledge |-> share[p] \ {x}]

Goes(x, where) == pc' = [pc EXCEPT ![x] = where]

(* Those x waits for, and those they wait for, n times over.               *)
Ahead(x) ==
  LET far[n \in 0..Cardinality(Tx)] ==
        IF n = 0 THEN Blockers(x)
        ELSE UNION { {y} \cup Blockers(y) : y \in far[n - 1] }
  IN  far[Cardinality(Tx)]

----------------------------------------------------------------------------
(* Campaigns: two statements that wait for the campaign's row.             *)

(* Handler.SetLive reads the campaign, whose creator never changes, and    *)
(* updates it.                                                             *)
SetLive(c) ==
  /\ lock[<<"campaign", c>>] = Free
  /\ live' = live \cup {c}
  /\ UNCHANGED <<offered, status, raised, backers, claimed, lock, share, pc,
                 total, seen, rollbacks>>

(* The foreign key of the new tier waits for a SELECT ... FOR UPDATE of    *)
(* the campaign, which only CreatePledge does, but not for an UPDATE. The  *)
(* campaign may be live already.                                           *)
AddTier(t) ==
  /\ t \notin offered
  /\ lock[<<"campaign", TierOf[t]>>] \notin Pledge
  /\ offered' = offered \cup {t}
  /\ UNCHANGED <<live, status, raised, backers, claimed, lock, share, pc,
                 total, seen, rollbacks>>

----------------------------------------------------------------------------
(* CreatePledge: the campaign, the tier, the INSERT.                       *)

Refuse(p) == Goes(p, "refused") /\ Released(p) /\ UNCHANGED columns

LockCampaign(p) ==
  LET b == Body[p] IN
  /\ pc[p] = "begin" /\ Blockers(p) = {}
  /\ \/ /\ b.campaign \in live /\ Creator[b.campaign] # b.backer
        /\ lock' = Holds(p)
        /\ Goes(p, IF b.tier = NoTier THEN "insert" ELSE "tier")
        /\ UNCHANGED <<columns, share>>
     \/ /\ b.campaign \notin live \/ Creator[b.campaign] = b.backer
        /\ Refuse(p)
  /\ UNCHANGED <<total, seen, rollbacks>>

SoldOut(t) == claimed[t] >= Limit[t]

LockTier(p) ==
  LET t == Body[p].tier IN
  /\ pc[p] = "tier" /\ Blockers(p) = {}
  /\ \/ /\ t \in offered /\ TierOf[t] = Body[p].campaign /\ ~SoldOut(t)
        /\ lock' = Holds(p)
        /\ Goes(p, "insert")
        /\ UNCHANGED <<columns, share>>
     \/ /\ t \notin offered \/ TierOf[t] # Body[p].campaign \/ SoldOut(t)
        /\ Refuse(p)
  /\ UNCHANGED <<total, seen, rollbacks>>

Insert(p) ==
  /\ pc[p] = "insert"
  /\ status' = [status EXCEPT ![p] = "CREATED"]
  /\ Released(p) /\ Goes(p, "done")
  /\ UNCHANGED <<live, offered, raised, backers, claimed, total, seen,
                 rollbacks>>

----------------------------------------------------------------------------
(* A webhook or a confirmation: the pledge, the tier, the campaign, the    *)
(* ledger.                                                                 *)

(* There is an order to pay for, so the pledge is committed.               *)
Begin(x) ==
  /\ pc[x] = "begin" /\ status[PledgeOf[x]] # "ABSENT"
  /\ Goes(x, IF Kind[x] = "confirm" THEN "pledge" ELSE "event")
  /\ UNCHANGED <<columns, lock, share, total, seen, rollbacks>>

(* InsertPaymentEvent, with the pledge id of the order's notes.            *)
InsertEvent(x) ==
  /\ pc[x] = "event" /\ Blockers(x) = {}
  /\ share' = [share EXCEPT ![PledgeOf[x]] = @ \cup {x}]
  /\ Goes(x, "pledge")
  /\ UNCHANGED <<columns, lock, total, seen, rollbacks>>

(* GetPledgeForUpdate, GetPledgeByOrderID. A failure is done with after    *)
(* one more UPDATE, a capture that was applied before at once.             *)
LockPledge(x) ==
  LET p == PledgeOf[x] IN
  /\ pc[x] = "pledge" /\ Blockers(x) = {}
  /\ \/ /\ Kind[x] = "failed" \/ status[p] \in CaptureApplied
        /\ status' = IF Kind[x] = "failed" /\ status[p] = "CREATED"
                     THEN [status EXCEPT ![p] = "FAILED"] ELSE status
        /\ Released(x) /\ Goes(x, "done")
     \/ /\ Kind[x] # "failed" /\ status[p] \notin CaptureApplied
        /\ lock' = Holds(x)
        /\ Goes(x, IF x \notin PaidRight THEN "hold"
                   ELSE IF Body[p].tier = NoTier THEN "snapshot" ELSE "tier")
        /\ UNCHANGED <<status, share>>
  /\ UNCHANGED <<live, offered, raised, backers, claimed, total, seen,
                 rollbacks>>

CheckTier_PlainRead(x) ==
  LET t == Body[PledgeOf[x]].tier IN
  /\ pc[x] = "tier"
  /\ Goes(x, IF SoldOut(t) THEN "hold" ELSE "snapshot")
  /\ UNCHANGED <<columns, lock, share, total, seen, rollbacks>>

(* GetTierForUpdate, and its limit.                                        *)
CheckTier(x) ==
  LET t == Body[PledgeOf[x]].tier IN
  /\ pc[x] = "tier" /\ Blockers(x) = {}
  /\ lock' = Holds(x)
  /\ Goes(x, IF SoldOut(t) THEN "hold" ELSE "snapshot")
  /\ UNCHANGED <<columns, share, total, seen, rollbacks>>

Captured_Any == { q \in Pledge : status[q] # "ABSENT" }

Captured == { q \in Pledge : status[q] = "CAPTURED" }

(* The UPDATE of the campaign begins: its snapshot is taken, for all of    *)
(* it, before it waits for the row.                                        *)
TakeSnapshot(x) ==
  /\ pc[x] = "snapshot" /\ Blockers(x) = {}
  /\ seen' = [seen EXCEPT ![x] = Captured]
  /\ Goes(x, "raise")
  /\ UNCHANGED <<columns, lock, share, total, rollbacks>>

Raise_Unlocked(x) ==
  LET b == Body[PledgeOf[x]] IN
  /\ pc[x] = "raise"
  /\ total' = [total EXCEPT ![x] = raised[b.campaign] + b.amount]
  /\ Goes(x, "count")
  /\ UNCHANGED <<columns, lock, share, seen, rollbacks>>

(* It has the row, in its latest version; the sub-select keeps the         *)
(* snapshot.                                                               *)
Raise(x) ==
  LET b == Body[PledgeOf[x]] IN
  /\ pc[x] = "raise" /\ Blockers(x) = {}
  /\ lock'  = Holds(x)
  /\ total' = [total EXCEPT ![x] = raised[b.campaign] + b.amount]
  /\ Goes(x, "count")
  /\ UNCHANGED <<columns, share, seen, rollbacks>>

(* recordCapture: GetOrCreateAccount locks the account it finds.           *)
TakeAccounts(x) ==
  /\ pc[x] \in {"count", "hold"} /\ Blockers(x) = {}
  /\ lock' = Holds(x)
  /\ Goes(x, IF pc[x] = "count" THEN "commit_count" ELSE "commit_hold")
  /\ UNCHANGED <<columns, share, total, seen, rollbacks>>

Forget(x) == /\ total' = [total EXCEPT ![x] = 0]
             /\ seen'  = [seen EXCEPT ![x] = {}]

KnownBacker(x) ==
  LET p == PledgeOf[x] IN
  \E q \in seen[x] \ {p} : /\ Body[q].campaign = Body[p].campaign
                           /\ Body[q].backer = Body[p].backer

CommitCount(x) ==
  LET p == PledgeOf[x]  c == Body[p].campaign  t == Body[p].tier IN
  /\ pc[x] = "commit_count"
  /\ status'  = [status EXCEPT ![p] = "CAPTURED"]
  /\ raised'  = [raised EXCEPT ![c] = total[x]]
  /\ backers' = IF KnownBacker(x) THEN backers
                ELSE [backers EXCEPT ![c] = @ + 1]
  /\ claimed' = IF t = NoTier THEN claimed ELSE [claimed EXCEPT ![t] = @ + 1]
  /\ Released(x) /\ Goes(x, "done") /\ Forget(x)
  /\ UNCHANGED <<live, offered, rollbacks>>

CommitHold(x) ==
  /\ pc[x] = "commit_hold"
  /\ status' = [status EXCEPT ![PledgeOf[x]] = "REFUND_PENDING"]
  /\ Released(x) /\ Goes(x, "done") /\ Forget(x)
  /\ UNCHANGED <<live, offered, raised, backers, claimed, rollbacks>>

----------------------------------------------------------------------------
(* Failures.                                                               *)

Abort_KeepsLocks(x) ==
  /\ Goes(x, IF x \in Call THEN "begin" ELSE "refused")
  /\ IF x \in Call THEN Forget(x) ELSE UNCHANGED <<total, seen>>
  /\ UNCHANGED <<columns, lock, share>>

(* A webhook is delivered again and a callback made again; the backer of a *)
(* pledge that was not made gets an error (as with an INSERT that meets    *)
(* the '' of another pledge whose order is not attached yet).              *)
Abort(x) ==
  /\ Released(x)
  /\ Goes(x, IF x \in Call THEN "begin" ELSE "refused")
  /\ IF x \in Call THEN Forget(x) ELSE UNCHANGED <<total, seen>>
  /\ UNCHANGED columns

Rollback(x) ==
  /\ pc[x] \in Under /\ rollbacks < MaxRollbacks
  /\ rollbacks' = rollbacks + 1
  /\ Abort(x)

(* Postgres finds a circle of waiting transactions and aborts one of them. *)
BreakDeadlock(x) ==
  /\ Blockers(x) # {} /\ x \in Ahead(x)
  /\ Abort(x)
  /\ UNCHANGED rollbacks

----------------------------------------------------------------------------
Runs(x) == IF x \in Pledge
           THEN LockCampaign(x) \/ LockTier(x) \/ Insert(x)
           ELSE \/ Begin(x) \/ InsertEvent(x) \/ LockPledge(x) \/ CheckTier(x)
                \/ TakeSnapshot(x) \/ Raise(x) \/ TakeAccounts(x)
                \/ CommitCount(x) \/ CommitHold(x)

Next == \/ \E c \in Campaign : SetLive(c)
        \/ \E t \in Tier : AddTier(t)
        \/ \E x \in Tx : Runs(x) \/ Rollback(x) \/ BreakDeadlock(x)

Spec == Init /\ [][Next]_vars

(* A transaction that can go on does, the deadlock detector runs, and the  *)
(* provider and the web client repeat what was not answered.               *)
TxFairness ==
  \A x \in Tx : WF_vars(Runs(x)) /\ WF_vars(BreakDeadlock(x))

FairSpec == Spec /\ TxFairness

----------------------------------------------------------------------------
(* Properties.                                                             *)

(* The locks keep a tier from being sold out twice: the check of the limit *)
(* holds until the transaction that made it has committed its claim.       *)
TierNotOversold ==
  \A t \in Tier : claimed[t] <= Limit[t]

Counted(c) == { p \in Captured : Body[p].campaign = c }

Backer(S) == { Body[p].backer : p \in S }

(* backer_count: the sub-select may miss a pledge of the same backer that  *)
(* commits while it waits for the campaign's row, never one on the same    *)
(* tier, and it counts no backer of a pledge that was not captured.        *)
BackersBounded ==
  \A c \in Campaign :
    /\ Cardinality(Backer(Counted(c))) <= backers[c]
    /\ backers[c] <= Cardinality({ <<Body[p].backer, Body[p].tier>> :
                                     p \in { q \in Counted(c) :
                                               Body[q].tier # NoTier } })
                       + Cardinality({ p \in Counted(c) :
                                         Body[p].tier = NoTier })

(* Nothing but two things make transactions wait for each other in a       *)
(* circle: CreatePledge, which locks the campaign before the tier where a  *)
(* capture does the opposite, and two webhooks of one pledge, which share  *)
(* its row before each wants it for itself.                                *)
DeadlocksAreKnown ==
  \A S \in SUBSET Call :
    (S # {} /\ \A x \in S : Blockers(x) \cap S # {}) =>
      \E x, y \in S : /\ x # y /\ PledgeOf[x] = PledgeOf[y]
                      /\ pc[x] = "pledge" /\ pc[y] = "pledge"
                      /\ {x, y} \subseteq share[PledgeOf[x]]

(* The transactions together implement PledgeOutcome: a payment is decided *)
(* once, and in that step the total grows by the pledged amount and a slot *)
(* that is free is claimed.                                                *)
Fate(p) == IF status[p] = "CAPTURED" THEN "counted"
           ELSE IF status[p] = "REFUND_PENDING" THEN "owed" ELSE "unpaid"

Outcome == INSTANCE PledgeOutcome
             WITH CampaignOf <- [p \in Pledge |-> Body[p].campaign],
                  TierOf     <- [p \in Pledge |-> Body[p].tier],
                  AmountOf   <- [p \in Pledge |-> Body[p].amount],
                  Limited    <- Tier,
                  fate       <- [p \in Pledge |-> Fate(p)],
                  total      <- raised

DecidesOnce == Outcome!Spec

(* Every capture that is reported is decided, whatever is rolled back and  *)
(* whichever deadlocks are broken at whose cost, if they come to an end:   *)
(* two webhooks of one pledge that were repeated at the same moment again  *)
(* and again could go on for ever aborting each other.                     *)
CaptureLands ==
  (<>[][\A x \in Tx : ~BreakDeadlock(x)]_vars)
    => \A x \in Call : (Kind[x] # "failed" /\ status[PledgeOf[x]] # "ABSENT")
                          ~> status[PledgeOf[x]] \in CaptureApplied
============================================================================
