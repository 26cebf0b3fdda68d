-------------------------- MODULE PledgeTx_proofs --------------------------
(***************************************************************************)
(* Proofs about PledgeTx for any campaigns, tiers, pledges and calls. Who  *)
(* has which row follows from the statement it is at (HasRows), and the    *)
(* other way round (Placed); what was read from a row that is locked is    *)
(* still so. As all captures take pledge, tier, campaign and escrow in     *)
(* this order, only transactions before the first of them can wait in a    *)
(* circle. What a sub-select saw stays captured, and on the transaction's  *)
(* own tier it saw all there is (Snapshots): that bounds backer_count.     *)
(***************************************************************************)
EXTENDS PledgeTx, FiniteSetTheorems, TLAPS

USE TxAssumption

AfterPledge   == {"tier", "snapshot", "raise", "count", "hold",
                  "commit_count", "commit_hold"}
AfterTier     == AfterPledge \ {"tier"}
Accepted      == {"snapshot", "raise", "count", "commit_count"}
AfterCampaign == {"count", "commit_count"}
AfterEscrow   == {"commit_count", "commit_hold"}

(* Which statements there are, and which pledges are there.                *)
Sorts ==
  /\ \A p \in Pledge :
       /\ pc[p] \in {"begin", "tier", "insert", "done", "refused"}
       /\ pc[p] = "tier" => Body[p].tier # NoTier
       /\ status[p] # "ABSENT" => pc[p] = "done"
  /\ \A x \in Call :
       /\ pc[x] \notin {"insert", "refused"}
       /\ pc[x] = "tier" => Body[PledgeOf[x]].tier # NoTier
       /\ pc[x] \in Under => status[PledgeOf[x]] # "ABSENT"

(* The rows a capture has, and what it knows of them.                      *)
HasAt(x) ==
  LET p == PledgeOf[x]  c == Body[p].campaign  t == Body[p].tier IN
  /\ pc[x] \in AfterPledge => /\ lock[PledgeRow(p)] = x
                              /\ status[p] \notin CaptureApplied
  /\ pc[x] \in Accepted /\ t # NoTier => /\ lock[TierRow(p)] = x
                                         /\ ~SoldOut(t)
  /\ pc[x] \in AfterCampaign => /\ lock[CampaignRow(p)] = x
                                /\ total[x] = raised[c] + Body[p].amount
  /\ pc[x] \in AfterEscrow => lock[Escrow] = x

HasRows == \A x \in Call : HasAt(x)

(* How far a capture is that has a row.                                    *)
PlacedAt(x) ==
  /\ \A p \in Pledge :
       /\ lock[<<"pledge", p>>] = x => pc[x] \in AfterPledge
       /\ x \in share[p] => /\ PledgeOf[x] = p
                            /\ pc[x] \in {"pledge"} \cup AfterPledge
  /\ \A t \in Tier : lock[<<"tier", t>>] = x => pc[x] \in AfterTier
  /\ \A c \in Campaign : lock[<<"campaign", c>>] = x => pc[x] \in AfterCampaign
  /\ lock[Escrow] = x => pc[x] \in AfterEscrow

Placed == \A x \in Call : PlacedAt(x)

----------------------------------------------------------------------------
(* The rows of a capture are rows.                                         *)
LEMMA Rows ==
  ASSUME NEW p \in Pledge
  PROVE  /\ PledgeRow(p) \in Row /\ CampaignRow(p) \in Row
         /\ Body[p].tier # NoTier => TierRow(p) \in Row
         /\ Escrow \in Row
BY DEF PledgeRow, CampaignRow, TierRow, Escrow, Row

LEMMA Asked ==
  ASSUME NEW p \in Pledge
  PROVE  /\ Body[p].campaign \in Campaign /\ Body[p].backer \in User
         /\ Body[p].tier \in Tier \cup {NoTier} /\ Body[p].amount \in Nat
<1>1. Body[p] \in [campaign : Campaign, backer : User,
                   tier : Tier \cup {NoTier}, amount : Nat \ {0}]
  BY DEF TxAssumption
<1> QED
  BY <1>1

(* The steps of a transaction, in turn.                                    *)
PledgeStep(x) == LockCampaign(x) \/ LockTier(x) \/ Insert(x)

CallStep(x) ==
  \/ Begin(x) \/ InsertEvent(x) \/ LockPledge(x) \/ CheckTier(x)
  \/ TakeSnapshot(x) \/ Raise(x) \/ TakeAccounts(x) \/ CommitCount(x)
  \/ CommitHold(x)

AbortStep(x) ==
  Abort(x) /\ rollbacks' \in 0..MaxRollbacks /\ pc[x] \in Under \cup {"begin"}

LEMMA NextSteps ==
  ASSUME TypeOK, [Next]_vars
  PROVE  \/ UNCHANGED vars
         \/ \E c \in Campaign : SetLive(c)
         \/ \E t \in Tier : AddTier(t)
         \/ \E x \in Pledge : PledgeStep(x)
         \/ \E x \in Call : CallStep(x)
         \/ \E x \in Tx : AbortStep(x)
<1>1. ASSUME NEW x \in Pledge, Runs(x) PROVE PledgeStep(x)
  BY <1>1 DEF Runs, PledgeStep
<1>2. ASSUME NEW x \in Call, Runs(x) PROVE CallStep(x)
  BY <1>2 DEF Runs, CallStep
<1>3. ASSUME NEW x \in Tx, Rollback(x) \/ BreakDeadlock(x)
      PROVE  AbortStep(x)
  BY <1>3 DEF AbortStep, Rollback, BreakDeadlock, Blockers, Locking, Under,
              TypeOK
<1> QED
  BY <1>1, <1>2, <1>3 DEF Next, Tx

LEMMA Aborting ==
  ASSUME NEW x \in Tx, Abort(x)
  PROVE  /\ Released(x) /\ UNCHANGED columns
         /\ x \in Call => Goes(x, "begin") /\ Forget(x)
         /\ x \notin Call => Goes(x, "refused") /\ UNCHANGED <<total, seen>>
<1>1. CASE x \in Call
  BY <1>1, Zenon DEF Abort
<1>2. CASE x \notin Call
  BY <1>2, Zenon DEF Abort
<1> QED
  BY <1>1, <1>2

(* Who has a row goes on; who ends gives all back.                         *)
LockTypes ==
  /\ lock  \in [Row -> Tx \cup {Free}]
  /\ share \in [Pledge -> SUBSET Call]
  /\ pc    \in [Tx -> Under \cup {"begin", "done", "refused"}]
  /\ \A w \in Row : lock[w] # Free => pc[lock[w]] \in Under
  /\ \A p \in Pledge : \A x \in share[p] : pc[x] \in Under

LEMMA Taking ==
  ASSUME LockTypes, NEW x \in Tx, NEW where \in Under, Goes(x, where),
         lock' \in {lock, Holds(x)}, UNCHANGED share
  PROVE  LockTypes'
BY DEF LockTypes, Goes, Holds

LEMMA Giving ==
  ASSUME LockTypes, NEW x \in Tx, NEW where \in {"begin", "done", "refused"},
         Goes(x, where), Released(x)
  PROVE  LockTypes'
<1>1. \A y \in Tx : y # x => pc'[y] = pc[y]
  BY DEF LockTypes, Goes
<1>2. pc' \in [Tx -> Under \cup {"begin", "done", "refused"}]
  BY DEF LockTypes, Goes
<1>3. /\ lock' \in [Row -> Tx \cup {Free}]
      /\ \A w \in Row : lock'[w] # Free => lock'[w] = lock[w] /\ lock[w] # x
  BY DEF LockTypes, Released
<1>4. /\ share' \in [Pledge -> SUBSET Call]
      /\ \A p \in Pledge : \A y \in share'[p] : y \in share[p] /\ y # x
  BY DEF LockTypes, Released
<1> QED
  BY <1>1, <1>2, <1>3, <1>4 DEF LockTypes, Tx

(* Type correctness; and when a transaction ends, all its locks are gone.  *)
THEOREM TxTypes == Spec => []TypeOK
<1>1. Init => TypeOK
  BY DEF Init, TypeOK, Tx
<1>2. TypeOK /\ [Next]_vars => TypeOK'
  <2> SUFFICES ASSUME TypeOK, [Next]_vars PROVE TypeOK'
    OBVIOUS
  <2> USE DEF TypeOK, columns
  <2> LockTypes
    BY DEF LockTypes
  <2>1. CASE UNCHANGED vars
    BY <2>1 DEF vars
  <2>2. ASSUME NEW c \in Campaign, SetLive(c) PROVE TypeOK'
    BY <2>2 DEF SetLive
  <2>3. ASSUME NEW t \in Tier, AddTier(t) PROVE TypeOK'
    BY <2>3 DEF AddTier
  <2>4. ASSUME NEW x \in Pledge, LockCampaign(x) PROVE TypeOK'
    <3>1. LockTypes'
      BY <2>4, Taking, Giving DEF LockCampaign, Refuse, Under, Tx
    <3> QED
      BY <2>4, <3>1 DEF LockTypes, LockCampaign, Refuse
  <2>5. ASSUME NEW x \in Pledge, LockTier(x) PROVE TypeOK'
    <3>1. LockTypes'
      BY <2>5, Taking, Giving DEF LockTier, Refuse, Under, Tx
    <3> QED
      BY <2>5, <3>1 DEF LockTypes, LockTier, Refuse
  <2>6. ASSUME NEW x \in Pledge, Insert(x) PROVE TypeOK'
    <3>1. LockTypes'
      BY <2>6, Giving DEF Insert, Tx
    <3> QED
      BY <2>6, <3>1 DEF LockTypes, Insert
  <2>7. ASSUME NEW x \in Call, Begin(x) PROVE TypeOK'
    BY <2>7 DEF Begin, Goes, Under, Tx
  <2>8. ASSUME NEW x \in Call, InsertEvent(x) PROVE TypeOK'
    BY <2>8 DEF InsertEvent, Goes, Under, Tx
  <2>9. ASSUME NEW x \in Call, LockPledge(x) PROVE TypeOK'
    <3>1. LockTypes'
      BY <2>9, Taking, Giving DEF LockPledge, Under, Tx
    <3>2. status' \in [Pledge -> {"ABSENT", "CREATED", "FAILED"}
                                 \cup CaptureApplied]
      BY <2>9 DEF LockPledge
    <3>3. UNCHANGED <<live, offered, raised, backers, claimed, total, seen,
                      rollbacks>>
      BY <2>9 DEF LockPledge
    <3> QED
      BY <3>1, <3>2, <3>3 DEF LockTypes
  <2>10. ASSUME NEW x \in Call, CheckTier(x) PROVE TypeOK'
    <3>1. LockTypes'
      BY <2>10, Taking DEF CheckTier, Under, Tx
    <3> QED
      BY <2>10, <3>1 DEF LockTypes, CheckTier
  <2>11. ASSUME NEW x \in Call, TakeSnapshot(x) PROVE TypeOK'
    BY <2>11 DEF TakeSnapshot, Captured, Goes, Under, Tx
  <2>12. ASSUME NEW x \in Call, Raise(x) PROVE TypeOK'
    <3>1. LockTypes'
      BY <2>12, Taking DEF Raise, Under, Tx
    <3>2. total' \in [Call -> Nat]
      BY <2>12, Asked DEF Raise
    <3> QED
      BY <2>12, <3>1, <3>2 DEF LockTypes, Raise
  <2>13. ASSUME NEW x \in Call, TakeAccounts(x) PROVE TypeOK'
    <3>1. LockTypes'
      BY <2>13, Taking DEF TakeAccounts, Under, Tx
    <3> QED
      BY <2>13, <3>1 DEF LockTypes, TakeAccounts
  <2>14. ASSUME NEW x \in Call, CommitCount(x) PROVE TypeOK'
    <3>1. LockTypes'
      BY <2>14, Giving DEF CommitCount, Tx
    <3>2. PICK p \in Pledge : p = PledgeOf[x]
      OBVIOUS
    <3>3. raised' \in [Campaign -> Nat] /\ backers' \in [Campaign -> Nat]
      BY <2>14, <3>2, Asked DEF CommitCount
    <3>4. claimed' \in [Tier -> Nat]
      BY <2>14, <3>2, Asked DEF CommitCount
    <3> QED
      BY <2>14, <3>1, <3>3, <3>4
         DEF LockTypes, CommitCount, Forget, CaptureApplied
  <2>15. ASSUME NEW x \in Call, CommitHold(x) PROVE TypeOK'
    <3>1. LockTypes'
      BY <2>15, Giving DEF CommitHold, Tx
    <3> QED
      BY <2>15, <3>1 DEF LockTypes, CommitHold, Forget, CaptureApplied
  <2>16. ASSUME NEW x \in Tx, AbortStep(x) PROVE TypeOK'
    <3> Abort(x) /\ rollbacks' \in 0..MaxRollbacks
      BY <2>16 DEF AbortStep
    <3>1. LockTypes'
      BY <2>16, Giving, Aborting
    <3>2. total' \in [Call -> Nat] /\ seen' \in [Call -> SUBSET Pledge]
      <4>1. CASE x \in Call
        <5>1. Forget(x)
          BY <2>16, <4>1, Aborting
        <5> QED
          BY <4>1, <5>1 DEF Forget
      <4>2. CASE x \notin Call
        BY <2>16, <4>2, Aborting
      <4> QED
        BY <4>1, <4>2
    <3> QED
      BY <2>16, <3>1, <3>2, Aborting DEF LockTypes
  <2> QED
    BY NextSteps, <2>1, <2>2, <2>3, <2>4, <2>5, <2>6, <2>7, <2>8, <2>9, <2>10,
       <2>11, <2>12, <2>13, <2>14, <2>15, <2>16 DEF PledgeStep, CallStep
<1> QED
  BY <1>1, <1>2, PTL DEF Spec

----------------------------------------------------------------------------
(* The row a statement takes is free or its own.                           *)
LEMMA RowIsFree ==
  ASSUME TypeOK, NEW x \in Tx, Blockers(x) = {},
         pc[x] \in Locking \/ (x \in Pledge /\ pc[x] = "begin")
  PROVE  lock[Wanted(x)] \in {Free, x}
BY DEF Blockers

(* No transaction touches another one, nor a row that another one has.     *)
Alone(x) ==
  /\ \A y \in Tx : y # x => pc'[y] = pc[y]
  /\ \A y \in Call : y # x => total'[y] = total[y]
  /\ \A w \in Row : \/ lock'[w] = lock[w]
                    \/ lock[w] \in {Free, x} /\ lock'[w] \in {Free, x}
  /\ \A p \in Pledge : \A y \in Call :
       y # x => (y \in share'[p]) = (y \in share[p])

LEMMA Stepping ==
  ASSUME TypeOK, NEW x \in Tx, NEW where, Goes(x, where),
         \/ lock' = lock /\ UNCHANGED share
         \/ /\ lock' = lock
            /\ \E p \in Pledge : share' = [share EXCEPT ![p] = @ \cup {x}]
         \/ Released(x)
         \/ /\ lock' = Holds(x) /\ lock[Wanted(x)] \in {Free, x}
            /\ UNCHANGED share,
         \A y \in Call : y # x => total'[y] = total[y]
  PROVE  Alone(x)
BY DEF TypeOK, Goes, Released, Holds, Alone

LEMMA StepsAlone ==
  ASSUME TypeOK, NEW x \in Tx,
         \/ x \in Pledge /\ PledgeStep(x)
         \/ x \in Call /\ CallStep(x)
         \/ Abort(x)
  PROVE  Alone(x)
<1>1. CASE Abort(x)
  BY <1>1, Stepping, Aborting DEF Forget, TypeOK
<1>2. CASE x \in Pledge /\ LockCampaign(x)
  BY <1>2, Stepping, RowIsFree DEF LockCampaign, Refuse
<1>3. CASE x \in Pledge /\ LockTier(x)
  BY <1>3, Stepping, RowIsFree DEF LockTier, Refuse, Locking
<1>4. CASE x \in Pledge /\ Insert(x)
  BY <1>4, Stepping DEF Insert
<1>5. CASE x \in Call /\ (Begin(x) \/ InsertEvent(x) \/ TakeSnapshot(x))
  BY <1>5, Stepping DEF Begin, InsertEvent, TakeSnapshot
<1>6. CASE x \in Call /\ LockPledge(x)
  BY <1>6, Stepping, RowIsFree DEF LockPledge, Locking
<1>7. CASE x \in Call /\ CheckTier(x)
  BY <1>7, Stepping, RowIsFree DEF CheckTier, Locking
<1>8. CASE x \in Call /\ Raise(x)
  BY <1>8, Stepping, RowIsFree DEF Raise, Locking, TypeOK
<1>9. CASE x \in Call /\ TakeAccounts(x)
  BY <1>9, Stepping, RowIsFree DEF TakeAccounts, Locking
<1>10. CASE x \in Call /\ (CommitCount(x) \/ CommitHold(x))
  BY <1>10, Stepping DEF CommitCount, CommitHold, Forget, TypeOK
<1>11. PledgeStep(x) => LockCampaign(x) \/ LockTier(x) \/ Insert(x)
  BY DEF PledgeStep
<1>12. CASE x \in Call /\ CallStep(x)
  BY <1>5, <1>6, <1>7, <1>8, <1>9, <1>10, <1>12 DEF CallStep
<1> QED
  BY <1>1, <1>2, <1>3, <1>4, <1>11, <1>12

(* The statements come in their order, of pledges that are there.          *)
LEMMA SortsKept ==
  ASSUME TypeOK, Sorts, [Next]_vars
  PROVE  Sorts'
<1>1. CASE UNCHANGED vars
  BY <1>1 DEF vars, columns, Sorts
<1>2. CASE (\E c \in Campaign : SetLive(c)) \/ (\E t \in Tier : AddTier(t))
  BY <1>2 DEF SetLive, AddTier, Sorts
<1>3. ASSUME NEW x \in Pledge, LockCampaign(x) \/ LockTier(x) PROVE Sorts'
  <2>1. /\ pc[x] \in {"begin", "tier"} /\ UNCHANGED status
        /\ \E where \in {"tier", "insert", "refused"} :
             Goes(x, where) /\ (where = "tier" => Body[x].tier # NoTier)
    <3>1. CASE LockCampaign(x)
      BY <3>1 DEF LockCampaign, Refuse, columns
    <3>2. CASE LockTier(x)
      BY <3>2 DEF LockTier, Refuse, columns
    <3> QED
      BY <1>3, <3>1, <3>2
  <2> QED
    BY <2>1 DEF Goes, Sorts, TypeOK, Tx, Under
<1>4. ASSUME NEW x \in Pledge, Insert(x) PROVE Sorts'
  BY <1>4 DEF Insert, Goes, Sorts, TypeOK, Tx, Under
<1>5. ASSUME NEW x \in Call,
             \/ Begin(x) \/ InsertEvent(x) \/ CheckTier(x) \/ TakeSnapshot(x)
             \/ Raise(x) \/ TakeAccounts(x)
      PROVE  Sorts'
  BY <1>5 DEF Begin, InsertEvent, CheckTier, TakeSnapshot, Raise, TakeAccounts,
              Goes, columns, Sorts, TypeOK, Tx, Under
<1>6. ASSUME NEW x \in Call, LockPledge(x) PROVE Sorts'
  BY <1>6 DEF LockPledge, Goes, Sorts, TypeOK, Tx, Under, CaptureApplied
<1>7. ASSUME NEW x \in Call, CommitCount(x) \/ CommitHold(x) PROVE Sorts'
  <2>1. PICK p \in Pledge : p = PledgeOf[x]
    OBVIOUS
  <2>2. status[p] # "ABSENT"
    BY <1>7, <2>1 DEF CommitCount, CommitHold, Sorts, Under
  <2>3. /\ \A q \in Pledge : (status'[q] = "ABSENT") = (status[q] = "ABSENT")
        /\ Goes(x, "done")
    BY <1>7, <2>1, <2>2 DEF CommitCount, CommitHold, TypeOK
  <2> QED
    BY <2>3 DEF Goes, Sorts, TypeOK, Tx, Under
<1>8. ASSUME NEW x \in Tx, AbortStep(x) PROVE Sorts'
  <2> Abort(x) /\ pc[x] \in Under \cup {"begin"}
    BY <1>8 DEF AbortStep
  <2>1. UNCHANGED status /\ \A y \in Tx : y # x => pc'[y] = pc[y]
    BY <1>8, StepsAlone, Aborting DEF Alone, columns
  <2>2. CASE x \in Call
    <3>1. pc'[x] = "begin"
      BY <1>8, <2>2, Aborting DEF Goes, TypeOK
    <3> QED
      BY <2>1, <2>2, <3>1 DEF Sorts, Tx, Under
  <2>3. CASE x \in Pledge
    <3>1. pc'[x] = "refused" /\ pc[x] \in {"begin", "tier", "insert"}
      BY <1>8, <2>3, Aborting DEF Goes, TypeOK, Sorts, Under
    <3> QED
      BY <2>1, <2>3, <3>1 DEF Sorts, Tx, Under
  <2> QED
    BY <2>2, <2>3 DEF Tx
<1> QED
  <2>1. CASE \E x \in Pledge : PledgeStep(x)
    BY <2>1, <1>3, <1>4 DEF PledgeStep
  <2>2. CASE \E x \in Call : CallStep(x)
    BY <2>2, <1>5, <1>6, <1>7 DEF CallStep
  <2> QED
    BY NextSteps, <1>1, <1>2, <1>8, <2>1, <2>2

----------------------------------------------------------------------------
(* What others read of the rows they have stays as it is.                  *)
Untouched(x) ==
  /\ \A p \in Pledge :
       status'[p] \in CaptureApplied /\ status[p] \notin CaptureApplied
         => lock[PledgeRow(p)] = x
  /\ \A t \in Tier : claimed'[t] # claimed[t] => lock[<<"tier", t>>] = x
  /\ \A c \in Campaign : raised'[c] # raised[c] => lock[<<"campaign", c>>] = x

LEMMA CallsUntouched ==
  ASSUME TypeOK, NEW x \in Call, HasAt(x), CallStep(x)
  PROVE  Untouched(x)
<1>1. PICK p \in Pledge : p = PledgeOf[x]
  OBVIOUS
<1>2. CASE \/ Begin(x) \/ InsertEvent(x) \/ CheckTier(x) \/ TakeSnapshot(x)
           \/ Raise(x) \/ TakeAccounts(x)
  BY <1>2 DEF Begin, InsertEvent, CheckTier, TakeSnapshot, Raise, TakeAccounts,
              columns, Untouched
<1>3. CASE LockPledge(x)
  BY <1>3 DEF LockPledge, Untouched, TypeOK, CaptureApplied
<1>4. CASE CommitCount(x)
  <2>1. lock[PledgeRow(p)] = x /\ lock[CampaignRow(p)] = x
    BY <1>1, <1>4 DEF CommitCount, HasAt, AfterPledge, AfterCampaign
  <2>2. Body[p].tier # NoTier => lock[TierRow(p)] = x
    BY <1>1, <1>4 DEF CommitCount, HasAt, Accepted
  <2>3. /\ \A q \in Pledge : q # p => status'[q] = status[q]
        /\ \A t \in Tier : t # Body[p].tier => claimed'[t] = claimed[t]
        /\ Body[p].tier = NoTier => claimed' = claimed
        /\ \A c \in Campaign : c # Body[p].campaign => raised'[c] = raised[c]
    BY <1>1, <1>4, Asked DEF CommitCount, TypeOK
  <2> QED
    BY <2>1, <2>2, <2>3 DEF Untouched, CampaignRow, TierRow, PledgeRow
<1>5. CASE CommitHold(x)
  <2>1. lock[PledgeRow(p)] = x
    BY <1>1, <1>5 DEF CommitHold, HasAt, AfterPledge
  <2> QED
    BY <1>1, <1>5, <2>1 DEF CommitHold, Untouched, TypeOK
<1> QED
  BY <1>2, <1>3, <1>4, <1>5 DEF CallStep

LEMMA OthersUntouched ==
  ASSUME TypeOK, NEW x \in Tx, (x \in Pledge /\ PledgeStep(x)) \/ Abort(x)
  PROVE  Untouched(x)
<1>1. CASE Abort(x)
  BY <1>1, Aborting DEF columns, Untouched
<1>2. CASE LockCampaign(x) \/ LockTier(x)
  BY <1>2 DEF LockCampaign, LockTier, Refuse, columns, Untouched
<1>3. CASE Insert(x)
  BY <1>3 DEF Insert, Untouched, TypeOK, CaptureApplied
<1> QED
  BY <1>1, <1>2, <1>3 DEF PledgeStep

LEMMA OthersStay ==
  ASSUME TypeOK, NEW x \in Tx, Alone(x), Untouched(x),
         NEW y \in Call, y # x, HasAt(y), PlacedAt(y)
  PROVE  HasAt(y)' /\ PlacedAt(y)'
<1>1. PICK p \in Pledge : p = PledgeOf[y]
  OBVIOUS
<1>2. pc'[y] = pc[y] /\ total'[y] = total[y] /\ y # Free
  BY DEF Alone, Tx
<1>3. \A w \in Row : (lock'[w] = y) = (lock[w] = y)
  BY <1>2 DEF Alone
<1>4. PlacedAt(y)'
  BY <1>2, <1>3 DEF PlacedAt, Alone, Row, Escrow
<1>5. pc[y] \in AfterPledge =>
        /\ lock'[PledgeRow(p)] = y
        /\ status'[p] \notin CaptureApplied
  BY <1>1, <1>3, Rows DEF HasAt, Untouched
<1>6. pc[y] \in AfterCampaign =>
        /\ lock'[CampaignRow(p)] = y
        /\ raised'[Body[p].campaign] = raised[Body[p].campaign]
  BY <1>1, <1>3, Rows, Asked DEF HasAt, Untouched, CampaignRow
<1>7. pc[y] \in Accepted /\ Body[p].tier # NoTier =>
        /\ lock'[TierRow(p)] = y
        /\ claimed'[Body[p].tier] = claimed[Body[p].tier]
  BY <1>1, <1>3, Rows, Asked DEF HasAt, Untouched, TierRow
<1>8. pc[y] \in AfterEscrow => lock'[Escrow] = y
  BY <1>3, Rows DEF HasAt
<1> QED
  BY <1>1, <1>2, <1>4, <1>5, <1>6, <1>7, <1>8
     DEF HasAt, SoldOut, PledgeRow, CampaignRow, TierRow

(* The statement of a call, and the row it takes.                          *)
LEMMA WantedIs ==
  ASSUME NEW x \in Call
  PROVE  /\ pc[x] = "pledge" => Wanted(x) = PledgeRow(PledgeOf[x])
         /\ pc[x] = "tier" => Wanted(x) = TierRow(PledgeOf[x])
         /\ pc[x] = "raise" => Wanted(x) = CampaignRow(PledgeOf[x])
         /\ pc[x] \in {"count", "hold"} => Wanted(x) = Escrow
BY DEF Wanted

LEMMA PlacedSelf ==
  ASSUME TypeOK, NEW x \in Call, PlacedAt(x), HasAt(x),
         CallStep(x) \/ Abort(x)
  PROVE  PlacedAt(x)'
<1> x \in Tx /\ PledgeOf[x] \in Pledge /\ x # Free
  BY DEF Tx
<1> USE DEF AfterPledge, AfterTier, AfterCampaign, AfterEscrow
<1>1. CASE Abort(x) \/ CommitCount(x) \/ CommitHold(x)
  BY <1>1, Aborting, Rows
     DEF CommitCount, CommitHold, Released, PlacedAt, TypeOK, Row
<1>2. CASE Begin(x) \/ InsertEvent(x) \/ TakeSnapshot(x)
  BY <1>2 DEF Begin, InsertEvent, TakeSnapshot, Goes, PlacedAt, TypeOK
<1>3. CASE LockPledge(x)
  <2>1. CASE Released(x)
    BY <2>1, Rows DEF Released, PlacedAt, TypeOK, Row
  <2>2. CASE lock' = Holds(x) /\ UNCHANGED share /\ pc'[x] \in AfterPledge
    <3>1. \A w \in Row : w # PledgeRow(PledgeOf[x]) => lock'[w] = lock[w]
      BY <1>3, <2>2, WantedIs DEF LockPledge, Holds, TypeOK
    <3> QED
      BY <1>3, <2>2, <3>1 DEF LockPledge, PlacedAt, PledgeRow, Row, Escrow
  <2> QED
    BY <1>3, <2>1, <2>2 DEF LockPledge, Goes, TypeOK
<1>4. CASE CheckTier(x)
  <2>1. \A w \in Row : w # TierRow(PledgeOf[x]) => lock'[w] = lock[w]
    BY <1>4, WantedIs DEF CheckTier, Holds, TypeOK
  <2>2. pc'[x] \in {"hold", "snapshot"} /\ UNCHANGED share /\ pc[x] = "tier"
    BY <1>4 DEF CheckTier, Goes, TypeOK
  <2> QED
    BY <2>1, <2>2 DEF PlacedAt, TierRow, Row, Escrow
<1>5. CASE Raise(x)
  <2>1. \A w \in Row : w # CampaignRow(PledgeOf[x]) => lock'[w] = lock[w]
    BY <1>5, WantedIs DEF Raise, Holds, TypeOK
  <2>2. pc'[x] = "count" /\ UNCHANGED share /\ pc[x] = "raise"
    BY <1>5 DEF Raise, Goes, TypeOK
  <2> QED
    BY <2>1, <2>2 DEF PlacedAt, CampaignRow, Row, Escrow
<1>6. CASE TakeAccounts(x)
  <2>1. \A w \in Row : w # Escrow => lock'[w] = lock[w]
    BY <1>6, WantedIs DEF TakeAccounts, Holds, TypeOK
  <2>2. /\ \/ pc[x] = "count" /\ pc'[x] = "commit_count"
           \/ pc[x] = "hold" /\ pc'[x] = "commit_hold"
        /\ UNCHANGED share
    <3>1. CASE pc[x] = "count"
      BY <1>6, <3>1 DEF TakeAccounts, Goes, TypeOK
    <3>2. CASE pc[x] = "hold"
      BY <1>6, <3>2 DEF TakeAccounts, Goes, TypeOK
    <3> QED
      BY <1>6, <3>1, <3>2 DEF TakeAccounts
  <2> QED
    BY <2>1, <2>2 DEF PlacedAt, Row, Escrow
<1> QED
  BY <1>1, <1>2, <1>3, <1>4, <1>5, <1>6 DEF CallStep

LEMMA HasSelf ==
  ASSUME TypeOK, Sorts, NEW x \in Call, HasAt(x), CallStep(x) \/ Abort(x)
  PROVE  HasAt(x)'
<1> DEFINE p == PledgeOf[x]
<1>0. x \in Tx /\ p \in Pledge /\ x # Free
  BY DEF Tx
<1> HIDE DEF p
<1> USE DEF AfterPledge, AfterTier, AfterCampaign, AfterEscrow, Accepted
<1>1. CASE Abort(x) \/ CommitCount(x) \/ CommitHold(x)
  BY <1>0, <1>1, Aborting DEF CommitCount, CommitHold, Goes, HasAt, TypeOK
<1>2. CASE Begin(x) \/ InsertEvent(x)
  BY <1>0, <1>2 DEF Begin, InsertEvent, Goes, HasAt, TypeOK
<1>3. CASE TakeSnapshot(x)
  BY <1>0, <1>3 DEF TakeSnapshot, Goes, columns, HasAt, TypeOK, SoldOut,
                    PledgeRow, TierRow, CampaignRow
<1>4. CASE LockPledge(x)
  <2>1. CASE pc'[x] = "done"
    BY <2>1 DEF HasAt
  <2>2. CASE /\ Kind[x] # "failed" /\ status[p] \notin CaptureApplied
             /\ lock' = Holds(x)
             /\ pc'[x] = IF x \notin PaidRight THEN "hold"
                         ELSE IF Body[p].tier = NoTier THEN "snapshot"
                         ELSE "tier"
             /\ UNCHANGED <<status, share>>
    <3>1. lock'[PledgeRow(p)] = x
      BY <1>0, <1>4, <2>2, WantedIs, Rows DEF LockPledge, Holds, TypeOK, p
    <3> QED
      BY <1>0, <2>2, <3>1 DEF HasAt, p, PledgeRow
  <2> QED
    BY <1>0, <1>4, <2>1, <2>2 DEF LockPledge, Goes, TypeOK, p
<1>5. CASE CheckTier(x)
  <2>1. Body[p].tier # NoTier
    BY <1>5 DEF CheckTier, Sorts, p
  <2>2. lock'[TierRow(p)] = x /\ lock'[PledgeRow(p)] = x
    BY <1>0, <1>5, <2>1, WantedIs, Rows DEF CheckTier, Holds, TypeOK, HasAt, p
  <2>3. /\ pc'[x] \in {"hold", "snapshot"} /\ UNCHANGED columns
        /\ pc'[x] = "snapshot" => ~SoldOut(Body[p].tier)
    BY <1>0, <1>5 DEF CheckTier, Goes, TypeOK, p
  <2> QED
    BY <1>5, <2>2, <2>3
       DEF CheckTier, HasAt, p, columns, SoldOut, PledgeRow, TierRow
<1>6. CASE Raise(x)
  <2>1. lock'[CampaignRow(p)] = x /\ lock'[PledgeRow(p)] = x
    BY <1>0, <1>6, WantedIs, Rows DEF Raise, Holds, TypeOK, HasAt, p
  <2>2. Body[p].tier # NoTier => lock'[TierRow(p)] = x
    BY <1>0, <1>6, WantedIs, Rows DEF Raise, Holds, TypeOK, HasAt, p
  <2>3. /\ pc'[x] = "count" /\ UNCHANGED columns
        /\ total'[x] = raised[Body[p].campaign] + Body[p].amount
    BY <1>0, <1>6 DEF Raise, Goes, TypeOK, p
  <2> QED
    BY <1>6, <2>1, <2>2, <2>3
       DEF Raise, HasAt, p, columns, SoldOut, PledgeRow, TierRow, CampaignRow
<1>7. CASE TakeAccounts(x)
  <2>1. lock'[Escrow] = x
    BY <1>0, <1>7, WantedIs, Rows DEF TakeAccounts, Holds, TypeOK
  <2>2. \A w \in Row : lock[w] = x => lock'[w] = x
    BY <1>0, <1>7, WantedIs DEF TakeAccounts, Holds, TypeOK
  <2>3. /\ \/ pc[x] = "count" /\ pc'[x] = "commit_count"
           \/ pc[x] = "hold" /\ pc'[x] = "commit_hold"
        /\ UNCHANGED columns /\ UNCHANGED total
    <3>1. CASE pc[x] = "count"
      BY <1>0, <1>7, <3>1 DEF TakeAccounts, Goes, TypeOK
    <3>2. CASE pc[x] = "hold"
      BY <1>0, <1>7, <3>2 DEF TakeAccounts, Goes, TypeOK
    <3> QED
      BY <1>7, <3>1, <3>2 DEF TakeAccounts
  <2> QED
    BY <1>0, <2>1, <2>2, <2>3, Rows
       DEF HasAt, p, columns, SoldOut, PledgeRow, TierRow, CampaignRow
<1> QED
  BY <1>1, <1>2, <1>3, <1>4, <1>5, <1>6, <1>7 DEF CallStep

----------------------------------------------------------------------------
(* A campaign's statements change no row that is locked for a pledge.      *)
LEMMA OutsideKept ==
  ASSUME HasRows, Placed,
         \/ UNCHANGED vars
         \/ \E c \in Campaign : SetLive(c)
         \/ \E t \in Tier : AddTier(t)
  PROVE  HasRows' /\ Placed'
<1>1. UNCHANGED <<status, raised, claimed, lock, share, pc, total>>
  BY DEF vars, columns, SetLive, AddTier
<1> QED
  BY <1>1 DEF HasRows, HasAt, Placed, PlacedAt, SoldOut, PledgeRow, TierRow,
              CampaignRow

Support == TypeOK /\ Sorts /\ HasRows /\ Placed

LEMMA SupportKept ==
  ASSUME Support, TypeOK', [Next]_vars
  PROVE  Support'
<1> TypeOK /\ Sorts /\ HasRows /\ Placed
  BY DEF Support
<1>1. Sorts'
  BY SortsKept
<1>2. HasRows' /\ Placed'
  <2>1. ASSUME NEW x \in Pledge, PledgeStep(x) PROVE HasRows' /\ Placed'
    <3>1. x \in Tx /\ x \notin Call
      BY DEF Tx
    <3>2. Alone(x) /\ Untouched(x)
      BY <2>1, <3>1, StepsAlone, OthersUntouched
    <3> QED
      BY <3>1, <3>2, OthersStay DEF HasRows, Placed
  <2>2. ASSUME NEW x \in Call, CallStep(x) PROVE HasRows' /\ Placed'
    <3>1. x \in Tx /\ HasAt(x) /\ PlacedAt(x)
      BY DEF Tx, HasRows, Placed
    <3>2. Alone(x) /\ Untouched(x)
      BY <2>2, <3>1, StepsAlone, CallsUntouched
    <3>3. HasAt(x)' /\ PlacedAt(x)'
      BY <2>2, <3>1, HasSelf, PlacedSelf
    <3> QED
      BY <3>1, <3>2, <3>3, OthersStay DEF HasRows, Placed
  <2>3. ASSUME NEW x \in Tx, AbortStep(x) PROVE HasRows' /\ Placed'
    <3>1. Abort(x)
      BY <2>3 DEF AbortStep
    <3>2. Alone(x) /\ Untouched(x)
      BY <3>1, StepsAlone, OthersUntouched
    <3>3. x \in Call => HasAt(x)' /\ PlacedAt(x)'
      BY <3>1, HasSelf, PlacedSelf DEF HasRows, Placed
    <3> QED
      BY <3>2, <3>3, OthersStay DEF HasRows, Placed
  <2> QED
    BY NextSteps, OutsideKept, <2>1, <2>2, <2>3
<1> QED
  BY <1>1, <1>2 DEF Support

LEMMA SupportHolds == Spec => []Support
<1>1. Init /\ TypeOK => Support
  BY DEF Init, Support, Sorts, HasRows, HasAt, Placed, PlacedAt, Row, Escrow,
         Tx, Under, AfterPledge, AfterCampaign, AfterEscrow, Accepted
<1>2. Support /\ TypeOK' /\ [Next]_vars => Support'
  BY SupportKept
<1> QED
  BY <1>1, <1>2, TxTypes, PTL DEF Spec

----------------------------------------------------------------------------
(* The slots of a tier: the row that was checked is still locked when the  *)
(* claim on it commits.                                                    *)
THEOREM SlotsHold == Spec => []TierNotOversold
<1>1. Init => TierNotOversold
  BY DEF Init, TierNotOversold, TxAssumption
<1>2. Support /\ TierNotOversold /\ [Next]_vars => TierNotOversold'
  <2> SUFFICES ASSUME Support, TierNotOversold, [Next]_vars
               PROVE  TierNotOversold'
    OBVIOUS
  <2> TypeOK /\ HasRows
    BY DEF Support
  <2>1. ASSUME UNCHANGED claimed PROVE TierNotOversold'
    BY <2>1 DEF TierNotOversold
  <2>2. ASSUME NEW x \in Call, CommitCount(x) PROVE TierNotOversold'
    <3>1. PICK p \in Pledge : p = PledgeOf[x]
      OBVIOUS
    <3>2. CASE Body[p].tier = NoTier
      BY <2>1, <2>2, <3>1, <3>2 DEF CommitCount
    <3>3. CASE Body[p].tier \in Tier
      <4>1. ~SoldOut(Body[p].tier)
        BY <2>2, <3>1, <3>3 DEF CommitCount, HasRows, HasAt, Accepted
      <4>2. claimed' = [claimed EXCEPT ![Body[p].tier] = @ + 1]
        BY <2>2, <3>1, <3>3 DEF CommitCount
      <4>3. \A t \in Tier : claimed[t] \in Nat /\ Limit[t] \in Nat
        BY DEF TypeOK, TxAssumption
      <4> QED
        BY <3>3, <4>1, <4>2, <4>3 DEF TierNotOversold, SoldOut, TypeOK
    <3> QED
      BY <3>2, <3>3, Asked
  <2>3. ASSUME NEW x \in Call, CallStep(x), ~CommitCount(x)
        PROVE  UNCHANGED claimed
    BY <2>3 DEF CallStep, Begin, InsertEvent, LockPledge, CheckTier,
                TakeSnapshot, Raise, TakeAccounts, CommitHold, columns
  <2>4. ASSUME NEW x \in Pledge, PledgeStep(x) PROVE UNCHANGED claimed
    BY <2>4 DEF PledgeStep, LockCampaign, LockTier, Insert, Refuse, columns
  <2>5. ASSUME NEW x \in Tx, AbortStep(x) PROVE UNCHANGED claimed
    BY <2>5, Aborting DEF AbortStep, columns
  <2>6. ASSUME \/ UNCHANGED vars
               \/ \E c \in Campaign : SetLive(c)
               \/ \E t \in Tier : AddTier(t)
        PROVE  UNCHANGED claimed
    BY <2>6 DEF vars, columns, SetLive, AddTier
  <2> QED
    BY NextSteps, <2>1, <2>2, <2>3, <2>4, <2>5, <2>6
<1> QED
  BY <1>1, <1>2, SupportHolds, PTL DEF Spec

(* Who waits in a circle: a capture that has its pledge's row waits for    *)
(* one that is further on, and the last of them for none.                  *)
LEMMA FurtherOn ==
  ASSUME Support, NEW x \in Call, NEW y \in Call, y \in Blockers(x)
  PROVE  \/ /\ pc[x] \in {"event", "pledge"} /\ pc[y] \in AfterPledge
         \/ /\ pc[x] = "pledge" /\ y \in share[PledgeOf[x]] /\ y # x
         \/ /\ pc[x] = "tier" /\ pc[y] \in AfterTier
         \/ /\ pc[x] = "raise" /\ pc[y] \in AfterCampaign
         \/ /\ pc[x] \in {"count", "hold"} /\ pc[y] \in AfterEscrow
<1> DEFINE p == PledgeOf[x]
<1>0. p \in Pledge /\ x \notin Pledge /\ y # Free
  BY DEF TxAssumption, Tx
<1> HIDE DEF p
<1>1. TypeOK /\ Sorts /\ HasAt(x) /\ PlacedAt(y)
  BY DEF Support, HasRows, Placed
<1>2. pc[x] \in Locking /\ y # x
  BY <1>0 DEF Blockers, p
<1>3. CASE y = lock[Wanted(x)]
  <2>1. CASE pc[x] \in {"event", "pledge"}
    <3>1. Wanted(x) = PledgeRow(p)
      BY <2>1 DEF Wanted, p
    <3> QED
      BY <1>0, <1>1, <1>3, <2>1, <3>1 DEF PlacedAt, PledgeRow
  <2>2. CASE pc[x] = "snapshot"
    <3>1. Wanted(x) = PledgeRow(p)
      BY <2>2 DEF Wanted, p
    <3> QED
      BY <1>1, <1>2, <1>3, <2>2, <3>1 DEF HasAt, AfterPledge, p
  <2>3. CASE pc[x] = "tier"
    <3>1. Body[p].tier \in Tier /\ Wanted(x) = TierRow(p)
      BY <1>0, <1>1, <2>3, WantedIs, Asked DEF Sorts, p
    <3> QED
      BY <1>1, <1>3, <2>3, <3>1 DEF PlacedAt, TierRow
  <2>4. CASE pc[x] = "raise"
    <3>1. Body[p].campaign \in Campaign /\ Wanted(x) = CampaignRow(p)
      BY <1>0, <2>4, WantedIs, Asked DEF p
    <3> QED
      BY <1>1, <1>3, <2>4, <3>1 DEF PlacedAt, CampaignRow
  <2>5. CASE pc[x] \in {"count", "hold"}
    BY <1>1, <1>3, <2>5, WantedIs DEF PlacedAt
  <2> QED
    BY <1>2, <2>1, <2>2, <2>3, <2>4, <2>5 DEF Locking
<1>4. CASE pc[x] = "pledge" /\ y \in share[p]
  BY <1>2, <1>4 DEF p
<1> QED
  BY <1>3, <1>4 DEF Blockers, p

LEMMA NoneBehindIt ==
  ASSUME Support, NEW S \in SUBSET Call,
         \A x \in S : Blockers(x) \cap S # {}
  PROVE  \A x \in S : pc[x] = "pledge"
<1> USE DEF AfterPledge, AfterTier, AfterCampaign, AfterEscrow
<1>1. ASSUME NEW x \in S
      PROVE  \E y \in S :
               \/ /\ pc[x] \in {"event", "pledge"} /\ pc[y] \in AfterPledge
               \/ pc[x] = "pledge"
               \/ pc[x] = "tier" /\ pc[y] \in AfterTier
               \/ pc[x] = "raise" /\ pc[y] \in AfterCampaign
               \/ pc[x] \in {"count", "hold"} /\ pc[y] \in AfterEscrow
  <2>1. PICK y \in S : y \in Blockers(x) /\ x \in Call /\ y \in Call
    OBVIOUS
  <2> QED
    BY <2>1, FurtherOn
<1>2. \A x \in S : pc[x] \notin AfterEscrow
  BY <1>1
<1>3. \A x \in S : pc[x] \notin {"count", "hold"}
  BY <1>1, <1>2
<1>4. \A x \in S : pc[x] # "raise"
  BY <1>1, <1>2, <1>3
<1>5. \A x \in S : pc[x] # "tier"
  BY <1>1, <1>2, <1>3, <1>4
<1>6. \A x \in S : pc[x] \in {"event", "pledge"}
  BY <1>1, <1>5
<1>7. \A x \in S : pc[x] # "event"
  BY <1>1, <1>6
<1> QED
  BY <1>6, <1>7

(* Circles of captures: two webhooks of one pledge, and nothing else.      *)
THEOREM CirclesKnown == Spec => []DeadlocksAreKnown
<1>1. Support => DeadlocksAreKnown
  <2> SUFFICES ASSUME Support, NEW S \in SUBSET Call, S # {},
                      \A x \in S : Blockers(x) \cap S # {}
               PROVE  \E x, y \in S :
                        /\ x # y /\ PledgeOf[x] = PledgeOf[y]
                        /\ pc[x] = "pledge" /\ pc[y] = "pledge"
                        /\ {x, y} \subseteq share[PledgeOf[x]]
    BY DEF DeadlocksAreKnown
  <2>1. \A x \in S : pc[x] = "pledge"
    BY NoneBehindIt
  <2>2. ASSUME NEW x \in S
        PROVE  \E y \in S : /\ y # x /\ PledgeOf[y] = PledgeOf[x]
                            /\ y \in share[PledgeOf[x]]
    <3>1. PICK y \in S : y \in Blockers(x)
      OBVIOUS
    <3>2. y \in share[PledgeOf[x]] /\ y # x
      BY <2>1, <3>1, FurtherOn DEF AfterPledge
    <3>3. y \in Call /\ PledgeOf[x] \in Pledge
      BY DEF TxAssumption
    <3>4. PledgeOf[y] = PledgeOf[x]
      BY <3>2, <3>3 DEF Support, Placed, PlacedAt
    <3> QED
      BY <3>2, <3>4
  <2>3. PICK x \in S : TRUE
    OBVIOUS
  <2>4. PICK y \in S : PledgeOf[y] = PledgeOf[x] /\ y \in share[PledgeOf[x]]
    BY <2>2
  <2>5. PICK z \in S : /\ z # y /\ PledgeOf[z] = PledgeOf[y]
                       /\ z \in share[PledgeOf[y]]
    BY <2>2
  <2> QED
    BY <2>1, <2>4, <2>5
<1> QED
  BY <1>1, SupportHolds, PTL

(* A payment is decided once, and in that step the total grows by what was *)
(* pledged and a free slot is claimed, though both were computed or        *)
(* checked some statements before the commit.                              *)
THEOREM TxDecideOnce == Spec => DecidesOnce
<1> DEFINE fates == [p \in Pledge |-> Fate(p)]
<1>1. Init => Outcome!Init
  BY DEF Init, Outcome!Init, Fate
<1>2. Support /\ [Next]_vars => [Outcome!Next]_<<fates, raised, claimed>>
  <2> SUFFICES ASSUME Support, [Next]_vars
               PROVE  Outcome!Next \/ UNCHANGED <<fates, raised, claimed>>
    OBVIOUS
  <2> TypeOK /\ HasRows
    BY DEF Support
  <2>1. ASSUME UNCHANGED <<status, raised, claimed>>
        PROVE  UNCHANGED <<fates, raised, claimed>>
    BY <2>1 DEF Fate
  <2>2. ASSUME NEW x \in Call, CommitCount(x)
        PROVE  Outcome!Count(PledgeOf[x])
    <3>1. /\ status[PledgeOf[x]] \notin CaptureApplied
          /\ total[x] = raised[Body[PledgeOf[x]].campaign]
                          + Body[PledgeOf[x]].amount
      BY <2>2 DEF CommitCount, HasRows, HasAt, AfterPledge, AfterCampaign
    <3> DEFINE t == Body[PledgeOf[x]].tier
    <3>2. t \in Tier => claimed[t] < Limit[t]
      <4>1. t \in Tier => ~SoldOut(t)
        BY <2>2 DEF CommitCount, HasRows, HasAt, Accepted
      <4>2. t \in Tier => claimed[t] \in Nat /\ Limit[t] \in Nat
        BY DEF TypeOK, TxAssumption
      <4> QED
        BY <4>1, <4>2 DEF SoldOut
    <3>3. claimed' = [u \in Tier |-> IF u = t THEN claimed[u] + 1
                                    ELSE claimed[u]]
      <4>1. claimed' = IF t = NoTier THEN claimed
                       ELSE [claimed EXCEPT ![t] = @ + 1]
        BY <2>2 DEF CommitCount
      <4>2. DOMAIN claimed = Tier /\ claimed = [u \in Tier |-> claimed[u]]
        BY DEF TypeOK
      <4>3. CASE t = NoTier
        BY <4>1, <4>2, <4>3
      <4>4. CASE t # NoTier
        BY <4>1, <4>2, <4>4
      <4> QED
        BY <4>3, <4>4
    <3>4. fates[PledgeOf[x]] = "unpaid"
      BY <3>1 DEF Fate, CaptureApplied
    <3>5. fates' = [fates EXCEPT ![PledgeOf[x]] = "counted"]
      <4>1. status' = [status EXCEPT ![PledgeOf[x]] = "CAPTURED"]
        BY <2>2 DEF CommitCount
      <4>2. \A p \in Pledge :
              Fate(p)' = IF p = PledgeOf[x] THEN "counted" ELSE Fate(p)
        BY <4>1 DEF Fate, CaptureApplied, TypeOK
      <4> QED
        BY <4>2
    <3>6. raised' = [raised EXCEPT ![Body[PledgeOf[x]].campaign] =
                                     @ + Body[PledgeOf[x]].amount]
      <4>1. raised' = [raised EXCEPT ![Body[PledgeOf[x]].campaign] = total[x]]
        BY <2>2 DEF CommitCount
      <4> QED
        BY <3>1, <4>1
    <3> QED
      BY <3>2, <3>3, <3>4, <3>5, <3>6 DEF Outcome!Count
  <2>3. ASSUME NEW x \in Call, CommitHold(x)
        PROVE  Outcome!Owe(PledgeOf[x])
    <3>1. status[PledgeOf[x]] \notin CaptureApplied
      BY <2>3 DEF CommitHold, HasRows, HasAt, AfterPledge
    <3> QED
      BY <2>3, <3>1 DEF CommitHold, Outcome!Owe, Fate, CaptureApplied, TypeOK
  <2>4. ASSUME NEW x \in Call, LockPledge(x)
        PROVE  UNCHANGED <<fates, raised, claimed>>
    BY <2>4 DEF LockPledge, Fate, TypeOK
  <2>5. ASSUME NEW x \in Pledge, Insert(x)
        PROVE  UNCHANGED <<fates, raised, claimed>>
    <3>1. status[x] = "ABSENT"
      BY <2>5 DEF Support, Sorts, Insert
    <3> QED
      BY <2>5, <3>1 DEF Insert, Fate, TypeOK
  <2>6. ASSUME NEW x \in Call, CallStep(x), ~LockPledge(x), ~CommitCount(x),
               ~CommitHold(x)
        PROVE  UNCHANGED <<status, raised, claimed>>
    BY <2>6 DEF CallStep, Begin, InsertEvent, CheckTier, TakeSnapshot, Raise,
                TakeAccounts, columns
  <2>7. ASSUME NEW x \in Pledge, PledgeStep(x), ~Insert(x)
        PROVE  UNCHANGED <<status, raised, claimed>>
    BY <2>7 DEF PledgeStep, LockCampaign, LockTier, Refuse, columns
  <2>8. ASSUME NEW x \in Tx, AbortStep(x)
        PROVE  UNCHANGED <<status, raised, claimed>>
    BY <2>8, Aborting DEF AbortStep, columns
  <2>9. ASSUME \/ UNCHANGED vars
               \/ \E c \in Campaign : SetLive(c)
               \/ \E t \in Tier : AddTier(t)
        PROVE  UNCHANGED <<status, raised, claimed>>
    BY <2>9 DEF vars, columns, SetLive, AddTier
  <2>10. \A x \in Call : PledgeOf[x] \in Pledge
    OBVIOUS
  <2> QED
    BY NextSteps, <2>1, <2>2, <2>3, <2>4, <2>5, <2>6, <2>7, <2>8, <2>9, <2>10
       DEF Outcome!Next
<1> QED
  BY <1>1, <1>2, SupportHolds, PTL DEF Spec, DecidesOnce, Outcome!Spec

----------------------------------------------------------------------------
(* backer_count. A capture is never undone, so what a sub-select has seen  *)
(* stays captured; and on its own tier, whose row the transaction has had  *)
(* since before the snapshot, nothing is captured that it has not seen.    *)
Snapshots ==
  \A x \in Call :
    /\ seen[x] \subseteq Captured
    /\ pc[x] \in {"raise", "count", "commit_count"} =>
         \A q \in Captured : (/\ Body[q].tier # NoTier
                              /\ Body[q].tier = Body[PledgeOf[x]].tier)
                                => q \in seen[x]

(* Only the commit of a count captures a pledge.                           *)
LEMMA CapturesAreCounts ==
  ASSUME Support, [Next]_vars
  PROVE  \/ Captured' = Captured /\ UNCHANGED backers
         \/ \E x \in Call : CommitCount(x)
<1> TypeOK /\ Sorts /\ HasRows
  BY DEF Support
<1>1. ASSUME UNCHANGED <<status, backers>>
      PROVE  Captured' = Captured /\ UNCHANGED backers
  BY <1>1 DEF Captured
<1>2. ASSUME NEW x \in Call, LockPledge(x)
      PROVE  Captured' = Captured /\ UNCHANGED backers
  BY <1>2 DEF LockPledge, Captured, TypeOK
<1>3. ASSUME NEW x \in Pledge, Insert(x)
      PROVE  Captured' = Captured /\ UNCHANGED backers
  <2>1. status[x] = "ABSENT"
    BY <1>3 DEF Sorts, Insert
  <2> QED
    BY <1>3, <2>1 DEF Insert, Captured, TypeOK
<1>4. ASSUME NEW x \in Call, CommitHold(x)
      PROVE  Captured' = Captured /\ UNCHANGED backers
  <2>1. status[PledgeOf[x]] \notin CaptureApplied
    BY <1>4 DEF CommitHold, HasRows, HasAt, AfterPledge
  <2> QED
    BY <1>4, <2>1 DEF CommitHold, Captured, CaptureApplied, TypeOK
<1>5. ASSUME NEW x \in Call, CallStep(x), ~LockPledge(x), ~CommitCount(x),
             ~CommitHold(x)
      PROVE  UNCHANGED <<status, backers>>
  BY <1>5 DEF CallStep, Begin, InsertEvent, CheckTier, TakeSnapshot, Raise,
              TakeAccounts, columns
<1>6. ASSUME NEW x \in Pledge, PledgeStep(x), ~Insert(x)
      PROVE  UNCHANGED <<status, backers>>
  BY <1>6 DEF PledgeStep, LockCampaign, LockTier, Refuse, columns
<1>7. ASSUME NEW x \in Tx, AbortStep(x) PROVE UNCHANGED <<status, backers>>
  BY <1>7, Aborting DEF AbortStep, columns
<1>8. ASSUME \/ UNCHANGED vars
             \/ \E c \in Campaign : SetLive(c)
             \/ \E t \in Tier : AddTier(t)
      PROVE  UNCHANGED <<status, backers>>
  BY <1>8 DEF vars, columns, SetLive, AddTier
<1> QED
  BY NextSteps, <1>1, <1>2, <1>3, <1>4, <1>5, <1>6, <1>7, <1>8

LEMMA CountCaptures ==
  ASSUME Support, NEW x \in Call, CommitCount(x)
  PROVE  /\ PledgeOf[x] \in Pledge /\ PledgeOf[x] \notin Captured
         /\ Captured' = Captured \cup {PledgeOf[x]}
<1>1. TypeOK /\ status[PledgeOf[x]] \notin CaptureApplied
  BY DEF Support, CommitCount, HasRows, HasAt, AfterPledge
<1> QED
  BY <1>1 DEF CommitCount, Captured, CaptureApplied, TypeOK

(* What a step does to the snapshots themselves.                           *)
LEMMA SnapshotSteps ==
  ASSUME Support, [Next]_vars, NEW y \in Call
  PROVE  \/ seen'[y] = seen[y] /\ pc'[y] = pc[y]
         \/ seen'[y] = {} /\ pc'[y] \notin {"raise", "count", "commit_count"}
         \/ seen'[y] = Captured /\ Captured' = Captured
         \/ /\ seen'[y] = seen[y]
            /\ pc'[y] \in {"raise", "count", "commit_count"}
                 => pc[y] \in {"raise", "count", "commit_count"}
<1> TypeOK /\ y \in Tx
  BY DEF Support, Tx
<1>1. CASE \/ UNCHANGED vars
           \/ \E c \in Campaign : SetLive(c)
           \/ \E t \in Tier : AddTier(t)
  BY <1>1 DEF vars, SetLive, AddTier
<1>2. ASSUME NEW x \in Pledge, PledgeStep(x)
      PROVE  seen'[y] = seen[y] /\ pc'[y] = pc[y]
  <2>1. x \in Tx /\ x # y
    BY DEF Tx
  <2> QED
    BY <1>2, <2>1 DEF PledgeStep, LockCampaign, LockTier, Insert, Refuse, Goes,
                      TypeOK
<1>3. ASSUME NEW x \in Call, CommitCount(x) \/ CommitHold(x)
      PROVE  \/ seen'[y] = seen[y] /\ pc'[y] = pc[y]
             \/ seen'[y] = {} /\ pc'[y] = "done"
  BY <1>3 DEF CommitCount, CommitHold, Goes, Forget, TypeOK, Tx
<1>4. ASSUME NEW x \in Call, TakeSnapshot(x)
      PROVE  \/ seen'[y] = seen[y] /\ pc'[y] = pc[y]
             \/ seen'[y] = Captured /\ Captured' = Captured
  BY <1>4 DEF TakeSnapshot, Goes, Captured, columns, TypeOK, Tx
<1>5. ASSUME NEW x \in Call,
             \/ Begin(x) \/ InsertEvent(x) \/ LockPledge(x) \/ CheckTier(x)
             \/ Raise(x) \/ TakeAccounts(x)
      PROVE  /\ seen'[y] = seen[y]
             /\ pc'[y] \in {"raise", "count", "commit_count"}
                  => pc[y] \in {"raise", "count", "commit_count"}
  BY <1>5 DEF Begin, InsertEvent, LockPledge, CheckTier, Raise, TakeAccounts,
              Goes, TypeOK, Tx
<1>6. ASSUME NEW x \in Tx, AbortStep(x)
      PROVE  \/ seen'[y] = seen[y] /\ pc'[y] = pc[y]
             \/ seen'[y] = {} /\ pc'[y] = "begin"
  <2>1. CASE x \in Call
    BY <1>6, <2>1, Aborting DEF AbortStep, Goes, Forget, TypeOK
  <2>2. CASE x \notin Call
    BY <1>6, <2>2, Aborting DEF AbortStep, Goes, TypeOK
  <2> QED
    BY <2>1, <2>2
<1> QED
  BY NextSteps, <1>1, <1>2, <1>3, <1>4, <1>5, <1>6 DEF CallStep

(* Two captures that count on one tier are one.                            *)
LEMMA OneOnTier ==
  ASSUME Support, NEW x \in Call, NEW y \in Call,
         pc[x] = "commit_count", pc[y] \in {"raise", "count", "commit_count"},
         Body[PledgeOf[x]].tier # NoTier,
         Body[PledgeOf[x]].tier = Body[PledgeOf[y]].tier
  PROVE  x = y
<1>1. HasAt(x) /\ HasAt(y)
  BY DEF Support, HasRows
<1> QED
  BY <1>1 DEF HasAt, Accepted, TierRow

LEMMA SnapshotsKept ==
  ASSUME Support, Snapshots, [Next]_vars
  PROVE  Snapshots'
<1> TypeOK
  BY DEF Support
<1> SUFFICES ASSUME NEW y \in Call
             PROVE  /\ seen'[y] \subseteq Captured'
                    /\ pc'[y] \in {"raise", "count", "commit_count"} =>
                         \A q \in Captured' :
                           (/\ Body[q].tier # NoTier
                            /\ Body[q].tier = Body[PledgeOf[y]].tier)
                              => q \in seen'[y]
  BY DEF Snapshots
<1>1. CASE Captured' = Captured
  BY <1>1, SnapshotSteps DEF Snapshots
<1>2. ASSUME NEW x \in Call, CommitCount(x)
      PROVE  /\ seen'[y] \subseteq Captured'
             /\ pc'[y] \in {"raise", "count", "commit_count"} =>
                  \A q \in Captured' :
                    (/\ Body[q].tier # NoTier
                     /\ Body[q].tier = Body[PledgeOf[y]].tier)
                       => q \in seen'[y]
  <2>1. Captured' = Captured \cup {PledgeOf[x]}
    BY <1>2, CountCaptures
  <2>2. CASE y = x
    BY <1>2, <2>2 DEF CommitCount, Goes, Forget, TypeOK, Tx
  <2>3. CASE y # x
    <3>1. seen'[y] = seen[y] /\ pc'[y] = pc[y] /\ pc[x] = "commit_count"
      BY <1>2, <2>3 DEF CommitCount, Goes, Forget, TypeOK, Tx
    <3>2. ASSUME pc[y] \in {"raise", "count", "commit_count"},
                 Body[PledgeOf[x]].tier # NoTier
          PROVE  Body[PledgeOf[x]].tier # Body[PledgeOf[y]].tier
      BY <2>3, <3>1, <3>2, OneOnTier
    <3> QED
      BY <2>1, <3>1, <3>2 DEF Snapshots
  <2> QED
    BY <2>2, <2>3
<1> QED
  BY <1>1, <1>2, CapturesAreCounts

Paired(c) == { <<Body[p].backer, Body[p].tier>> :
                 p \in { q \in Counted(c) : Body[q].tier # NoTier } }

Plain(c) == { p \in Counted(c) : Body[p].tier = NoTier }

BackersInductive ==
  \A c \in Campaign :
    /\ IsFiniteSet(Backer(Counted(c))) /\ IsFiniteSet(Paired(c))
    /\ Cardinality(Backer(Counted(c))) <= backers[c]
    /\ backers[c] <= Cardinality(Paired(c)) + Cardinality(Plain(c))

LEMMA PlainFinite ==
  ASSUME NEW c \in Campaign
  PROVE  IsFiniteSet(Plain(c))
<1>1. Plain(c) \subseteq Pledge
  BY DEF Plain, Counted, Captured
<1> QED
  BY <1>1, FS_Subset DEF TxAssumption

(* A set that gains at most one element.                                   *)
LEMMA OneMore ==
  ASSUME NEW S, NEW e, IsFiniteSet(S)
  PROVE  /\ IsFiniteSet(S \cup {e}) /\ Cardinality(S) \in Nat
         /\ e \in S => Cardinality(S \cup {e}) = Cardinality(S)
         /\ e \notin S => Cardinality(S \cup {e}) = Cardinality(S) + 1
BY FS_AddElement, FS_CardinalityType

LEMMA CountKeepsBackers ==
  ASSUME Support, Snapshots, BackersInductive, NEW x \in Call, CommitCount(x),
         NEW c \in Campaign, c = Body[PledgeOf[x]].campaign
  PROVE  /\ IsFiniteSet(Backer(Counted(c))') /\ IsFiniteSet(Paired(c)')
         /\ Cardinality(Backer(Counted(c))') <= backers'[c]
         /\ backers'[c] <= Cardinality(Paired(c)') + Cardinality(Plain(c)')
<1> DEFINE p    == PledgeOf[x]
           b    == Body[p].backer
           B    == Backer(Counted(c))
           P    == Paired(c)
           N    == Plain(c)
           pair == <<b, Body[p].tier>>
<1>1. TypeOK /\ p \in Pledge /\ p \notin Captured
      /\ Captured' = Captured \cup {p}
  BY CountCaptures DEF Support
<1>2. Counted(c)' = Counted(c) \cup {p} /\ p \notin Counted(c)
  BY <1>1 DEF Counted
<1>3. B' = B \cup {b}
  BY <1>2 DEF Backer
<1>4. /\ IsFiniteSet(B) /\ IsFiniteSet(P) /\ IsFiniteSet(N)
      /\ Cardinality(B) <= backers[c]
      /\ backers[c] <= Cardinality(P) + Cardinality(N)
      /\ backers[c] \in Nat
  BY <1>1, PlainFinite DEF BackersInductive, TypeOK
<1>5. backers'[c] = IF KnownBacker(x) THEN backers[c] ELSE backers[c] + 1
  BY <1>1 DEF CommitCount, TypeOK
<1>6. KnownBacker(x) => b \in B
  BY DEF KnownBacker, Snapshots, Backer, Counted
<1>7. Body[p].tier # NoTier /\ pair \in P => KnownBacker(x)
  <2> SUFFICES ASSUME Body[p].tier # NoTier, pair \in P PROVE KnownBacker(x)
    OBVIOUS
  <2>1. PICK q \in Counted(c) : /\ Body[q].tier # NoTier
                                /\ <<Body[q].backer, Body[q].tier>> = pair
    BY DEF Paired
  <2>2. q \in Captured /\ q # p /\ Body[q].campaign = c
    BY <1>2, <2>1 DEF Counted
  <2>3. q \in seen[x]
    BY <2>1, <2>2 DEF Snapshots, CommitCount
  <2> QED
    BY <2>1, <2>2, <2>3 DEF KnownBacker
<1>8. \/ /\ Body[p].tier = NoTier
         /\ P' = P /\ N' = N \cup {p} /\ p \notin N
      \/ /\ Body[p].tier # NoTier
         /\ P' = P \cup {pair} /\ N' = N
  BY <1>2 DEF Paired, Plain
<1> HIDE DEF B, P, N, b, pair, p
<1>9. IsFiniteSet(B') /\ Cardinality(B') <= backers'[c]
  <2>1. /\ IsFiniteSet(B \cup {b}) /\ Cardinality(B) \in Nat
        /\ b \in B => Cardinality(B \cup {b}) = Cardinality(B)
        /\ b \notin B => Cardinality(B \cup {b}) = Cardinality(B) + 1
    BY <1>4, OneMore
  <2>2. Cardinality(B \cup {b}) <= backers'[c]
    BY <1>4, <1>5, <1>6, <2>1
  <2> QED
    BY <1>3, <2>1, <2>2
<1>10. /\ IsFiniteSet(P')
       /\ backers'[c] <= Cardinality(P') + Cardinality(N')
  <2>1. /\ Cardinality(P) \in Nat /\ Cardinality(N) \in Nat
        /\ backers'[c] \in Nat /\ backers'[c] <= backers[c] + 1
    BY <1>4, <1>5, FS_CardinalityType
  <2>2. CASE Body[p].tier = NoTier
    <3>1. Cardinality(N') = Cardinality(N) + 1 /\ P' = P
      BY <1>4, <1>8, <2>2, OneMore
    <3> QED
      BY <1>4, <2>1, <3>1
  <2>3. CASE Body[p].tier # NoTier
    <3>1. P' = P \cup {pair} /\ N' = N
      BY <1>8, <2>3
    <3>2. /\ IsFiniteSet(P')
          /\ pair \in P => Cardinality(P') = Cardinality(P)
          /\ pair \notin P => Cardinality(P') = Cardinality(P) + 1
      BY <1>4, <3>1, OneMore
    <3>3. pair \in P => backers'[c] = backers[c]
      BY <1>5, <1>7, <2>3
    <3> QED
      BY <1>4, <2>1, <3>1, <3>2, <3>3
  <2> QED
    BY <2>2, <2>3
<1> QED
  BY <1>9, <1>10 DEF B, P, N

(* backer_count counts every backer of a captured pledge, however stale    *)
(* the sub-select was, and a backer twice only for pledges without a tier  *)
(* or on different tiers.                                                  *)
THEOREM BackersHold == Spec => []BackersBounded
<1>1. Init => Snapshots /\ BackersInductive
  <2>1. ASSUME Init, NEW c \in Campaign
        PROVE  /\ Backer(Counted(c)) = {} /\ Paired(c) = {} /\ Plain(c) = {}
               /\ backers[c] = 0
    BY <2>1 DEF Init, Backer, Counted, Captured, Paired, Plain
  <2>2. Init => Snapshots
    BY DEF Init, Snapshots, Tx
  <2>3. ASSUME Init, NEW c \in Campaign
        PROVE  /\ IsFiniteSet(Backer(Counted(c))) /\ IsFiniteSet(Paired(c))
               /\ Cardinality(Backer(Counted(c))) <= backers[c]
               /\ backers[c] <= Cardinality(Paired(c)) + Cardinality(Plain(c))
    <3>1. IsFiniteSet({}) /\ Cardinality({}) = 0
      BY FS_EmptySet
    <3>2. /\ Backer(Counted(c)) = {} /\ Paired(c) = {} /\ Plain(c) = {}
          /\ backers[c] = 0
      BY <2>1, <2>3
    <3> HIDE DEF Paired, Plain
    <3> QED
      BY <3>1, <3>2
  <2> QED
    BY <2>2, <2>3 DEF BackersInductive
<1>2. Support /\ Snapshots /\ BackersInductive /\ [Next]_vars
        => Snapshots' /\ BackersInductive'
  <2> SUFFICES ASSUME Support, Snapshots, BackersInductive, [Next]_vars
               PROVE  BackersInductive'
    BY SnapshotsKept
  <2>1. CASE Captured' = Captured /\ UNCHANGED backers
    <3>1. \A c \in Campaign : /\ Backer(Counted(c))' = Backer(Counted(c))
                              /\ Paired(c)' = Paired(c) /\ Plain(c)' = Plain(c)
      BY <2>1 DEF Backer, Counted, Paired, Plain
    <3> QED
      BY <2>1, <3>1 DEF BackersInductive
  <2>2. ASSUME NEW x \in Call, CommitCount(x), NEW c \in Campaign
        PROVE  /\ IsFiniteSet(Backer(Counted(c))') /\ IsFiniteSet(Paired(c)')
               /\ Cardinality(Backer(Counted(c))') <= backers'[c]
               /\ backers'[c] <= Cardinality(Paired(c)') + Cardinality(Plain(c)')
    <3>1. CASE c = Body[PledgeOf[x]].campaign
      BY <2>2, <3>1, CountKeepsBackers
    <3>2. CASE c # Body[PledgeOf[x]].campaign
      <4>1. Counted(c)' = Counted(c)
        BY <2>2, <3>2, CountCaptures DEF Counted
      <4>2. backers'[c] = backers[c]
        BY <2>2, <3>2 DEF CommitCount, Support, TypeOK
      <4>3. /\ Backer(Counted(c))' = Backer(Counted(c))
            /\ Paired(c)' = Paired(c) /\ Plain(c)' = Plain(c)
        BY <4>1 DEF Backer, Paired, Plain
      <4> QED
        BY <4>2, <4>3 DEF BackersInductive
    <3> QED
      BY <3>1, <3>2
  <2> QED
    BY <2>1, <2>2, CapturesAreCounts DEF BackersInductive
<1>3. BackersInductive => BackersBounded
  BY DEF BackersInductive, BackersBounded, Paired, Plain
<1> QED
  BY <1>1, <1>2, <1>3, SupportHolds, PTL DEF Spec
============================================================================
