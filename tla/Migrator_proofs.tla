--------------------------- MODULE Migrator_proofs ---------------------------
(***************************************************************************)
(* Proofs about Migrator for any migrations and any number of runs. What   *)
(* is recorded is built because a transaction does both, and a table that  *)
(* others refer to is not dropped (RecordedIsBuilt is inductive). An up    *)
(* knows only versions that are recorded, until something is reverted      *)
(* (Knows). And while nothing but ups run, there is always one that knows  *)
(* everything that is recorded, so that nobody can come before it (Race).  *)
(***************************************************************************)
EXTENDS Migrator, TLAPS

USE MigratorAssumption

Closed(S) == \A v \in S, w \in Version : w < v => w \in S

Knows ==
  \A r \in Runner :
    command[r] = "up" =>
      /\ pc[r] \in {"apply", "ok"} /\ ~undone[r] => seen[r] \subseteq recorded
      /\ pc[r] = "ok" => seen[r] = Version

(* The run that will get to the end, if no other gets ahead of it.         *)
Leads(r) == pc[r] = "read" \/ (pc[r] = "apply" /\ seen[r] = recorded)

Race ==
  trouble = {} =>
    /\ Closed(recorded)
    /\ \A r \in Runner : command[r] = "up" /\ pc[r] # "revert"
    /\ \A r \in Runner :
         pc[r] = "apply" => seen[r] \subseteq recorded /\ Closed(seen[r])
    /\ table /\ recorded # Version => \E r \in Runner : Leads(r)

----------------------------------------------------------------------------
(* Type correctness: what a run remembers are versions, a run that reverts *)
(* has read which, and none gets to the migrations without the table.      *)
THEOREM MigratorTypes == Spec => []TypeOK
<1>1. Init => TypeOK
  BY DEF Init, TypeOK, Ended
<1>2. TypeOK /\ [Next]_vars => TypeOK'
  <2> SUFFICES ASSUME TypeOK, [Next]_vars PROVE TypeOK'
    OBVIOUS
  <2>1. CASE UNCHANGED vars
    BY <2>1 DEF TypeOK, vars, run
  <2>2. ASSUME NEW r \in Runner, NEW cmd \in {"up", "down"}, Start(r, cmd)
        PROVE  TypeOK'
    BY <2>2 DEF TypeOK, Start, Goes, Ended
  <2>3. ASSUME NEW r \in Runner, FindTable(r) \/ CreateTable(r)
        PROVE  TypeOK'
    BY <2>3 DEF TypeOK, FindTable, CreateTable, Goes, Ended
  <2>4. ASSUME NEW r \in Runner, ReadApplied(r) PROVE TypeOK'
    BY <2>4 DEF TypeOK, ReadApplied, Applied, Goes, Ended
  <2>5. ASSUME NEW r \in Runner, ReadLatest(r) PROVE TypeOK'
    BY <2>5 DEF TypeOK, ReadLatest, Goes, Ended
  <2>6. ASSUME NEW r \in Runner, NEW v \in Version, Apply(r, v) PROVE TypeOK'
    BY <2>6 DEF TypeOK, Apply, Record, Goes, Ended
  <2>7. ASSUME NEW r \in Runner, NEW v \in Version, Conflict(r, v)
        PROVE  TypeOK'
    BY <2>7 DEF TypeOK, Conflict, Goes, Ended
  <2>8. ASSUME NEW r \in Runner, pc[r] = "revert", Reverts(r),
               UNCHANGED <<table, command, seen, latest>>,
               \E where \in {"ok", "failed"} : Goes(r, where)
        PROVE  TypeOK'
    <3>1. /\ recorded' \subseteq Version /\ built' \subseteq Version
          /\ trouble' \subseteq {"down", "late", "fault"}
      BY <2>8 DEF TypeOK, Reverts, Removed, Late
    <3>2. undone' \in [Runner -> BOOLEAN]
      BY <2>8 DEF Reverts
    <3>3. PICK where \in {"ok", "failed"} : pc' = [pc EXCEPT ![r] = where]
      BY <2>8 DEF Goes
    <3>4. /\ pc' \in [Runner -> Ended \cup {"ensure", "create", "read", "apply",
                                            "revert"}]
          /\ \A q \in Runner : pc'[q] \in {"read", "apply", "revert"}
                                => pc'[q] = pc[q]
      BY <3>3 DEF TypeOK, Ended
    <3> QED
      BY <2>8, <3>1, <3>2, <3>4 DEF TypeOK
  <2>9. ASSUME NEW r \in Runner, CommitUnknown(r), pc[r] = "apply"
        PROVE  TypeOK'
    BY <2>9 DEF TypeOK, CommitUnknown, Record, Goes, Ended
  <2> QED
    <3>1. ASSUME NEW r \in Runner, RevertFails(r) \/ Fail(r) PROVE TypeOK'
      BY <3>1 DEF TypeOK, RevertFails, Fail, Goes, Ended
    <3>2. ASSUME NEW r \in Runner, Revert(r) PROVE TypeOK'
      BY <2>8, <3>2 DEF Revert
    <3>3. ASSUME NEW r \in Runner, CommitUnknown(r) PROVE TypeOK'
      BY <2>8, <2>9, <3>3 DEF CommitUnknown
    <3> QED
      BY <2>1, <2>2, <2>3, <2>4, <2>5, <2>6, <2>7, <3>1, <3>2, <3>3 DEF Next
<1> QED
  BY <1>1, <1>2, PTL DEF Spec

----------------------------------------------------------------------------
(* The steps that commit a migration, and those that commit nothing.       *)

Applies(r, v) ==
  /\ pc[r] = "apply" /\ Next1st(r, v) /\ UpSucceeds(v) /\ Record(v)
  /\ built' = built \cup {v} /\ trouble \subseteq trouble'

Quiet == UNCHANGED <<recorded, built>> /\ trouble \subseteq trouble'

LEMMA StepKinds ==
  ASSUME TypeOK, [Next]_vars
  PROVE  \/ Quiet
         \/ \E r \in Runner, v \in Version : Applies(r, v)
         \/ \E r \in Runner : pc[r] = "revert" /\ Reverts(r)
<1>1. CASE UNCHANGED vars
  BY <1>1 DEF Quiet, vars
<1>2. ASSUME NEW r \in Runner, NEW cmd \in {"up", "down"}, Start(r, cmd)
      PROVE  Quiet
  BY <1>2 DEF Quiet, Start
<1>3. ASSUME NEW r \in Runner, NEW v \in Version, Apply(r, v)
      PROVE  Applies(r, v)
  BY <1>3 DEF Applies, Apply
<1>4. ASSUME NEW r \in Runner, NEW v \in Version, Conflict(r, v) PROVE Quiet
  BY <1>4 DEF Quiet, Conflict
<1>5. ASSUME NEW r \in Runner,
             \/ FindTable(r) \/ CreateTable(r) \/ ReadApplied(r)
             \/ ReadLatest(r) \/ RevertFails(r) \/ Fail(r)
      PROVE  Quiet
  BY <1>5 DEF Quiet, FindTable, CreateTable, ReadApplied, ReadLatest,
              RevertFails, Fail
<1>6. ASSUME NEW r \in Runner, Revert(r) \/ CommitUnknown(r)
      PROVE  \/ \E v \in Version : Applies(r, v)
             \/ pc[r] = "revert" /\ Reverts(r)
  BY <1>6 DEF Revert, CommitUnknown, Applies
<1> QED
  BY <1>1, <1>2, <1>3, <1>4, <1>5, <1>6 DEF Next

(* A transaction leaves table and schema in agreement.                     *)
LEMMA TruthKept ==
  ASSUME TypeOK, RecordedIsBuilt, [Next]_vars
  PROVE  RecordedIsBuilt'
<1>1. CASE Quiet
  BY <1>1 DEF Quiet, RecordedIsBuilt
<1>2. ASSUME NEW r \in Runner, NEW v \in Version, Applies(r, v)
      PROVE  RecordedIsBuilt'
  BY <1>2 DEF Applies, Record, RecordedIsBuilt
<1>3. ASSUME NEW r \in Runner, pc[r] = "revert", Reverts(r)
      PROVE  RecordedIsBuilt'
  <2> DEFINE v == latest[r]
  <2>1. v \in Version
    BY <1>3 DEF TypeOK
  <2>2. /\ recorded' = recorded \ {v}
        /\ built' = built \ Dropped(v)
        /\ trouble' = trouble \cup Late(v)
    BY <1>3 DEF Reverts, Removed
  <2>3. (recorded \ Change) \ {v} \subseteq built'
    BY <2>2 DEF RecordedIsBuilt, Dropped
  <2>4. built' \subseteq recorded'
    BY <2>2 DEF RecordedIsBuilt, Dropped
  <2>5. ASSUME "late" \notin trouble' PROVE recorded' = built'
    <3>1. recorded = built /\ \A w \in recorded : ~(v < w)
      BY <2>2, <2>5 DEF RecordedIsBuilt, Late
    <3>2. \A w \in recorded : v \notin Needs[w]
      BY <2>1, <3>1 DEF TypeOK
    <3> QED
      BY <2>2, <3>1, <3>2 DEF Dropped
  <2> QED
    BY <2>2, <2>3, <2>4, <2>5 DEF RecordedIsBuilt
<1> QED
  BY <1>1, <1>2, <1>3, StepKinds

(* The table tells the truth (RecordedIsBuilt), for any migrations, faults *)
(* and races.                                                              *)
THEOREM RecordedTruth == Spec => []RecordedIsBuilt
<1>1. Init => RecordedIsBuilt
  BY DEF Init, RecordedIsBuilt
<1>2. TypeOK /\ RecordedIsBuilt /\ [Next]_vars => RecordedIsBuilt'
  BY TruthKept
<1> QED
  BY <1>1, <1>2, MigratorTypes, PTL DEF Spec

----------------------------------------------------------------------------
(* An up knows only what is recorded, and everything once it has ended.    *)
LEMMA KnowsKept ==
  ASSUME TypeOK, Knows, [Next]_vars
  PROVE  Knows'
<1>1. CASE UNCHANGED vars
  BY <1>1 DEF Knows, vars, run
<1>2. ASSUME NEW r \in Runner, NEW cmd \in {"up", "down"}, Start(r, cmd)
      PROVE  Knows'
  BY <1>2 DEF TypeOK, Knows, Start, Goes, Ended
<1>3. ASSUME NEW r \in Runner, FindTable(r) \/ CreateTable(r)
      PROVE  Knows'
  BY <1>3 DEF TypeOK, Knows, FindTable, CreateTable, Goes, Ended
<1>4. ASSUME NEW r \in Runner, ReadApplied(r) PROVE Knows'
  BY <1>4 DEF TypeOK, Knows, ReadApplied, Applied, Goes, Ended
<1>5. ASSUME NEW r \in Runner, ReadLatest(r) PROVE Knows'
  BY <1>5 DEF TypeOK, Knows, ReadLatest, Goes, Ended
<1>6. ASSUME NEW r \in Runner, NEW v \in Version, Apply(r, v) PROVE Knows'
  BY <1>6 DEF TypeOK, Knows, Apply, Record, Goes, Ended
<1>7. ASSUME NEW r \in Runner, NEW v \in Version, Conflict(r, v) PROVE Knows'
  BY <1>7 DEF TypeOK, Knows, Conflict, Goes, Ended
<1>8. ASSUME NEW r \in Runner, RevertFails(r) \/ Fail(r) PROVE Knows'
  BY <1>8 DEF TypeOK, Knows, RevertFails, Fail, Goes, Ended
<1>9. ASSUME NEW r \in Runner, Revert(r) PROVE Knows'
  BY <1>9 DEF TypeOK, Knows, Revert, Reverts, Removed, Goes, Ended
<1>10. ASSUME NEW r \in Runner, CommitUnknown(r) PROVE Knows'
  BY <1>10 DEF TypeOK, Knows, CommitUnknown, Record, Reverts, Removed, Goes,
               Ended
<1> QED
  BY <1>1, <1>2, <1>3, <1>4, <1>5, <1>6, <1>7, <1>8, <1>9, <1>10 DEF Next

(* An up that ends well has brought the schema up (UpMeansUp).             *)
THEOREM UpIsUp == Spec => []UpMeansUp
<1>1. Init => Knows
  BY DEF Init, Knows
<1>2. TypeOK /\ Knows /\ [Next]_vars => Knows'
  BY KnowsKept
<1>3. TypeOK /\ Knows => UpMeansUp
  BY DEF TypeOK, Knows, UpMeansUp
<1> QED
  BY <1>1, <1>2, <1>3, MigratorTypes, PTL DEF Spec

----------------------------------------------------------------------------
(* A run that applies a version has known everything before it, and knows  *)
(* everything after it.                                                    *)
LEMMA OnlyTheLeaderApplies ==
  ASSUME TypeOK, Race, trouble = {}, NEW r \in Runner, NEW v \in Version,
         pc[r] = "apply", Next1st(r, v), v \notin recorded
  PROVE  seen[r] = recorded /\ Closed(recorded \cup {v})
<1>1. seen[r] \subseteq recorded /\ Closed(recorded) /\ Closed(seen[r])
  BY DEF Race
<1>2. ASSUME NEW w \in recorded, w \notin seen[r] PROVE FALSE
  <2>1. w \in Version /\ v \in Nat /\ w \in Nat
    BY <1>2 DEF TypeOK
  <2>2. v <= w /\ v # w
    BY <1>2, <2>1 DEF Next1st
  <2>3. v < w
    BY <2>1, <2>2
  <2> QED
    BY <1>1, <1>2, <2>3 DEF Closed
<1>3. seen[r] = recorded
  BY <1>1, <1>2
<1>4. ASSUME NEW w \in Version, w < v PROVE w \in recorded
  <2>1. v \in Nat /\ w \in Nat
    OBVIOUS
  <2>2. w \in seen[r]
    BY <1>4, <2>1 DEF Next1st
  <2> QED
    BY <1>3, <2>2
<1> QED
  BY <1>1, <1>3, <1>4 DEF Closed

(* The run that leads meets no conflict.                                   *)
LEMMA TheLeaderGoesOn ==
  ASSUME TypeOK, RecordedIsBuilt, trouble = {},
         NEW r \in Runner, NEW v \in Version,
         pc[r] = "apply", seen[r] = recorded, Next1st(r, v)
  PROVE  UpSucceeds(v) /\ v \notin recorded
<1>1. recorded = built /\ v \notin recorded
  BY DEF RecordedIsBuilt, Next1st
<1>2. ASSUME NEW w \in Needs[v] PROVE w \in built
  <2>1. w \in Version /\ w < v /\ w \in Nat /\ v \in Nat
    OBVIOUS
  <2>2. ~(v <= w)
    BY <2>1
  <2> QED
    BY <1>1, <2>1, <2>2 DEF Next1st
<1> QED
  BY <1>1, <1>2 DEF UpSucceeds

LEMMA RaceKept ==
  ASSUME TypeOK, RecordedIsBuilt, Race, [Next]_vars
  PROVE  Race'
<1> SUFFICES ASSUME trouble' = {} PROVE Race'
  BY DEF Race
<1> USE DEF Leads
<1>1. CASE UNCHANGED vars
  BY <1>1 DEF Race, vars, run, Closed
<1>2. ASSUME NEW r \in Runner, NEW cmd \in {"up", "down"}, Start(r, cmd)
      PROVE  Race'
  <2>1. trouble = {} /\ cmd = "up"
    BY <1>2 DEF Start
  <2>2. pc[r] \notin {"read", "apply"}
    BY <1>2 DEF Start, Ended
  <2> QED
    BY <1>2, <2>1, <2>2 DEF TypeOK, Race, Start, Goes, Closed
<1>3. ASSUME NEW r \in Runner, FindTable(r) PROVE Race'
  BY <1>3 DEF TypeOK, Race, FindTable, Goes, Closed
<1>4. ASSUME NEW r \in Runner, CreateTable(r) PROVE Race'
  BY <1>4 DEF TypeOK, Race, CreateTable, Goes, Closed
<1>5. ASSUME NEW r \in Runner, ReadApplied(r) PROVE Race'
  BY <1>5 DEF TypeOK, Race, ReadApplied, Applied, Goes, Closed
<1>6. ASSUME NEW r \in Runner, ReadLatest(r) PROVE Race'
  BY <1>6 DEF Race, ReadLatest
<1>7. ASSUME NEW r \in Runner, NEW v \in Version, Apply(r, v) PROVE Race'
  <2>1. trouble = {} /\ pc[r] = "apply" /\ Next1st(r, v) /\ v \notin recorded
    BY <1>7 DEF Apply, Record
  <2>2. seen[r] = recorded /\ Closed(recorded \cup {v})
    BY <2>1, OnlyTheLeaderApplies
  <2>3. recorded' = recorded \cup {v} /\ seen'[r] = recorded'
    BY <1>7, <2>2 DEF TypeOK, Apply, Record
  <2>4. recorded' # Version => pc'[r] = "apply"
    BY <1>7, <2>2, <2>3 DEF TypeOK, Apply, Goes
  <2>5. ASSUME NEW q \in Runner, pc'[q] = "apply"
        PROVE  seen'[q] \subseteq recorded' /\ Closed(seen'[q])
    <3>1. CASE q = r
      BY <2>2, <2>3, <3>1 DEF Closed
    <3>2. CASE q # r
      BY <1>7, <2>1, <2>3, <2>5, <3>2 DEF TypeOK, Race, Apply, Goes, Closed
    <3> QED
      BY <3>1, <3>2
  <2>6. \A q \in Runner : command'[q] = "up" /\ pc'[q] # "revert"
    BY <1>7, <2>1 DEF TypeOK, Race, Apply, Goes
  <2> QED
    BY <2>2, <2>3, <2>4, <2>5, <2>6 DEF Race, Closed
<1>8. ASSUME NEW r \in Runner, NEW v \in Version, Conflict(r, v) PROVE Race'
  <2>1. trouble = {} /\ seen[r] # recorded
    BY <1>8, TheLeaderGoesOn DEF Conflict
  <2> QED
    BY <1>8, <2>1 DEF TypeOK, Race, Conflict, Goes, Closed
<1>9. ASSUME NEW r \in Runner,
             Revert(r) \/ RevertFails(r) \/ Fail(r) \/ CommitUnknown(r)
      PROVE  Race'
  BY <1>9 DEF Race, Revert, RevertFails, Reverts, Fail, CommitUnknown
<1> QED
  BY <1>1, <1>2, <1>3, <1>4, <1>5, <1>6, <1>7, <1>8, <1>9 DEF Next

(* Of any number of racing ups one gets to the end (RaceIsWon).            *)
THEOREM RaceWon == Spec => []RaceIsWon
<1>1. Init => Race
  BY DEF Init, Race, Closed
<1>2. TypeOK /\ RecordedIsBuilt /\ Race /\ [Next]_vars => Race'
  BY RaceKept
<1>3. TypeOK /\ Race => RaceIsWon
  BY DEF Race, RaceIsWon, Closed, Leads, Ended
<1> QED
  BY <1>1, <1>2, <1>3, MigratorTypes, RecordedTruth, PTL DEF Spec
============================================================================
