------------------------- MODULE MediaIntake_proofs -------------------------
(***************************************************************************)
(* Safety of MediaIntake for any number of assets, requests, records and   *)
(* failures. The invariant behind it says where the evidence of an upload  *)
(* is: in the outbox or on the topic once it is marked, and not yet past   *)
(* the loop while there is no job.                                         *)
(***************************************************************************)
EXTENDS MediaIntake, TLAPS

USE IntakeAssumption, FaultsAssumption

(* Evidence of an upload was written for a file that was there.            *)
Evidence ==
  /\ \A a \in Asset : /\ row[a] = "UPLOADED" => unsent[a] > 0 \/ log[a] > 0
                      /\ unsent[a] > 0 \/ log[a] > 0 \/ job[a] # "ABSENT"
                           => object[a] = "fits"
                      /\ object[a] = "fits" => row[a] # "ABSENT"
  /\ \A q \in Request : step[q] = "marked" => object[target[q]] = "fits"

(* A record is passed by only when its asset has a job, or with a failure  *)
(* of the loop.                                                            *)
PassedHasJob ==
  \A a \in Asset : job[a] = "ABSENT" /\ a \notin dropped
                    => handled[a] = 0 /\ current # a

(* A fetch counts records of the log.                                      *)
LEMMA FetchType ==
  ASSUME TypeOK, NEW fetch \in [Asset -> UNION { MoreOf(a) : a \in Asset }],
         Returned(fetch)
  PROVE  /\ fetch \in [Asset -> Nat]
         /\ \A a \in Asset : polled[a] <= fetch[a] /\ fetch[a] <= log[a]
<1>1. ASSUME NEW a \in Asset
      PROVE  polled[a] \in Nat /\ log[a] \in Nat
  BY <1>1 DEF TypeOK
<1>2. ASSUME NEW a \in Asset
      PROVE  fetch[a] \in Nat /\ polled[a] <= fetch[a] /\ fetch[a] <= log[a]
  BY <1>1, <1>2 DEF Returned, MoreOf
<1> QED
  BY <1>2

LEMMA TypeInit == Init => TypeOK
  BY DEF Init, TypeOK

(* Every action keeps the types, and the order of the consumer's counters. *)
LEMMA TypeStep == TypeOK /\ [Next]_vars => TypeOK'
<1> SUFFICES ASSUME TypeOK, [Next]_vars PROVE TypeOK'
  OBVIOUS
<1> USE DEF TypeOK
<1>1. ASSUME NEW a \in Asset, Presign(a) PROVE TypeOK'
  BY <1>1 DEF Presign, intake, consumer
<1>2. ASSUME NEW a \in Asset, PutObject(a) PROVE TypeOK'
  BY <1>2 DEF PutObject, consumer
<1>3. ASSUME NEW a \in Asset, Produce(a) PROVE TypeOK'
  BY <1>3 DEF Produce, intake, consumer
<1>4. ASSUME NEW a \in Asset, Decide(a) PROVE TypeOK'
  BY <1>4 DEF Decide, intake, consumer
<1>5. ASSUME NEW a \in Asset, HandleUploaded(a) PROVE TypeOK'
  BY <1>5 DEF HandleUploaded, Enqueue, Jobless, intake
<1>6. ASSUME NEW q \in Request, NEW a \in Asset, Complete(q, a) PROVE TypeOK'
  BY <1>6 DEF Complete, consumer
<1>7. ASSUME NEW q \in Request, MarkUploaded(q) PROVE TypeOK'
  BY <1>7 DEF MarkUploaded, consumer
<1>8. ASSUME NEW q \in Request, RefuseUpload(q) PROVE TypeOK'
  BY <1>8 DEF RefuseUpload, consumer
<1>9. ASSUME NEW q \in Request, EnqueueDirectly(q) PROVE TypeOK'
  BY <1>9 DEF EnqueueDirectly, Enqueue, consumer
<1>10. ASSUME NEW q \in Request, EnqueueFails(q) PROVE TypeOK'
  BY <1>10 DEF EnqueueFails, consumer
<1>11. CASE Poll
  <2>1. PICK fetch \in [Asset -> UNION { MoreOf(a) : a \in Asset }] :
          /\ Returned(fetch) /\ polled' = fetch
          /\ handled' = handled \/ handled' = fetch
          /\ dropped' \subseteq Asset
    BY <1>11 DEF Poll, Jobless
  <2>2. /\ fetch \in [Asset -> Nat]
        /\ \A a \in Asset : polled[a] <= fetch[a] /\ fetch[a] <= log[a]
    BY <2>1, FetchType
  <2>3. /\ LoopEnded /\ earlier' = polled
        /\ UNCHANGED <<row, job, object, step, target, unsent, log, committed,
                       current>>
    BY <1>11 DEF Poll, intake
  <2>4. current = NoAsset
    BY <2>3 DEF LoopEnded
  <2> QED
    BY <2>1, <2>2, <2>3, <2>4 DEF LoopEnded
<1>12. CASE CommitRecord
  BY <1>12 DEF CommitRecord, intake
<1>13. CASE AutoCommit
  BY <1>13 DEF AutoCommit, intake
<1>14. CASE Restart
  BY <1>14 DEF Restart, intake
<1>15. CASE UNCHANGED vars
  BY <1>15 DEF vars, intake, consumer
<1> QED
  BY <1>1, <1>2, <1>3, <1>4, <1>5, <1>6, <1>7, <1>8, <1>9, <1>10, <1>11,
     <1>12, <1>13, <1>14, <1>15 DEF Next

LEMMA EvidenceInit == Init => Evidence /\ PassedHasJob
  BY DEF Init, TypeOK, Evidence, PassedHasJob

(* Marking follows the stat and writes the outbox row; a record is only    *)
(* added, a job is only made for a marked upload or for a record.          *)
LEMMA EvidenceStep == TypeOK /\ Evidence /\ [Next]_vars => Evidence'
<1> SUFFICES ASSUME TypeOK, Evidence, [Next]_vars PROVE Evidence'
  OBVIOUS
<1> USE DEF TypeOK, Evidence
<1>1. ASSUME NEW a \in Asset, Presign(a) PROVE Evidence'
  BY <1>1 DEF Presign, intake, consumer
<1>2. ASSUME NEW a \in Asset, PutObject(a) PROVE Evidence'
  BY <1>2 DEF PutObject, consumer
<1>3. ASSUME NEW a \in Asset, Produce(a) PROVE Evidence'
  BY <1>3 DEF Produce, intake, consumer
<1>4. ASSUME NEW a \in Asset, Decide(a) PROVE Evidence'
  BY <1>4, VerdictAssumption DEF Decide, intake, consumer
<1>5. ASSUME NEW a \in Asset, HandleUploaded(a) PROVE Evidence'
  <2>1. log[a] > 0
    BY <1>5 DEF HandleUploaded
  <2> QED
    BY <1>5, <2>1 DEF HandleUploaded, Enqueue, intake
<1>6. ASSUME NEW q \in Request, NEW a \in Asset, Complete(q, a)
      PROVE  Evidence'
  BY <1>6 DEF Complete, consumer
<1>7. ASSUME NEW q \in Request, MarkUploaded(q) PROVE Evidence'
  BY <1>7 DEF MarkUploaded, consumer
<1>8. ASSUME NEW q \in Request, RefuseUpload(q) PROVE Evidence'
  BY <1>8 DEF RefuseUpload, consumer
<1>9. ASSUME NEW q \in Request, EnqueueDirectly(q) PROVE Evidence'
  BY <1>9 DEF EnqueueDirectly, Enqueue, consumer
<1>10. ASSUME NEW q \in Request, EnqueueFails(q) PROVE Evidence'
  BY <1>10 DEF EnqueueFails, consumer
<1>11. CASE Poll
  BY <1>11 DEF Poll, intake
<1>12. CASE CommitRecord
  BY <1>12 DEF CommitRecord, intake
<1>13. CASE AutoCommit
  BY <1>13 DEF AutoCommit, intake
<1>14. CASE Restart
  BY <1>14 DEF Restart, intake
<1>15. CASE UNCHANGED vars
  BY <1>15 DEF vars, intake, consumer
<1> QED
  BY <1>1, <1>2, <1>3, <1>4, <1>5, <1>6, <1>7, <1>8, <1>9, <1>10, <1>11,
     <1>12, <1>13, <1>14, <1>15 DEF Next

(* The loop passes a record only after the asset's job was made, or with a *)
(* failure that is remembered, and no restart goes beyond that.            *)
LEMMA PassedStep == TypeOK /\ PassedHasJob /\ [Next]_vars => PassedHasJob'
<1> SUFFICES ASSUME TypeOK, PassedHasJob, [Next]_vars PROVE PassedHasJob'
  OBVIOUS
<1> USE DEF TypeOK, PassedHasJob
<1>2. ASSUME NEW a \in Asset, Presign(a) PROVE PassedHasJob'
  BY <1>2 DEF Presign, intake, consumer
<1>3. ASSUME NEW a \in Asset, PutObject(a) PROVE PassedHasJob'
  BY <1>3 DEF PutObject, consumer
<1>4. ASSUME NEW a \in Asset, Produce(a) PROVE PassedHasJob'
  BY <1>4 DEF Produce, intake, consumer
<1>5. ASSUME NEW a \in Asset, Decide(a) PROVE PassedHasJob'
  BY <1>5 DEF Decide, intake, consumer
<1>6. ASSUME NEW a \in Asset, HandleUploaded(a) PROVE PassedHasJob'
  BY <1>6 DEF HandleUploaded, Enqueue, Jobless, intake
<1>7. ASSUME NEW q \in Request, NEW a \in Asset, Complete(q, a)
      PROVE  PassedHasJob'
  BY <1>7 DEF Complete, consumer
<1>8. ASSUME NEW q \in Request, MarkUploaded(q) PROVE PassedHasJob'
  BY <1>8 DEF MarkUploaded, consumer
<1>9. ASSUME NEW q \in Request, RefuseUpload(q) PROVE PassedHasJob'
  BY <1>9 DEF RefuseUpload, consumer
<1>10. ASSUME NEW q \in Request, EnqueueDirectly(q) PROVE PassedHasJob'
  BY <1>10 DEF EnqueueDirectly, Enqueue, consumer
<1>11. ASSUME NEW q \in Request, EnqueueFails(q) PROVE PassedHasJob'
  BY <1>11 DEF EnqueueFails, consumer
<1>12. CASE Poll
  <2>1. PICK fetch \in [Asset -> UNION { MoreOf(a) : a \in Asset }] :
          /\ Returned(fetch)
          /\ \/ UNCHANGED <<handled, dropped>>
             \/ /\ handled' = fetch
                /\ dropped' = dropped
                                \cup { a \in Jobless : fetch[a] > polled[a] }
    BY <1>12 DEF Poll
  <2>2. /\ fetch \in [Asset -> Nat]
        /\ \A a \in Asset : polled[a] <= fetch[a]
    BY <2>1, FetchType
  <2>3. LoopEnded /\ UNCHANGED <<job, current>>
    BY <1>12 DEF Poll
  <2> QED
    BY <2>1, <2>2, <2>3 DEF LoopEnded, Jobless
<1>13. CASE CommitRecord
  BY <1>13 DEF CommitRecord, intake
<1>14. CASE AutoCommit
  BY <1>14 DEF AutoCommit, intake
<1>15. CASE Restart
  BY <1>15 DEF Restart, intake
<1>16. CASE UNCHANGED vars
  BY <1>16 DEF vars, intake, consumer
<1> QED
  BY <1>2, <1>3, <1>4, <1>5, <1>6, <1>7, <1>8, <1>9, <1>10, <1>11, <1>12,
     <1>13, <1>14, <1>15, <1>16 DEF Next

----------------------------------------------------------------------------
(* Types, and the order of the consumer's four counters: what is committed *)
(* was handled, what is handled was polled, what is polled is on the topic.*)
THEOREM IntakeTypes == Spec => []TypeOK
  BY TypeInit, TypeStep, PTL DEF Spec

(* No job is made for an upload that was not found in storage, whichever   *)
(* of the request and the consumer makes it.                               *)
THEOREM OnlyVerified == Spec => []VerifiedBeforeQueued
<1>1. Evidence => VerifiedBeforeQueued
  BY DEF Evidence, VerifiedBeforeQueued
<1> QED
  BY <1>1, TypeInit, TypeStep, EvidenceInit, EvidenceStep, PTL DEF Spec

(* An upload without a job is in the outbox or behind the group's offset,  *)
(* if the loop has not passed it over.                                     *)
THEOREM NeverForgotten == Spec => []UploadTracked
<1>1. TypeOK /\ Evidence /\ PassedHasJob => UploadTracked
  BY DEF TypeOK, Evidence, PassedHasJob, UploadTracked
<1> QED
  BY <1>1, TypeInit, TypeStep, EvidenceInit, EvidenceStep, PassedStep, PTL
  DEF Spec

(* A step on an asset whose job is decided leaves the job decided and the  *)
(* verdict as it is, or it is a complete request.                          *)
LEMMA HarmlessStep ==
  ASSUME TypeOK, Evidence, [Next]_vars, NEW a \in Asset, job[a] = "DONE"
  PROVE  job'[a] = "DONE" /\ (row'[a] = row[a] \/ CompletesAgain(a))
<1> DEFINE Harmless == job'[a] = "DONE" /\ (row'[a] = row[a] \/ CompletesAgain(a))
<1> SUFFICES Harmless
  OBVIOUS
<1>1. row[a] # "ABSENT"
  BY DEF Evidence
<1> USE DEF TypeOK
<1>2. ASSUME NEW b \in Asset, Presign(b) PROVE Harmless
  BY <1>1, <1>2 DEF Presign
<1>3. ASSUME NEW b \in Asset, PutObject(b) \/ Produce(b) PROVE Harmless
  BY <1>3 DEF PutObject, Produce
<1>4. ASSUME NEW b \in Asset, Decide(b) PROVE Harmless
  BY <1>4 DEF Decide
<1>5. ASSUME NEW b \in Asset, HandleUploaded(b) PROVE Harmless
  BY <1>5 DEF HandleUploaded, Enqueue
<1>6. ASSUME NEW q \in Request, NEW b \in Asset, Complete(q, b) PROVE Harmless
  BY <1>6 DEF Complete
<1>7. ASSUME NEW q \in Request, MarkUploaded(q) PROVE Harmless
  BY <1>7 DEF MarkUploaded, CompletesAgain
<1>8. ASSUME NEW q \in Request, RefuseUpload(q) \/ EnqueueFails(q)
      PROVE  Harmless
  BY <1>8 DEF RefuseUpload, EnqueueFails
<1>9. ASSUME NEW q \in Request, EnqueueDirectly(q) PROVE Harmless
  BY <1>9 DEF EnqueueDirectly, Enqueue
<1>10. CASE Poll \/ CommitRecord \/ AutoCommit \/ Restart
  BY <1>10 DEF Poll, CommitRecord, AutoCommit, Restart
<1>11. CASE UNCHANGED vars
  BY <1>11 DEF vars
<1> QED
  BY <1>2, <1>3, <1>4, <1>5, <1>6, <1>7, <1>8, <1>9, <1>10, <1>11 DEF Next

(* Records that come again, requests and failures leave a decided job and  *)
(* its asset alone; only a repeated complete request touches the asset.    *)
THEOREM RedeliveryHarmless == Spec => RedeliveryIsHarmless
<1> DEFINE Kept == \A a \in Asset :
                     job[a] = "DONE" => /\ job'[a] = "DONE"
                                        /\ row'[a] = row[a] \/ CompletesAgain(a)
<1>1. TypeOK /\ Evidence /\ [Next]_vars => [Kept]_vars
  BY HarmlessStep
<1>2. Spec => [][Kept]_vars
  BY <1>1, TypeInit, TypeStep, EvidenceInit, EvidenceStep, PTL DEF Spec
<1> QED
  BY <1>2 DEF RedeliveryIsHarmless
=============================================================================
