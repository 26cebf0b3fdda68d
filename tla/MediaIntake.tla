----------------------------- MODULE MediaIntake -----------------------------
(***************************************************************************)
(* From an uploaded file to a transcode job: the upload requests           *)
(* (internal/media/handler.go, upload.go), the topic, and the consumer of  *)
(* cmd/transcoder that turns media.uploaded into jobs (consumer.go).       *)
(*                                                                         *)
(* A job is made on two roads, by the request itself and by the consumer,  *)
(* and uq_job_asset_version is what keeps it one. The dispatcher between   *)
(* outbox and topic appears as what AtLeastOnce says of it, the workers as *)
(* what JobVerdict says of them, for a source of which nothing is known.   *)
(*                                                                         *)
(* The record key is the asset, so the records of one asset are in one     *)
(* partition, and offsets are counted for each asset. The group has one    *)
(* consumer at a time; a Restart is also a rebalance to another one. The   *)
(* client commits by itself, at any time, what an earlier poll returned.   *)
(*                                                                         *)
(* A definition Name_Something beside Name is a faulty variant of it and   *)
(* takes no part in the specification.                                     *)
(***************************************************************************)
EXTENDS Naturals

CONSTANTS
  Asset,
  Request,     \* the requests POST /uploads/{id}/complete
  Owned,       \* [Request -> SUBSET Asset] its caller's assets, of which it
               \* is about one
  NoAsset,     \* a request that has not come yet, a consumer between records
  Verdict,     \* the statuses that the end of a job may give an asset
  MaxRecords,  \* bound: no duplicate is produced beyond so many records
  Faults       \* the failures that may happen

ASSUME IntakeAssumption == NoAsset \notin Asset

ASSUME VerdictAssumption ==
  Verdict \cap {"ABSENT", "PENDING_UPLOAD", "UPLOADED"} = {}

ASSUME FaultsAssumption ==
  /\ Owned \in [Request -> SUBSET Asset]
  /\ MaxRecords \in Nat
  /\ Faults \subseteq {"client_retry", "api_crash", "enqueue_error",
                       "duplicate", "restart", "commit_error", "poll_error",
                       "consume_error"}

VARIABLES
  row,        \* [Asset -> ...] media_assets.status, "ABSENT" without a row
  object,     \* [Asset -> ...] what is stored under storage_key; "unfit":
              \* nothing, or a file that is too large
  job,        \* [Asset -> ...] the transcode_jobs row; "OPEN": not ended yet
  step,       \* [Request -> ...] where the goroutine of Complete is
  target,     \* [Request -> ...] the asset it is about
  unsent,     \* [Asset -> Nat] the media.uploaded rows not yet published
  log,        \* [Asset -> Nat] the asset's records on the topic
  polled,     \* [Asset -> Nat] how many of them PollFetches has returned
  handled,    \* [Asset -> Nat] how many of them the loop is through with
  earlier,    \* [Asset -> Nat] those returned by polls before the last
  committed,  \* [Asset -> Nat] the group's offset
  current,    \* the asset of the record the loop is at
  dropped     \* history: the assets without a job of which the loop passed a
              \* record over

intake   == <<object, step, target>>
consumer == <<polled, handled, earlier, committed, current, dropped>>
vars     == <<row, job, intake, unsent, log, consumer>>

TypeOK ==
  /\ row    \in [Asset -> {"ABSENT", "PENDING_UPLOAD", "UPLOADED"}
                           \cup Verdict]
  /\ object \in [Asset -> {"unfit", "fits"}]
  /\ job    \in [Asset -> {"ABSENT", "OPEN", "DONE"}]
  /\ step   \in [Request -> {"new", "got", "marked", "done"}]
  /\ target \in [Request -> Asset \cup {NoAsset}]
  /\ unsent \in [Asset -> Nat] /\ log \in [Asset -> Nat]
  /\ polled \in [Asset -> Nat] /\ handled \in [Asset -> Nat]
  /\ earlier \in [Asset -> Nat] /\ committed \in [Asset -> Nat]
  /\ current \in Asset \cup {NoAsset} /\ dropped \subseteq Asset
  /\ \A q \in Request : step[q] # "new" => target[q] \in Asset
  /\ \A a \in Asset : /\ committed[a] <= handled[a] /\ earlier[a] <= handled[a]
                      /\ handled[a] <= polled[a] /\ polled[a] <= log[a]
  /\ current \in Asset => handled[current] < polled[current]

Init ==
  /\ row       = [a \in Asset |-> "ABSENT"]
  /\ object    = [a \in Asset |-> "unfit"]
  /\ job       = [a \in Asset |-> "ABSENT"]
  /\ step      = [q \in Request |-> "new"]
  /\ target    = [q \in Request |-> NoAsset]
  /\ unsent    = [a \in Asset |-> 0]
  /\ log       = [a \in Asset |-> 0]
  /\ polled    = [a \in Asset |-> 0]
  /\ handled   = [a \in Asset |-> 0]
  /\ earlier   = [a \in Asset |-> 0]
  /\ committed = [a \in Asset |-> 0]
  /\ current   = NoAsset
  /\ dropped   = {}

----------------------------------------------------------------------------
(* The upload.                                                             *)

Presign(a) ==
  /\ row[a] = "ABSENT"
  /\ row' = [row EXCEPT ![a] = "PENDING_UPLOAD"]
  /\ UNCHANGED <<job, intake, unsent, log, consumer>>

(* The client PUTs a file of a size that may be to the presigned URL.      *)
(* (Overwriting it with another is left out.)                              *)
PutObject(a) ==
  /\ row[a] # "ABSENT" /\ object[a] # "fits"
  /\ object' = [object EXCEPT ![a] = "fits"]
  /\ UNCHANGED <<row, job, step, target, unsent, log, consumer>>

(* The owner's request; the row is read without a lock and its status is   *)
(* not looked at. A client that had no answer may ask again.               *)
Complete(q, a) ==
  /\ step[q] = "new"
  /\ row[a] # "ABSENT" /\ a \in Owned[q]
  /\ "client_retry" \in Faults \/ \A o \in Request : target[o] # a
  /\ step'   = [step EXCEPT ![q] = "got"]
  /\ target' = [target EXCEPT ![q] = a]
  /\ UNCHANGED <<row, object, job, unsent, log, consumer>>

MarkUploaded_NoEvent(q) ==
  /\ step[q] = "got"
  /\ object[target[q]] = "fits"
  /\ row'  = [row EXCEPT ![target[q]] = "UPLOADED"]
  /\ step' = [step EXCEPT ![q] = "marked"]
  /\ UNCHANGED <<object, job, target, unsent, log, consumer>>

(* The object is stat'ed; status and outbox row commit together. Whatever  *)
(* the status was, it becomes UPLOADED.                                    *)
MarkUploaded(q) ==
  /\ step[q] = "got"
  /\ object[target[q]] = "fits"
  /\ row'    = [row EXCEPT ![target[q]] = "UPLOADED"]
  /\ unsent' = [unsent EXCEPT ![target[q]] = @ + 1]
  /\ step'   = [step EXCEPT ![q] = "marked"]
  /\ UNCHANGED <<object, job, target, log, consumer>>

(* No object, FILE_TOO_LARGE, or a failure: nothing is written.            *)
RefuseUpload(q) ==
  /\ step[q] = "got"
  /\ object[target[q]] # "fits" \/ "api_crash" \in Faults
  /\ step' = [step EXCEPT ![q] = "done"]
  /\ UNCHANGED <<row, object, job, target, unsent, log, consumer>>

Enqueue_Requeues(a) == job' = [job EXCEPT ![a] = "OPEN"]

(* ON CONFLICT (asset_id, pipeline_version): the job that is there stays.  *)
Enqueue(a) ==
  job' = [job EXCEPT ![a] = IF @ = "ABSENT" THEN "OPEN" ELSE @]

EnqueueDirectly(q) ==
  /\ step[q] = "marked"
  /\ Enqueue(target[q])
  /\ step' = [step EXCEPT ![q] = "done"]
  /\ UNCHANGED <<row, object, target, unsent, log, consumer>>

(* 500, or the process dies: the upload is committed all the same.         *)
EnqueueFails(q) ==
  /\ step[q] = "marked"
  /\ Faults \cap {"enqueue_error", "api_crash"} # {}
  /\ step' = [step EXCEPT ![q] = "done"]
  /\ UNCHANGED <<row, job, object, target, unsent, log, consumer>>

----------------------------------------------------------------------------
(* The dispatcher (AtLeastOnce) and a worker (JobVerdict).                 *)

Produce(a) ==
  /\ unsent[a] > 0
  /\ log' = [log EXCEPT ![a] = @ + 1]
  /\ \/ unsent' = [unsent EXCEPT ![a] = @ - 1]
     \/ /\ "duplicate" \in Faults /\ log[a] + unsent[a] < MaxRecords
        /\ UNCHANGED unsent
  /\ UNCHANGED <<row, job, intake, consumer>>

Decide(a) ==
  /\ job[a] = "OPEN"
  /\ job' = [job EXCEPT ![a] = "DONE"]
  /\ \E verdict \in Verdict : row' = [row EXCEPT ![a] = verdict]
  /\ UNCHANGED <<intake, unsent, log, consumer>>

----------------------------------------------------------------------------
(* The consumer: poll, and for each record Enqueue, then CommitRecords.    *)

Jobless == { a \in Asset : job[a] = "ABSENT" }

LoopEnded == \A a \in Asset : handled[a] = polled[a]

MoreOf(a) == polled[a]..log[a]

Returned(fetch) == /\ \A a \in Asset : fetch[a] \in MoreOf(a)
                   /\ fetch # polled

(* PollFetches returns some of the records that are there. When a          *)
(* partition of the fetch is in error, the records of the others are       *)
(* passed over.                                                            *)
Poll ==
  /\ LoopEnded
  /\ \E fetch \in [Asset -> UNION { MoreOf(a) : a \in Asset }] :
       /\ Returned(fetch)
       /\ polled' = fetch
       /\ \/ UNCHANGED <<handled, dropped>>
          \/ /\ "poll_error" \in Faults
             /\ handled' = fetch
             /\ dropped' = dropped
                             \cup { a \in Jobless : fetch[a] > polled[a] }
  /\ earlier' = polled
  /\ UNCHANGED <<row, job, intake, unsent, log, committed, current>>

(* A failed Enqueue is logged, and the loop goes on to commit the record.  *)
HandleUploaded(a) ==
  /\ current = NoAsset /\ handled[a] < polled[a]
  /\ current' = a
  /\ \/ Enqueue(a) /\ UNCHANGED dropped
     \/ /\ "consume_error" \in Faults
        /\ dropped' = dropped \cup ({a} \cap Jobless)
        /\ UNCHANGED job
  /\ UNCHANGED <<row, intake, unsent, log, polled, handled, earlier,
                 committed>>

CommitRecord_Batch ==
  /\ current # NoAsset
  /\ handled' = [handled EXCEPT ![current] = @ + 1]
  /\ committed' = polled
  /\ current' = NoAsset
  /\ UNCHANGED <<row, job, intake, unsent, log, polled, earlier, dropped>>

CommitRecord ==
  /\ current # NoAsset
  /\ handled' = [handled EXCEPT ![current] = @ + 1]
  /\ \/ committed' = [committed EXCEPT ![current] = handled[current] + 1]
     \/ "commit_error" \in Faults /\ UNCHANGED committed
  /\ current' = NoAsset
  /\ UNCHANGED <<row, job, intake, unsent, log, polled, earlier, dropped>>

(* franz-go, unless told otherwise, commits every few seconds what polls   *)
(* before the last returned.                                               *)
AutoCommit ==
  /\ \E a \in Asset : committed[a] < earlier[a]
  /\ committed' = [a \in Asset |-> IF committed[a] < earlier[a]
                                   THEN earlier[a] ELSE committed[a]]
  /\ UNCHANGED <<row, job, intake, unsent, log, polled, handled, earlier,
                 current, dropped>>

(* The consumer dies or loses its partitions: the next one starts at the   *)
(* group's offsets.                                                        *)
Restart ==
  /\ "restart" \in Faults
  /\ polled'  = committed /\ handled' = committed /\ earlier' = committed
  /\ current' = NoAsset
  /\ UNCHANGED <<row, job, intake, unsent, log, committed, dropped>>

Next ==
  \/ \E a \in Asset : \/ Presign(a) \/ PutObject(a) \/ Produce(a) \/ Decide(a)
                      \/ HandleUploaded(a)
                      \/ \E q \in Request : Complete(q, a)
  \/ \E q \in Request : \/ MarkUploaded(q) \/ RefuseUpload(q)
                        \/ EnqueueDirectly(q) \/ EnqueueFails(q)
  \/ Poll \/ CommitRecord \/ AutoCommit \/ Restart

Spec == Init /\ [][Next]_vars

(* The dispatcher produces what is committed (AtLeastOnce!FairSpec), no    *)
(* partition is left out by the polls for ever, the consumer does not die  *)
(* in the same place every time, and a job gets its verdict                *)
(* (TranscodeJob!EveryJobDecided). Nothing is asked of requests.           *)
PollOf(a) == Poll /\ polled'[a] > polled[a]

IntakeFairness ==
  /\ \A a \in Asset : /\ WF_vars(Produce(a)) /\ WF_vars(Decide(a))
                      /\ SF_vars(PollOf(a)) /\ SF_vars(HandleUploaded(a))
  /\ WF_vars(CommitRecord)

FairSpec == Spec /\ IntakeFairness

----------------------------------------------------------------------------
(* Properties.                                                             *)

(* An upload is never forgotten: while it has no job, its message is still *)
(* in the outbox or on the topic behind the group's offset, whatever dies  *)
(* or is told twice, so that a new consumer would find it. Only the loop   *)
(* itself can lose it, by an Enqueue or a partition that fails.            *)
UploadTracked ==
  \A a \in Asset :
    row[a] = "UPLOADED" /\ job[a] = "ABSENT"
      => unsent[a] > 0 \/ committed[a] < log[a] \/ a \in dropped

(* A job is for a file that was found in storage: neither the event nor    *)
(* the direct call makes one for an upload that was not verified.          *)
VerifiedBeforeQueued ==
  \A a \in Asset : job[a] # "ABSENT" => object[a] = "fits"

(* The owner's request takes the asset, whatever became of it, back to     *)
(* UPLOADED.                                                               *)
CompletesAgain(a) ==
  /\ row'[a] = "UPLOADED"
  /\ \E q \in Request :
       target[q] = a /\ step[q] = "got" /\ step'[q] = "marked"

(* A record that comes again, early or late, disturbs nothing (the comment *)
(* on uq_job_asset_version): a decided job stays decided, and its asset    *)
(* keeps the verdict until a second complete request takes it away, for    *)
(* good, which docs/API.md has answered 409 ("if it's not in               *)
(* PENDING_UPLOAD status") and MarkUploaded does not.                      *)
RedeliveryIsHarmless ==
  [][\A a \in Asset :
       job[a] = "DONE" => /\ job'[a] = "DONE"
                          /\ row'[a] = row[a] \/ CompletesAgain(a)]_vars

(* Every upload that was confirmed gets its job, though the request may    *)
(* die before it makes one, unless the loop passed its record over.        *)
EveryUploadQueued ==
  \A a \in Asset :
    row[a] = "UPLOADED" ~> (job[a] # "ABSENT" \/ a \in dropped)
=============================================================================
