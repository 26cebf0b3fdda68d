---------------------------- MODULE TranscodeJob ----------------------------
(***************************************************************************)
(* Transcoding: the queue in transcode_jobs (internal/media/repo.go) and   *)
(* the cmd/transcoder processes that work on it (transcode/worker.go).     *)
(*                                                                         *)
(* A worker claims a job for the length of a lease, works on it in one     *)
(* goroutine while another extends the lease, and reports the result. A    *)
(* worker that stalls or loses its database loses its lease without        *)
(* knowing it, and two workers work on the same job: owner (worker_id) is  *)
(* the fencing token that must keep the loser from deciding anything.      *)
(*                                                                         *)
(* One SQL transaction and one object written is one step. Time is         *)
(* abstracted to a lease that may expire. A worker is one process: a       *)
(* restarted one has a new id. An asset has one job (pipeline_version is   *)
(* always 1), and the poster, whose failure is ignored, is left out.       *)
(*                                                                         *)
(* A definition Name_Something beside Name is a faulty variant of it and   *)
(* takes no part in the specification.                                     *)
(***************************************************************************)
EXTENDS Naturals, Sequences, FiniteSets

CONSTANTS
  Job, Worker, Rung,
  Master,       \* the master playlist of an asset
  NoWorker,     \* worker_id IS NULL
  NoJob,        \* a worker between jobs
  Bad,          \* the jobs whose source ffprobe's validation rejects
  MaxAttempts,  \* Config.MaxAttempts
  MaxFaults,    \* bound: the failures in one behaviour
  Faults        \* the failures that may happen

FaultKind == {"io_error", "db_error", "commit_unknown", "stall", "crash",
              "shutdown"}

ASSUME JobAssumption ==
  /\ Master \notin Rung
  /\ NoWorker \notin Worker
  /\ NoJob \notin Job
  /\ Bad \subseteq Job

ASSUME LimitsAssumption == /\ MaxAttempts \in Nat \ {0}
                           /\ MaxFaults \in Nat
                           /\ Faults \subseteq FaultKind

VARIABLES
  status,    \* [Job -> ...] transcode_jobs.status, "ABSENT" before Enqueue
  owner,     \* [Job -> ...] worker_id
  lease,     \* [Job -> ...] lease_expires_at
  attempt,   \* [Job -> Nat] the claims so far
  asset,     \* [Job -> ...] media_assets.status of the job's asset
  outbox,    \* [Job -> Seq(verdict)] the media.transcode.* rows of the asset
  stored,    \* [Job -> ...] the rungs and the master that are uploaded
  step,      \* [Worker -> ...] where the worker is
  mine,      \* [Worker -> ...] the job in its memory
  tried,     \* [Worker -> Nat] and that job's attempt, as it was claimed
  todo,      \* [Worker -> SUBSET Rung] the rungs still to be uploaded
  result,    \* [Worker -> ...] what runJob returned
  stolen,    \* the workers whose heartbeat found the lease lost
  stopping,  \* the workers that got a SIGTERM
  faults     \* the number of failures so far

rows   == <<status, owner, lease, attempt, asset, outbox>>
memory == <<step, mine, tried, todo, result, stolen>>
vars   == <<rows, stored, memory, stopping, faults>>

Verdict == {"SUCCEEDED", "FAILED", "CANCELLED"}
Active  == {"probing", "encoding", "uploading", "succeeding", "reporting"}

TypeOK ==
  /\ status   \in [Job -> {"ABSENT", "QUEUED", "RUNNING"} \cup Verdict]
  /\ owner    \in [Job -> Worker \cup {NoWorker}]
  /\ lease    \in [Job -> {"none", "valid", "expired"}]
  /\ attempt  \in [Job -> Nat]
  /\ asset    \in [Job -> {"UPLOADED", "READY", "REJECTED", "FAILED"}]
  /\ outbox   \in [Job -> Seq(Verdict)]
  /\ stored   \in [Job -> SUBSET (Rung \cup {Master})]
  /\ step     \in [Worker -> Active \cup {"idle", "dead"}]
  /\ mine     \in [Worker -> Job \cup {NoJob}]
  /\ tried    \in [Worker -> Nat]
  /\ todo     \in [Worker -> SUBSET Rung]
  /\ result   \in [Worker -> {"none", "ok", "reject", "error"}]
  /\ stolen   \subseteq Worker
  /\ stopping \subseteq Worker
  /\ faults   \in 0..MaxFaults
  /\ \A w \in Worker : step[w] \in Active => mine[w] \in Job

Init ==
  /\ status   = [j \in Job |-> "ABSENT"]
  /\ owner    = [j \in Job |-> NoWorker]
  /\ lease    = [j \in Job |-> "none"]
  /\ attempt  = [j \in Job |-> 0]
  /\ asset    = [j \in Job |-> "UPLOADED"]
  /\ outbox   = [j \in Job |-> << >>]
  /\ stored   = [j \in Job |-> {}]
  /\ step     = [w \in Worker |-> "idle"]
  /\ mine     = [w \in Worker |-> NoJob]
  /\ tried    = [w \in Worker |-> 0]
  /\ todo     = [w \in Worker |-> {}]
  /\ result   = [w \in Worker |-> "none"]
  /\ stolen   = {}
  /\ stopping = {}
  /\ faults   = 0

Fault(kind) == kind \in Faults /\ faults < MaxFaults /\ faults' = faults + 1
NoFault == UNCHANGED faults

----------------------------------------------------------------------------
(* The queue.                                                              *)

(* A second Enqueue of the asset meets uq_job_asset_version and changes    *)
(* nothing.                                                                *)
Enqueue(j) ==
  /\ status[j] = "ABSENT"
  /\ status' = [status EXCEPT ![j] = "QUEUED"]
  /\ UNCHANGED <<owner, lease, attempt, asset, outbox, stored, memory,
                 stopping, faults>>

Claimable_OnlyQueued == { j \in Job : status[j] = "QUEUED" }

Claimable_AnyRunning ==
  LET queued == { j \in Job : status[j] = "QUEUED" }
  IN IF queued # {} THEN queued ELSE { j \in Job : status[j] = "RUNNING" }

(* Queued jobs come first. Which of them is the oldest is left open.       *)
Claimable ==
  LET queued == { j \in Job : status[j] = "QUEUED" }
  IN IF queued # {} THEN queued
     ELSE { j \in Job : status[j] = "RUNNING" /\ lease[j] = "expired" }

(* The answer to the claim may be lost: the row is then claimed by a       *)
(* worker that does not know it.                                           *)
Claim(w) ==
  /\ step[w] = "idle" /\ w \notin stopping
  /\ \E j \in Claimable :
       /\ status'  = [status EXCEPT ![j] = "RUNNING"]
       /\ owner'   = [owner EXCEPT ![j] = w]
       /\ lease'   = [lease EXCEPT ![j] = "valid"]
       /\ attempt' = [attempt EXCEPT ![j] = @ + 1]
       /\ \/ /\ step'   = [step EXCEPT ![w] = "probing"]
             /\ mine'   = [mine EXCEPT ![w] = j]
             /\ tried'  = [tried EXCEPT ![w] = attempt[j] + 1]
             /\ NoFault
          \/ Fault("db_error") /\ UNCHANGED <<step, mine, tried>>
  /\ UNCHANGED <<asset, outbox, stored, todo, result, stolen, stopping>>

(* The lease runs out when nobody extends it any more, or when the worker  *)
(* stalls or cannot reach Postgres for longer than the lease.              *)
LeaseExpires(j) ==
  /\ status[j] = "RUNNING" /\ lease[j] = "valid"
  /\ \/ /\ ~ \E w \in Worker \ stopping : /\ step[w] \in Active
                                          /\ mine[w] = j /\ owner[j] = w
        /\ NoFault
     \/ Fault("stall")
  /\ lease' = [lease EXCEPT ![j] = "expired"]
  /\ UNCHANGED <<status, owner, attempt, asset, outbox, stored, memory,
                 stopping>>

----------------------------------------------------------------------------
(* The worker: heartbeat, and runJob step by step.                         *)

(* Filtered on worker_id and status. No row means that the job is another  *)
(* worker's: the job's context is cancelled. A heartbeat that fails leaves *)
(* everything as it is, and none is sent once the context is cancelled.    *)
Heartbeat(w) ==
  /\ step[w] \in Active
  /\ w \notin stolen \cup stopping
  /\ \/ /\ owner[mine[w]] = w /\ status[mine[w]] = "RUNNING"
        /\ lease' = [lease EXCEPT ![mine[w]] = "valid"]
        /\ UNCHANGED stolen
     \/ /\ ~ (owner[mine[w]] = w /\ status[mine[w]] = "RUNNING")
        /\ stolen' = stolen \cup {w}
        /\ UNCHANGED lease
  /\ UNCHANGED <<status, owner, attempt, asset, outbox, stored, step, mine,
                 tried, todo, result, stopping, faults>>

(* The job's context is cancelled: ffmpeg is killed, the next call fails.  *)
Cancelled(w) == w \in stolen \cup stopping

Return(w, res) == /\ step'   = [step EXCEPT ![w] = "reporting"]
                  /\ result' = [result EXCEPT ![w] = res]

(* runJob returns an error because a call failed or was cancelled.         *)
Errs(w) ==
  /\ step[w] \in {"probing", "encoding", "uploading"}
  /\ (Cancelled(w) /\ NoFault) \/ Fault("io_error")
  /\ Return(w, "error")
  /\ UNCHANGED <<rows, stored, mine, tried, todo, stolen, stopping>>

Probe_Lenient(w) ==
  /\ step[w] = "probing" /\ ~Cancelled(w)
  /\ step' = [step EXCEPT ![w] = "encoding"]
  /\ UNCHANGED <<rows, stored, mine, tried, todo, result, stolen, stopping,
                 faults>>

Probe(w) ==
  /\ step[w] = "probing" /\ ~Cancelled(w)
  /\ \/ /\ mine[w] \notin Bad
        /\ step' = [step EXCEPT ![w] = "encoding"]
        /\ UNCHANGED result
     \/ mine[w] \in Bad /\ Return(w, "reject")
  /\ UNCHANGED <<rows, stored, mine, tried, todo, stolen, stopping, faults>>

(* All rungs are encoded side by side into a directory of the worker's own.*)
Encode(w) ==
  /\ step[w] = "encoding" /\ ~Cancelled(w)
  /\ step' = [step EXCEPT ![w] = "uploading"]
  /\ todo' = [todo EXCEPT ![w] = Rung]
  /\ UNCHANGED <<rows, stored, mine, tried, result, stolen, stopping, faults>>

UploadMaster_First(w) ==
  /\ step[w] = "uploading" /\ ~Cancelled(w)
  /\ stored' = [stored EXCEPT ![mine[w]] = @ \cup {Master}]
  /\ step'   = [step EXCEPT ![w] = "succeeding"]
  /\ UNCHANGED <<rows, mine, tried, todo, result, stolen, stopping, faults>>

UploadRung_Uncancelled(w) ==
  /\ step[w] = "uploading"
  /\ \E r \in todo[w] :
       /\ stored' = [stored EXCEPT ![mine[w]] = @ \cup {r}]
       /\ todo'   = [todo EXCEPT ![w] = @ \ {r}]
  /\ UNCHANGED <<rows, step, mine, tried, result, stolen, stopping, faults>>

UploadRung(w) ==
  /\ step[w] = "uploading" /\ ~Cancelled(w)
  /\ \E r \in todo[w] :
       /\ stored' = [stored EXCEPT ![mine[w]] = @ \cup {r}]
       /\ todo'   = [todo EXCEPT ![w] = @ \ {r}]
  /\ UNCHANGED <<rows, step, mine, tried, result, stolen, stopping, faults>>

(* The master playlist is written last.                                    *)
UploadMaster(w) ==
  /\ step[w] = "uploading" /\ todo[w] = {} /\ ~Cancelled(w)
  /\ stored' = [stored EXCEPT ![mine[w]] = @ \cup {Master}]
  /\ step'   = [step EXCEPT ![w] = "succeeding"]
  /\ UNCHANGED <<rows, mine, tried, todo, result, stolen, stopping, faults>>

(* A transaction that ends the job: its row, its asset and one message.    *)
Decide(j, verdict, assetStatus) ==
  /\ status' = [status EXCEPT ![j] = verdict]
  /\ asset'  = [asset EXCEPT ![j] = assetStatus]
  /\ outbox' = [outbox EXCEPT ![j] = Append(@, verdict)]
  /\ lease'  = [lease EXCEPT ![j] = "none"]
  /\ UNCHANGED <<owner, attempt>>

Succeed_Unfenced(w) ==
  /\ step[w] = "succeeding"
  /\ \/ /\ Decide(mine[w], "SUCCEEDED", "READY")
        /\ Return(w, "ok") /\ NoFault
     \/ /\ Fault("db_error")
        /\ Return(w, "error") /\ UNCHANGED rows
  /\ UNCHANGED <<stored, mine, tried, todo, stolen, stopping>>

(* Runs also when the context is cancelled, filtered on worker_id alone.   *)
(* ErrJobStolen, a failed transaction and a commit whose outcome is        *)
(* unknown are all an error to runJob.                                     *)
Succeed(w) ==
  /\ step[w] = "succeeding"
  /\ \/ /\ owner[mine[w]] = w
        /\ Decide(mine[w], "SUCCEEDED", "READY")
        /\ \/ Return(w, "ok") /\ NoFault
           \/ Return(w, "error") /\ Fault("commit_unknown")
     \/ /\ (owner[mine[w]] # w /\ NoFault) \/ Fault("db_error")
        /\ Return(w, "error") /\ UNCHANGED rows
  /\ UNCHANGED <<stored, mine, tried, todo, stolen, stopping>>

Retryable(w) == tried[w] < MaxAttempts /\ w \notin stopping

Requeue(j) ==
  /\ status' = [status EXCEPT ![j] = "QUEUED"]
  /\ owner'  = [owner EXCEPT ![j] = NoWorker]
  /\ lease'  = [lease EXCEPT ![j] = "none"]
  /\ UNCHANGED <<attempt, asset, outbox>>

LeaveJob(w, next) ==
  /\ step'   = [step EXCEPT ![w] = next]
  /\ mine'   = [mine EXCEPT ![w] = NoJob]
  /\ tried'  = [tried EXCEPT ![w] = 0]
  /\ todo'   = [todo EXCEPT ![w] = {}]
  /\ result' = [result EXCEPT ![w] = "none"]
  /\ stolen' = stolen \ {w}

Fail(w) ==
  /\ result[w] = "error" /\ owner[mine[w]] = w
  /\ IF Retryable(w) THEN Requeue(mine[w]) ELSE Decide(mine[w], "FAILED", "FAILED")

Reject(w) ==
  /\ result[w] = "reject" /\ owner[mine[w]] = w
  /\ Decide(mine[w], "CANCELLED", "REJECTED")

(* process, after runJob: nothing is written when the heartbeat found the  *)
(* job stolen, and nothing when worker_id is another by now. A failure to  *)
(* report is only logged.                                                  *)
Report(w) ==
  /\ step[w] = "reporting"
  /\ \/ w \notin stolen /\ (Fail(w) \/ Reject(w)) /\ NoFault
     \/ /\ w \in stolen \/ result[w] = "ok" \/ owner[mine[w]] # w
        /\ UNCHANGED rows /\ NoFault
     \/ Fault("db_error") /\ UNCHANGED rows
  /\ LeaveJob(w, IF w \in stopping THEN "dead" ELSE "idle")
  /\ UNCHANGED <<stored, stopping>>

----------------------------------------------------------------------------
(* Processes end, but never all of them: another worker is up.             *)

AnotherIsUp(w) == \E v \in Worker \ {w} : step[v] # "dead" /\ v \notin stopping

Shutdown(w) ==
  /\ step[w] # "dead" /\ w \notin stopping
  /\ AnotherIsUp(w) /\ Fault("shutdown")
  /\ stopping' = stopping \cup {w}
  /\ step' = [step EXCEPT ![w] = IF @ = "idle" THEN "dead" ELSE @]
  /\ UNCHANGED <<rows, stored, mine, tried, todo, result, stolen>>

Crash(w) ==
  /\ step[w] # "dead"
  /\ AnotherIsUp(w) /\ Fault("crash")
  /\ LeaveJob(w, "dead")
  /\ UNCHANGED <<rows, stored, stopping>>

Works(w) == \/ Claim(w) \/ Errs(w) \/ Probe(w) \/ Encode(w) \/ UploadRung(w)
            \/ UploadMaster(w) \/ Succeed(w) \/ Report(w)

Next ==
  \/ \E j \in Job : Enqueue(j) \/ LeaseExpires(j)
  \/ \E w \in Worker : \/ Claim(w) \/ Heartbeat(w) \/ Errs(w) \/ Probe(w)
                       \/ Encode(w) \/ UploadRung(w) \/ UploadMaster(w)
                       \/ Succeed(w) \/ Report(w) \/ Shutdown(w) \/ Crash(w)

Spec == Init /\ [][Next]_vars

(* A worker that is up takes its next step, and time passes.               *)
FairSpec == /\ Spec
            /\ \A w \in Worker : WF_vars(Works(w))
            /\ \A j \in Job : WF_vars(LeaseExpires(j))

----------------------------------------------------------------------------
(* Properties.                                                             *)

AssetOf == [SUCCEEDED |-> "READY", FAILED |-> "FAILED", CANCELLED |-> "REJECTED"]

(* Job, asset and messages tell the same story, whatever stalls, crashes   *)
(* and retries went before: a job is decided once, its asset says the same *)
(* and one message is sent for it; until then the asset stays UPLOADED.    *)
(* Not so when the outcome of Succeed's commit is unknown: Fail asks only  *)
(* for worker_id, so it then takes back a success that is committed.       *)
VerdictsAgree ==
  \A j \in Job :
    IF status[j] \in Verdict
    THEN asset[j] = AssetOf[status[j]] /\ outbox[j] = <<status[j]>>
    ELSE asset[j] = "UPLOADED" /\ outbox[j] = << >>

(* The queue implements JobVerdict, whatever its workers do to each other, *)
(* with the same exception: a job is decided once, and READY or REJECTED   *)
(* only for a source that validation let pass or rejected (runJob knows    *)
(* which many steps before it is written, and another attempt may write    *)
(* it).                                                                    *)
JobState(j) == IF status[j] = "ABSENT" THEN "ABSENT"
               ELSE IF status[j] \in Verdict THEN "DONE" ELSE "OPEN"

Promised == INSTANCE JobVerdict WITH job <- [j \in Job |-> JobState(j)]

DecidedForGood == Promised!Spec

(* A READY asset can be played: every rung was uploaded, and the master    *)
(* playlist never names a rung that is not there, also while several       *)
(* attempts overlap or have failed half way.                               *)
ReadyIsPlayable ==
  \A j \in Job : /\ asset[j] = "READY" => Master \in stored[j]
                 /\ Master \in stored[j] => Rung \subseteq stored[j]

(* Fencing (docs/09-MEDIA-PIPELINE.md, M7): only the attempt that was      *)
(* claimed last ends a job or gives it back; a worker whose job was        *)
(* reclaimed changes neither row nor asset when it wakes up.               *)
LatestAttemptDecides ==
  [][\A w \in Worker, j \in Job :
       /\ step[w] \in Active /\ mine[w] = j /\ tried[w] # attempt[j]
       /\ step'[w] # step[w]
       => UNCHANGED <<status[j], owner[j], asset[j]>>]_vars

(* A worker that has seen that its job was stolen writes nothing more: no  *)
(* object and no row (docs/09-MEDIA-PIPELINE.md: abort immediately).       *)
StolenWritesNothing ==
  [][\A w \in stolen :
       <<step[w], todo[w]>>' # <<step[w], todo[w]>>
         => UNCHANGED <<stored, status, asset>>]_vars

(* The attempts of a job: it is claimed more often than MaxAttempts only   *)
(* for workers that died, stalled or could not report, and it fails with   *)
(* attempts left only by a worker that was told to stop (process counts a  *)
(* cancelled parent context as not retryable, which docs/00-PRODUCT-SPEC   *)
(* .md, "FAILED: retries exhausted", does not have).                       *)
AttemptsBounded ==
  \A j \in Job :
    /\ attempt[j] <= MaxAttempts + faults
    /\ status[j] = "FAILED" => attempt[j] >= MaxAttempts \/ owner[j] \in stopping

(* Every job is decided in the end: neither a dead worker nor a lost       *)
(* answer keeps it RUNNING for ever.                                       *)
EveryJobDecided == \A j \in Job : status[j] = "QUEUED" ~> status[j] \in Verdict
=============================================================================
