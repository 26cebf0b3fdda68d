----------------------------- MODULE JobVerdict -----------------------------
(***************************************************************************)
(* What the queue of transcode jobs promises to those who make jobs and to *)
(* those who play films, without workers, leases, retries or crashes: a    *)
(* job is decided once, in one step with its asset, and never again. A     *)
(* source that validation rejects is never READY, one that it lets pass is *)
(* never REJECTED, and either may end as FAILED.                           *)
(***************************************************************************)
CONSTANTS
  Job,
  Bad    \* the jobs whose source validation rejects

VARIABLES
  job,   \* [Job -> {"ABSENT", "OPEN", "DONE"}]
  asset  \* [Job -> ...] the status of the job's asset

Init == /\ job   = [j \in Job |-> "ABSENT"]
        /\ asset = [j \in Job |-> "UPLOADED"]

Enqueue(j) ==
  /\ job[j] = "ABSENT"
  /\ job' = [job EXCEPT ![j] = "OPEN"]
  /\ UNCHANGED asset

Outcome(j) == {"FAILED"} \cup IF j \in Bad THEN {"REJECTED"} ELSE {"READY"}

Decide(j) ==
  /\ job[j] = "OPEN"
  /\ job' = [job EXCEPT ![j] = "DONE"]
  /\ \E verdict \in Outcome(j) : asset' = [asset EXCEPT ![j] = verdict]

Next == \E j \in Job : Enqueue(j) \/ Decide(j)

Spec == Init /\ [][Next]_<<job, asset>>
=============================================================================
