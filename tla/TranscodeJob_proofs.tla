------------------------- MODULE TranscodeJob_proofs -------------------------
(***************************************************************************)
(* Safety of TranscodeJob for any number of jobs, workers, rungs and       *)
(* failures. The argument is the fencing token: a worker that is still the *)
(* owner of the job in its memory is its latest claimant and has not been  *)
(* told that the job was stolen, so what it decides nobody has decided     *)
(* before (Fencing); a worker that is not the owner writes no row.         *)
(***************************************************************************)
EXTENDS TranscodeJob, SequenceTheorems, TLAPS

USE JobAssumption, LimitsAssumption

LEMMA TypeInit == Init => TypeOK
  BY DEF Init, TypeOK, Verdict, Active

(* Faults are counted within their bound.                                  *)
LEMMA FaultCount ==
  ASSUME NEW kind, faults \in 0..MaxFaults, Fault(kind)
  PROVE  faults' \in 0..MaxFaults /\ faults' = faults + 1
  BY DEF Fault

(* One more message for an asset.                                          *)
LEMMA DecideType ==
  ASSUME TypeOK, NEW j \in Job, NEW verdict \in Verdict,
         NEW assetStatus \in {"READY", "REJECTED", "FAILED"},
         Decide(j, verdict, assetStatus)
  PROVE  /\ status' \in [Job -> {"ABSENT", "QUEUED", "RUNNING"} \cup Verdict]
         /\ lease' \in [Job -> {"none", "valid", "expired"}]
         /\ asset' \in [Job -> {"UPLOADED", "READY", "REJECTED", "FAILED"}]
         /\ outbox' \in [Job -> Seq(Verdict)]
         /\ UNCHANGED <<owner, attempt>>
<1>1. Append(outbox[j], verdict) \in Seq(Verdict)
  BY DEF TypeOK
<1> QED
  BY <1>1 DEF TypeOK, Decide

LEMMA TypeStep == TypeOK /\ [Next]_vars => TypeOK'
<1> SUFFICES ASSUME TypeOK, [Next]_vars PROVE TypeOK'
  OBVIOUS
<1> USE DEF TypeOK, Verdict, Active, rows, memory, NoFault
<1>1. ASSUME NEW j \in Job, Enqueue(j) PROVE TypeOK'
  BY <1>1 DEF Enqueue
<1>2. ASSUME NEW j \in Job, LeaseExpires(j) PROVE TypeOK'
  <2>1. faults' \in 0..MaxFaults
    BY <1>2, FaultCount DEF LeaseExpires
  <2> QED
    BY <1>2, <2>1 DEF LeaseExpires
<1>3. ASSUME NEW w \in Worker, Claim(w) PROVE TypeOK'
  <2>1. PICK j \in Claimable :
          /\ status'  = [status EXCEPT ![j] = "RUNNING"]
          /\ owner'   = [owner EXCEPT ![j] = w]
          /\ lease'   = [lease EXCEPT ![j] = "valid"]
          /\ attempt' = [attempt EXCEPT ![j] = @ + 1]
          /\ \/ /\ step'   = [step EXCEPT ![w] = "probing"]
                /\ mine'   = [mine EXCEPT ![w] = j]
                /\ tried'  = [tried EXCEPT ![w] = attempt[j] + 1]
                /\ NoFault
             \/ Fault("db_error") /\ UNCHANGED <<step, mine, tried>>
    BY <1>3 DEF Claim
  <2>2. j \in Job
    BY DEF Claimable
  <2>3. faults' \in 0..MaxFaults
    BY <2>1, FaultCount
  <2>4. UNCHANGED <<asset, outbox, stored, todo, result, stolen, stopping>>
    BY <1>3 DEF Claim
  <2>5. /\ status' \in [Job -> {"ABSENT", "QUEUED", "RUNNING"} \cup Verdict]
        /\ owner' \in [Job -> Worker \cup {NoWorker}]
        /\ lease' \in [Job -> {"none", "valid", "expired"}]
        /\ attempt' \in [Job -> Nat]
    BY <2>1, <2>2
  <2>6. /\ step' \in [Worker -> Active \cup {"idle", "dead"}]
        /\ mine' \in [Worker -> Job \cup {NoJob}]
        /\ tried' \in [Worker -> Nat]
        /\ \A v \in Worker : step'[v] \in Active => mine'[v] \in Job
    <3>1. attempt[j] + 1 \in Nat
      BY <2>2
    <3>2. CASE /\ step'   = [step EXCEPT ![w] = "probing"]
               /\ mine'   = [mine EXCEPT ![w] = j]
               /\ tried'  = [tried EXCEPT ![w] = attempt[j] + 1]
      BY <2>2, <3>1, <3>2
    <3>3. CASE UNCHANGED <<step, mine, tried>>
      BY <3>3
    <3> QED
      BY <2>1, <3>2, <3>3
  <2> QED
    BY <2>3, <2>4, <2>5, <2>6, <1>3 DEF Claim
<1>4. ASSUME NEW w \in Worker, Heartbeat(w) PROVE TypeOK'
  <2>1. mine[w] \in Job
    BY <1>4 DEF Heartbeat
  <2>2. /\ lease' \in [Job -> {"none", "valid", "expired"}]
        /\ stolen' \subseteq Worker
    BY <1>4, <2>1, ZenonT(60) DEF Heartbeat
  <2> QED
    BY <1>4, <2>2 DEF Heartbeat
<1>5. ASSUME NEW w \in Worker, Errs(w) PROVE TypeOK'
  <2>1. faults' \in 0..MaxFaults
    BY <1>5, FaultCount DEF Errs
  <2> QED
    BY <1>5, <2>1 DEF Errs, Return
<1>6. ASSUME NEW w \in Worker, Probe(w) PROVE TypeOK'
  BY <1>6, ZenonT(60) DEF Probe, Return
<1>7. ASSUME NEW w \in Worker, Encode(w) PROVE TypeOK'
  BY <1>7 DEF Encode
<1>8. ASSUME NEW w \in Worker, UploadRung(w) PROVE TypeOK'
  BY <1>8 DEF UploadRung
<1>9. ASSUME NEW w \in Worker, UploadMaster(w) PROVE TypeOK'
  BY <1>9 DEF UploadMaster
<1>10. ASSUME NEW w \in Worker, Succeed(w) PROVE TypeOK'
  <2>1. mine[w] \in Job
    BY <1>10 DEF Succeed
  <2>2. faults' \in 0..MaxFaults
    BY <1>10, FaultCount DEF Succeed
  <2>3. /\ status' \in [Job -> {"ABSENT", "QUEUED", "RUNNING"} \cup Verdict]
        /\ lease' \in [Job -> {"none", "valid", "expired"}]
        /\ asset' \in [Job -> {"UPLOADED", "READY", "REJECTED", "FAILED"}]
        /\ outbox' \in [Job -> Seq(Verdict)]
        /\ UNCHANGED <<owner, attempt>>
    BY <1>10, <2>1, DecideType DEF Succeed
  <2>4. /\ step' \in [Worker -> Active \cup {"idle", "dead"}]
        /\ result' \in [Worker -> {"none", "ok", "reject", "error"}]
        /\ UNCHANGED <<stored, mine, tried, todo, stolen, stopping>>
        /\ \A v \in Worker : step'[v] \in Active => mine'[v] \in Job
    BY <1>10, <2>1, ZenonT(60) DEF Succeed, Return
  <2> QED
    BY <2>2, <2>3, <2>4
<1>11. ASSUME NEW w \in Worker, Report(w) PROVE TypeOK'
  <2>1. mine[w] \in Job
    BY <1>11 DEF Report
  <2> DEFINE RowTypes ==
        /\ status' \in [Job -> {"ABSENT", "QUEUED", "RUNNING"} \cup Verdict]
        /\ owner' \in [Job -> Worker \cup {NoWorker}]
        /\ lease' \in [Job -> {"none", "valid", "expired"}]
        /\ attempt' \in [Job -> Nat]
        /\ asset' \in [Job -> {"UPLOADED", "READY", "REJECTED", "FAILED"}]
        /\ outbox' \in [Job -> Seq(Verdict)]
  <2>2. RowTypes
    <3>1. CASE Requeue(mine[w])
      BY <2>1, <3>1 DEF Requeue
    <3>2. CASE Decide(mine[w], "FAILED", "FAILED")
      BY <2>1, <3>2, DecideType
    <3>3. CASE Decide(mine[w], "CANCELLED", "REJECTED")
      BY <2>1, <3>3, DecideType
    <3>4. CASE UNCHANGED rows
      BY <3>4
    <3> QED
      BY <1>11, <3>1, <3>2, <3>3, <3>4 DEF Report, Fail, Reject
  <2>4. faults' \in 0..MaxFaults
    BY <1>11, FaultCount DEF Report
  <2>3. /\ step' \in [Worker -> Active \cup {"idle", "dead"}]
        /\ mine' \in [Worker -> Job \cup {NoJob}]
        /\ tried' \in [Worker -> Nat]
        /\ todo' \in [Worker -> SUBSET Rung]
        /\ result' \in [Worker -> {"none", "ok", "reject", "error"}]
        /\ stolen' \subseteq Worker
        /\ \A v \in Worker : step'[v] \in Active => mine'[v] \in Job
    BY <1>11 DEF Report, LeaveJob
  <2> QED
    BY <1>11, <2>2, <2>3, <2>4 DEF Report
<1>12. ASSUME NEW w \in Worker, Shutdown(w) PROVE TypeOK'
  BY <1>12, FaultCount DEF Shutdown
<1>13. ASSUME NEW w \in Worker, Crash(w) PROVE TypeOK'
  BY <1>13, FaultCount DEF Crash, LeaveJob
<1>14. CASE UNCHANGED vars
  BY <1>14 DEF vars
<1> QED
  BY <1>1, <1>2, <1>3, <1>4, <1>5, <1>6, <1>7, <1>8, <1>9, <1>10, <1>11,
     <1>12, <1>13, <1>14 DEF Next

----------------------------------------------------------------------------
(* Files: what a worker has taken off its list is stored, and the master   *)
(* is stored after all rungs. Objects are never deleted.                   *)

Uploads ==
  /\ \A w \in Worker :
       /\ step[w] = "uploading"  => Rung \ todo[w] \subseteq stored[mine[w]]
       /\ step[w] = "succeeding" => Rung \cup {Master} \subseteq stored[mine[w]]
  /\ \A j \in Job : /\ Master \in stored[j] => Rung \subseteq stored[j]
                    /\ asset[j] = "READY" => Master \in stored[j]

LEMMA UploadsInit == Init => Uploads
  BY DEF Init, Uploads

LEMMA UploadsStep == TypeOK /\ Uploads /\ [Next]_vars => Uploads'
<1> SUFFICES ASSUME TypeOK, Uploads, [Next]_vars PROVE Uploads'
  OBVIOUS
<1> USE DEF TypeOK, Active, Uploads, rows, memory
<1>1. ASSUME NEW j \in Job, Enqueue(j) \/ LeaseExpires(j) PROVE Uploads'
  BY <1>1 DEF Enqueue, LeaseExpires
<1>2. ASSUME NEW w \in Worker, Claim(w) PROVE Uploads'
  <2>1. /\ UNCHANGED <<asset, stored, todo>>
        /\ \A v \in Worker : step'[v] \in {"uploading", "succeeding"}
             => step'[v] = step[v] /\ mine'[v] = mine[v]
    BY <1>2 DEF Claim
  <2> QED
    BY <2>1
<1>3. ASSUME NEW w \in Worker, Heartbeat(w) PROVE Uploads'
  BY <1>3 DEF Heartbeat
<1>4. ASSUME NEW w \in Worker, Errs(w) \/ Probe(w) PROVE Uploads'
  BY <1>4 DEF Errs, Probe, Return
<1>5. ASSUME NEW w \in Worker, Encode(w) PROVE Uploads'
  BY <1>5 DEF Encode
<1>6. ASSUME NEW w \in Worker, UploadRung(w) PROVE Uploads'
  <2>1. PICK r \in todo[w] :
          /\ stored' = [stored EXCEPT ![mine[w]] = @ \cup {r}]
          /\ todo'   = [todo EXCEPT ![w] = @ \ {r}]
    BY <1>6 DEF UploadRung
  <2>2. /\ step[w] = "uploading" /\ mine[w] \in Job /\ r \in Rung /\ r # Master
        /\ UNCHANGED <<asset, step, mine>>
    BY <1>6, <2>1 DEF UploadRung
  <2>3. \A j \in Job : /\ stored[j] \subseteq stored'[j]
                       /\ Master \in stored'[j] => Master \in stored[j]
    BY <2>1, <2>2
  <2>4. ASSUME NEW v \in Worker, step[v] = "uploading"
        PROVE  Rung \ todo'[v] \subseteq stored'[mine[v]]
    <3>1. CASE v = w
      BY <2>1, <2>2, <3>1
    <3>2. CASE v # w
      BY <2>1, <2>3, <2>4, <3>2
    <3> QED
      BY <3>1, <3>2
  <2>5. ASSUME NEW v \in Worker, step[v] = "succeeding"
        PROVE  Rung \cup {Master} \subseteq stored'[mine[v]]
    <3>1. mine[v] \in Job /\ Rung \cup {Master} \subseteq stored[mine[v]]
      BY <2>5
    <3> QED
      BY <2>1, <2>2, <3>1
  <2>6. ASSUME NEW j \in Job
        PROVE  /\ Master \in stored'[j] => Rung \subseteq stored'[j]
               /\ asset[j] = "READY" => Master \in stored'[j]
    BY <2>1, <2>2, <2>6
  <2>7. \A v \in Worker : /\ step'[v] = step[v] /\ mine'[v] = mine[v]
    BY <2>2
  <2> QED
    BY <2>2, <2>4, <2>5, <2>6, <2>7
<1>7. ASSUME NEW w \in Worker, UploadMaster(w) PROVE Uploads'
  <2>1. /\ mine[w] \in Job /\ Rung \subseteq stored[mine[w]]
        /\ stored' = [stored EXCEPT ![mine[w]] = @ \cup {Master}]
        /\ step' = [step EXCEPT ![w] = "succeeding"]
        /\ UNCHANGED <<asset, mine, todo>>
    BY <1>7 DEF UploadMaster
  <2>2. \A j \in Job : stored[j] \subseteq stored'[j]
    BY <2>1
  <2>3. ASSUME NEW v \in Worker
        PROVE  /\ step'[v] = "uploading" => Rung \ todo[v] \subseteq stored'[mine[v]]
               /\ step'[v] = "succeeding"
                    => Rung \cup {Master} \subseteq stored'[mine[v]]
    <3>1. CASE v = w
      BY <2>1, <3>1
    <3>2. CASE v # w
      BY <2>1, <2>2, <3>2
    <3> QED
      BY <3>1, <3>2
  <2>4. ASSUME NEW j \in Job
        PROVE  /\ Master \in stored'[j] => Rung \subseteq stored'[j]
               /\ asset[j] = "READY" => Master \in stored'[j]
    BY <2>1, <2>2
  <2> QED
    BY <2>1, <2>3, <2>4
<1>8. ASSUME NEW w \in Worker, Succeed(w) PROVE Uploads'
  <2>1. /\ mine[w] \in Job /\ Master \in stored[mine[w]]
        /\ step' = [step EXCEPT ![w] = "reporting"]
        /\ UNCHANGED <<stored, mine, todo>>
    BY <1>8 DEF Succeed, Return
  <2>2. \A j \in Job : asset'[j] = "READY" => asset[j] = "READY" \/ j = mine[w]
    BY <1>8, <2>1 DEF Succeed, Decide
  <2> QED
    BY <2>1, <2>2
<1>9. ASSUME NEW w \in Worker, Report(w) PROVE Uploads'
  <2>1. /\ \A v \in Worker :
             step'[v] \in {"uploading", "succeeding"}
               => UNCHANGED <<step[v], mine[v], todo[v]>>
        /\ UNCHANGED stored
    BY <1>9 DEF Report, LeaveJob
  <2>2. \A j \in Job : asset'[j] = "READY" => asset[j] = "READY"
    BY <1>9 DEF Report, Fail, Reject, Requeue, Decide
  <2> QED
    BY <2>1, <2>2
<1>10. ASSUME NEW w \in Worker, Shutdown(w) PROVE Uploads'
  BY <1>10 DEF Shutdown
<1>11. ASSUME NEW w \in Worker, Crash(w) PROVE Uploads'
  BY <1>11 DEF Crash, LeaveJob
<1>12. CASE UNCHANGED vars
  BY <1>12 DEF vars
<1> QED
  BY <1>1, <1>2, <1>3, <1>4, <1>5, <1>6, <1>7, <1>8, <1>9, <1>10, <1>11,
     <1>12 DEF Next

----------------------------------------------------------------------------
(* Fencing: a worker that owns the job in its memory is its latest         *)
(* claimant, and until it reports the job is still RUNNING and the worker  *)
(* has not found it stolen.                                                *)

Resting ==
  \A w \in Worker : /\ step[w] # "reporting" <=> result[w] = "none"
                    /\ step[w] \notin Active => w \notin stolen

Fencing ==
  \A w \in Worker :
    step[w] \in Active /\ owner[mine[w]] = w =>
      /\ tried[w] = attempt[mine[w]]
      /\ step[w] # "reporting" => status[mine[w]] = "RUNNING" /\ w \notin stolen

LEMMA FencingInit == Init => Resting /\ Fencing
  BY DEF Init, Resting, Fencing, Active

LEMMA RestingStep == TypeOK /\ Resting /\ [Next]_vars => Resting'
<1> SUFFICES ASSUME TypeOK, Resting, [Next]_vars PROVE Resting'
  OBVIOUS
<1> USE DEF TypeOK, Active, Resting, memory
<1>1. ASSUME NEW j \in Job, Enqueue(j) \/ LeaseExpires(j) PROVE Resting'
  BY <1>1 DEF Enqueue, LeaseExpires
<1>2. ASSUME NEW w \in Worker, Claim(w) PROVE Resting'
  <2>1. /\ step[w] = "idle" /\ UNCHANGED <<result, stolen>>
        /\ step' = [step EXCEPT ![w] = "probing"] \/ step' = step
    BY <1>2 DEF Claim
  <2> QED
    BY <2>1
<1>3. ASSUME NEW w \in Worker, Heartbeat(w) PROVE Resting'
  BY <1>3 DEF Heartbeat
<1>4. ASSUME NEW w \in Worker, Errs(w) \/ Probe(w) PROVE Resting'
  BY <1>4 DEF Errs, Probe, Return
<1>5. ASSUME NEW w \in Worker, Encode(w) \/ UploadRung(w) \/ UploadMaster(w)
      PROVE  Resting'
  BY <1>5 DEF Encode, UploadRung, UploadMaster
<1>6. ASSUME NEW w \in Worker, Succeed(w) PROVE Resting'
  <2>1. /\ \E res \in {"ok", "error"} : Return(w, res)
        /\ UNCHANGED stolen
    BY <1>6 DEF Succeed
  <2> QED
    BY <2>1 DEF Return
<1>7. ASSUME NEW w \in Worker, Report(w) PROVE Resting'
  BY <1>7 DEF Report, LeaveJob
<1>8. ASSUME NEW w \in Worker, Shutdown(w) PROVE Resting'
  BY <1>8 DEF Shutdown
<1>9. ASSUME NEW w \in Worker, Crash(w) PROVE Resting'
  BY <1>9 DEF Crash, LeaveJob
<1>10. CASE UNCHANGED vars
  BY <1>10 DEF vars
<1> QED
  BY <1>1, <1>2, <1>3, <1>4, <1>5, <1>6, <1>7, <1>8, <1>9, <1>10 DEF Next

LEMMA FencingStep == TypeOK /\ Resting /\ Fencing /\ [Next]_vars => Fencing'
<1> SUFFICES ASSUME TypeOK, Resting, Fencing, [Next]_vars PROVE Fencing'
  OBVIOUS
<1> USE DEF TypeOK, Active, Fencing, rows, memory
<1>1. ASSUME NEW j \in Job, Enqueue(j) \/ LeaseExpires(j) PROVE Fencing'
  BY <1>1 DEF Enqueue, LeaseExpires
<1>2. ASSUME NEW w \in Worker, Claim(w) PROVE Fencing'
  <2>1. PICK j \in Claimable :
          /\ status'  = [status EXCEPT ![j] = "RUNNING"]
          /\ owner'   = [owner EXCEPT ![j] = w]
          /\ attempt' = [attempt EXCEPT ![j] = @ + 1]
          /\ \/ /\ step'   = [step EXCEPT ![w] = "probing"]
                /\ mine'   = [mine EXCEPT ![w] = j]
                /\ tried'  = [tried EXCEPT ![w] = attempt[j] + 1]
             \/ UNCHANGED <<step, mine, tried>>
    BY <1>2 DEF Claim
  <2>2. /\ j \in Job /\ step[w] = "idle" /\ w \notin stolen /\ stolen' = stolen
    <3>1. j \in Job
      BY DEF Claimable
    <3>2. step[w] = "idle" /\ stolen' = stolen
      BY <1>2 DEF Claim
    <3> QED
      BY <3>1, <3>2 DEF Resting
  <2>3. ASSUME NEW v \in Worker, step'[v] \in Active, owner'[mine'[v]] = v
        PROVE  /\ tried'[v] = attempt'[mine'[v]]
               /\ step'[v] # "reporting"
                    => status'[mine'[v]] = "RUNNING" /\ v \notin stolen
    <3>1. CASE v = w
      BY <2>1, <2>2, <2>3, <3>1
    <3>2. CASE v # w
      <4>1. step'[v] = step[v] /\ mine'[v] = mine[v] /\ tried'[v] = tried[v]
        BY <2>1, <3>2
      <4>2. mine[v] \in Job /\ mine[v] # j
        BY <2>1, <2>2, <2>3, <3>2, <4>1
      <4> QED
        BY <2>1, <2>2, <2>3, <4>1, <4>2
    <3> QED
      BY <3>1, <3>2
  <2> QED
    BY <2>2, <2>3
<1>3. ASSUME NEW w \in Worker, Heartbeat(w) PROVE Fencing'
  BY <1>3 DEF Heartbeat
<1>4. ASSUME NEW w \in Worker, Errs(w) \/ Probe(w) PROVE Fencing'
  BY <1>4 DEF Errs, Probe, Return
<1>5. ASSUME NEW w \in Worker, Encode(w) \/ UploadRung(w) \/ UploadMaster(w)
      PROVE  Fencing'
  BY <1>5 DEF Encode, UploadRung, UploadMaster
<1>6. ASSUME NEW w \in Worker, Succeed(w) PROVE Fencing'
  <2>1. /\ mine[w] \in Job
        /\ step' = [step EXCEPT ![w] = "reporting"]
        /\ UNCHANGED <<owner, attempt, mine, tried, stolen>>
        /\ \/ owner[mine[w]] = w /\ \A j \in Job \ {mine[w]} : status'[j] = status[j]
           \/ UNCHANGED status
    BY <1>6 DEF Succeed, Decide, Return
  <2>2. ASSUME NEW v \in Worker, step'[v] \in Active, owner[mine[v]] = v
        PROVE  /\ tried[v] = attempt[mine[v]]
               /\ step'[v] # "reporting"
                    => status'[mine[v]] = "RUNNING" /\ v \notin stolen
    <3>1. CASE v = w
      BY <1>6, <2>1, <2>2, <3>1 DEF Succeed
    <3>2. CASE v # w
      <4>1. step[v] \in Active /\ step'[v] = step[v] /\ mine[v] \in Job
        BY <2>1, <2>2, <3>2
      <4>2. status'[mine[v]] = status[mine[v]]
        BY <2>1, <2>2, <3>2, <4>1
      <4> QED
        BY <2>2, <4>1, <4>2
    <3> QED
      BY <3>1, <3>2
  <2> QED
    BY <2>1, <2>2
<1>7. ASSUME NEW w \in Worker, Report(w) PROVE Fencing'
  <2>1. /\ mine[w] \in Job
        /\ step'[w] \notin Active
        /\ \A v \in Worker : v # w => /\ step'[v] = step[v] /\ mine'[v] = mine[v]
                                      /\ tried'[v] = tried[v]
                                      /\ v \in stolen' <=> v \in stolen
    BY <1>7 DEF Report, LeaveJob
  <2>2. /\ \A j \in Job : owner'[j] = owner[j] \/ owner'[j] = NoWorker
        /\ UNCHANGED attempt
        /\ \/ owner[mine[w]] = w /\ \A j \in Job \ {mine[w]} : status'[j] = status[j]
           \/ UNCHANGED status
    BY <1>7, <2>1 DEF Report, Fail, Reject, Requeue, Decide
  <2>3. ASSUME NEW v \in Worker, step'[v] \in Active, owner'[mine'[v]] = v
        PROVE  /\ tried'[v] = attempt'[mine'[v]]
               /\ step'[v] # "reporting"
                    => status'[mine'[v]] = "RUNNING" /\ v \notin stolen'
    <3>1. v # w /\ mine'[v] = mine[v] /\ mine[v] \in Job /\ step'[v] = step[v]
      BY <2>1, <2>3
    <3>2. owner[mine[v]] = v
      BY <2>2, <2>3, <3>1
    <3>3. status'[mine[v]] = status[mine[v]]
      BY <2>1, <2>2, <3>1, <3>2
    <3> QED
      BY <2>1, <2>2, <3>1, <3>2, <3>3, <2>3
  <2> QED
    BY <2>3
<1>8. ASSUME NEW w \in Worker, Shutdown(w) PROVE Fencing'
  BY <1>8 DEF Shutdown
<1>9. ASSUME NEW w \in Worker, Crash(w) PROVE Fencing'
  BY <1>9 DEF Crash, LeaveJob
<1>10. CASE UNCHANGED vars
  BY <1>10 DEF vars
<1> QED
  BY <1>1, <1>2, <1>3, <1>4, <1>5, <1>6, <1>7, <1>8, <1>9, <1>10 DEF Next

----------------------------------------------------------------------------
(* What Fencing and Uploads need of the types, for every reachable state.  *)

LEMMA JobInvariants == Spec => [](TypeOK /\ Uploads /\ Resting /\ Fencing)
<1>1. Init => TypeOK /\ Uploads /\ Resting /\ Fencing
  BY TypeInit, UploadsInit, FencingInit
<1>2. TypeOK /\ Uploads /\ Resting /\ Fencing /\ [Next]_vars
        => (TypeOK /\ Uploads /\ Resting /\ Fencing)'
  BY TypeStep, UploadsStep, RestingStep, FencingStep
<1> QED
  BY <1>1, <1>2, PTL DEF Spec

(* The type invariant.                                                     *)
THEOREM JobTypes == Spec => []TypeOK
  BY JobInvariants, PTL

(* A READY asset can be played, for any number of jobs, workers and rungs  *)
(* and any faults: every attempt writes its rungs before the master        *)
(* playlist, and nothing of an earlier attempt is ever taken away.         *)
THEOREM Playable == Spec => []ReadyIsPlayable
<1>1. Uploads => ReadyIsPlayable
  BY DEF Uploads, ReadyIsPlayable
<1> QED
  BY <1>1, JobInvariants, PTL

(* Only the attempt claimed last ends a job or gives it back.              *)
LEMMA LatestAttemptStep ==
  ASSUME TypeOK, Fencing, [Next]_vars,
         NEW v \in Worker, NEW j \in Job,
         step[v] \in Active, mine[v] = j, tried[v] # attempt[j], step'[v] # step[v]
  PROVE  UNCHANGED <<status[j], owner[j], asset[j]>>
<1> USE DEF TypeOK, Active, rows, memory
<1>1. owner[j] # v
  BY DEF Fencing
<1>2. ASSUME NEW i \in Job, Enqueue(i) \/ LeaseExpires(i) PROVE FALSE
  BY <1>2 DEF Enqueue, LeaseExpires
<1>3. ASSUME NEW w \in Worker, Claim(w) PROVE FALSE
  <2>1. step[w] = "idle" /\ (step' = step \/ step' = [step EXCEPT ![w] = "probing"])
    BY <1>3 DEF Claim
  <2> QED
    BY <2>1
<1>4. ASSUME NEW w \in Worker, Heartbeat(w) PROVE FALSE
  BY <1>4 DEF Heartbeat
<1>5. ASSUME NEW w \in Worker,
             \/ Errs(w) \/ Probe(w) \/ Encode(w) \/ UploadRung(w) \/ UploadMaster(w)
             \/ Shutdown(w) \/ Crash(w)
      PROVE  UNCHANGED <<status[j], owner[j], asset[j]>>
  BY <1>5 DEF Errs, Probe, Encode, UploadRung, UploadMaster, Shutdown, Crash
<1>6. ASSUME NEW w \in Worker, Succeed(w)
      PROVE  UNCHANGED <<status[j], owner[j], asset[j]>>
  <2>1. w = v
    BY <1>6 DEF Succeed, Return
  <2> QED
    BY <1>1, <1>6, <2>1 DEF Succeed
<1>7. ASSUME NEW w \in Worker, Report(w)
      PROVE  UNCHANGED <<status[j], owner[j], asset[j]>>
  <2>1. w = v
    BY <1>7 DEF Report, LeaveJob
  <2> QED
    BY <1>1, <1>7, <2>1 DEF Report, Fail, Reject
<1>8. CASE UNCHANGED vars
  BY <1>8 DEF vars
<1> QED
  BY <1>2, <1>3, <1>4, <1>5, <1>6, <1>7, <1>8 DEF Next

THEOREM LatestDecides == Spec => LatestAttemptDecides
<1>1. TypeOK /\ Fencing /\ [Next]_vars
        => [\A w \in Worker, j \in Job :
              /\ step[w] \in Active /\ mine[w] = j /\ tried[w] # attempt[j]
              /\ step'[w] # step[w]
              => UNCHANGED <<status[j], owner[j], asset[j]>>]_vars
  BY LatestAttemptStep
<1> QED
  BY <1>1, JobInvariants, PTL DEF Spec, LatestAttemptDecides

(* A worker that has seen that its job was stolen writes nothing more.     *)
LEMMA StolenStep ==
  ASSUME TypeOK, Resting, Fencing, [Next]_vars, NEW v \in stolen,
         step'[v] # step[v] \/ todo'[v] # todo[v]
  PROVE  UNCHANGED <<stored, status, asset>>
<1> USE DEF TypeOK, Active, rows, memory
<1>1. ASSUME NEW i \in Job, Enqueue(i) \/ LeaseExpires(i) PROVE FALSE
  BY <1>1 DEF Enqueue, LeaseExpires
<1>2. ASSUME NEW w \in Worker, Claim(w) PROVE FALSE
  <2>1. /\ step[w] = "idle" /\ todo' = todo
        /\ step' = step \/ step' = [step EXCEPT ![w] = "probing"]
    BY <1>2 DEF Claim
  <2>2. w \notin stolen
    BY <2>1 DEF Resting
  <2> QED
    BY <2>1, <2>2
<1>3. ASSUME NEW w \in Worker, Heartbeat(w) \/ Probe(w) \/ Encode(w) PROVE FALSE
  BY <1>3 DEF Heartbeat, Probe, Encode, Cancelled, Return
<1>4. ASSUME NEW w \in Worker, UploadRung(w) \/ UploadMaster(w) PROVE FALSE
  BY <1>4 DEF UploadRung, UploadMaster, Cancelled
<1>5. ASSUME NEW w \in Worker, Errs(w) \/ Shutdown(w) \/ Crash(w)
      PROVE  UNCHANGED <<stored, status, asset>>
  BY <1>5 DEF Errs, Shutdown, Crash
<1>6. ASSUME NEW w \in Worker, Succeed(w) PROVE UNCHANGED <<stored, status, asset>>
  <2>1. w = v /\ step[v] = "succeeding" /\ mine[v] \in Job
    BY <1>6 DEF Succeed, Return
  <2>2. owner[mine[v]] # v
    BY <2>1 DEF Fencing
  <2> QED
    BY <1>6, <2>1, <2>2 DEF Succeed
<1>7. ASSUME NEW w \in Worker, Report(w) PROVE UNCHANGED <<stored, status, asset>>
  <2>1. w = v
    BY <1>7 DEF Report, LeaveJob
  <2> QED
    BY <1>7, <2>1 DEF Report
<1>8. CASE UNCHANGED vars
  BY <1>8 DEF vars
<1> QED
  BY <1>1, <1>2, <1>3, <1>4, <1>5, <1>6, <1>7, <1>8 DEF Next

THEOREM StolenIsSilent == Spec => StolenWritesNothing
<1>1. TypeOK /\ Resting /\ Fencing /\ [Next]_vars
        => [\A w \in stolen :
              <<step[w], todo[w]>>' # <<step[w], todo[w]>>
                => UNCHANGED <<stored, status, asset>>]_vars
  BY StolenStep
<1> QED
  BY <1>1, JobInvariants, PTL DEF Spec, StolenWritesNothing

----------------------------------------------------------------------------
(* One verdict. A worker that may still write has not been answered: the   *)
(* job it owns is RUNNING, unless a commit's outcome was lost.             *)

Answered ==
  \A w \in Worker :
    /\ step[w] = "reporting" /\ owner[mine[w]] = w /\ result[w] # "ok"
    => status[mine[w]] = "RUNNING"

LEMMA AnsweredStep ==
  ASSUME "commit_unknown" \notin Faults, TypeOK, Fencing, Answered, [Next]_vars
  PROVE  Answered'
<1> USE DEF TypeOK, Active, rows, memory
<1>1. ASSUME NEW j \in Job, Enqueue(j) \/ LeaseExpires(j) PROVE Answered'
  BY <1>1 DEF Enqueue, LeaseExpires, Answered
<1>2. ASSUME NEW w \in Worker, Claim(w) PROVE Answered'
  <2>1. PICK j \in Job :
          /\ status' = [status EXCEPT ![j] = "RUNNING"]
          /\ owner'  = [owner EXCEPT ![j] = w]
          /\ result' = result
          /\ \/ /\ step' = [step EXCEPT ![w] = "probing"]
                /\ mine' = [mine EXCEPT ![w] = j]
             \/ step' = step /\ mine' = mine
    BY <1>2 DEF Claim, Claimable
  <2>2. ASSUME NEW v \in Worker, step'[v] = "reporting", owner'[mine'[v]] = v,
               result'[v] # "ok"
        PROVE  status'[mine'[v]] = "RUNNING"
    <3>1. step[v] = "reporting" /\ mine'[v] = mine[v] /\ mine[v] \in Job
      BY <2>1, <2>2
    <3>2. CASE mine[v] = j
      BY <2>1, <3>1, <3>2
    <3>3. CASE mine[v] # j
      BY <2>1, <2>2, <3>1, <3>3 DEF Answered
    <3> QED
      BY <3>2, <3>3
  <2> QED
    BY <2>2 DEF Answered
<1>3. ASSUME NEW w \in Worker,
             Heartbeat(w) \/ Encode(w) \/ UploadRung(w) \/ UploadMaster(w)
      PROVE  Answered'
  BY <1>3 DEF Heartbeat, Encode, UploadRung, UploadMaster, Answered
<1>4. ASSUME NEW w \in Worker, Errs(w) \/ Probe(w) PROVE Answered'
  BY <1>4 DEF Errs, Probe, Return, Answered, Fencing
<1>5. ASSUME NEW w \in Worker, Succeed(w) PROVE Answered'
  <2>1. /\ mine[w] \in Job
        /\ step' = [step EXCEPT ![w] = "reporting"]
        /\ UNCHANGED <<owner, mine>>
        /\ \A v \in Worker \ {w} : result'[v] = result[v]
    BY <1>5 DEF Succeed, Decide, Return
  <2>2. \/ /\ owner[mine[w]] = w /\ result'[w] = "ok"
           /\ \A j \in Job \ {mine[w]} : status'[j] = status[j]
        \/ UNCHANGED status
    BY <1>5 DEF Succeed, Decide, Return, Fault
  <2>3. step[w] = "succeeding"
    BY <1>5 DEF Succeed
  <2>4. ASSUME NEW v \in Worker, step'[v] = "reporting", owner[mine[v]] = v,
               result'[v] # "ok"
        PROVE  status'[mine[v]] = "RUNNING"
    <3>1. CASE v = w
      BY <2>1, <2>2, <2>3, <2>4, <3>1 DEF Fencing
    <3>2. CASE v # w
      <4>1. status[mine[v]] = "RUNNING" /\ mine[v] \in Job
        BY <2>1, <2>4, <3>2 DEF Answered
      <4> QED
        BY <2>2, <2>4, <3>2, <4>1
    <3> QED
      BY <3>1, <3>2
  <2> QED
    BY <2>1, <2>4 DEF Answered
<1>6. ASSUME NEW w \in Worker, Report(w) PROVE Answered'
  <2>1. /\ mine[w] \in Job
        /\ step'[w] # "reporting"
        /\ \A v \in Worker : v # w => /\ step'[v] = step[v] /\ mine'[v] = mine[v]
                                      /\ result'[v] = result[v]
    BY <1>6 DEF Report, LeaveJob
  <2>2. /\ \A j \in Job : owner'[j] = owner[j] \/ owner'[j] = NoWorker
        /\ \/ owner[mine[w]] = w /\ \A j \in Job \ {mine[w]} : status'[j] = status[j]
           \/ UNCHANGED status
    BY <1>6, <2>1 DEF Report, Fail, Reject, Requeue, Decide
  <2>3. ASSUME NEW v \in Worker, step'[v] = "reporting", owner'[mine'[v]] = v,
               result'[v] # "ok"
        PROVE  status'[mine'[v]] = "RUNNING"
    <3>1. v # w /\ mine'[v] = mine[v] /\ mine[v] \in Job /\ step[v] = "reporting"
      BY <2>1, <2>3
    <3>2. owner[mine[v]] = v
      BY <2>2, <2>3, <3>1
    <3>3. status[mine[v]] = "RUNNING"
      BY <2>1, <2>3, <3>1, <3>2 DEF Answered
    <3> QED
      BY <2>2, <3>1, <3>2, <3>3
  <2> QED
    BY <2>3 DEF Answered
<1>7. ASSUME NEW w \in Worker, Shutdown(w) PROVE Answered'
  BY <1>7 DEF Shutdown, Answered
<1>8. ASSUME NEW w \in Worker, Crash(w) PROVE Answered'
  BY <1>8 DEF Crash, LeaveJob, Answered
<1>9. CASE UNCHANGED vars
  BY <1>9 DEF vars, Answered
<1> QED
  BY <1>1, <1>2, <1>3, <1>4, <1>5, <1>6, <1>7, <1>8, <1>9 DEF Next

(* The verdict of a job that nobody has decided yet.                       *)
LEMMA FirstVerdict ==
  ASSUME TypeOK, VerdictsAgree, NEW j \in Job, status[j] = "RUNNING",
         NEW v \in Verdict, Decide(j, v, AssetOf[v])
  PROVE  VerdictsAgree'
<1> USE DEF TypeOK, Verdict
<1>1. asset[j] = "UPLOADED" /\ outbox[j] = << >>
  BY DEF VerdictsAgree
<1>2. /\ \A i \in Job \ {j} : /\ status'[i] = status[i] /\ asset'[i] = asset[i]
                              /\ outbox'[i] = outbox[i]
      /\ status'[j] = v /\ asset'[j] = AssetOf[v]
      /\ outbox'[j] = <<v>>
  <2>1. Append(outbox[j], v) = <<v>>
    BY <1>1
  <2> QED
    BY <2>1 DEF Decide
<1> QED
  <2> SUFFICES ASSUME NEW i \in Job
               PROVE  IF status'[i] \in Verdict
                      THEN /\ asset'[i] = AssetOf[status'[i]]
                           /\ outbox'[i] = <<status'[i]>>
                      ELSE asset'[i] = "UPLOADED" /\ outbox'[i] = << >>
    BY DEF VerdictsAgree, AssetOf
  <2>1. CASE i = j
    BY <1>2, <2>1
  <2>2. CASE i # j
    BY <1>2, <2>2 DEF VerdictsAgree
  <2> QED
    BY <2>1, <2>2

(* A step between states without a verdict.                                *)
LEMMA NoVerdict ==
  ASSUME TypeOK, VerdictsAgree, NEW j \in Job, NEW st \in {"QUEUED", "RUNNING"},
         status[j] \notin Verdict, status' = [status EXCEPT ![j] = st],
         UNCHANGED <<asset, outbox>>
  PROVE  VerdictsAgree'
<1> SUFFICES ASSUME NEW i \in Job
             PROVE  IF status'[i] \in Verdict
                    THEN /\ asset'[i] = AssetOf[status'[i]]
                         /\ outbox'[i] = <<status'[i]>>
                    ELSE asset'[i] = "UPLOADED" /\ outbox'[i] = << >>
  BY DEF VerdictsAgree, AssetOf
<1>1. CASE i = j
  BY <1>1 DEF TypeOK, Verdict, VerdictsAgree
<1>2. CASE i # j
  BY <1>2 DEF TypeOK, VerdictsAgree
<1> QED
  BY <1>1, <1>2

LEMMA VerdictsStep ==
  ASSUME TypeOK, Fencing, Answered, VerdictsAgree, [Next]_vars
  PROVE  VerdictsAgree'
<1> USE DEF TypeOK, Active, Verdict, AssetOf, rows, memory
<1>1. ASSUME NEW j \in Job, Enqueue(j) \/ LeaseExpires(j) PROVE VerdictsAgree'
  <2>1. CASE Enqueue(j)
    BY <2>1, NoVerdict DEF Enqueue
  <2>2. CASE LeaseExpires(j)
    BY <2>2 DEF LeaseExpires, VerdictsAgree
  <2> QED
    BY <1>1, <2>1, <2>2
<1>2. ASSUME NEW w \in Worker, Claim(w) PROVE VerdictsAgree'
  <2>1. PICK j \in Claimable : /\ status' = [status EXCEPT ![j] = "RUNNING"]
                               /\ asset' = asset /\ outbox' = outbox
    BY <1>2 DEF Claim
  <2>2. j \in Job /\ status[j] \notin Verdict
    BY DEF Claimable
  <2> QED
    BY <2>1, <2>2, NoVerdict
<1>3. ASSUME NEW w \in Worker,
             \/ Heartbeat(w) \/ Errs(w) \/ Probe(w) \/ Encode(w) \/ UploadRung(w)
             \/ UploadMaster(w) \/ Shutdown(w) \/ Crash(w)
      PROVE  VerdictsAgree'
  <2>1. UNCHANGED <<status, asset, outbox>>
    BY <1>3 DEF Heartbeat, Errs, Probe, Encode, UploadRung, UploadMaster,
                Shutdown, Crash
  <2> QED
    BY <2>1 DEF VerdictsAgree
<1>4. ASSUME NEW w \in Worker, Succeed(w) PROVE VerdictsAgree'
  <2>1. CASE owner[mine[w]] = w /\ Decide(mine[w], "SUCCEEDED", "READY")
    <3>1. mine[w] \in Job /\ status[mine[w]] = "RUNNING"
      BY <1>4, <2>1 DEF Succeed, Fencing
    <3>2. AssetOf["SUCCEEDED"] = "READY"
      BY DEF AssetOf
    <3> QED
      BY <2>1, <3>1, <3>2, FirstVerdict
  <2>2. CASE UNCHANGED rows
    BY <2>2 DEF VerdictsAgree
  <2> QED
    BY <1>4, <2>1, <2>2 DEF Succeed
<1>5. ASSUME NEW w \in Worker, Report(w) PROVE VerdictsAgree'
  <2>1. mine[w] \in Job /\ step[w] = "reporting"
    BY <1>5 DEF Report
  <2>2. CASE Fail(w) \/ Reject(w)
    <3>1. status[mine[w]] = "RUNNING"
      BY <2>1, <2>2 DEF Fail, Reject, Answered
    <3>2. CASE Requeue(mine[w])
      <4>1. UNCHANGED <<asset, outbox>>
        BY <3>2 DEF Requeue
      <4>2. status' = [status EXCEPT ![mine[w]] = "QUEUED"]
        BY <3>2 DEF Requeue
      <4> QED
        BY <2>1, <3>1, <4>1, <4>2, NoVerdict
    <3>3. CASE Decide(mine[w], "FAILED", "FAILED")
      <4>1. AssetOf["FAILED"] = "FAILED"
        BY DEF AssetOf
      <4> QED
        BY <2>1, <3>1, <3>3, <4>1, FirstVerdict
    <3>4. CASE Decide(mine[w], "CANCELLED", "REJECTED")
      <4>1. AssetOf["CANCELLED"] = "REJECTED"
        BY DEF AssetOf
      <4> QED
        BY <2>1, <3>1, <3>4, <4>1, FirstVerdict
    <3> QED
      BY <2>2, <3>2, <3>3, <3>4 DEF Fail, Reject
  <2>3. CASE UNCHANGED rows
    BY <2>3 DEF VerdictsAgree
  <2> QED
    BY <1>5, <2>2, <2>3 DEF Report
<1>6. CASE UNCHANGED vars
  BY <1>6 DEF vars, VerdictsAgree
<1> QED
  BY <1>1, <1>2, <1>3, <1>4, <1>5, <1>6 DEF Next

(* Job, asset and messages tell the same story, if a commit whose answer   *)
(* is lost is left out: with one, Fail can take back what Succeed wrote.   *)
THEOREM OneVerdict ==
  ASSUME "commit_unknown" \notin Faults
  PROVE  Spec => []VerdictsAgree
<1> DEFINE Inv == TypeOK /\ Uploads /\ Resting /\ Fencing
           Told == Answered /\ VerdictsAgree
<1>1. Init => Told
  BY DEF Init, Answered, VerdictsAgree, Verdict
<1>2. Inv /\ Told /\ [Next]_vars => Told'
  BY AnsweredStep, VerdictsStep
<1>3. Told => VerdictsAgree
  OBVIOUS
<1>4. Spec => []Inv
  BY JobInvariants
<1> HIDE DEF Inv, Told
<1> QED
  BY <1>1, <1>2, <1>3, <1>4, PTL DEF Spec

----------------------------------------------------------------------------
(* The refinement of JobVerdict. What a worker is about to report fits the *)
(* source it has probed.                                                   *)

Suited ==
  \A w \in Worker :
    /\ step[w] \in {"encoding", "uploading", "succeeding"} => mine[w] \notin Bad
    /\ result[w] = "reject" => mine[w] \in Bad

LEMMA SuitedStep ==
  ASSUME TypeOK, Resting, Suited, [Next]_vars
  PROVE  Suited'
<1> USE DEF TypeOK, Suited
<1>1. ASSUME NEW w \in Worker, Claim(w) PROVE Suited'
  <2>1. /\ result' = result /\ result[w] = "none"
        /\ step'[w] \in {"idle", "probing"}
        /\ \A v \in Worker \ {w} : step'[v] = step[v] /\ mine'[v] = mine[v]
    BY <1>1 DEF Claim, Resting
  <2>2. ASSUME NEW v \in Worker
        PROVE  /\ step'[v] \in {"encoding", "uploading", "succeeding"}
                    => mine'[v] \notin Bad
               /\ result'[v] = "reject" => mine'[v] \in Bad
    BY <2>1
  <2> QED
    BY <2>2
<1>2. ASSUME NEW w \in Worker, Errs(w) PROVE Suited'
  BY <1>2 DEF Errs, Return
<1>3. ASSUME NEW w \in Worker, Probe(w) PROVE Suited'
  BY <1>3 DEF Probe, Return
<1>4. ASSUME NEW w \in Worker, Encode(w) \/ UploadRung(w) \/ UploadMaster(w)
      PROVE  Suited'
  BY <1>4 DEF Encode, UploadRung, UploadMaster
<1>5. ASSUME NEW w \in Worker, Succeed(w) PROVE Suited'
  <2>1. \/ Return(w, "ok") /\ UNCHANGED mine
        \/ Return(w, "error") /\ UNCHANGED mine
    BY <1>5 DEF Succeed
  <2> QED
    BY <2>1 DEF Return
<1>6. ASSUME NEW w \in Worker, Report(w) \/ Crash(w) PROVE Suited'
  <2>1. PICK next \in {"idle", "dead"} : LeaveJob(w, next)
    BY <1>6 DEF Report, Crash
  <2> QED
    BY <2>1 DEF LeaveJob
<1>7. ASSUME NEW w \in Worker, Shutdown(w) PROVE Suited'
  BY <1>7 DEF Shutdown
<1>8. CASE UNCHANGED <<step, mine, result>>
  BY <1>8
<1> QED
  <2>1. \/ UNCHANGED <<step, mine, result>>
        \/ \E w \in Worker :
              \/ Claim(w) \/ Errs(w) \/ Probe(w) \/ Encode(w) \/ UploadRung(w)
              \/ UploadMaster(w) \/ Succeed(w) \/ Report(w) \/ Shutdown(w)
              \/ Crash(w)
    BY DEF Next, vars, memory, Enqueue, LeaseExpires, Heartbeat
  <2> QED
    BY <2>1, <1>1, <1>2, <1>3, <1>4, <1>5, <1>6, <1>7, <1>8

States == [j \in Job |-> JobState(j)]

(* A row that stays open, or is not touched, is a stutter.                 *)
LEMMA StateKept ==
  ASSUME TypeOK, NEW j \in Job, status[j] \in {"QUEUED", "RUNNING"},
         NEW st \in {"QUEUED", "RUNNING"},
         status' = [status EXCEPT ![j] = st]
  PROVE  States' = States
BY DEF TypeOK, States, JobState, Verdict

(* The transaction that ends a RUNNING job is the decision.                *)
LEMMA StateDecided ==
  ASSUME TypeOK, NEW j \in Job, status[j] = "RUNNING",
         NEW v \in Verdict, NEW st \in Promised!Outcome(j), Decide(j, v, st)
  PROVE  Promised!Decide(j)
<1>1. /\ status' = [status EXCEPT ![j] = v]
      /\ asset'  = [asset EXCEPT ![j] = st]
  BY DEF Decide
<1>2. States[j] = "OPEN" /\ States' = [States EXCEPT ![j] = "DONE"]
  BY <1>1 DEF TypeOK, States, JobState, Verdict
<1> QED
  BY <1>1, <1>2 DEF Promised!Decide, States

LEMMA PromiseStep ==
  ASSUME TypeOK, Fencing, Answered, Suited, [Next]_vars
  PROVE  Promised!Next \/ UNCHANGED <<States, asset>>
<1> USE DEF TypeOK, rows
<1>1. CASE UNCHANGED <<status, asset>>
  BY <1>1 DEF States, JobState
<1>2. ASSUME NEW j \in Job, Enqueue(j)
      PROVE  Promised!Enqueue(j)
  BY <1>2 DEF Enqueue, Promised!Enqueue, JobState, Verdict
<1>3. ASSUME NEW w \in Worker, Claim(w)
      PROVE  UNCHANGED <<States, asset>>
  <2>1. PICK j \in Claimable : /\ status' = [status EXCEPT ![j] = "RUNNING"]
                               /\ asset' = asset
    BY <1>3 DEF Claim
  <2>2. j \in Job /\ status[j] \in {"QUEUED", "RUNNING"}
    BY DEF Claimable
  <2> QED
    BY <2>1, <2>2, StateKept
<1>4. ASSUME NEW w \in Worker, Succeed(w)
      PROVE  Promised!Next \/ UNCHANGED <<States, asset>>
  <2>1. CASE owner[mine[w]] = w /\ Decide(mine[w], "SUCCEEDED", "READY")
    <3>1. /\ mine[w] \in Job /\ status[mine[w]] = "RUNNING"
          /\ mine[w] \notin Bad
      BY <1>4, <2>1 DEF Succeed, Fencing, Active, Suited
    <3>2. "READY" \in Promised!Outcome(mine[w]) /\ "SUCCEEDED" \in Verdict
      BY <3>1 DEF Promised!Outcome, Verdict
    <3> QED
      BY <2>1, <3>1, <3>2, StateDecided DEF Promised!Next
  <2>2. CASE UNCHANGED rows
    BY <1>1, <2>2
  <2> QED
    BY <1>4, <2>1, <2>2 DEF Succeed
<1>5. ASSUME NEW w \in Worker, Report(w)
      PROVE  Promised!Next \/ UNCHANGED <<States, asset>>
  <2>1. mine[w] \in Job /\ step[w] = "reporting"
    BY <1>5 DEF Report, Active
  <2>2. CASE Fail(w)
    <3>1. status[mine[w]] = "RUNNING"
      BY <2>1, <2>2 DEF Fail, Answered
    <3>2. CASE Requeue(mine[w])
      <4>1. status' = [status EXCEPT ![mine[w]] = "QUEUED"] /\ asset' = asset
        BY <3>2 DEF Requeue
      <4> QED
        BY <2>1, <3>1, <4>1, StateKept
    <3>3. CASE Decide(mine[w], "FAILED", "FAILED")
      <4>1. "FAILED" \in Promised!Outcome(mine[w]) /\ "FAILED" \in Verdict
        BY DEF Promised!Outcome, Verdict
      <4> QED
        BY <2>1, <3>1, <3>3, <4>1, StateDecided DEF Promised!Next
    <3> QED
      BY <2>2, <3>2, <3>3 DEF Fail
  <2>3. CASE Reject(w)
    <3>1. status[mine[w]] = "RUNNING" /\ mine[w] \in Bad
      BY <2>1, <2>3 DEF Reject, Answered, Suited
    <3>2. "REJECTED" \in Promised!Outcome(mine[w]) /\ "CANCELLED" \in Verdict
      BY <3>1 DEF Promised!Outcome, Verdict
    <3>3. Decide(mine[w], "CANCELLED", "REJECTED")
      BY <2>3 DEF Reject
    <3> QED
      BY <2>1, <3>1, <3>2, <3>3, StateDecided DEF Promised!Next
  <2>4. CASE UNCHANGED rows
    BY <1>1, <2>4
  <2> QED
    BY <1>5, <2>2, <2>3, <2>4 DEF Report
<1> QED
  <2>1. \/ UNCHANGED <<status, asset>> \/ \E j \in Job : Enqueue(j)
        \/ \E w \in Worker : Claim(w) \/ Succeed(w) \/ Report(w)
    BY DEF Next, vars, LeaseExpires, Heartbeat, Errs, Probe, Encode, UploadRung,
           UploadMaster, Shutdown, Crash
  <2> QED
    BY <2>1, <1>1, <1>2, <1>3, <1>4, <1>5 DEF Promised!Next

(* The queue implements JobVerdict, for any number of jobs and workers     *)
(* that stall, die and take jobs from each other, again if a commit whose  *)
(* answer is lost is left out.                                             *)
THEOREM ImplementsVerdict ==
  ASSUME "commit_unknown" \notin Faults
  PROVE  Spec => DecidedForGood
<1> DEFINE Inv  == TypeOK /\ Uploads /\ Resting /\ Fencing
           More == Answered /\ Suited
<1>1. Init => More
  BY DEF Init, Answered, Suited
<1>2. Inv /\ More /\ [Next]_vars => More'
  BY AnsweredStep, SuitedStep
<1>3. Init => Promised!Init
  BY DEF Init, Promised!Init, JobState
<1>4. Inv /\ More /\ [Next]_vars => [Promised!Next]_<<States, asset>>
  BY PromiseStep
<1>5. Spec => []Inv
  BY JobInvariants
<1> HIDE DEF Inv, More
<1> QED
  BY <1>1, <1>2, <1>3, <1>4, <1>5, PTL
     DEF Spec, DecidedForGood, Promised!Spec, States

----------------------------------------------------------------------------
(* The retry budget. An attempt within it is one that nobody is working on *)
(* or could still give back; every further attempt was paid for by a       *)
(* failure.                                                                *)

Held(j) ==
  /\ lease[j] = "valid"
  /\ \E w \in Worker \ stopping :
       step[w] \in Active /\ mine[w] = j /\ owner[j] = w

Undecided == {"ABSENT", "QUEUED", "RUNNING"}

Within(j) ==
  /\ attempt[j] <= MaxAttempts + faults
  /\ status[j] \in Undecided /\ ~Held(j) => attempt[j] < MaxAttempts + faults

Budget == \A j \in Job : Within(j)

(* The owner's job waits for nobody else, and one that was reported as     *)
(* done or as stolen is decided.                                           *)
Concluded ==
  \A w \in Worker :
    step[w] \in Active /\ owner[mine[w]] = w =>
      /\ status[mine[w]] \in Verdict \cup {"RUNNING"}
      /\ w \in stolen \/ result[w] = "ok" => status[mine[w]] \in Verdict

LEMMA ConcludedStep ==
  ASSUME TypeOK, Resting, Fencing, Concluded, [Next]_vars
  PROVE  Concluded'
<1> USE DEF TypeOK, Active, Verdict, rows, memory
<1>1. ASSUME NEW j \in Job, Enqueue(j) \/ LeaseExpires(j) PROVE Concluded'
  <2>1. /\ UNCHANGED <<owner, step, mine, result, stolen>>
        /\ \A i \in Job \ {j} : status'[i] = status[i]
    BY <1>1 DEF Enqueue, LeaseExpires
  <2>2. status[j] = "ABSENT" \/ status'[j] = status[j]
    BY <1>1 DEF Enqueue, LeaseExpires
  <2>3. ASSUME NEW v \in Worker, step[v] \in Active, owner[mine[v]] = v
        PROVE  status'[mine[v]] = status[mine[v]]
    <3>1. mine[v] \in Job /\ status[mine[v]] # "ABSENT"
      BY <2>3 DEF Concluded
    <3> QED
      BY <2>1, <2>2, <3>1
  <2> QED
    BY <2>1, <2>3 DEF Concluded
<1>2. ASSUME NEW w \in Worker, Claim(w) PROVE Concluded'
  <2>1. PICK j \in Job :
          /\ status' = [status EXCEPT ![j] = "RUNNING"]
          /\ owner'  = [owner EXCEPT ![j] = w]
          /\ result' = result /\ stolen' = stolen
          /\ \/ /\ step' = [step EXCEPT ![w] = "probing"]
                /\ mine' = [mine EXCEPT ![w] = j]
             \/ step' = step /\ mine' = mine
    BY <1>2 DEF Claim, Claimable
  <2>2. step[w] = "idle" /\ w \notin stolen /\ result[w] = "none"
    <3>1. step[w] = "idle"
      BY <1>2 DEF Claim
    <3> QED
      BY <3>1 DEF Resting
  <2>3. ASSUME NEW v \in Worker, step'[v] \in Active, owner'[mine'[v]] = v
        PROVE  /\ status'[mine'[v]] \in Verdict \cup {"RUNNING"}
               /\ v \in stolen \/ result[v] = "ok" => status'[mine'[v]] \in Verdict
    <3>1. CASE v = w
      BY <2>1, <2>2, <2>3, <3>1
    <3>2. CASE v # w
      <4>1. step[v] \in Active /\ mine'[v] = mine[v] /\ mine[v] \in Job
        BY <2>1, <2>3, <3>2
      <4>2. mine[v] # j
        BY <2>1, <2>3, <3>2, <4>1
      <4> QED
        BY <2>1, <2>3, <4>1, <4>2 DEF Concluded
    <3> QED
      BY <3>1, <3>2
  <2> QED
    BY <2>1, <2>3 DEF Concluded
<1>3. ASSUME NEW w \in Worker, Heartbeat(w) PROVE Concluded'
  BY <1>3 DEF Heartbeat, Concluded
<1>4. ASSUME NEW w \in Worker, Errs(w) \/ Probe(w) PROVE Concluded'
  BY <1>4 DEF Errs, Probe, Return, Concluded
<1>5. ASSUME NEW w \in Worker, Encode(w) \/ UploadRung(w) \/ UploadMaster(w)
      PROVE  Concluded'
  BY <1>5 DEF Encode, UploadRung, UploadMaster, Concluded
<1>6. ASSUME NEW w \in Worker, Succeed(w) PROVE Concluded'
  <2>1. /\ mine[w] \in Job /\ step[w] = "succeeding"
        /\ step' = [step EXCEPT ![w] = "reporting"]
        /\ UNCHANGED <<owner, mine, stolen>>
        /\ \A v \in Worker \ {w} : result'[v] = result[v]
    BY <1>6 DEF Succeed, Decide, Return
  <2>2. \/ /\ owner[mine[w]] = w /\ status'[mine[w]] = "SUCCEEDED"
           /\ \A j \in Job \ {mine[w]} : status'[j] = status[j]
        \/ UNCHANGED status /\ result'[w] = "error"
    BY <1>6 DEF Succeed, Decide, Return
  <2>3. ASSUME NEW v \in Worker, step'[v] \in Active, owner[mine[v]] = v
        PROVE  /\ status'[mine[v]] \in Verdict \cup {"RUNNING"}
               /\ v \in stolen \/ result'[v] = "ok" => status'[mine[v]] \in Verdict
    <3>1. CASE v = w
      BY <2>1, <2>2, <2>3, <3>1 DEF Concluded
    <3>2. CASE v # w
      <4>1. step[v] \in Active /\ mine[v] \in Job
        BY <2>1, <2>3, <3>2
      <4>2. status'[mine[v]] = status[mine[v]]
        BY <2>2, <2>3, <3>2, <4>1
      <4> QED
        BY <2>1, <2>3, <3>2, <4>1, <4>2 DEF Concluded
    <3> QED
      BY <3>1, <3>2
  <2> QED
    BY <2>1, <2>3 DEF Concluded
<1>7. ASSUME NEW w \in Worker, Report(w) PROVE Concluded'
  <2>1. /\ mine[w] \in Job
        /\ step'[w] \notin Active
        /\ stolen' = stolen \ {w}
        /\ \A v \in Worker : v # w => /\ step'[v] = step[v] /\ mine'[v] = mine[v]
                                      /\ result'[v] = result[v]
    BY <1>7 DEF Report, LeaveJob
  <2>2. /\ \A j \in Job : owner'[j] = owner[j] \/ owner'[j] = NoWorker
        /\ \/ owner[mine[w]] = w /\ \A j \in Job \ {mine[w]} : status'[j] = status[j]
           \/ UNCHANGED status
    BY <1>7, <2>1 DEF Report, Fail, Reject, Requeue, Decide
  <2>3. ASSUME NEW v \in Worker, step'[v] \in Active, owner'[mine'[v]] = v
        PROVE  /\ status'[mine'[v]] \in Verdict \cup {"RUNNING"}
               /\ v \in stolen' \/ result'[v] = "ok" => status'[mine'[v]] \in Verdict
    <3>1. v # w /\ mine'[v] = mine[v] /\ mine[v] \in Job /\ step[v] \in Active
      BY <2>1, <2>3
    <3>2. owner[mine[v]] = v
      BY <2>2, <2>3, <3>1
    <3>3. status'[mine[v]] = status[mine[v]]
      BY <2>2, <3>1, <3>2
    <3> QED
      BY <2>1, <3>1, <3>2, <3>3 DEF Concluded
  <2> QED
    BY <2>3 DEF Concluded
<1>8. ASSUME NEW w \in Worker, Shutdown(w) PROVE Concluded'
  BY <1>8 DEF Shutdown, Concluded
<1>9. ASSUME NEW w \in Worker, Crash(w) PROVE Concluded'
  BY <1>9 DEF Crash, LeaveJob, Concluded
<1>10. CASE UNCHANGED vars
  BY <1>10 DEF vars, Concluded
<1> QED
  BY <1>1, <1>2, <1>3, <1>4, <1>5, <1>6, <1>7, <1>8, <1>9, <1>10 DEF Next

(* A failure pays for an attempt; without one, a job that stays undecided  *)
(* must stay held.                                                         *)
LEMMA WithinFrame ==
  ASSUME TypeOK, NEW j \in Job, Within(j), attempt'[j] = attempt[j],
         \/ faults' = faults + 1
         \/ /\ faults' = faults
            /\ status'[j] \in Undecided => status[j] \in Undecided
            /\ Held(j) => Held(j)'
  PROVE  Within(j)'
  BY DEF TypeOK, Within

LEMMA BudgetStep ==
  ASSUME TypeOK, Resting, Fencing, Concluded, Budget, [Next]_vars
  PROVE  Budget'
<1> SUFFICES ASSUME NEW i \in Job PROVE Within(i)'
  BY DEF Budget
<1>0. Within(i)
  BY DEF Budget
<1> USE DEF TypeOK, Active, Verdict, Undecided, rows, memory, NoFault, Fault
<1>1. ASSUME NEW j \in Job, Enqueue(j) PROVE Within(i)'
  BY <1>0, <1>1, WithinFrame DEF Enqueue, Held
<1>2. ASSUME NEW j \in Job, LeaseExpires(j) PROVE Within(i)'
  <2>1. attempt' = attempt /\ status' = status
    BY <1>2 DEF LeaseExpires
  <2>2. faults' = faults + 1 \/ (faults' = faults /\ (Held(i) => Held(i)'))
    <3>1. CASE faults' = faults + 1
      BY <3>1
    <3>2. CASE /\ ~ \E w \in Worker \ stopping :
                      step[w] \in Active /\ mine[w] = j /\ owner[j] = w
               /\ faults' = faults
      <4>1. ~Held(j) /\ (i # j => lease'[i] = lease[i])
        BY <1>2, <3>2 DEF LeaseExpires, Held
      <4>2. UNCHANGED <<step, mine, owner, stopping>>
        BY <1>2 DEF LeaseExpires
      <4> QED
        BY <3>2, <4>1, <4>2 DEF Held
    <3> QED
      BY <1>2, <3>1, <3>2 DEF LeaseExpires
  <2> QED
    BY <1>0, <2>1, <2>2, WithinFrame
<1>3. ASSUME NEW w \in Worker, Claim(w) PROVE Within(i)'
  <2>1. PICK j \in Claimable :
          /\ owner'   = [owner EXCEPT ![j] = w]
          /\ status'  = [status EXCEPT ![j] = "RUNNING"]
          /\ lease'   = [lease EXCEPT ![j] = "valid"]
          /\ attempt' = [attempt EXCEPT ![j] = @ + 1]
          /\ \/ /\ step' = [step EXCEPT ![w] = "probing"]
                /\ mine' = [mine EXCEPT ![w] = j]
                /\ faults' = faults
             \/ faults' = faults + 1
    BY <1>3 DEF Claim
  <2>2. /\ step[w] = "idle" /\ w \notin stopping /\ stopping' = stopping
        /\ j \in Job /\ status[j] \in Undecided /\ ~Held(j)
    <3>1. step[w] = "idle" /\ w \notin stopping /\ stopping' = stopping
      BY <1>3 DEF Claim
    <3>2. /\ j \in Job
          /\ status[j] = "QUEUED" \/ (status[j] = "RUNNING" /\ lease[j] = "expired")
      BY DEF Claimable
    <3>3. ~Held(j)
      BY <3>2 DEF Held, Concluded
    <3> QED
      BY <3>1, <3>2, <3>3
  <2>3. CASE i = j
    <3>1. attempt[i] < MaxAttempts + faults /\ attempt'[i] = attempt[i] + 1
      BY <1>0, <2>1, <2>2, <2>3 DEF Within
    <3>2. faults' = faults => Held(i)'
      BY <2>1, <2>2, <2>3 DEF Held
    <3> QED
      BY <2>1, <3>1, <3>2 DEF Within
  <2>4. CASE i # j
    <3>1. /\ attempt'[i] = attempt[i] /\ status'[i] = status[i]
          /\ lease'[i] = lease[i] /\ owner'[i] = owner[i]
      BY <2>1, <2>2, <2>4
    <3>2. faults' = faults => (Held(i) => Held(i)')
      BY <2>1, <2>2, <3>1 DEF Held
    <3> QED
      BY <1>0, <2>1, <3>1, <3>2, WithinFrame
  <2> QED
    BY <2>3, <2>4
<1>4. ASSUME NEW w \in Worker, Heartbeat(w) PROVE Within(i)'
  <2>1. UNCHANGED <<attempt, status, faults>>
    BY <1>4 DEF Heartbeat
  <2>2. Held(i) => Held(i)'
    BY <1>4 DEF Heartbeat, Held
  <2> QED
    BY <1>0, <2>1, <2>2, WithinFrame
<1>5. ASSUME NEW w \in Worker,
             \/ Errs(w) \/ Probe(w) \/ Encode(w) \/ UploadRung(w) \/ UploadMaster(w)
      PROVE  Within(i)'
  <2>1. /\ UNCHANGED <<rows, mine, stopping>>
        /\ \A v \in Worker : step[v] \in Active => step'[v] \in Active
        /\ faults' = faults \/ faults' = faults + 1
    BY <1>5 DEF Errs, Probe, Encode, UploadRung, UploadMaster, Return
  <2>2. Held(i) => Held(i)'
    BY <2>1 DEF Held
  <2> QED
    BY <1>0, <2>1, <2>2, WithinFrame
<1>6. ASSUME NEW w \in Worker, Succeed(w) PROVE Within(i)'
  <2>1. /\ UNCHANGED <<owner, attempt, mine, stopping>>
        /\ \A v \in Worker : step[v] \in Active => step'[v] \in Active
        /\ faults' = faults \/ faults' = faults + 1
        /\ mine[w] \in Job
    BY <1>6 DEF Succeed, Decide, Return
  <2>2. \/ status'[i] = "SUCCEEDED"
        \/ status'[i] = status[i] /\ lease'[i] = lease[i]
    BY <1>6, <2>1 DEF Succeed, Decide
  <2>3. status'[i] \in Undecided => status[i] \in Undecided /\ (Held(i) => Held(i)')
    BY <2>1, <2>2 DEF Held
  <2> QED
    BY <1>0, <2>1, <2>3 DEF Within
<1>7. ASSUME NEW w \in Worker, Report(w) PROVE Within(i)'
  <2>1. /\ attempt' = attempt /\ stopping' = stopping
        /\ mine[w] \in Job /\ step[w] = "reporting"
        /\ \A v \in Worker \ {w} : step'[v] = step[v] /\ mine'[v] = mine[v]
        /\ faults' = faults \/ faults' = faults + 1
    BY <1>7 DEF Report, LeaveJob, Fail, Reject, Requeue, Decide
  <2>2. CASE faults' = faults + 1
    BY <1>0, <2>1, <2>2, WithinFrame
  <2>3. CASE faults' = faults /\ i # mine[w]
    <3>1. status'[i] = status[i] /\ lease'[i] = lease[i] /\ owner'[i] = owner[i]
      BY <1>7, <2>1, <2>3 DEF Report, Fail, Reject, Requeue, Decide
    <3>2. Held(i) => Held(i)'
      BY <2>1, <2>3, <3>1 DEF Held
    <3> QED
      BY <1>0, <2>1, <2>3, <3>1, <3>2, WithinFrame
  <2>4. CASE faults' = faults /\ i = mine[w] /\ (Fail(w) \/ Reject(w))
    <3>1. CASE Requeue(mine[w])
      <4>1. owner[i] = w /\ tried[w] < MaxAttempts
        BY <2>4, <3>1 DEF Fail, Reject, Requeue, Decide, Retryable
      <4>2. attempt[i] < MaxAttempts
        BY <2>1, <2>4, <4>1 DEF Fencing
      <4> QED
        BY <2>1, <2>4, <4>2 DEF Within
    <3>2. CASE status'[i] \in Verdict
      BY <1>0, <2>1, <2>4, <3>2 DEF Within
    <3> QED
      BY <2>1, <2>4, <3>1, <3>2 DEF Fail, Reject, Decide
  <2>5. CASE /\ faults' = faults /\ i = mine[w] /\ UNCHANGED rows
             /\ w \in stolen \/ result[w] = "ok" \/ owner[mine[w]] # w
    <3>1. CASE owner[i] = w
      <4>1. status[i] \in Verdict
        BY <2>1, <2>5, <3>1 DEF Concluded
      <4> QED
        BY <1>0, <2>1, <2>5, <4>1 DEF Within
    <3>2. CASE owner[i] # w
      <4>1. Held(i) => Held(i)'
        BY <2>1, <2>5, <3>2 DEF Held
      <4> QED
        BY <1>0, <2>1, <2>5, <4>1, WithinFrame
    <3> QED
      BY <3>1, <3>2
  <2> QED
    BY <1>7, <2>1, <2>2, <2>3, <2>4, <2>5 DEF Report
<1>8. ASSUME NEW w \in Worker, Shutdown(w) \/ Crash(w) PROVE Within(i)'
  <2>1. UNCHANGED <<attempt, status>> /\ faults' = faults + 1
    BY <1>8 DEF Shutdown, Crash
  <2> QED
    BY <1>0, <2>1, WithinFrame
<1>9. CASE UNCHANGED vars
  BY <1>0, <1>9, WithinFrame DEF vars, Held
<1> QED
  BY <1>1, <1>2, <1>3, <1>4, <1>5, <1>6, <1>7, <1>8, <1>9 DEF Next

(* Only the latest attempt of a job fails it: the last one there is, or    *)
(* one whose worker was told to stop.                                      *)
Exhausted ==
  \A j \in Job :
    status[j] = "FAILED" => attempt[j] >= MaxAttempts \/ owner[j] \in stopping

LEMMA ExhaustedStep ==
  ASSUME TypeOK, Fencing, Exhausted, [Next]_vars
  PROVE  Exhausted'
<1> SUFFICES ASSUME NEW i \in Job, status'[i] = "FAILED"
             PROVE  attempt'[i] >= MaxAttempts \/ owner'[i] \in stopping'
  BY DEF Exhausted
<1> USE DEF TypeOK, Active, Verdict, rows, memory
<1>1. ASSUME status[i] = "FAILED", attempt'[i] = attempt[i],
             owner'[i] = owner[i], stopping \subseteq stopping'
      PROVE  attempt'[i] >= MaxAttempts \/ owner'[i] \in stopping'
  BY <1>1 DEF Exhausted
<1>2. ASSUME NEW j \in Job, Enqueue(j) \/ LeaseExpires(j)
      PROVE  attempt'[i] >= MaxAttempts \/ owner'[i] \in stopping'
  BY <1>1, <1>2 DEF Enqueue, LeaseExpires
<1>3. ASSUME NEW w \in Worker, Claim(w)
      PROVE  attempt'[i] >= MaxAttempts \/ owner'[i] \in stopping'
  <2>1. PICK j \in Job : /\ status'  = [status EXCEPT ![j] = "RUNNING"]
                         /\ owner'   = [owner EXCEPT ![j] = w]
                         /\ attempt' = [attempt EXCEPT ![j] = @ + 1]
    BY <1>3 DEF Claim, Claimable
  <2>2. i # j /\ stopping' = stopping
    BY <1>3, <2>1 DEF Claim
  <2> QED
    BY <1>1, <2>1, <2>2
<1>4. ASSUME NEW w \in Worker,
             \/ Heartbeat(w) \/ Errs(w) \/ Probe(w) \/ Encode(w)
             \/ UploadRung(w) \/ UploadMaster(w) \/ Shutdown(w) \/ Crash(w)
      PROVE  attempt'[i] >= MaxAttempts \/ owner'[i] \in stopping'
  BY <1>1, <1>4 DEF Heartbeat, Errs, Probe, Encode, UploadRung, UploadMaster,
                    Shutdown, Crash
<1>5. ASSUME NEW w \in Worker, Succeed(w)
      PROVE  attempt'[i] >= MaxAttempts \/ owner'[i] \in stopping'
  <2>1. status'[i] = status[i] /\ UNCHANGED <<owner, attempt, stopping>>
    BY <1>5 DEF Succeed, Decide
  <2> QED
    BY <1>1, <2>1
<1>6. ASSUME NEW w \in Worker, Report(w)
      PROVE  attempt'[i] >= MaxAttempts \/ owner'[i] \in stopping'
  <2>1. /\ mine[w] \in Job /\ step[w] = "reporting"
        /\ attempt' = attempt /\ stopping' = stopping
    BY <1>6 DEF Report, Fail, Reject, Requeue, Decide
  <2>2. CASE status'[i] = status[i] /\ owner'[i] = owner[i]
    BY <1>1, <2>1, <2>2
  <2>3. CASE i = mine[w] /\ Fail(w)
    <3>1. owner[i] = w /\ owner'[i] = owner[i] /\ ~Retryable(w)
      BY <2>1, <2>3 DEF Fail, Requeue, Decide
    <3>2. tried[w] = attempt[i]
      BY <2>1, <2>3, <3>1 DEF Fencing
    <3> QED
      BY <2>1, <3>1, <3>2, LimitsAssumption DEF Retryable
  <2>4. CASE i = mine[w] /\ Reject(w)
    BY <2>1, <2>4 DEF Reject, Decide
  <2>5. CASE i # mine[w]
    BY <1>1, <1>6, <2>1, <2>5 DEF Report, Fail, Reject, Requeue, Decide
  <2> QED
    BY <1>6, <2>2, <2>3, <2>4, <2>5 DEF Report
<1>7. CASE UNCHANGED vars
  BY <1>1, <1>7 DEF vars
<1> QED
  BY <1>2, <1>3, <1>4, <1>5, <1>6, <1>7 DEF Next

(* A job is claimed more often than MaxAttempts only for failures, and     *)
(* fails with attempts left only by a worker that was told to stop.        *)
THEOREM RetryBudget == Spec => []AttemptsBounded
<1> DEFINE Inv == TypeOK /\ Uploads /\ Resting /\ Fencing
           Spent == Concluded /\ Budget /\ Exhausted
<1>1. Init => Spent
  BY LimitsAssumption
     DEF Init, Concluded, Budget, Within, Held, Exhausted, Active, Verdict
<1>2. Inv /\ Spent /\ [Next]_vars => Spent'
  BY ConcludedStep, BudgetStep, ExhaustedStep
<1>3. Spent => AttemptsBounded
  BY DEF Budget, Within, Exhausted, AttemptsBounded
<1>4. Spec => []Inv
  BY JobInvariants
<1> HIDE DEF Inv, Spent
<1> QED
  BY <1>1, <1>2, <1>3, <1>4, PTL DEF Spec
=============================================================================
