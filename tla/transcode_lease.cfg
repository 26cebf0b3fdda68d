CONSTANTS
  j1 = j1
  j2 = j2
  w1 = w1
  w2 = w2
  r1 = r1
  r2 = r2
  Job = {j1, j2}
  Worker = {w1, w2}
  Rung = {r1, r2}
  Master = Master
  NoWorker = NoWorker
  NoJob = NoJob
  Bad = {j2}
  MaxAttempts = 2
  MaxFaults = 3
  Faults = {"io_error", "db_error", "stall", "crash", "shutdown"}
SPECIFICATION FairSpec
INVARIANTS VerdictsAgree ReadyIsPlayable AttemptsBounded
PROPERTIES DecidedForGood LatestAttemptDecides StolenWritesNothing EveryJobDecided
CHECK_DEADLOCK FALSE
