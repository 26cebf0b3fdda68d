CONSTANTS
  a1 = a1
  a2 = a2
  q1 = q1
  q2 = q2
  Asset = {a1, a2}
  Request = {q1, q2}
  Owned <- MCOwned
  NoAsset = NoAsset
  Verdict = {"READY", "FAILED"}
  MaxRecords = 2
  Faults = {"client_retry", "api_crash", "enqueue_error", "duplicate", "restart", "commit_error", "poll_error", "consume_error"}
SPECIFICATION FairSpec
INVARIANTS UploadTracked
PROPERTIES RedeliveryIsHarmless EveryUploadQueued
CHECK_DEADLOCK FALSE
