SPECIFICATION Spec
CONSTANTS
  c1 = c1
  u0 = u0
  u1 = u1
  u2 = u2
  t1 = t1
  p1 = p1
  p2 = p2
  p3 = p3
  m1 = m1
  m2 = m2
  m3 = m3
  Campaign = {c1}
  User = {u0, u1, u2}
  Tier = {t1}
  Pledge = {p1}
  Payment = {m1, m2, m3}
  Handler = {h1}
  NoTier = NoTier
  NoPayment = NoPayment
  NoEvent = NoEvent
  NoTxn = NoTxn
  Unlimited = Unlimited
  Creator <- MCCreator
  TierInfo <- MCTierInfo
  Body <- RetryBody
  Charge <- RetryCharge
  Subscribed = {"payment.authorized", "payment.captured", "payment.failed"}
  Faults = {"redis_loss", "tx_error", "attach_error"}
INVARIANTS
  RecordedIsApplied
PROPERTIES
  StatusFollowsTable
  CaptureIsFinal
  DecidesOnce
