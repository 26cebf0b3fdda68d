SPECIFICATION Spec
CONSTANTS
  c1 = c1
  u0 = u0
  u1 = u1
  u2 = u2
  t1 = t1
  p1 = p1
  p2 = p2
  p3 = p3
  m1 = m1
  m2 = m2
  m3 = m3
  Campaign = {c1}
  User = {u0, u1, u2}
  Tier = {t1}
  Pledge = {p1, p2, p3}
  Payment = {m1, m2}
  Handler = {h1, h2}
  NoTier = NoTier
  NoPayment = NoPayment
  NoEvent = NoEvent
  NoTxn = NoTxn
  Unlimited = Unlimited
  Creator <- MCCreator
  TierInfo <- MCTierInfo
  Body <- RaceBody
  Charge <- RaceCharge
  Subscribed = {"payment.captured", "payment.failed"}
  Faults = {"provider_down"}
PROPERTIES
  OutageRecovers
