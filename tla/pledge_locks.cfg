SPECIFICATION FairSpec
CONSTANTS
  c1 = c1
  u0 = u0
  u1 = u1
  u2 = u2
  t1 = t1
  p1 = p1
  p2 = p2
  p3 = p3
  w1 = w1
  w2 = w2
  w3 = w3
  w4 = w4
  w5 = w5
  Campaign = {c1}
  User = {u0, u1, u2}
  Tier = {t1}
  Pledge = {p1, p2, p3}
  Call = {w1, w2, w3, w4, w5}
  NoTier = NoTier
  Free = Free
  Creator <- MCCreator
  Body <- MCBody
  TierOf <- MCTierOf
  Limit <- MCLimit
  Kind <- MCKind
  PledgeOf <- MCPledgeOf
  PaidRight = {w1, w3, w4}
  MaxRollbacks = 2
INVARIANTS
  TierNotOversold
  BackersBounded
  DeadlocksAreKnown
PROPERTIES
  DecidesOnce
  CaptureLands
CHECK_DEADLOCK FALSE
