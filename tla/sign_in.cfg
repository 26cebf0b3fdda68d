SPECIFICATION FairSpec
CONSTANTS
  d1 = d1
  e1 = e1
  e2 = e2
  s1 = s1
  k1 = k1
  k2 = k2
  Key = {k1, k2}
  Request = {r1, r2}
  Person = {s1}
  DemoUser = {d1}
  Email = {e1, e2}
  DemoEmail <- MCDemoEmail
  Sent <- MCSent
  NoKey = NoKey
  NoUser = NoUser
  NoToken = NoToken
  NoSession = NoSession
  Nobody = Nobody
  MinRefresh = 2
  MaxTTL = 3
  MaxAge <- MCMaxAge
  FetchTime = 1
  MaxTime = 3
  Faults = {"fetch_error", "restart"}
INVARIANTS
  SessionNamesAccount
PROPERTIES
  WithdrawnKeyDropped
  RotationFollowed
  FetchesSpaced
  LoginAnswered
CHECK_DEADLOCK FALSE
