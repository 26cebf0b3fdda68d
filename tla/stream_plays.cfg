CONSTANTS
  k1 = k1
  k2 = k2
  Source <- MCSource
  Attempt = {k1, k2}
  NoAttempt = NoAttempt
  MaxSegments = 2
SPECIFICATION Spec
INVARIANTS NothingBroken SignedIsStored NothingUpscaled RotationKept
CHECK_DEADLOCK FALSE
