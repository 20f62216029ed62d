CONSTANTS
  Req = {r1, r2}
  UserId = {u1, u2}
  Email = {e1, e2, e3}
  Lower <- Same
  Password = {p1, p2}
  Jti = {j1, j2}
  Scopes <- AllScopes
SPECIFICATION Spec
SYMMETRY Symmetry
INVARIANTS EmailUnique ActsOnHolderWhileAddressHeld ReplayOnlyInLastSecond
           SweepMeetsVerifiedOnlyByAdmin
PROPERTIES DeactivationSticks DeletedStaysDeleted
\* No client need call, and nothing else may be left to do.
CHECK_DEADLOCK FALSE
