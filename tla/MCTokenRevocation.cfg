CONSTANTS
  Req = {r1, r2}
  Jti = {j1, j2, j3}
  Subject = {alice}
  TPS = 2
  AccessTtl = 2
  RefreshTtl = 2
  MaxNow = 5
  MaxPassed = 2
SPECIFICATION Spec
SYMMETRY Symmetry
CONSTRAINT ChainAlone
INVARIANTS TypeOK NoServiceAfterRevocation
PROPERTY RefinesRevocation
\* At the clock bound every token may have expired.
CHECK_DEADLOCK FALSE
