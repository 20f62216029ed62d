CONSTANTS
  Req = {r1, r2, r3}
  Times = 3
  Seconds = 4
  MaxCount = 5
SPECIFICATION FairSpec
INVARIANTS AdmittedWithinLimit SlidingBound WindowFullLength StuckOnlyAfterCrash
PROPERTY WindowCloses
