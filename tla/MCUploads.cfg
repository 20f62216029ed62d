CONSTANTS
  Byte = {"a", "m", "h", "t", "r", "n"}
  Categories <- ImageAndCsv
  ChunkSize = 3
  HeadSize = 4
  SampleSize = 3
  Virus <- TestString
  MaxFile = 5
  Req = {r1, r2, r3}
  User = {u1, u2}
  File = {f1, f2}
SPECIFICATION UploadsSpec
SYMMETRY Symmetry
INVARIANTS AcceptedIsSound RefusedForCause MissedOnlyAcrossChunks
           RowHasObject OrphansExplained DeleteRemovesBoth
\* A refused upload ends with its verdict; nobody need call, and every account
\* may have gone.
CHECK_DEADLOCK FALSE
