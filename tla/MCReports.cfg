CONSTANTS
  MaxId = 5
  limit = 2
  SortColumns <- ScrambledAndFlag
  MaxChanges = 2
SPECIFICATION ReportsSpec
INVARIANTS CursorMissesOnlyLate OffsetErrorsBounded ReportWithinChurn
\* A walk ends, and one report is made.
CHECK_DEADLOCK FALSE
