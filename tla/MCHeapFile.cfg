\* Three pages of four units, two records of one or three: pages fill, records move
\* to other pages, slots are used again.  Two frames may be pinned
\* between calls.
CONSTANTS
  NoRecord = NoRecord
  SLOT_ENTRY_SIZE = 1
  Names = {a}
  Sizes = {1, 3}
  Capacity = 4
  SpaceHint = 2
  PoolSize = 4
  SpareFrames = 2
  MaxPages = 3
  MaxRecords = 2
  MaxBatch = 2
  INVALID_PAGE_ID = INVALID_PAGE_ID
  StaleUpdates = FALSE
SPECIFICATION Spec
INVARIANTS TypeOK BookkeepingExact ScanOverRids UpdateKeepsRecord
PROPERTY HeapSpec
