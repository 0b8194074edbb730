\* Three records on two pages of two, and a frame more than pages, so that a call
\* finds one whatever dropped scans have left pinned.
CONSTANTS
  NoRecord = NoRecord
  SLOT_ENTRY_SIZE = 1
  Names = {1, 2}
  Sizes = {1}
  Capacity = 4
  SpaceHint = 1
  PoolSize = 3
  SpareFrames = 2
  MaxPages = 2
  MaxRecords = 3
  MaxBatch = 2
  INVALID_PAGE_ID = INVALID_PAGE_ID
  StaleUpdates = FALSE
  Plans <- MCPlans
  Clashes = {}
SPECIFICATION ExecutorSpec
INVARIANTS ExecutorTypeOK AnswerSound AnswerComplete NoPinLeft
