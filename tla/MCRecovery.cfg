\* A page with room to spare for every insert of the log and its replays; two
\* restarts, so that a recovery can be interrupted by the next.
CONSTANTS
  Pages = {p1}
  Values = {v1, v2}
  NoRecord = NoRecord
  Capacity = 30
  RecordSize = 1
  SLOT_ENTRY_SIZE = 1
  MaxLog = 5
  MaxRestarts = 2
  Events = {}
SPECIFICATION Spec
INVARIANTS TypeOK RecoveredExactly
PROPERTIES RedoLandsInSlot RecoveryCompletes
