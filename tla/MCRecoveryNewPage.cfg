\* A page that was never written back holds zeros when the process dies.
CONSTANTS
  Pages = {p1}
  Values = {v1}
  NoRecord = NoRecord
  Capacity = 10
  RecordSize = 1
  SLOT_ENTRY_SIZE = 1
  MaxLog = 3
  MaxRestarts = 1
  Events = {"new_page_unwritten"}
SPECIFICATION Spec
INVARIANT RecoveredExactly
