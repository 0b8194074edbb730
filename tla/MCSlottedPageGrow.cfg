\* Records may grow into a page that has room for the difference only.
CONSTANTS
  PAGE_SIZE = 8
  HEADER_SIZE = 1
  SLOT_ENTRY_SIZE = 1
  Word = 16
  Values = {a, b}
  Junk = Junk
  NoRecord = NoRecord
  MaxLength = 3
  GrowUnchecked = TRUE
SPECIFICATION Spec
PROPERTY RecordsKept
