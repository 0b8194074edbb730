\* A page of seven units: up to three records, full pages, holes to compact.
CONSTANTS
  PAGE_SIZE = 7
  HEADER_SIZE = 1
  SLOT_ENTRY_SIZE = 1
  Word = 16
  Values = {a, b}
  Junk = Junk
  NoRecord = NoRecord
  MaxLength = 2
  GrowUnchecked = FALSE
SPECIFICATION Spec
SYMMETRY Symmetry
INVARIANTS TypeOK LayoutSound HasSpaceForExact
PROPERTY RecordsKept
