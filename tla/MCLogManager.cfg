\* A buffer of three cells: records that fit, that fill it exactly, that force
\* it out first, and that are larger than the buffer.  A write may be short, and a
\* power loss may tear the last record; nothing is appended after either.
CONSTANTS
  BufferSize = 3
  RecordSizes = {1, 2, 4}
  MaxLog = 8
  MaxAppends = 4
  Events = {"power_loss", "truncate", "write_fails"}
SPECIFICATION Spec
INVARIANTS TypeOK LsnIsOffset IteratorFaithful FlushedSurvives
PROPERTIES AppendOnlySpec WrittenNeverModified
