\* Two frames, three pages: eviction, reuse of a deleted page and a third page that
\* forces a choice of victim all happen; two clients may share a page.  A page may be
\* unreadable and the file unable to grow.
CONSTANTS
  PoolSize = 2
  MaxPages = 3
  Holders = {h1, h2, h3}
  Values = {v1, v2}
  Empty = Empty
  Zero = Zero
  INVALID_PAGE_ID = INVALID_PAGE_ID
  INVALID_FRAME_ID = INVALID_FRAME_ID
  Faults = {"read", "extend"}
SPECIFICATION Spec
SYMMETRY Symmetry
INVARIANTS TypeOK OnePageOneFrame FrameLists PinCountExact NoLostUpdate
PROPERTIES EvictionPersists NoFrameLost StoreSpec
