\* Two records for a key, in leaves of two.
CONSTANTS
  Keys = {1, 2}
  RIDs = {r1, r2}
  LeafMax = 2
  InternalMax = 2
  MaxPages = 6
  INVALID_PAGE_ID = none
  FramesRunOut = FALSE
SPECIFICATION Spec
INVARIANT LookupExact
