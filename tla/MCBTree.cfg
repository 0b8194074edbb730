\* Nodes of two keys, so that seven keys make a tree of three levels.  A split may be
\* refused a page at each of its steps.
CONSTANTS
  Keys = {1, 2, 3, 4, 5, 6, 7}
  RIDs = {r1}
  LeafMax = 2
  InternalMax = 2
  MaxPages = 8
  INVALID_PAGE_ID = none
  FramesRunOut = TRUE
SPECIFICATION Spec
INVARIANTS TypeOK TreeSound SearchExact
PROPERTY IndexSpec
