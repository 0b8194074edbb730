\* A crash between the two writes of an allocation that reuses a page.
CONSTANTS
  MaxPages = 4
  Values = {v1, v2}
  Zero = Zero
  CrashPoints = {"idle", "reuse", "extend", "dealloc"}
  FailPoints = {}
SPECIFICATION Spec
INVARIANT PageZeroIsHeader
