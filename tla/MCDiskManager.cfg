\* Four data pages: chains of every length up to four, in every order.
CONSTANTS
  MaxPages = 4
  Values = {v1, v2}
  Zero = Zero
  CrashPoints = {"idle", "extend", "dealloc"}
  FailPoints = {"extend", "dealloc"}
SPECIFICATION Spec
INVARIANTS TypeOK FreeChainSound RestartChainSound
PROPERTIES NoPageLeaked AllocatorSpec
