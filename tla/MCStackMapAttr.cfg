SPECIFICATION Spec
CONSTANTS
  Classes = {"O", "L", "X"}
  FrameLists <- MCFrameLists
INVARIANTS BufferFits ReadsBack
CHECK_DEADLOCK FALSE
