SPECIFICATION PathsSpec
CONSTANTS
  Classes = {"O"}
  LocalTypes <- MCObjects
  StackTypes <- MCStackTypes
  Offsets = {3, 7}
  Handles = {h1}
  MaxLocals = 2
  MaxStack = 1
  MaxPaths = 2
  h1 = h1
INVARIANTS TypeOK FramesSorted EntriesCounted WideEntriesPaired FramesTrueOfPaths
