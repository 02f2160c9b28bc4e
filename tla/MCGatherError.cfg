SPECIFICATION Spec
CONSTANTS
  Futures = {"f", "c"}
  Coroutines = {"c"}
  Threads = {"t1", "t2"}
  Values = {"v", "w"}
  Errors = {"e"}
  WriteOrders = {FALSE}
  MaxSettled = 1
  MaxCalls = 2
  MaxUnordered = 2
  Lists <- MCLists
CHECK_DEADLOCK FALSE
INVARIANTS GatherRaisesError
