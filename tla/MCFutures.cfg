SPECIFICATION Spec
CONSTANTS
  Futures = {"f", "c"}
  Coroutines = {"c"}
  Threads = {"t1", "t2"}
  Values = {"v", "w"}
  Errors = {"e"}
  WriteOrders = {FALSE, TRUE}
  MaxSettled = 1
  MaxCalls = 3
  MaxUnordered = 2
  Lists <- MCLists
CHECK_DEADLOCK FALSE
INVARIANTS AsyncTypeOK KnowledgeLasts GatherInOrder GetsInventNothing DoneIsTrue
PROPERTIES KeepsPromise ListsEnd
