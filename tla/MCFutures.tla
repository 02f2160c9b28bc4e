------------------------------- MODULE MCFutures -------------------------------
(* A future that may be complete from the start, a coroutine, and lists    *)
(* with every kind of item; the second list waits for the coroutine only.  *)
EXTENDS Async

MCLists ==
  {<<Item("coroutine", "c"), Item("value", "v"), Item("future", "f")>>,
   <<Item("value", "w"), Item("coroutine", "c")>>}
=============================================================================
