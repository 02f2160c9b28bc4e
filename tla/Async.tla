--------------------------------- MODULE Async ---------------------------------
(***************************************************************************)
(* $Async: coroutines on virtual threads, and the calls that wait for      *)
(* several of them.  A coroutine is a future of Futures that a task        *)
(* completes; the other threads are the callers.                           *)
(***************************************************************************)
EXTENDS Futures

CONSTANT Lists     \* arguments of gather and first: sequences of items

(* An item is a coroutine, a future or any other value.                    *)
Item(kind, of) == [kind |-> kind, of |-> of]

ItemKinds == {"coroutine", "future", "value"}

OfKind(list, kind) == {list[i].of : i \in {j \in DOMAIN list : list[j].kind = kind}}

ASSUME AsyncAssumption ==
  \A list \in Lists :
    /\ \A i \in DOMAIN list : list[i].kind \in ItemKinds
    /\ OfKind(list, "coroutine") \subseteq Coroutines
    /\ OfKind(list, "future") \subseteq Futures
    /\ OfKind(list, "value") \subseteq Values

(* A coroutine that is started runs until it completes its future.         *)
Run(t, f) ==
  /\ started[f] = "not"
  /\ Begin(t, "get", f, FALSE, "done?")
  /\ started' = [started EXCEPT ![f] = "run"]
  /\ UNCHANGED <<cf, fields, stores, settled>>

EndCoroutine(f) ==
  /\ started[f] # "not" /\ cf[f] = Pending
  /\ \E o \in Outcomes \ {Cancelled} : Complete(f, o)
  /\ UNCHANGED <<buffered, fields, stores, started, settled, call, past>>

BeginAllUnstarted(t, op, list) ==
  /\ \A f \in OfKind(list, "coroutine") : started[f] = "not"
  /\ \A f \in OfKind(list, "future") : Exists(f)
  /\ Begin(t, op, list, Null, op)
  /\ UNCHANGED <<cf, fields, stores, started, settled>>

(* Both calls start every coroutine of their list before they wait.        *)
BeginAll(t, op, list) ==
  /\ \A f \in OfKind(list, "coroutine") : started[f] = "not"
  /\ \A f \in OfKind(list, "future") : Exists(f)
  /\ Begin(t, op, list, Null, op)
  /\ started' = [f \in Coroutines |->
                   IF f \in OfKind(list, "coroutine") THEN "listed" ELSE started[f]]
  /\ UNCHANGED <<cf, fields, stores, settled>>

(* The CompletableFuture of an item, where first drops plain values.       *)
ItemOutcome(item) == IF item.kind = "value" THEN Value(item.of) ELSE cf[item.of]

Awaited(list) == {i \in DOMAIN list : list[i].kind # "value"}

ListOf(list) == [kind |-> "list", of |-> list]

Foreign == [kind |-> "CompletionException", of |-> Null]

AnyComplete(list) == \E i \in DOMAIN list : ItemOutcome(list[i]) # Pending

AllComplete(list) == \A i \in DOMAIN list : ItemOutcome(list[i]) # Pending

CollectBackwards(list) ==
  [i \in DOMAIN list |-> ItemOutcome(list[Len(list) + 1 - i]).of]

Collect(list) == [i \in DOMAIN list |-> ItemOutcome(list[i]).of]

(* allOf(...).join() comes back when all are complete; it throws a         *)
(* CompletionException if one failed, and the loop behind it is skipped.   *)
Gather(t) ==
  /\ At(t, "gather")
  /\ AllComplete(On(t))
  /\ End(t, IF \A i \in DOMAIN On(t) : ItemOutcome(On(t)[i]).kind = "value"
            THEN ListOf(Collect(On(t)))
            ELSE Foreign)
  /\ UNCHANGED <<cf, fields, stores, started, settled>>

(* What first makes of an outcome: a cancellation becomes a RuntimeError.  *)
Unwrapped(o) == IF o = Cancelled THEN Error("RuntimeError") ELSE o

(* anyOf(...).get(): a completion reaches anyOf only after it is visible   *)
(* in its own future, so a second one can overtake the first.              *)
First(t) ==
  /\ At(t, "first")
  /\ \E i \in Awaited(On(t)) :
       /\ ItemOutcome(On(t)[i]) # Pending
       /\ End(t, Unwrapped(ItemOutcome(On(t)[i])))
  /\ UNCHANGED <<cf, fields, stores, started, settled>>

ThreadStep(t) == Steps(t) \/ Gather(t) \/ First(t)

Next ==
  \/ \E t \in Threads :
       \/ Begins(t) \/ ThreadStep(t) \/ TimeOut(t) \/ BecomeVisible(t)
       \/ \E f \in Coroutines : Run(t, f)
       \/ \E list \in Lists : BeginAll(t, "gather", list) \/ BeginAll(t, "first", list)
  \/ \E f \in Coroutines : EndCoroutine(f)

(* The JVM runs every thread, lets every write become visible, and every   *)
(* coroutine ends.                                                         *)
Fairness ==
  /\ \A t \in Threads : WF_vars(ThreadStep(t)) /\ WF_vars(BecomeVisible(t))
  /\ \A f \in Coroutines : WF_vars(EndCoroutine(f))

Spec == Init /\ [][Next]_vars /\ Fairness

-----------------------------------------------------------------------------
Places == {"end", "done?", "exception?", "throw", "return", "future.get", "done=true",
           "complete", "this.value=", "this.done=", "isDone", "gather", "first"}

AsyncTypeOK ==
  /\ cf \in [Futures -> Outcomes \cup {Pending}]
  /\ fields \in [Futures -> [result : Values \cup {Null}, exception : Errors \cup {Null},
                             done : BOOLEAN]]
  /\ \A t \in Threads : \A s \in stores[t] : s.on \in Futures /\ s.field \in Fields
  /\ started \in [Coroutines -> {"not", "run", "listed"}]
  /\ settled \in [Futures -> 0..MaxSettled]
  /\ \A t \in Threads : call[t].at \in Places

(* Every get keeps the promise of a future, and is answered once there is  *)
(* an outcome: a Promise sees the CompletableFutures and the gets.  Where  *)
(* writes are not ordered a get may deliver null (GetsInventNothing), and  *)
(* the Promise sees the CompletableFutures only.                           *)
NoQuestion == [on |-> Null, timed |-> FALSE, answer |-> NoAnswer]

Asking(c) ==
  IF c.op # "get" \/ buffered THEN NoQuestion
  ELSE [on |-> c.on, timed |-> c.arg, answer |-> c.answer]

P == INSTANCE Promise WITH
       outcome <- cf, asking <- [t \in Threads |-> Asking(call[t])], Idle <- NoQuestion

KeepsPromise == P!Spec

(* What a thread has learned about a future stays true for it: __repr__    *)
(* tells the outcome that a get has delivered before, and a get does not   *)
(* time out any more when __repr__ has shown the future as done.           *)
Calls(t) == Append(past[t], call[t])

Agree(c, d) ==
  /\ c.op = "get" /\ d.op = "repr" /\ c.on = d.on /\ c.answer \in Outcomes \ {Cancelled}
       => d.answer \in {c.answer, Waiting}
  /\ c.op = "repr" /\ d.op = "get" /\ c.on = d.on /\ c.answer # Pending
       => d.answer # TimedOut

KnowledgeLasts ==
  ~buffered =>
    \A t \in Threads : \A i, j \in DOMAIN Calls(t) : i < j => Agree(Calls(t)[i], Calls(t)[j])

(* A gather that has returned was over items that all have an outcome, and *)
(* its list holds these outcomes in the order of the items.                *)
GatherInOrder ==
  \A t \in Threads :
    call[t].op = "gather" /\ call[t].answer # Waiting =>
      /\ \A i \in DOMAIN On(t) : ItemOutcome(On(t)[i]) # Pending
      /\ call[t].answer.kind = "list" =>
           \A i \in DOMAIN On(t) : ItemOutcome(On(t)[i]) = Value(call[t].answer.of[i])

(* gather and first over coroutines come back.                             *)
ListsEnd ==
  \A t \in Threads :
    (call[t].op \in {"gather", "first"} /\ OfKind(On(t), "coroutine") # {}
                                        /\ OfKind(On(t), "future") = {})
      ~> call[t].at = "end"

(* However late the writes of other threads become visible, a get invents  *)
(* nothing: it delivers the outcome, or null when done has overtaken it.   *)
GetsInventNothing ==
  \A t \in Threads :
    call[t].op = "get" =>
      call[t].answer \in {Waiting, TimedOut, Value(Null), cf[On(t)]}

(* Nobody can see a future as done, in memory or in his own writes, that   *)
(* would still let somebody wait.                                          *)
DoneIsTrue ==
  \A t \in Threads, f \in Futures : Read(t, f, "done") => cf[f] # Pending

(* Similar to asyncio.gather(): when a coroutine fails, its error is what  *)
(* the caller of gather has to handle.                                     *)
GatherRaisesError ==
  \A t \in Threads :
    call[t].op = "gather" /\ call[t].answer # Waiting =>
      \/ call[t].answer.kind = "list"
      \/ \E i \in DOMAIN On(t) : call[t].answer = ItemOutcome(On(t)[i])
=============================================================================
