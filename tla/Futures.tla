-------------------------------- MODULE Futures --------------------------------
(***************************************************************************)
(* $Future: a CompletableFuture and three plain fields that cache its      *)
(* outcome, used by any number of threads without a lock.  Every access to *)
(* a field is a step of its own.                                           *)
(***************************************************************************)
EXTENDS Integers, FiniteSetsExt, SequencesExt

CONSTANTS Futures,       \* all $Future objects
          Coroutines,    \* those of them that $Async.run makes for a coroutine
          Threads, Values, Errors,
          WriteOrders,   \* TRUE in it: plain writes may reach others in any order
          MaxSettled,    \* completions of one future by a value, an error or cancel
          MaxCalls,      \* bound: calls of all threads
          MaxUnordered   \* bound: their calls when writes are not ordered

Null == "null"

ASSUME FuturesAssumption ==
  /\ Coroutines \subseteq Futures
  /\ WriteOrders \subseteq BOOLEAN
  /\ Null \notin Errors
  /\ MaxSettled \in Nat \ {0} /\ MaxCalls \in Nat /\ MaxUnordered \in Nat

VARIABLES buffered,  \* do plain writes of one thread reach others in any order?
          cf,        \* the CompletableFuture of each future
          fields,    \* result, exception and done of each future
          stores,    \* plain writes of each thread that others do not see yet
          started,   \* how each coroutine was started, if it was
          settled,   \* how often a future was completed, or was to be
          call,      \* the current or last call of each thread
          past       \* its calls before that one, the first being NoCall

vars == <<buffered, cf, fields, stores, started, settled, call, past>>

Pending == [kind |-> "pending", of |-> Null]
Value(v) == [kind |-> "value", of |-> v]
Error(e) == [kind |-> "error", of |-> e]
Cancelled == [kind |-> "cancelled", of |-> Null]
(* The TimeoutError of get itself, told from one that the future ends with. *)
TimedOut == [kind |-> "timeout", of |-> Null]
Waiting == [kind |-> "waiting", of |-> Null]
NoAnswer == [kind |-> "none", of |-> Null]

Outcomes == {Value(v) : v \in Values} \cup {Error(e) : e \in Errors} \cup {Cancelled}

Fields == {"result", "exception", "done"}

Fresh == [result |-> Null, exception |-> Null, done |-> FALSE]

NoCall == [op |-> "none", on |-> Null, arg |-> Null, at |-> "end", answer |-> NoAnswer]

(* new $Future() and new $Future(CompletableFuture), or new $Future(result) *)
(* with the future completed from the start.  With unordered writes, where  *)
(* fewer calls follow, a coroutine may have been run before.                *)
Init ==
  /\ buffered \in WriteOrders
  /\ \E given \in [Futures \ Coroutines -> {Pending} \cup {Value(v) : v \in Values}] :
       LET Given(f) == IF f \in Coroutines THEN Pending ELSE given[f] IN
       /\ cf = [f \in Futures |-> Given(f)]
       /\ fields = [f \in Futures |-> [result |-> Given(f).of, exception |-> Null,
                                       done |-> Given(f) # Pending]]
       /\ settled = [f \in Futures |-> IF Given(f) = Pending THEN 0 ELSE 1]
  /\ stores = [t \in Threads |-> {}]
  /\ started \in [Coroutines -> IF buffered THEN {"not", "run"} ELSE {"not"}]
  /\ call = [t \in Threads |-> NoCall]
  /\ past = [t \in Threads |-> <<>>]

-----------------------------------------------------------------------------
(* Plain fields: a thread sees its own last write or what is in memory.    *)
Own(t, f, field) == {s \in stores[t] : s.on = f /\ s.field = field}

Read(t, f, field) ==
  IF Own(t, f, field) = {} THEN fields[f][field]
  ELSE (CHOOSE s \in Own(t, f, field) : TRUE).val

Write(t, f, field, val) ==
  IF buffered
  THEN /\ stores' = [stores EXCEPT ![t] =
                       (@ \ Own(t, f, field)) \cup {[on |-> f, field |-> field, val |-> val]}]
       /\ UNCHANGED fields
  ELSE fields' = [fields EXCEPT ![f][field] = val] /\ UNCHANGED stores

(* One of the writes of a thread becomes visible to the others.            *)
BecomeVisible(t) ==
  /\ \E s \in stores[t] :
       /\ fields' = [fields EXCEPT ![s.on][s.field] = s.val]
       /\ stores' = [stores EXCEPT ![t] = @ \ {s}]
  /\ UNCHANGED <<buffered, cf, started, settled, call, past>>

-----------------------------------------------------------------------------
CallsBegun == MapThenSumSet(LAMBDA u : Len(past[u]), Threads)

Begin(t, op, on, arg, at) ==
  /\ call[t].at = "end" /\ CallsBegun < IF buffered THEN MaxUnordered ELSE MaxCalls
  /\ call' = [call EXCEPT ![t] =
               [op |-> op, on |-> on, arg |-> arg, at |-> at, answer |-> Waiting]]
  /\ past' = [past EXCEPT ![t] = Append(@, call[t])]
  /\ UNCHANGED buffered

GoTo(t, at) == call' = [call EXCEPT ![t].at = at] /\ UNCHANGED <<past, buffered>>

End(t, answer) ==
  call' = [call EXCEPT ![t].at = "end", ![t].answer = answer] /\ UNCHANGED <<past, buffered>>

At(t, at) == call[t].at = at

On(t) == call[t].on

(* A coroutine of gather or first has no $Future that one could ask.       *)
Exists(f) == f \in Coroutines => started[f] = "run"

BeginGet(t, f, timed) ==
  /\ Exists(f)
  /\ Begin(t, "get", f, timed, "done?")
  /\ UNCHANGED <<cf, fields, stores, started, settled>>

IsDone(t) == Read(t, On(t), "done") \/ cf[On(t)] # Pending

ReadIsDone(t) ==
  /\ At(t, "done?")
  /\ GoTo(t, IF IsDone(t) THEN "exception?" ELSE "future.get")
  /\ UNCHANGED <<cf, fields, stores, started, settled>>

ReadDone(t) ==
  /\ At(t, "done?")
  /\ GoTo(t, IF Read(t, On(t), "done") THEN "exception?" ELSE "future.get")
  /\ UNCHANGED <<cf, fields, stores, started, settled>>

ReadException(t) ==
  /\ At(t, "exception?")
  /\ GoTo(t, IF Read(t, On(t), "exception") # Null THEN "throw" ELSE "return")
  /\ UNCHANGED <<cf, fields, stores, started, settled>>

(* throw exception, which is read again.                                   *)
ThrowException(t) ==
  /\ At(t, "throw")
  /\ End(t, Error(Read(t, On(t), "exception")))
  /\ UNCHANGED <<cf, fields, stores, started, settled>>

(* return result, which is read again after it was written.                *)
ReturnResult(t) ==
  /\ At(t, "return")
  /\ End(t, Value(Read(t, On(t), "result")))
  /\ UNCHANGED <<cf, fields, stores, started, settled>>

GetValue(t) ==
  /\ At(t, "future.get") /\ cf[On(t)].kind = "value"
  /\ Write(t, On(t), "result", cf[On(t)].of)
  /\ GoTo(t, "done=true")
  /\ UNCHANGED <<cf, started, settled>>

SetDone(t) ==
  /\ At(t, "done=true")
  /\ Write(t, On(t), "done", TRUE)
  /\ GoTo(t, "return")
  /\ UNCHANGED <<cf, started, settled>>

GetErrorUnsaved(t) ==
  /\ At(t, "future.get") /\ cf[On(t)].kind = "error"
  /\ End(t, cf[On(t)])
  /\ UNCHANGED <<cf, fields, stores, started, settled>>

GetError(t) ==
  /\ At(t, "future.get") /\ cf[On(t)].kind = "error"
  /\ Write(t, On(t), "exception", cf[On(t)].of)
  /\ GoTo(t, "throw")
  /\ UNCHANGED <<cf, started, settled>>

(* A CancellationException passes through every catch clause of get.       *)
GetCancelled(t) ==
  /\ At(t, "future.get") /\ cf[On(t)] = Cancelled
  /\ End(t, Cancelled)
  /\ UNCHANGED <<cf, fields, stores, started, settled>>

TimeOut(t) ==
  /\ At(t, "future.get") /\ call[t].arg = TRUE /\ cf[On(t)] = Pending
  /\ End(t, TimedOut)
  /\ UNCHANGED <<cf, fields, stores, started, settled>>

-----------------------------------------------------------------------------
(* complete, completeExceptionally and cancel of the CompletableFuture: the *)
(* first one counts.                                                        *)
Complete(f, o) == cf' = [cf EXCEPT ![f] = IF @ = Pending THEN o ELSE @]

BeginSetFieldsOnly(t, f, o) ==
  /\ settled[f] < MaxSettled /\ f \notin Coroutines
  /\ Begin(t, "set", f, o, "this.value=")
  /\ settled' = [settled EXCEPT ![f] = @ + 1]
  /\ UNCHANGED <<cf, fields, stores, started>>

BeginSet(t, f, o) ==
  /\ settled[f] < MaxSettled /\ f \notin Coroutines
  /\ Begin(t, "set", f, o, "complete")
  /\ settled' = [settled EXCEPT ![f] = @ + 1]
  /\ UNCHANGED <<cf, fields, stores, started>>

(* An atomic update: what the thread wrote before it is visible by then.   *)
CompleteFuture(t) ==
  /\ At(t, "complete") /\ stores[t] = {}
  /\ Complete(On(t), call[t].arg)
  /\ IF call[t].arg = Cancelled THEN End(t, NoAnswer) ELSE GoTo(t, "this.value=")
  /\ UNCHANGED <<fields, stores, started, settled>>

StoreAnyResult(t) ==
  /\ At(t, "this.value=")
  /\ Write(t, On(t), "result", call[t].arg.of)
  /\ GoTo(t, "this.done=")
  /\ UNCHANGED <<cf, started, settled>>

(* this.result = value and this.exception = exc, whoever completed it.     *)
StoreOutcome(t) ==
  /\ At(t, "this.value=")
  /\ Write(t, On(t), IF call[t].arg.kind = "value" THEN "result" ELSE "exception",
           call[t].arg.of)
  /\ GoTo(t, "this.done=")
  /\ UNCHANGED <<cf, started, settled>>

StoreDone(t) ==
  /\ At(t, "this.done=")
  /\ Write(t, On(t), "done", TRUE)
  /\ End(t, NoAnswer)
  /\ UNCHANGED <<cf, started, settled>>

-----------------------------------------------------------------------------
(* __repr__, which begins with isDone().                                   *)
BeginRepr(t, f) ==
  /\ Exists(f)
  /\ Begin(t, "repr", f, Null, "isDone")
  /\ UNCHANGED <<cf, fields, stores, started, settled>>

ReprDone(t) ==
  /\ At(t, "isDone")
  /\ IF IsDone(t) THEN GoTo(t, "exception?") ELSE End(t, Pending)
  /\ UNCHANGED <<cf, fields, stores, started, settled>>

Steps(t) ==
  \/ ReadDone(t) \/ ReadException(t) \/ ThrowException(t) \/ ReturnResult(t)
  \/ GetValue(t) \/ SetDone(t) \/ GetError(t) \/ GetCancelled(t)
  \/ CompleteFuture(t) \/ StoreOutcome(t) \/ StoreDone(t)
  \/ ReprDone(t)

Begins(t) ==
  \/ \E f \in Futures, timed \in BOOLEAN : BeginGet(t, f, timed)
  \/ \E f \in Futures, o \in Outcomes : BeginSet(t, f, o)
  \/ \E f \in Futures : BeginRepr(t, f)
=============================================================================
