------------------------------ MODULE FuturesProofs ------------------------------
(***************************************************************************)
(* Proofs about Futures and Async, for any number of futures, coroutines,  *)
(* threads and calls, then about futures that are completed once.          *)
(***************************************************************************)
EXTENDS Async, TLAPS

-----------------------------------------------------------------------------
(* Types.  A call is known by its parts, whatever they are. *)

IsCall(c) ==
  c = [op |-> c.op, on |-> c.on, arg |-> c.arg, at |-> c.at, answer |-> c.answer]

CallsOK ==
  /\ call = [t \in Threads |-> call[t]]
  /\ \A t \in Threads : IsCall(call[t])

InMemory == [result : Values \cup {Null}, exception : Errors \cup {Null}, done : BOOLEAN]

Stored ==
  [on : Futures, field : {"result"}, val : Values \cup {Null}]
    \cup [on : Futures, field : {"exception"}, val : Errors]
    \cup [on : Futures, field : {"done"}, val : BOOLEAN]

MemoryOK ==
  /\ fields \in [Futures -> InMemory]
  /\ stores \in [Threads -> SUBSET Stored]

TypesOK ==
  /\ buffered \in BOOLEAN
  /\ cf \in [Futures -> Outcomes \cup {Pending}]
  /\ MemoryOK
  /\ started \in [Coroutines -> {"not", "run", "listed"}]
  /\ settled \in [Futures -> 0..MaxSettled]
  /\ CallsOK

LEMMA CallGoesOn ==
  ASSUME CallsOK, NEW t \in Threads, NEW at, GoTo(t, at)
  PROVE  /\ CallsOK'
         /\ call'[t].at = at /\ call'[t].op = call[t].op /\ call'[t].on = call[t].on
         /\ call'[t].arg = call[t].arg /\ call'[t].answer = call[t].answer
         /\ \A u \in Threads \ {t} : call'[u] = call[u]
BY DEF CallsOK, IsCall, GoTo

LEMMA CallEnds ==
  ASSUME CallsOK, NEW t \in Threads, NEW answer, End(t, answer)
  PROVE  /\ CallsOK'
         /\ call'[t].at = "end" /\ call'[t].op = call[t].op /\ call'[t].on = call[t].on
         /\ call'[t].arg = call[t].arg /\ call'[t].answer = answer
         /\ \A u \in Threads \ {t} : call'[u] = call[u]
<1> DEFINE mid == [call EXCEPT ![t].at = "end"]
<1>1. call' = [mid EXCEPT ![t].answer = answer]
  BY DEF End
<1>2. /\ mid = [u \in Threads |-> mid[u]] /\ \A u \in Threads \ {t} : mid[u] = call[u]
      /\ mid[t] = [op |-> call[t].op, on |-> call[t].on, arg |-> call[t].arg,
                   at |-> "end", answer |-> call[t].answer]
  BY DEF CallsOK, IsCall
<1> HIDE DEF mid
<1>3. /\ call' = [u \in Threads |-> call'[u]] /\ \A u \in Threads \ {t} : call'[u] = call[u]
      /\ call'[t] = [op |-> call[t].op, on |-> call[t].on, arg |-> call[t].arg,
                     at |-> "end", answer |-> answer]
  BY <1>1, <1>2
<1> QED BY <1>3 DEF CallsOK, IsCall

LEMMA CallBegins ==
  ASSUME CallsOK, NEW t \in Threads, NEW op, NEW on, NEW arg, NEW at, Begin(t, op, on, arg, at)
  PROVE  /\ CallsOK' /\ call[t].at = "end" /\ buffered' = buffered
         /\ call'[t] = [op |-> op, on |-> on, arg |-> arg, at |-> at, answer |-> Waiting]
         /\ \A u \in Threads \ {t} : call'[u] = call[u]
<1>1. /\ call[t].at = "end"
      /\ call' = [call EXCEPT ![t] =
                   [op |-> op, on |-> on, arg |-> arg, at |-> at, answer |-> Waiting]]
      /\ buffered' = buffered
  BY DEF Begin
<1> QED BY <1>1 DEF CallsOK, IsCall

(* What some thread can read of a field, now or when a write becomes       *)
(* visible to it.                                                          *)
Seen(f, field, val) ==
  \/ fields[f][field] = val
  \/ \E t \in Threads : \E s \in stores[t] : s.on = f /\ s.field = field /\ s.val = val

LEMMA ReadIsSeen ==
  ASSUME NEW t \in Threads, NEW f, NEW field
  PROVE  Seen(f, field, Read(t, f, field))
<1>1. CASE Own(t, f, field) = {}
  BY <1>1 DEF Read, Seen
<1>2. CASE Own(t, f, field) # {}
  <2> DEFINE s == CHOOSE x \in Own(t, f, field) : TRUE
  <2>1. s \in Own(t, f, field)
    BY <1>2
  <2>2. Read(t, f, field) = s.val
    BY <1>2 DEF Read
  <2> HIDE DEF s
  <2> QED BY <2>1, <2>2 DEF Seen, Own
<1> QED BY <1>1, <1>2

LEMMA WhatIsWritten ==
  ASSUME MemoryOK, NEW t \in Threads, NEW f \in Futures, NEW field \in Fields, NEW val,
         [on |-> f, field |-> field, val |-> val] \in Stored, Write(t, f, field, val)
  PROVE  /\ MemoryOK'
         /\ \A g \in Futures, fd \in Fields : \A x :
              Seen(g, fd, x)' => Seen(g, fd, x) \/ (g = f /\ fd = field /\ x = val)
         /\ ~buffered => fields' = [fields EXCEPT ![f][field] = val] /\ stores' = stores
<1>1. CASE buffered
  <2>1. /\ stores' = [stores EXCEPT ![t] = (@ \ Own(t, f, field))
                                             \cup {[on |-> f, field |-> field, val |-> val]}]
        /\ fields' = fields
    BY <1>1 DEF Write
  <2>2. MemoryOK'
    BY <2>1 DEF MemoryOK
  <2>3. ASSUME NEW u \in Threads, NEW s \in stores'[u]
        PROVE  s \in stores[u] \/ s = [on |-> f, field |-> field, val |-> val]
    BY <2>1 DEF MemoryOK
  <2> QED BY <1>1, <2>1, <2>2, <2>3 DEF Seen
<1>2. CASE ~buffered
  <2>1. fields' = [fields EXCEPT ![f][field] = val] /\ stores' = stores
    BY <1>2 DEF Write
  <2>2. /\ field = "result" => val \in Values \cup {Null}
        /\ field = "exception" => val \in Errors
        /\ field = "done" => val \in BOOLEAN
    BY DEF Stored
  <2>3. fields' \in [Futures -> InMemory]
    BY <2>1, <2>2 DEF MemoryOK, InMemory, Fields
  <2>4. \A g \in Futures, fd \in Fields :
          fields'[g][fd] = IF g = f /\ fd = field THEN val ELSE fields[g][fd]
    BY <2>1 DEF MemoryOK, InMemory, Fields
  <2> QED BY <1>2, <2>1, <2>3, <2>4 DEF MemoryOK, Seen
<1> QED BY <1>1, <1>2

LEMMA WhatBecomesVisible ==
  ASSUME MemoryOK, NEW t \in Threads, BecomeVisible(t)
  PROVE  /\ MemoryOK'
         /\ \A g \in Futures, fd \in Fields : \A x : Seen(g, fd, x)' => Seen(g, fd, x)
         /\ stores[t] # {}
<1>1. PICK s \in stores[t] : /\ fields' = [fields EXCEPT ![s.on][s.field] = s.val]
                             /\ stores' = [stores EXCEPT ![t] = @ \ {s}]
  BY DEF BecomeVisible
<1>2. s \in Stored
  BY DEF MemoryOK
<1>3. /\ s.on \in Futures /\ s.field \in Fields
      /\ s.field = "result" => s.val \in Values \cup {Null}
      /\ s.field = "exception" => s.val \in Errors
      /\ s.field = "done" => s.val \in BOOLEAN
  BY <1>2 DEF Stored, Fields
<1>4. fields' \in [Futures -> InMemory]
  BY <1>1, <1>3 DEF MemoryOK, InMemory, Fields
<1>5. \A g \in Futures, fd \in Fields :
        fields'[g][fd] = IF g = s.on /\ fd = s.field THEN s.val ELSE fields[g][fd]
  BY <1>1, <1>3 DEF MemoryOK, InMemory, Fields
<1>6. stores' \in [Threads -> SUBSET Stored] /\ \A u \in Threads : stores'[u] \subseteq stores[u]
  BY <1>1 DEF MemoryOK
<1>7. MemoryOK'
  BY <1>4, <1>6 DEF MemoryOK, InMemory, Stored
<1> QED BY <1>1, <1>5, <1>6, <1>7 DEF Seen

-----------------------------------------------------------------------------
(* Control.  What is known of a call from its operation and its place *)

Sane(c) ==
  /\ c.op \in {"none", "get", "set", "repr", "gather", "first"}
  /\ c.op = "none" => c.at = "end"
  /\ c.op = "get" =>
       /\ c.on \in Futures /\ c.arg \in BOOLEAN
       /\ c.at \in {"end", "done?", "exception?", "throw", "return", "future.get", "done=true"}
  /\ c.op = "set" =>
       /\ c.on \in Futures \ Coroutines /\ c.arg \in Outcomes
       /\ c.at \in {"end", "complete", "this.value=", "this.done="}
       /\ c.at \in {"this.value=", "this.done="} => c.arg # Cancelled
  /\ c.op = "repr" =>
       c.on \in Futures /\ c.at \in {"end", "isDone", "exception?", "throw", "return"}
  /\ c.op = "gather" => c.on \in Lists /\ c.at \in {"end", "gather"}
  /\ c.op = "first" => c.on \in Lists /\ c.at \in {"end", "first"}
  /\ c.at # "end" <=> c.answer = Waiting

Control == \A t \in Threads : Sane(call[t])

(* Who writes done, or is going to, has seen the future complete. *)
DoneKnown ==
  /\ \A f \in Futures : Seen(f, "done", TRUE) => cf[f] # Pending
  /\ \A t \in Threads : call[t].at \in {"done=true", "this.value=", "this.done="}
                        => cf[call[t].on] # Pending

IInv == TypesOK /\ Control /\ DoneKnown

(* A future keeps its outcome. *)
Lasting == \A f \in Futures : cf[f] # Pending => cf'[f] = cf[f]

OthersSame(t) == \A u \in Threads \ {t} : call'[u] = call[u]

LEMMA SaneKept ==
  ASSUME Control, NEW t \in Threads, OthersSame(t), Sane(call'[t])
  PROVE  Control'
BY DEF Control, OthersSame

LEMMA SanePlaces == \A c : Sane(c) => c.at \in Places
BY DEF Sane, Places

LEMMA KindsDiffer ==
  /\ Outcomes \cap {Pending, Waiting, NoAnswer} = {}
  /\ \A x, y : Error(x) # Waiting /\ Value(x) # Waiting /\ Error(x) # Pending /\ Value(x) # Pending
               /\ Value(x) # Error(y) /\ Value(x) # Cancelled /\ Error(x) # Cancelled
  /\ NoAnswer # Waiting /\ Pending # Waiting /\ Foreign # Waiting /\ Cancelled # Waiting
  /\ Cancelled # Pending
  /\ \A o \in Outcomes : o.kind = "value" => o = Value(o.of) /\ o.of \in Values
  /\ \A o \in Outcomes : o.kind = "error" => o = Error(o.of) /\ o.of \in Errors
  /\ \A o \in Outcomes : o.kind \in {"value", "error"} \/ o = Cancelled
  /\ Pending.kind = "pending" /\ Cancelled.kind = "cancelled"
  /\ \A x : Value(x).kind = "value" /\ Error(x).kind = "error" /\ Value(x).of = x /\ Error(x).of = x
BY DEF Outcomes, Pending, Waiting, NoAnswer, Error, Value, Foreign, Cancelled

LEMMA TimedOutDiffers ==
  /\ TimedOut \notin Outcomes /\ TimedOut # Waiting /\ TimedOut # Pending
  /\ \A x : Value(x) # TimedOut /\ Error(x) # TimedOut
BY DEF TimedOut, Outcomes, Pending, Waiting, Error, Value, Cancelled

-----------------------------------------------------------------------------
(* A step that leaves futures and memory alone *)

LEMMA QuietKeepsIt ==
  ASSUME IInv, NEW t \in Threads, UNCHANGED <<buffered, cf, fields, stores>>,
         CallsOK', OthersSame(t), Sane(call'[t]),
         call'[t].at \in {"done=true", "this.value=", "this.done="} => cf[call'[t].on] # Pending,
         started' \in [Coroutines -> {"not", "run", "listed"}],
         settled' \in [Futures -> 0..MaxSettled]
  PROVE  IInv'
<1>1. TypesOK'
  BY DEF IInv, TypesOK, MemoryOK
<1>2. Control'
  BY SaneKept DEF IInv
<1>3. DoneKnown'
  <2>1. ASSUME NEW f \in Futures, Seen(f, "done", TRUE)' PROVE cf[f] # Pending
    BY <2>1 DEF IInv, DoneKnown, Seen
  <2>2. ASSUME NEW u \in Threads, call'[u].at \in {"done=true", "this.value=", "this.done="}
        PROVE  cf[call'[u].on] # Pending
    BY <2>2 DEF IInv, DoneKnown, OthersSame
  <2> QED BY <2>1, <2>2 DEF DoneKnown
<1> QED BY <1>1, <1>2, <1>3 DEF IInv

LEMMA BeginKeepsIt ==
  ASSUME IInv, NEW t \in Threads, NEW op, NEW on, NEW arg, NEW at, Begin(t, op, on, arg, at),
         UNCHANGED <<cf, fields, stores>>,
         Sane([op |-> op, on |-> on, arg |-> arg, at |-> at, answer |-> Waiting]),
         at \notin {"done=true", "this.value=", "this.done="},
         started' \in [Coroutines -> {"not", "run", "listed"}],
         settled' \in [Futures -> 0..MaxSettled]
  PROVE  IInv'
<1>1. /\ CallsOK' /\ OthersSame(t)
      /\ call'[t] = [op |-> op, on |-> on, arg |-> arg, at |-> at, answer |-> Waiting]
  BY CallBegins DEF IInv, TypesOK, OthersSame
<1>2. buffered' = buffered
  BY DEF Begin
<1>3. Sane(call'[t]) /\ call'[t].at = at
  BY <1>1
<1> QED BY <1>1, <1>2, <1>3, QuietKeepsIt

LEMMA BeginsKeepIt ==
  ASSUME IInv, NEW t \in Threads,
         \/ Begins(t)
         \/ \E f \in Coroutines : Run(t, f)
         \/ \E list \in Lists : BeginAll(t, "gather", list) \/ BeginAll(t, "first", list)
  PROVE  IInv'
<1>1. /\ started \in [Coroutines -> {"not", "run", "listed"}]
      /\ settled \in [Futures -> 0..MaxSettled]
      /\ Coroutines \subseteq Futures /\ MaxSettled \in Nat
  BY FuturesAssumption DEF IInv, TypesOK
<1>2. ASSUME NEW f \in Futures, NEW timed \in BOOLEAN, BeginGet(t, f, timed) PROVE IInv'
  <2>1. Sane([op |-> "get", on |-> f, arg |-> timed, at |-> "done?", answer |-> Waiting])
    BY DEF Sane
  <2> QED BY <1>1, <1>2, <2>1, BeginKeepsIt DEF BeginGet
<1>3. ASSUME NEW f \in Futures, NEW o \in Outcomes, BeginSet(t, f, o) PROVE IInv'
  <2>1. Sane([op |-> "set", on |-> f, arg |-> o, at |-> "complete", answer |-> Waiting])
    BY <1>3 DEF Sane, BeginSet
  <2>2. settled' \in [Futures -> 0..MaxSettled]
    BY <1>1, <1>3 DEF BeginSet
  <2> QED BY <1>1, <1>3, <2>1, <2>2, BeginKeepsIt DEF BeginSet
<1>4. ASSUME NEW f \in Futures, BeginRepr(t, f) PROVE IInv'
  <2>1. Sane([op |-> "repr", on |-> f, arg |-> Null, at |-> "isDone", answer |-> Waiting])
    BY DEF Sane
  <2> QED BY <1>1, <1>4, <2>1, BeginKeepsIt DEF BeginRepr
<1>5. ASSUME NEW f \in Coroutines, Run(t, f) PROVE IInv'
  <2>1. Sane([op |-> "get", on |-> f, arg |-> FALSE, at |-> "done?", answer |-> Waiting])
    BY <1>1 DEF Sane
  <2>2. started' \in [Coroutines -> {"not", "run", "listed"}]
    BY <1>1, <1>5 DEF Run
  <2> QED BY <1>1, <1>5, <2>1, <2>2, BeginKeepsIt DEF Run
<1>6. ASSUME NEW list \in Lists, NEW op \in {"gather", "first"}, BeginAll(t, op, list) PROVE IInv'
  <2>1. Sane([op |-> op, on |-> list, arg |-> Null, at |-> op, answer |-> Waiting])
    BY DEF Sane
  <2>2. started' \in [Coroutines -> {"not", "run", "listed"}]
    BY <1>1, <1>6 DEF BeginAll
  <2> QED BY <1>1, <1>6, <2>1, <2>2, BeginKeepsIt DEF BeginAll
<1> QED BY <1>2, <1>3, <1>4, <1>5, <1>6 DEF Begins

-----------------------------------------------------------------------------
(* Steps that answer, or go to another place, after looking at most *)

LEMMA GoToIsSane ==
  ASSUME IInv, NEW t \in Threads, NEW at, GoTo(t, at), call[t].at # "end", at # "end",
         Sane([op |-> call[t].op, on |-> call[t].on, arg |-> call[t].arg, at |-> at,
               answer |-> Waiting])
  PROVE  /\ CallsOK' /\ OthersSame(t) /\ Sane(call'[t]) /\ buffered' = buffered
         /\ call'[t].at = at /\ call'[t].on = call[t].on
<1>1. call[t].answer = Waiting
  BY DEF IInv, Control, Sane
<1>2. /\ CallsOK' /\ OthersSame(t) /\ IsCall(call'[t])
      /\ call'[t].at = at /\ call'[t].op = call[t].op /\ call'[t].on = call[t].on
      /\ call'[t].arg = call[t].arg /\ call'[t].answer = Waiting
  BY <1>1, CallGoesOn DEF IInv, TypesOK, OthersSame, CallsOK
<1>3. Sane(call'[t])
  BY <1>2 DEF IsCall
<1> QED BY <1>2, <1>3 DEF GoTo

LEMMA GoToKeepsIt ==
  ASSUME IInv, NEW t \in Threads, NEW at, GoTo(t, at), call[t].at # "end", at # "end",
         UNCHANGED <<cf, fields, stores, started, settled>>,
         Sane([op |-> call[t].op, on |-> call[t].on, arg |-> call[t].arg, at |-> at,
               answer |-> Waiting]),
         at \notin {"done=true", "this.value=", "this.done="}
  PROVE  IInv'
BY GoToIsSane, QuietKeepsIt DEF IInv, TypesOK

LEMMA EndIsSane ==
  ASSUME IInv, NEW t \in Threads, NEW answer, End(t, answer), call[t].at # "end", answer # Waiting
  PROVE  CallsOK' /\ OthersSame(t) /\ Sane(call'[t]) /\ call'[t].at = "end" /\ buffered' = buffered
<1>1. /\ CallsOK' /\ OthersSame(t)
      /\ call'[t].at = "end" /\ call'[t].op = call[t].op /\ call'[t].on = call[t].on
      /\ call'[t].arg = call[t].arg /\ call'[t].answer = answer
  BY CallEnds DEF IInv, TypesOK, OthersSame
<1>2. Sane(call[t])
  BY DEF IInv, Control
<1>3. Sane(call'[t])
  BY <1>1, <1>2 DEF Sane
<1> QED BY <1>1, <1>3 DEF End

LEMMA EndKeepsIt ==
  ASSUME IInv, NEW t \in Threads, NEW answer, End(t, answer), call[t].at # "end", answer # Waiting,
         UNCHANGED <<cf, fields, stores, started, settled>>
  PROVE  IInv'
BY EndIsSane, QuietKeepsIt DEF IInv, TypesOK

LEMMA ItemsKnown ==
  ASSUME NEW list \in Lists, NEW i \in DOMAIN list
  PROVE  /\ list[i].kind \in ItemKinds
         /\ list[i].kind = "value" => list[i].of \in Values
         /\ list[i].kind # "value" => list[i].of \in Futures
<1>1. list[i].kind \in ItemKinds
  BY AsyncAssumption
<1>2. list[i].of \in OfKind(list, list[i].kind)
  BY DEF OfKind
<1> QED BY <1>1, <1>2, AsyncAssumption, FuturesAssumption DEF ItemKinds

LEMMA LooksKeepIt ==
  ASSUME IInv, NEW t \in Threads,
         \/ ReadDone(t) \/ ReadException(t) \/ ThrowException(t) \/ ReturnResult(t)
         \/ GetCancelled(t) \/ TimeOut(t) \/ ReprDone(t) \/ Gather(t) \/ First(t)
  PROVE  IInv'
<1> DEFINE Moved(at) == [op |-> call[t].op, on |-> call[t].on, arg |-> call[t].arg, at |-> at,
                         answer |-> Waiting]
<1>1. Sane(call[t])
  BY DEF IInv, Control
<1>2. CASE ReadDone(t)
  <2>1. PICK at \in {"exception?", "future.get"} :
          GoTo(t, at) /\ UNCHANGED <<cf, fields, stores, started, settled>>
    BY <1>2 DEF ReadDone
  <2>2. call[t].at = "done?" /\ Sane(Moved(at))
    BY <1>1, <1>2 DEF ReadDone, At, Sane
  <2> QED BY <2>1, <2>2, GoToKeepsIt
<1>3. CASE ReadException(t)
  <2>1. PICK at \in {"throw", "return"} :
          GoTo(t, at) /\ UNCHANGED <<cf, fields, stores, started, settled>>
    BY <1>3 DEF ReadException
  <2>2. call[t].at = "exception?" /\ Sane(Moved(at))
    BY <1>1, <1>3 DEF ReadException, At, Sane
  <2> QED BY <2>1, <2>2, GoToKeepsIt
<1>4. CASE ThrowException(t)
  BY <1>4, KindsDiffer, EndKeepsIt DEF ThrowException, At
<1>5. CASE ReturnResult(t)
  BY <1>5, KindsDiffer, EndKeepsIt DEF ReturnResult, At
<1>6. CASE GetCancelled(t)
  BY <1>6, KindsDiffer, EndKeepsIt DEF GetCancelled, At
<1>7. CASE TimeOut(t)
  BY <1>7, TimedOutDiffers, EndKeepsIt DEF TimeOut, At
<1>8. CASE ReprDone(t)
  <2>1. call[t].at = "isDone" /\ Sane(Moved("exception?"))
    BY <1>1, <1>8 DEF ReprDone, At, Sane
  <2>2. CASE IsDone(t)
    BY <1>8, <2>1, <2>2, GoToKeepsIt DEF ReprDone
  <2>3. CASE ~IsDone(t)
    BY <1>8, <2>1, <2>3, KindsDiffer, EndKeepsIt DEF ReprDone
  <2> QED BY <2>2, <2>3
<1>9. CASE Gather(t)
  <2>1. PICK answer : answer.kind # "waiting" /\ End(t, answer)
    BY <1>9 DEF Gather, ListOf, Foreign
  <2> QED BY <1>9, <2>1, EndKeepsIt DEF Gather, At, Waiting
<1>10. CASE First(t)
  <2>1. PICK i \in Awaited(On(t)) : /\ ItemOutcome(On(t)[i]) # Pending
                                    /\ End(t, Unwrapped(ItemOutcome(On(t)[i])))
    BY <1>10 DEF First
  <2>2. call[t].at = "first" /\ On(t) \in Lists
    BY <1>1, <1>10 DEF First, At, Sane, On
  <2>3. i \in DOMAIN On(t) /\ On(t)[i].kind # "value"
    BY <2>1 DEF Awaited
  <2>4. ItemOutcome(On(t)[i]) \in Outcomes
    BY <2>1, <2>2, <2>3, ItemsKnown DEF ItemOutcome, IInv, TypesOK
  <2>5. Unwrapped(ItemOutcome(On(t)[i])) # Waiting
    BY <2>4, KindsDiffer DEF Unwrapped
  <2> QED BY <1>10, <2>1, <2>2, <2>5, EndKeepsIt DEF First
<1> QED BY <1>2, <1>3, <1>4, <1>5, <1>6, <1>7, <1>8, <1>9, <1>10

-----------------------------------------------------------------------------
(* Steps that write *)

LEMMA WriteKeepsIt ==
  ASSUME IInv, NEW t \in Threads, NEW f \in Futures, NEW field \in Fields, NEW val,
         [on |-> f, field |-> field, val |-> val] \in Stored, Write(t, f, field, val),
         field = "done" => cf[f] # Pending,
         UNCHANGED <<buffered, cf, started, settled>>,
         CallsOK', OthersSame(t), Sane(call'[t]),
         call'[t].at \in {"done=true", "this.value=", "this.done="} => cf[call'[t].on] # Pending
  PROVE  IInv'
<1>1. /\ MemoryOK'
      /\ \A g \in Futures, fd \in Fields : \A x :
           Seen(g, fd, x)' => Seen(g, fd, x) \/ (g = f /\ fd = field /\ x = val)
  BY WhatIsWritten DEF IInv, TypesOK
<1>2. TypesOK'
  BY <1>1 DEF IInv, TypesOK
<1>3. Control'
  BY SaneKept DEF IInv
<1>4. ASSUME NEW g \in Futures, Seen(g, "done", TRUE)' PROVE cf[g] # Pending
  BY <1>1, <1>4 DEF IInv, DoneKnown, Fields
<1>5. ASSUME NEW u \in Threads, call'[u].at \in {"done=true", "this.value=", "this.done="}
      PROVE  cf[call'[u].on] # Pending
  BY <1>5 DEF IInv, DoneKnown, OthersSame
<1>6. DoneKnown'
  BY <1>4, <1>5 DEF DoneKnown
<1> QED BY <1>2, <1>3, <1>6 DEF IInv

LEMMA WritesKeepIt ==
  ASSUME IInv, NEW t \in Threads,
         GetValue(t) \/ SetDone(t) \/ GetError(t) \/ StoreOutcome(t) \/ StoreDone(t)
  PROVE  IInv'
<1> DEFINE f == On(t)
           Moved(at) == [op |-> call[t].op, on |-> call[t].on, arg |-> call[t].arg, at |-> at,
                         answer |-> Waiting]
<1>1. Sane(call[t]) /\ cf \in [Futures -> Outcomes \cup {Pending}]
  BY DEF IInv, Control, TypesOK
<1>2. call[t].at \in {"done=true", "this.value=", "this.done="} => cf[f] # Pending
  BY DEF IInv, DoneKnown, On
<1>3. CASE GetValue(t)
  <2>1. f \in Futures /\ call[t].at = "future.get" /\ Sane(Moved("done=true"))
    BY <1>1, <1>3 DEF GetValue, At, On, Sane
  <2>2. cf[f] # Pending /\ cf[f].of \in Values
    BY <1>1, <1>3, <2>1, KindsDiffer DEF GetValue
  <2>3. [on |-> f, field |-> "result", val |-> cf[f].of] \in Stored
    BY <2>1, <2>2 DEF Stored
  <2>4. /\ Write(t, f, "result", cf[f].of) /\ GoTo(t, "done=true")
        /\ UNCHANGED <<cf, started, settled>>
    BY <1>3 DEF GetValue
  <2>5. /\ CallsOK' /\ OthersSame(t) /\ Sane(call'[t]) /\ buffered' = buffered
        /\ call'[t].at = "done=true" /\ call'[t].on = f
    BY <2>1, <2>4, GoToIsSane DEF On
  <2> HIDE DEF f
  <2> QED BY <2>1, <2>2, <2>3, <2>4, <2>5, WriteKeepsIt DEF Fields
<1>4. CASE SetDone(t)
  <2>1. f \in Futures /\ call[t].at = "done=true" /\ Sane(Moved("return"))
    BY <1>1, <1>4 DEF SetDone, At, On, Sane
  <2>2. [on |-> f, field |-> "done", val |-> TRUE] \in Stored
    BY <2>1 DEF Stored
  <2>3. Write(t, f, "done", TRUE) /\ GoTo(t, "return") /\ UNCHANGED <<cf, started, settled>>
    BY <1>4 DEF SetDone
  <2>4. /\ CallsOK' /\ OthersSame(t) /\ Sane(call'[t]) /\ buffered' = buffered
        /\ call'[t].at = "return"
    BY <2>1, <2>3, GoToIsSane
  <2> HIDE DEF f
  <2> QED BY <1>2, <2>1, <2>2, <2>3, <2>4, WriteKeepsIt DEF Fields
<1>5. CASE GetError(t)
  <2>1. f \in Futures /\ call[t].at = "future.get" /\ Sane(Moved("throw"))
    BY <1>1, <1>5 DEF GetError, At, On, Sane
  <2>2. cf[f].of \in Errors
    BY <1>1, <1>5, <2>1, KindsDiffer DEF GetError
  <2>3. [on |-> f, field |-> "exception", val |-> cf[f].of] \in Stored
    BY <2>1, <2>2 DEF Stored
  <2>4. /\ Write(t, f, "exception", cf[f].of) /\ GoTo(t, "throw")
        /\ UNCHANGED <<cf, started, settled>>
    BY <1>5 DEF GetError
  <2>5. /\ CallsOK' /\ OthersSame(t) /\ Sane(call'[t]) /\ buffered' = buffered
        /\ call'[t].at = "throw"
    BY <2>1, <2>4, GoToIsSane
  <2> HIDE DEF f
  <2> QED BY <2>1, <2>3, <2>4, <2>5, WriteKeepsIt DEF Fields
<1>6. CASE StoreOutcome(t)
  <2> DEFINE o == call[t].arg
             field == IF o.kind = "value" THEN "result" ELSE "exception"
  <2>1. f \in Futures /\ call[t].at = "this.value=" /\ Sane(Moved("this.done="))
        /\ o \in Outcomes \ {Cancelled}
    BY <1>1, <1>6 DEF StoreOutcome, At, On, Sane
  <2>2. [on |-> f, field |-> field, val |-> o.of] \in Stored
    <3>1. CASE o.kind = "value"
      BY <2>1, <3>1, KindsDiffer DEF Stored
    <3>2. CASE o.kind # "value"
      <4>1. o.of \in Errors
        BY <2>1, <3>2, KindsDiffer
      <4> QED BY <2>1, <3>2, <4>1 DEF Stored
    <3> QED BY <3>1, <3>2
  <2>3. Write(t, f, field, o.of) /\ GoTo(t, "this.done=") /\ UNCHANGED <<cf, started, settled>>
    BY <1>6 DEF StoreOutcome
  <2>4. /\ CallsOK' /\ OthersSame(t) /\ Sane(call'[t]) /\ buffered' = buffered
        /\ call'[t].at = "this.done=" /\ call'[t].on = f
    BY <2>1, <2>3, GoToIsSane DEF On
  <2>5. field \in Fields /\ field # "done"
    BY DEF Fields
  <2> HIDE DEF f, field
  <2> QED BY <1>2, <2>1, <2>2, <2>3, <2>4, <2>5, WriteKeepsIt
<1>7. CASE StoreDone(t)
  <2>1. f \in Futures /\ call[t].at = "this.done="
    BY <1>1, <1>7 DEF StoreDone, At, On, Sane
  <2>2. [on |-> f, field |-> "done", val |-> TRUE] \in Stored
    BY <2>1 DEF Stored
  <2>3. Write(t, f, "done", TRUE) /\ End(t, NoAnswer) /\ UNCHANGED <<cf, started, settled>>
    BY <1>7 DEF StoreDone
  <2>4. CallsOK' /\ OthersSame(t) /\ Sane(call'[t]) /\ buffered' = buffered /\ call'[t].at = "end"
    BY <2>1, <2>3, EndIsSane, KindsDiffer
  <2> HIDE DEF f
  <2> QED BY <1>2, <2>1, <2>2, <2>3, <2>4, WriteKeepsIt DEF Fields
<1> QED BY <1>3, <1>4, <1>5, <1>6, <1>7

-----------------------------------------------------------------------------
(* Steps that complete, and what threads learn late *)

LEMMA CompletionLasts ==
  ASSUME IInv, NEW f \in Futures, NEW o \in Outcomes, Complete(f, o)
  PROVE  /\ cf' \in [Futures -> Outcomes \cup {Pending}]
         /\ Lasting /\ cf'[f] # Pending
         /\ \A g \in Futures \ {f} : cf'[g] = cf[g]
         /\ cf[f] = Pending => cf'[f] = o
BY KindsDiffer DEF Complete, Lasting, IInv, TypesOK

LEMMA CompleteFutureKeepsIt ==
  ASSUME IInv, NEW t \in Threads, CompleteFuture(t)
  PROVE  IInv'
<1> DEFINE f == On(t)
           o == call[t].arg
<1>1. f \in Futures /\ o \in Outcomes /\ call[t].at = "complete" /\ call[t].op = "set"
  BY DEF CompleteFuture, At, On, IInv, Control, Sane
<1>2. Complete(f, o) /\ UNCHANGED <<fields, stores, started, settled>>
  BY DEF CompleteFuture
<1>3. /\ cf' \in [Futures -> Outcomes \cup {Pending}] /\ Lasting /\ cf'[f] # Pending
  <2> HIDE DEF f, o
  <2> QED BY <1>1, <1>2, CompletionLasts
<1>4. /\ CallsOK' /\ OthersSame(t) /\ Sane(call'[t]) /\ buffered' = buffered
      /\ call'[t].at = "end" \/ call'[t].on = f
  <2>1. CASE o = Cancelled
    BY <1>1, <2>1, EndIsSane, KindsDiffer DEF CompleteFuture
  <2>2. CASE o # Cancelled
    <3>1. Sane([op |-> call[t].op, on |-> call[t].on, arg |-> call[t].arg, at |-> "this.value=",
                answer |-> Waiting])
      BY <1>1, <2>2 DEF IInv, Control, Sane
    <3> QED BY <1>1, <2>2, <3>1, GoToIsSane DEF CompleteFuture, On
  <2> QED BY <2>1, <2>2
<1>5. TypesOK'
  BY <1>2, <1>3, <1>4 DEF IInv, TypesOK, MemoryOK
<1>6. Control'
  BY <1>4, SaneKept DEF IInv
<1>7. DoneKnown'
  <2>1. ASSUME NEW g \in Futures, Seen(g, "done", TRUE)' PROVE cf'[g] # Pending
    BY <1>2, <1>3, <2>1 DEF IInv, DoneKnown, Seen, Lasting
  <2>2. ASSUME NEW u \in Threads, call'[u].at \in {"done=true", "this.value=", "this.done="}
        PROVE  cf'[call'[u].on] # Pending
    <3>1. CASE u = t
      BY <1>3, <1>4, <2>2, <3>1
    <3>2. CASE u # t
      <4>1. call'[u] = call[u] /\ cf[call[u].on] # Pending /\ call[u].on \in Futures
        BY <1>4, <2>2, <3>2 DEF IInv, DoneKnown, Control, Sane, OthersSame
      <4> QED BY <1>3, <4>1 DEF Lasting
    <3> QED BY <3>1, <3>2
  <2> QED BY <2>1, <2>2 DEF DoneKnown
<1> QED BY <1>5, <1>6, <1>7 DEF IInv

LEMMA EndCoroutineKeepsIt ==
  ASSUME IInv, NEW f \in Coroutines, EndCoroutine(f)
  PROVE  IInv'
<1>1. PICK o \in Outcomes : Complete(f, o)
  BY DEF EndCoroutine
<1>2. /\ f \in Futures /\ UNCHANGED <<buffered, fields, stores, started, settled, call>>
      /\ cf' \in [Futures -> Outcomes \cup {Pending}] /\ Lasting
  BY <1>1, CompletionLasts, FuturesAssumption DEF EndCoroutine
<1>3. TypesOK' /\ Control'
  BY <1>2 DEF IInv, TypesOK, MemoryOK, CallsOK, Control
<1>4. ASSUME NEW g \in Futures, Seen(g, "done", TRUE)' PROVE cf'[g] # Pending
  BY <1>2, <1>4 DEF IInv, DoneKnown, Seen, Lasting
<1>5. ASSUME NEW u \in Threads, call[u].at \in {"done=true", "this.value=", "this.done="}
      PROVE  cf'[call[u].on] # Pending
  BY <1>2, <1>5 DEF IInv, DoneKnown, Control, Sane, Lasting
<1> QED BY <1>2, <1>3, <1>4, <1>5 DEF IInv, DoneKnown

LEMMA VisibleKeepsIt ==
  ASSUME IInv, NEW t \in Threads, BecomeVisible(t)
  PROVE  IInv'
<1>1. /\ MemoryOK'
      /\ \A g \in Futures, fd \in Fields : \A x : Seen(g, fd, x)' => Seen(g, fd, x)
  BY WhatBecomesVisible DEF IInv, TypesOK
<1>2. UNCHANGED <<buffered, cf, started, settled, call>>
  BY DEF BecomeVisible
<1>3. TypesOK' /\ Control'
  BY <1>1, <1>2 DEF IInv, TypesOK, CallsOK, Control
<1>4. DoneKnown'
  BY <1>1, <1>2 DEF IInv, DoneKnown, Fields
<1> QED BY <1>3, <1>4 DEF IInv

-----------------------------------------------------------------------------
(* The invariant holds in all reachable states. *)

LEMMA InitIInv == Init => IInv
<1> SUFFICES ASSUME Init PROVE IInv
  OBVIOUS
<1> DEFINE Given(given, f) == IF f \in Coroutines THEN Pending ELSE given[f]
<1>1. PICK given \in [Futures \ Coroutines -> {Pending} \cup {Value(v) : v \in Values}] :
        /\ cf = [f \in Futures |-> Given(given, f)]
        /\ fields = [f \in Futures |-> [result |-> Given(given, f).of, exception |-> Null,
                                        done |-> Given(given, f) # Pending]]
        /\ settled = [f \in Futures |-> IF Given(given, f) = Pending THEN 0 ELSE 1]
  BY Zenon DEF Init
<1>2. /\ stores = [t \in Threads |-> {}] /\ call = [t \in Threads |-> NoCall]
      /\ buffered \in BOOLEAN /\ started \in [Coroutines -> {"not", "run", "listed"}]
  BY FuturesAssumption DEF Init
<1>3. ASSUME NEW f \in Futures
      PROVE  /\ Given(given, f) \in {Pending} \cup {Value(v) : v \in Values}
             /\ Given(given, f).of \in Values \cup {Null}
  BY <1>1 DEF Value, Pending
<1> HIDE DEF Given
<1>4. cf \in [Futures -> Outcomes \cup {Pending}]
  BY <1>1, <1>3 DEF Outcomes
<1>5. fields \in [Futures -> InMemory]
  BY <1>1, <1>3 DEF InMemory
<1>6. settled \in [Futures -> 0..MaxSettled]
  BY <1>1, FuturesAssumption
<1>7. CallsOK /\ Control
  BY <1>2 DEF CallsOK, IsCall, Control, Sane, NoCall, NoAnswer, Waiting
<1>8. TypesOK
  BY <1>2, <1>4, <1>5, <1>6, <1>7 DEF TypesOK, MemoryOK
<1>9. DoneKnown
  BY <1>1, <1>2 DEF DoneKnown, Seen, NoCall
<1> QED BY <1>7, <1>8, <1>9 DEF IInv

LEMMA NextIInv == IInv /\ [Next]_vars => IInv'
<1> SUFFICES ASSUME IInv, [Next]_vars PROVE IInv'
  OBVIOUS
<1>1. CASE UNCHANGED vars
  BY <1>1 DEF vars, IInv, TypesOK, MemoryOK, CallsOK, Control, DoneKnown, Seen
<1>2. ASSUME NEW t \in Threads,
             \/ Begins(t) \/ ThreadStep(t) \/ TimeOut(t) \/ BecomeVisible(t)
             \/ \E f \in Coroutines : Run(t, f)
             \/ \E list \in Lists : BeginAll(t, "gather", list) \/ BeginAll(t, "first", list)
      PROVE  IInv'
  BY <1>2, BeginsKeepIt, LooksKeepIt, WritesKeepIt, CompleteFutureKeepsIt, VisibleKeepsIt
     DEF ThreadStep, Steps
<1>3. ASSUME NEW f \in Coroutines, EndCoroutine(f) PROVE IInv'
  BY <1>3, EndCoroutineKeepsIt
<1> QED BY <1>1, <1>2, <1>3 DEF Next

LEMMA AlwaysIInv == Spec => []IInv
  BY InitIInv, NextIInv, PTL DEF Spec

(* Futures, fields and the writes on their way keep their types, and every *)
(* call is at a place of $Future or $Async.                                *)
THEOREM AsyncTypeCorrect == Spec => []AsyncTypeOK
<1>1. IInv => AsyncTypeOK
  <2> SUFFICES ASSUME IInv PROVE AsyncTypeOK
    OBVIOUS
  <2>1. \A t \in Threads : call[t].at \in Places
    BY SanePlaces DEF IInv, Control
  <2>2. \A t \in Threads : \A s \in stores[t] : s.on \in Futures /\ s.field \in Fields
    BY DEF IInv, TypesOK, MemoryOK, Stored, Fields
  <2> QED BY <2>1, <2>2 DEF AsyncTypeOK, IInv, TypesOK, MemoryOK, InMemory
<1> QED BY <1>1, AlwaysIInv, PTL

(* However many threads complete and ask, and in whatever order their      *)
(* writes arrive, nobody sees done before the future is complete: get and  *)
(* setResult write it after the CompletableFuture has its outcome.         *)
THEOREM DoneIsAlwaysTrue == Spec => []DoneIsTrue
<1>1. IInv => DoneIsTrue
  BY ReadIsSeen DEF IInv, DoneKnown, DoneIsTrue
<1> QED BY <1>1, AlwaysIInv, PTL

-----------------------------------------------------------------------------
(* Gather *)

LEMMA OutcomesLast == IInv /\ [Next]_vars => Lasting
<1> SUFFICES ASSUME IInv, [Next]_vars PROVE Lasting
  OBVIOUS
<1>1. CASE cf' = cf
  BY <1>1 DEF Lasting
<1>2. ASSUME NEW t \in Threads, CompleteFuture(t) PROVE Lasting
  <2>1. /\ On(t) \in Futures /\ call[t].arg \in Outcomes
        /\ Complete(On(t), call[t].arg)
    BY <1>2 DEF CompleteFuture, At, On, IInv, Control, Sane
  <2> QED BY <2>1, CompletionLasts
<1>3. ASSUME NEW f \in Coroutines, EndCoroutine(f) PROVE Lasting
  <2>1. f \in Futures /\ \E o \in Outcomes : Complete(f, o)
    BY <1>3, FuturesAssumption DEF EndCoroutine
  <2> QED BY <2>1, CompletionLasts
<1>4. ASSUME NEW t \in Threads,
             \/ Begins(t) \/ TimeOut(t) \/ BecomeVisible(t)
             \/ \E f \in Coroutines : Run(t, f)
             \/ \E list \in Lists : BeginAll(t, "gather", list) \/ BeginAll(t, "first", list)
      PROVE  cf' = cf
  BY <1>4 DEF Begins, BeginGet, BeginSet, BeginRepr, TimeOut, BecomeVisible, Run, BeginAll
<1>5. ASSUME NEW t \in Threads, ThreadStep(t), ~CompleteFuture(t) PROVE cf' = cf
  BY <1>5 DEF ThreadStep, Steps, ReadDone, ReadException, ThrowException, ReturnResult,
              GetValue, SetDone, GetError, GetCancelled, StoreOutcome, StoreDone, ReprDone,
              Gather, First
<1> QED BY <1>1, <1>2, <1>3, <1>4, <1>5 DEF Next, vars

Gathered(t) ==
  call[t].op = "gather" /\ call[t].answer # Waiting =>
    /\ \A i \in DOMAIN On(t) : ItemOutcome(On(t)[i]) # Pending
    /\ call[t].answer.kind = "list" =>
         \A i \in DOMAIN On(t) : ItemOutcome(On(t)[i]) = Value(call[t].answer.of[i])

LEMMA GatheredStays ==
  ASSUME IInv, Lasting, NEW t \in Threads, Gathered(t), call'[t] = call[t]
  PROVE  Gathered(t)'
<1> SUFFICES ASSUME call[t].op = "gather", call[t].answer # Waiting
             PROVE  Gathered(t)'
  BY DEF Gathered
<1>1. On(t) \in Lists /\ On(t)' = On(t)
  BY DEF IInv, Control, Sane, On
<1>2. ASSUME NEW i \in DOMAIN On(t) PROVE ItemOutcome(On(t)[i])' = ItemOutcome(On(t)[i])
  <2>1. ItemOutcome(On(t)[i]) # Pending
    BY DEF Gathered
  <2>2. On(t)[i].kind # "value" => On(t)[i].of \in Futures
    BY <1>1, ItemsKnown
  <2> QED BY <1>1, <2>1, <2>2 DEF ItemOutcome, Lasting
<1> QED BY <1>1, <1>2 DEF Gathered

LEMMA GatherGathers ==
  ASSUME IInv, NEW t \in Threads, Gather(t)
  PROVE  Gathered(t)' /\ OthersSame(t)
<1> DEFINE list == On(t)
           answer == IF \A i \in DOMAIN list : ItemOutcome(list[i]).kind = "value"
                     THEN ListOf(Collect(list))
                     ELSE Foreign
<1>1. list \in Lists /\ cf' = cf /\ AllComplete(list) /\ End(t, answer)
  BY DEF Gather, At, IInv, Control, Sane, On
<1>2. OthersSame(t) /\ call'[t].on = list /\ call'[t].answer = answer
  BY <1>1, CallEnds DEF IInv, TypesOK, OthersSame, On
<1>3. ASSUME NEW i \in DOMAIN list
      PROVE  /\ ItemOutcome(list[i]) # Pending
             /\ answer.kind = "list" => ItemOutcome(list[i]) = Value(answer.of[i])
  <2>1. ItemOutcome(list[i]) # Pending
    BY <1>1 DEF AllComplete
  <2>2. ItemOutcome(list[i]) \in Outcomes
    <3>1. CASE list[i].kind = "value"
      BY <1>1, <3>1, ItemsKnown DEF ItemOutcome, Outcomes
    <3>2. CASE list[i].kind # "value"
      BY <1>1, <2>1, <3>2, ItemsKnown DEF ItemOutcome, IInv, TypesOK
    <3> QED BY <3>1, <3>2
  <2>3. ASSUME answer.kind = "list" PROVE ItemOutcome(list[i]) = Value(answer.of[i])
    <3>1. ItemOutcome(list[i]).kind = "value" /\ answer = ListOf(Collect(list))
      BY <2>3 DEF Foreign
    <3>2. answer.of[i] = ItemOutcome(list[i]).of
      BY <3>1 DEF ListOf, Collect
    <3> QED BY <2>2, <3>1, <3>2, KindsDiffer
  <2> QED BY <2>1, <2>3
<1> HIDE DEF list, answer
<1>4. On(t)' = list
  BY <1>2 DEF On
<1>5. ASSUME NEW i \in DOMAIN list PROVE ItemOutcome(On(t)[i])' = ItemOutcome(list[i])
  BY <1>1, <1>4 DEF ItemOutcome
<1> QED BY <1>2, <1>3, <1>4, <1>5 DEF Gathered

LEMMA OtherCallsGatherNothing ==
  ASSUME IInv, NEW t \in Threads,
         \/ Begins(t) \/ Steps(t) \/ First(t) \/ TimeOut(t)
         \/ \E f \in Coroutines : Run(t, f)
         \/ \E list \in Lists : BeginAll(t, "gather", list) \/ BeginAll(t, "first", list)
  PROVE  Gathered(t)' /\ OthersSame(t)
<1>1. CallsOK /\ Sane(call[t])
  BY DEF IInv, TypesOK, Control
<1>2. ASSUME NEW op, NEW on, NEW arg, NEW at, Begin(t, op, on, arg, at)
      PROVE  Gathered(t)' /\ OthersSame(t)
  <2>1. call'[t] = [op |-> op, on |-> on, arg |-> arg, at |-> at, answer |-> Waiting]
    BY <1>1, <1>2, CallBegins
  <2>2. OthersSame(t)
    BY <1>1, <1>2, CallBegins DEF OthersSame
  <2> QED BY <2>1, <2>2 DEF Gathered
<1>3. ASSUME NEW at, GoTo(t, at), call[t].op # "gather" PROVE Gathered(t)' /\ OthersSame(t)
  <2>1. call'[t].op = call[t].op /\ OthersSame(t)
    BY <1>1, <1>3, CallGoesOn DEF OthersSame
  <2> QED BY <1>3, <2>1 DEF Gathered
<1>4. ASSUME NEW answer, End(t, answer), call[t].op # "gather"
      PROVE  Gathered(t)' /\ OthersSame(t)
  <2>1. call'[t].op = call[t].op /\ OthersSame(t)
    BY <1>1, <1>4, CallEnds DEF OthersSame
  <2> QED BY <1>4, <2>1 DEF Gathered
<1>5. CASE \/ Begins(t) \/ \E f \in Coroutines : Run(t, f)
           \/ \E list \in Lists : BeginAll(t, "gather", list) \/ BeginAll(t, "first", list)
  BY <1>2, <1>5 DEF Begins, BeginGet, BeginSet, BeginRepr, Run, BeginAll
<1>6. CASE Steps(t) \/ First(t) \/ TimeOut(t)
  <2>1. call[t].op # "gather"
    BY <1>1, <1>6 DEF Sane, Steps, At, ReadDone, ReadException, ThrowException, ReturnResult,
       GetValue, SetDone, GetError, GetCancelled, CompleteFuture, StoreOutcome, StoreDone,
       ReprDone, First, TimeOut
  <2>2. (\E at : GoTo(t, at)) \/ \E answer : End(t, answer)
    BY <1>6 DEF Steps, ReadDone, ReadException, ThrowException, ReturnResult,
       GetValue, SetDone, GetError, GetCancelled, CompleteFuture, StoreOutcome, StoreDone,
       ReprDone, First, TimeOut
  <2> QED BY <1>3, <1>4, <2>1, <2>2
<1> QED BY <1>5, <1>6

(* A gather returns when every item has an outcome, with the values of its *)
(* items in their order, whatever completes and is asked meanwhile, and    *)
(* what it has returned stays true ($Async.gather).                        *)
THEOREM GathersInOrder == Spec => []GatherInOrder
<1>1. Init => GatherInOrder
  BY DEF Init, GatherInOrder, NoCall
<1>2. IInv /\ GatherInOrder /\ [Next]_vars => GatherInOrder'
  <2> SUFFICES ASSUME IInv, GatherInOrder, [Next]_vars PROVE GatherInOrder'
    OBVIOUS
  <2>1. Lasting /\ \A t \in Threads : Gathered(t)
    BY OutcomesLast DEF GatherInOrder, Gathered
  <2>2. ASSUME NEW t \in Threads, NEW u \in Threads, OthersSame(t), Gathered(t)'
        PROVE  Gathered(u)'
    BY <2>1, <2>2, GatheredStays DEF OthersSame
  <2>3. ASSUME call' = call PROVE \A u \in Threads : Gathered(u)'
    BY <2>1, <2>3, GatheredStays
  <2>4. ASSUME NEW t \in Threads, BecomeVisible(t) PROVE call' = call
    BY <2>4 DEF BecomeVisible
  <2>5. ASSUME NEW f \in Coroutines, EndCoroutine(f) PROVE call' = call
    BY <2>5 DEF EndCoroutine
  <2>6. \A u \in Threads : Gathered(u)'
    BY <2>2, <2>3, <2>4, <2>5, GatherGathers, OtherCallsGatherNothing DEF Next, ThreadStep, vars
  <2> QED BY <2>6 DEF GatherInOrder, Gathered
<1> QED BY <1>1, <1>2, AlwaysIInv, PTL DEF Spec

-----------------------------------------------------------------------------
(***************************************************************************)
(* Futures that are completed once keep their promise: for any number of   *)
(* futures, coroutines, threads and calls, gets invent nothing, and where  *)
(* writes are ordered each step is one of Promise.                         *)
(***************************************************************************)

(* Who is about to complete a future is the only one to do so. *)
OnceOnly ==
  /\ \A f \in Futures \ Coroutines : settled[f] = 0 => cf[f] = Pending
  /\ \A t \in Threads : call[t].at = "complete" =>
       /\ cf[call[t].on] = Pending /\ settled[call[t].on] = 1
       /\ \A u \in Threads \ {t} : call[u].at = "complete" => call[u].on # call[t].on

(* The fields hold nothing but the outcome, however late they are seen. *)
Truthful ==
  /\ \A f \in Futures : \A x : Seen(f, "result", x) /\ x # Null => cf[f] = Value(x)
  /\ \A f \in Futures : \A x : Seen(f, "exception", x) /\ x # Null => cf[f] = Error(x)

CachedValue(f) == cf[f] = Value(fields[f].result)
Cached(f) == CachedValue(f) \/ cf[f] = Error(fields[f].exception)

(* Where writes are ordered, done comes last. *)
InOrder ==
  ~buffered => /\ \A t \in Threads : stores[t] = {}
               /\ \A f \in Futures : fields[f].done => Cached(f)

HasException(t, f) == fields[f].exception # Null \/ Own(t, f, "exception") # {}

(* What a thread relies on at its place *)
Informed(t) ==
  LET c == call[t] IN
  /\ c.at = "this.value=" => cf[c.on] = c.arg
  /\ c.at = "throw" => HasException(t, c.on)
  /\ c.op = "get" /\ c.answer # Waiting =>
       c.answer \in {TimedOut, Value(Null)} \/ (cf[c.on] # Pending /\ c.answer = cf[c.on])
  /\ ~buffered =>
       /\ c.at = "this.done=" => Cached(c.on)
       /\ c.op = "get" /\ c.at = "exception?" => Cached(c.on)
       /\ c.op = "get" /\ c.at \in {"done=true", "return"} => CachedValue(c.on)

JInv == IInv /\ OnceOnly /\ Truthful /\ InOrder /\ \A t \in Threads : Informed(t)

-----------------------------------------------------------------------------
(* What threads have learned from the fields stays so. *)
Persist ==
  /\ Lasting /\ buffered' = buffered
  /\ \A t \in Threads, f \in Futures : HasException(t, f) => HasException(t, f)'
  /\ ~buffered => \A f \in Futures :
       (Cached(f) => Cached(f)') /\ (CachedValue(f) => CachedValue(f)')

LEMMA InformedStays ==
  ASSUME JInv, Persist, NEW t \in Threads, call'[t] = call[t]
  PROVE  Informed(t)'
<1> DEFINE c == call[t]
<1>1. Sane(c) /\ Informed(t)
  BY DEF JInv, IInv, Control
<1>2. c.at = "this.value=" => cf'[c.on] = c.arg
  <2>1. c.at = "this.value=" => c.on \in Futures /\ c.arg \in Outcomes /\ cf[c.on] = c.arg
    BY <1>1 DEF Sane, Informed
  <2> QED BY <2>1, KindsDiffer DEF Persist, Lasting
<1>3. c.at = "throw" => HasException(t, c.on)'
  BY <1>1 DEF Sane, Informed, Persist
<1>4. c.op = "get" /\ c.answer # Waiting =>
        c.answer \in {TimedOut, Value(Null)} \/ (cf'[c.on] # Pending /\ c.answer = cf'[c.on])
  BY <1>1 DEF Sane, Informed, Persist, Lasting
<1>5. ASSUME ~buffered
      PROVE  /\ c.at = "this.done=" => Cached(c.on)'
             /\ c.op = "get" /\ c.at = "exception?" => Cached(c.on)'
             /\ c.op = "get" /\ c.at \in {"done=true", "return"} => CachedValue(c.on)'
  <2>1. c.at = "this.done=" \/ c.op = "get" => c.on \in Futures
    BY <1>1 DEF Sane
  <2> QED BY <1>1, <1>5, <2>1 DEF Informed, Persist
<1>6. buffered' = buffered
  BY DEF Persist
<1> QED BY <1>2, <1>3, <1>4, <1>5, <1>6 DEF Informed

LEMMA StepKeepsJ ==
  ASSUME JInv, IInv', NEW t \in Threads, OthersSame(t), Persist,
         OnceOnly', Truthful', InOrder', Informed(t)'
  PROVE  JInv' /\ Persist
<1>1. ASSUME NEW u \in Threads PROVE Informed(u)'
  <2>1. CASE u = t
    BY <2>1
  <2>2. CASE u # t
    BY <2>2, InformedStays DEF OthersSame
  <2> QED BY <2>1, <2>2
<1> QED BY <1>1 DEF JInv

LEMMA OnceStays ==
  ASSUME JInv, NEW t \in Threads, OthersSame(t), call'[t].at # "complete",
         UNCHANGED <<cf, settled>>
  PROVE  OnceOnly'
<1>1. \A u \in Threads : call'[u].at = "complete" => call'[u] = call[u]
  BY DEF OthersSame
<1> QED BY <1>1 DEF JInv, OnceOnly

LEMMA NothingWritten ==
  ASSUME JInv, UNCHANGED <<buffered, cf, fields, stores>>
  PROVE  Persist /\ Truthful' /\ InOrder'
<1>1. Persist
  BY DEF Persist, Lasting, HasException, Own, Cached, CachedValue
<1>2. Truthful'
  BY DEF JInv, Truthful, Seen
<1>3. InOrder'
  BY DEF JInv, InOrder, Cached, CachedValue
<1> QED BY <1>1, <1>2, <1>3

LEMMA QuietKeepsJ ==
  ASSUME JInv, IInv', NEW t \in Threads, UNCHANGED <<buffered, cf, fields, stores, settled>>,
         OthersSame(t), call'[t].at # "complete", Informed(t)'
  PROVE  JInv' /\ Persist
BY OnceStays, NothingWritten, StepKeepsJ

(* Only an outcome is written, and done only when it is there. *)
LEMMA Written ==
  ASSUME JInv, NEW t \in Threads, NEW f \in Futures, NEW field \in Fields, NEW val,
         [on |-> f, field |-> field, val |-> val] \in Stored, Write(t, f, field, val),
         UNCHANGED <<buffered, cf>>,
         field = "result" => cf[f] = Value(val),
         field = "exception" => cf[f] = Error(val),
         ~buffered /\ field = "done" => Cached(f)
  PROVE  Persist /\ Truthful' /\ InOrder'
<1>1. /\ MemoryOK /\ MemoryOK'
      /\ \A g \in Futures, fd \in Fields : \A x :
           Seen(g, fd, x)' => Seen(g, fd, x) \/ (g = f /\ fd = field /\ x = val)
      /\ ~buffered => fields' = [fields EXCEPT ![f][field] = val] /\ stores' = stores
  BY WhatIsWritten DEF JInv, IInv, TypesOK
<1>2. Truthful'
  <2>1. ASSUME NEW g \in Futures, NEW x, Seen(g, "result", x)', x # Null PROVE cf[g] = Value(x)
    BY <1>1, <2>1 DEF JInv, Truthful, Fields
  <2>2. ASSUME NEW g \in Futures, NEW x, Seen(g, "exception", x)', x # Null PROVE cf[g] = Error(x)
    BY <1>1, <2>2 DEF JInv, Truthful, Fields
  <2> QED BY <2>1, <2>2 DEF Truthful
<1>3. ASSUME ~buffered
      PROVE  /\ \A g \in Futures : (Cached(g) => Cached(g)') /\ (CachedValue(g) => CachedValue(g)')
             /\ \A g \in Futures : fields'[g].done => fields[g].done \/ (g = f /\ field = "done")
  <2>1. \A g \in Futures :
          /\ fields'[g].result = IF g = f /\ field = "result" THEN val ELSE fields[g].result
          /\ fields'[g].exception = IF g = f /\ field = "exception" THEN val ELSE fields[g].exception
          /\ fields'[g].done = IF g = f /\ field = "done" THEN val ELSE fields[g].done
    BY <1>1, <1>3 DEF MemoryOK, InMemory, Fields
  <2> QED BY <2>1, KindsDiffer DEF Cached, CachedValue
<1>4. ASSUME NEW u \in Threads, NEW g \in Futures, HasException(u, g) PROVE HasException(u, g)'
  <2>1. CASE buffered
    <3>1. /\ stores' = [stores EXCEPT ![t] = (@ \ Own(t, f, field))
                                               \cup {[on |-> f, field |-> field, val |-> val]}]
          /\ fields' = fields
      BY <2>1 DEF Write
    <3>2. ASSUME Own(u, g, "exception") # {} PROVE Own(u, g, "exception")' # {}
      <4>1. PICK s \in stores[u] : s.on = g /\ s.field = "exception"
        BY <3>2 DEF Own
      <4>2. s \in stores'[u] \/ (g = f /\ field = "exception"
                                 /\ [on |-> f, field |-> field, val |-> val] \in stores'[u])
        BY <1>1, <3>1, <4>1 DEF Own, MemoryOK
      <4> QED BY <4>1, <4>2 DEF Own
    <3> QED BY <1>4, <3>1, <3>2 DEF HasException
  <2>2. CASE ~buffered
    <3>1. field = "exception" => val # Null
      BY FuturesAssumption DEF Stored
    <3>2. fields'[g].exception = IF g = f /\ field = "exception" THEN val ELSE fields[g].exception
      BY <1>1, <2>2 DEF MemoryOK, InMemory, Fields
    <3> QED BY <1>1, <1>4, <2>2, <3>1, <3>2 DEF HasException, Own
  <2> QED BY <2>1, <2>2
<1>5. InOrder'
  BY <1>1, <1>3 DEF InOrder, JInv
<1> QED BY <1>2, <1>3, <1>4, <1>5 DEF Persist, Lasting

LEMMA Completed ==
  ASSUME JInv, NEW f \in Futures, NEW o \in Outcomes, Complete(f, o),
         UNCHANGED <<buffered, fields, stores>>
  PROVE  Persist /\ Truthful' /\ InOrder'
<1>1. Lasting
  BY CompletionLasts DEF JInv
<1>2. ASSUME NEW g \in Futures
      PROVE  (Cached(g) => Cached(g)') /\ (CachedValue(g) => CachedValue(g)')
  BY <1>1, KindsDiffer DEF Cached, CachedValue, Lasting
<1>3. Persist
  BY <1>1, <1>2 DEF Persist, HasException, Own
<1>4. Truthful'
  <2>1. ASSUME NEW g \in Futures, NEW x, Seen(g, "result", x)', x # Null PROVE cf'[g] = Value(x)
    BY <1>1, <2>1, KindsDiffer DEF JInv, Truthful, Lasting, Seen
  <2>2. ASSUME NEW g \in Futures, NEW x, Seen(g, "exception", x)', x # Null PROVE cf'[g] = Error(x)
    BY <1>1, <2>2, KindsDiffer DEF JInv, Truthful, Lasting, Seen
  <2> QED BY <2>1, <2>2 DEF Truthful
<1>5. InOrder'
  BY <1>2 DEF JInv, InOrder
<1> QED BY <1>3, <1>4, <1>5
LEMMA VisibleKeepsJ ==
  ASSUME JInv, IInv', NEW t \in Threads, BecomeVisible(t)
  PROVE  JInv' /\ Persist
<1>1. /\ MemoryOK
      /\ \A g \in Futures, fd \in Fields : \A x : Seen(g, fd, x)' => Seen(g, fd, x)
      /\ stores[t] # {}
  BY WhatBecomesVisible DEF JInv, IInv, TypesOK
<1>2. UNCHANGED <<buffered, cf, started, settled, call>>
  BY DEF BecomeVisible
<1>3. buffered
  BY <1>1 DEF JInv, InOrder
<1>4. PICK s \in stores[t] : /\ fields' = [fields EXCEPT ![s.on][s.field] = s.val]
                             /\ stores' = [stores EXCEPT ![t] = @ \ {s}]
  BY DEF BecomeVisible
<1>5. /\ s.on \in Futures /\ s.field \in Fields
      /\ s.field = "exception" => s.val # Null
  BY <1>1, FuturesAssumption DEF MemoryOK, Stored, Fields
<1>6. ASSUME NEW u \in Threads, NEW f \in Futures, HasException(u, f) PROVE HasException(u, f)'
  <2>1. fields'[f].exception =
          IF f = s.on /\ s.field = "exception" THEN s.val ELSE fields[f].exception
    BY <1>1, <1>4, <1>5 DEF MemoryOK, InMemory, Fields
  <2>2. \A r \in stores[u] : r \in stores'[u] \/ r = s
    BY <1>1, <1>4 DEF MemoryOK
  <2> QED BY <1>5, <1>6, <2>1, <2>2 DEF HasException, Own
<1>7. Persist
  BY <1>2, <1>3, <1>6 DEF Persist, Lasting
<1>8. Truthful' /\ InOrder'
  BY <1>1, <1>2, <1>3 DEF JInv, Truthful, InOrder, Fields
<1>9. OnceOnly'
  BY <1>2 DEF JInv, OnceOnly
<1>10. \A u \in Threads : Informed(u)'
  BY <1>2, <1>7, InformedStays
<1> QED BY <1>7, <1>8, <1>9, <1>10 DEF JInv

LEMMA BeginsKeepJ ==
  ASSUME JInv, IInv', MaxSettled = 1, NEW t \in Threads,
         \/ Begins(t)
         \/ \E f \in Coroutines : Run(t, f)
         \/ \E list \in Lists : BeginAll(t, "gather", list) \/ BeginAll(t, "first", list)
  PROVE  JInv' /\ Persist
<1> CallsOK
  BY DEF JInv, IInv, TypesOK
<1>1. ASSUME NEW op, NEW on, NEW arg, NEW at, Begin(t, op, on, arg, at),
             UNCHANGED <<cf, fields, stores, settled>>,
             at \in {"done?", "isDone", "gather", "first"}
      PROVE  JInv' /\ Persist
  <2>1. /\ OthersSame(t) /\ buffered' = buffered
        /\ call'[t] = [op |-> op, on |-> on, arg |-> arg, at |-> at, answer |-> Waiting]
    BY <1>1, CallBegins DEF OthersSame
  <2>2. call'[t].at = at /\ call'[t].answer = Waiting
    BY <2>1
  <2>3. Informed(t)'
    BY <1>1, <2>2 DEF Informed
  <2> QED BY <1>1, <2>1, <2>2, <2>3, QuietKeepsJ
<1>2. ASSUME NEW f \in Futures, NEW o \in Outcomes, BeginSet(t, f, o) PROVE JInv' /\ Persist
  <2>1. Begin(t, "set", f, o, "complete") /\ UNCHANGED <<cf, fields, stores>>
    BY <1>2 DEF BeginSet
  <2>2. /\ OthersSame(t) /\ buffered' = buffered
        /\ call'[t] = [op |-> "set", on |-> f, arg |-> o, at |-> "complete", answer |-> Waiting]
    BY <2>1, CallBegins DEF OthersSame
  <2>3. /\ settled \in [Futures -> 0..1] /\ f \notin Coroutines /\ settled[f] = 0
        /\ settled' = [settled EXCEPT ![f] = 1]
    <3>1. settled \in [Futures -> 0..1]
      BY DEF JInv, IInv, TypesOK
    <3>2. /\ settled[f] < 1 /\ f \notin Coroutines
          /\ settled' = [settled EXCEPT ![f] = settled[f] + 1]
      BY <1>2, Zenon DEF BeginSet
    <3>3. settled[f] \in 0..1
      BY <3>1
    <3>4. settled[f] = 0
      BY <3>2, <3>3
    <3> QED BY <3>1, <3>2, <3>4
  <2>4. cf[f] = Pending /\ \A u \in Threads : call[u].at = "complete" => call[u].on # f
    BY <2>3 DEF JInv, OnceOnly
  <2>5. OnceOnly'
    <3>1. \A g \in Futures : settled'[g] = IF g = f THEN 1 ELSE settled[g]
      BY <2>3
    <3>2. \A g \in Futures \ Coroutines : settled'[g] = 0 => cf'[g] = Pending
      BY <2>1, <3>1 DEF JInv, OnceOnly
    <3>3. \A u \in Threads \ {t} : call'[u] = call[u]
      BY <2>2 DEF OthersSame
    <3>4. ASSUME NEW u \in Threads, call'[u].at = "complete"
          PROVE  /\ cf'[call'[u].on] = Pending /\ settled'[call'[u].on] = 1
                 /\ \A v \in Threads \ {u} : call'[v].at = "complete" => call'[v].on # call'[u].on
      <4>1. CASE u = t
        BY <2>1, <2>2, <2>4, <3>1, <3>3, <4>1
      <4>2. CASE u # t
        <5>1. call'[u] = call[u] /\ call[u].on \in Futures
          BY <3>3, <3>4, <4>2 DEF JInv, IInv, Control, Sane
        <5> QED BY <2>1, <2>2, <2>4, <3>1, <3>3, <3>4, <5>1 DEF JInv, OnceOnly
      <4> QED BY <4>1, <4>2
    <3> QED BY <3>2, <3>4 DEF OnceOnly
  <2>6. Informed(t)'
    BY <2>2 DEF Informed
  <2> QED BY <2>1, <2>2, <2>5, <2>6, NothingWritten, StepKeepsJ
<1>3. ASSUME NEW f \in Futures, NEW timed \in BOOLEAN, BeginGet(t, f, timed) PROVE JInv' /\ Persist
  BY <1>1, <1>3 DEF BeginGet
<1>4. ASSUME NEW f \in Futures, BeginRepr(t, f) PROVE JInv' /\ Persist
  BY <1>1, <1>4 DEF BeginRepr
<1>5. ASSUME NEW f \in Coroutines, Run(t, f) PROVE JInv' /\ Persist
  BY <1>1, <1>5 DEF Run
<1>6. ASSUME NEW list \in Lists, NEW op \in {"gather", "first"}, BeginAll(t, op, list) PROVE JInv' /\ Persist
  BY <1>1, <1>6 DEF BeginAll
<1> QED BY <1>2, <1>3, <1>4, <1>5, <1>6 DEF Begins

LEMMA ExceptionIsTrue ==
  ASSUME JInv, NEW t \in Threads, NEW f \in Futures, HasException(t, f)
  PROVE  cf[f] = Error(Read(t, f, "exception"))
<1>1. Read(t, f, "exception") # Null
  <2>1. CASE Own(t, f, "exception") = {}
    BY <2>1 DEF HasException, Read
  <2>2. CASE Own(t, f, "exception") # {}
    <3>1. \A s \in Own(t, f, "exception") : s.val \in Errors
      BY DEF Own, JInv, IInv, TypesOK, MemoryOK, Stored
    <3> QED BY <2>2, <3>1, FuturesAssumption DEF Read
  <2> QED BY <2>1, <2>2
<1> QED BY <1>1, ReadIsSeen DEF JInv, Truthful

LEMMA LooksKeepJ ==
  ASSUME JInv, IInv', NEW t \in Threads,
         \/ ReadDone(t) \/ ReadException(t) \/ ThrowException(t) \/ ReturnResult(t)
         \/ GetCancelled(t) \/ TimeOut(t) \/ ReprDone(t) \/ Gather(t) \/ First(t)
  PROVE  JInv' /\ Persist
<1> DEFINE f == On(t)
<1>1. Sane(call[t]) /\ Informed(t) /\ cf \in [Futures -> Outcomes \cup {Pending}]
  BY DEF JInv, IInv, Control, TypesOK
<1>2. ASSUME ~buffered PROVE \A field : Read(t, f, field) = fields[f][field]
  BY <1>2 DEF JInv, InOrder, Read, Own
<1>3. ASSUME NEW at, GoTo(t, at), at # "complete", UNCHANGED <<cf, fields, stores, started, settled>>,
             \* what the new place needs
             at \notin {"this.value=", "this.done=", "done=true"}, call[t].answer = Waiting,
             at = "throw" => HasException(t, f),
             ~buffered /\ call[t].op = "get" =>
               (at = "exception?" => Cached(f)) /\ (at = "return" => CachedValue(f))
      PROVE  JInv' /\ Persist
  <2>1. /\ OthersSame(t) /\ call'[t].at = at /\ call'[t].op = call[t].op /\ call'[t].on = f
        /\ call'[t].answer = Waiting /\ buffered' = buffered
    BY <1>3, CallGoesOn DEF JInv, IInv, TypesOK, OthersSame, GoTo, On
  <2>2. Informed(t)'
    <3> HIDE DEF f
    <3> QED BY <1>3, <2>1 DEF Informed, HasException, Own, Cached, CachedValue
  <2> QED BY <1>3, <2>1, <2>2, QuietKeepsJ
<1>4. ASSUME NEW answer, End(t, answer), UNCHANGED <<cf, fields, stores, started, settled>>,
             call[t].op = "get" =>
               answer \in {TimedOut, Value(Null)} \/ (cf[f] # Pending /\ answer = cf[f])
      PROVE  JInv' /\ Persist
  <2>1. /\ OthersSame(t) /\ call'[t].at = "end" /\ call'[t].op = call[t].op /\ call'[t].on = f
        /\ call'[t].answer = answer /\ buffered' = buffered
    BY <1>4, CallEnds DEF JInv, IInv, TypesOK, OthersSame, End, On
  <2>2. Informed(t)'
    <3> HIDE DEF f
    <3> QED BY <1>4, <2>1 DEF Informed
  <2> QED BY <1>4, <2>1, <2>2, QuietKeepsJ
<1>5. call[t].op \in {"get", "repr"} => f \in Futures /\ fields[f].done \in BOOLEAN
  BY <1>1 DEF Sane, On, JInv, IInv, TypesOK, MemoryOK, InMemory
<1>6. ASSUME call[t].op \in {"get", "repr"}, HasException(t, f)
      PROVE  cf[f] = Error(Read(t, f, "exception"))
  BY <1>5, <1>6, ExceptionIsTrue
<1> HIDE DEF f
<1>7. CASE ReadDone(t)
  <2>1. call[t].at = "done?" /\ call[t].op = "get" /\ call[t].answer = Waiting
    BY <1>1, <1>7 DEF ReadDone, At, Sane
  <2>2. CASE Read(t, f, "done")
    <3>1. ~buffered => Cached(f)
      BY <1>2, <1>5, <2>1, <2>2 DEF JInv, InOrder
    <3>2. GoTo(t, "exception?") /\ UNCHANGED <<cf, fields, stores, started, settled>>
      BY <1>7, <2>2 DEF ReadDone, f
    <3> QED BY <1>3, <2>1, <3>1, <3>2
  <2>3. CASE ~Read(t, f, "done")
    <3>1. GoTo(t, "future.get") /\ UNCHANGED <<cf, fields, stores, started, settled>>
      BY <1>7, <2>3 DEF ReadDone, f
    <3> QED BY <1>3, <2>1, <3>1
  <2> QED BY <2>2, <2>3
<1>8. CASE ReadException(t)
  <2>1. call[t].at = "exception?" /\ call[t].op \in {"get", "repr"} /\ call[t].answer = Waiting
    BY <1>1, <1>8 DEF ReadException, At, Sane
  <2>2. CASE Read(t, f, "exception") # Null
    <3>1. HasException(t, f)
      BY <2>2 DEF Read, HasException
    <3>2. GoTo(t, "throw") /\ UNCHANGED <<cf, fields, stores, started, settled>>
      BY <1>8, <2>2 DEF ReadException, f
    <3> QED BY <1>3, <2>1, <3>1, <3>2
  <2>3. CASE Read(t, f, "exception") = Null
    <3>1. ~buffered /\ call[t].op = "get" => CachedValue(f)
      <4>1. SUFFICES ASSUME ~buffered, call[t].op = "get" PROVE CachedValue(f)
        OBVIOUS
      <4>2. Cached(f) /\ fields[f].exception = Null
        BY <1>1, <1>2, <2>1, <2>3, <4>1 DEF Informed, f, On
      <4>3. cf[f] # Error(Null)
        BY <1>1, <1>5, <4>1, KindsDiffer, FuturesAssumption
      <4> QED BY <4>2, <4>3 DEF Cached
    <3>2. GoTo(t, "return") /\ UNCHANGED <<cf, fields, stores, started, settled>>
      BY <1>8, <2>3 DEF ReadException, f
    <3> QED BY <1>3, <2>1, <3>1, <3>2
  <2> QED BY <2>2, <2>3
<1>9. CASE ThrowException(t)
  <2>1. call[t].at = "throw" /\ call[t].op \in {"get", "repr"}
    BY <1>1, <1>9 DEF ThrowException, At, Sane
  <2>2. cf[f] = Error(Read(t, f, "exception"))
    BY <1>1, <1>6, <2>1 DEF Informed, f, On
  <2>3. End(t, cf[f]) /\ UNCHANGED <<cf, fields, stores, started, settled>>
    BY <1>9, <2>2 DEF ThrowException, f
  <2> QED BY <1>4, <2>2, <2>3, KindsDiffer
<1>10. CASE ReturnResult(t)
  <2>1. call[t].at = "return" /\ call[t].op \in {"get", "repr"}
    BY <1>1, <1>10 DEF ReturnResult, At, Sane
  <2> DEFINE x == Read(t, f, "result")
  <2>2. x = Null \/ cf[f] = Value(x)
    BY <1>5, <2>1, ReadIsSeen DEF JInv, Truthful
  <2>3. End(t, Value(x)) /\ UNCHANGED <<cf, fields, stores, started, settled>>
    BY <1>10 DEF ReturnResult, f
  <2> HIDE DEF x
  <2> QED BY <1>4, <2>2, <2>3, KindsDiffer
<1>11. CASE GetCancelled(t)
  BY <1>4, <1>11, KindsDiffer DEF GetCancelled, f
<1>12. CASE TimeOut(t)
  BY <1>4, <1>12 DEF TimeOut
<1>13. CASE ReprDone(t)
  <2>1. call[t].op = "repr" /\ call[t].answer = Waiting
    BY <1>1, <1>13 DEF ReprDone, At, Sane
  <2>2. CASE IsDone(t)
    BY <1>3, <1>13, <2>1, <2>2 DEF ReprDone
  <2>3. CASE ~IsDone(t)
    BY <1>4, <1>13, <2>1, <2>3 DEF ReprDone
  <2> QED BY <2>2, <2>3
<1>14. CASE Gather(t) \/ First(t)
  <2>1. call[t].op # "get"
    BY <1>1, <1>14 DEF Gather, First, At, Sane
  <2>2. PICK answer : End(t, answer)
    BY <1>14 DEF Gather, First
  <2>3. UNCHANGED <<cf, fields, stores, started, settled>>
    BY <1>14 DEF Gather, First
  <2> QED BY <1>4, <2>1, <2>2, <2>3
<1> QED BY <1>7, <1>8, <1>9, <1>10, <1>11, <1>12, <1>13, <1>14

LEMMA WrittenIsThere ==
  ASSUME MemoryOK, NEW t \in Threads, NEW f \in Futures, NEW field \in Fields, NEW val,
         [on |-> f, field |-> field, val |-> val] \in Stored, Write(t, f, field, val)
  PROVE  /\ ~buffered => fields'[f][field] = val
         /\ field = "exception" => HasException(t, f)'
<1>1. ~buffered => fields'[f][field] = val
  BY WhatIsWritten DEF MemoryOK, InMemory, Fields
<1>2. field = "exception" => val # Null
  BY FuturesAssumption DEF Stored
<1>3. buffered => [on |-> f, field |-> field, val |-> val] \in stores'[t]
  BY DEF Write, MemoryOK
<1> QED BY <1>1, <1>2, <1>3 DEF HasException, Own

LEMMA WriteKeepsJ ==
  ASSUME JInv, IInv', NEW t \in Threads, NEW f \in Futures, f = On(t),
         NEW field \in Fields, NEW val, NEW at,
         [on |-> f, field |-> field, val |-> val] \in Stored, Write(t, f, field, val),
         field = "result" => cf[f] = Value(val),
         field = "exception" => cf[f] = Error(val),
         ~buffered /\ field = "done" => Cached(f),
         UNCHANGED <<buffered, cf, started, settled>>, OthersSame(t),
         call'[t].at = at, call'[t].op = call[t].op, call'[t].on = f,
         call'[t].answer = Waiting \/ call'[t].op # "get",
         at \in {"done=true", "return", "throw", "this.done=", "end"},
         at = "throw" => field = "exception",
         at = "this.done=" => field \in {"result", "exception"} /\ call[t].op # "get",
         at = "done=true" => field = "result",
         at = "return" /\ ~buffered => CachedValue(f)
  PROVE  JInv' /\ Persist
<1>1. MemoryOK
  BY DEF JInv, IInv, TypesOK
<1>2. Persist /\ Truthful' /\ InOrder'
  BY Written
<1>3. OnceOnly'
  BY OnceStays
<1>4. /\ ~buffered => fields'[f][field] = val
      /\ field = "exception" => HasException(t, f)'
  BY <1>1, WrittenIsThere
<1>5. ~buffered /\ field = "result" => CachedValue(f)'
  BY <1>4 DEF CachedValue
<1>6. ~buffered /\ field = "exception" => Cached(f)'
  BY <1>4 DEF Cached
<1>7. ~buffered /\ at = "return" => CachedValue(f)'
  BY <1>2 DEF Persist
<1>8. ~buffered /\ at = "this.done=" => Cached(f)'
  BY <1>5, <1>6 DEF Cached
<1>9. ~buffered /\ at = "done=true" => CachedValue(f)'
  BY <1>5
<1>10. Informed(t)'
  BY <1>4, <1>7, <1>8, <1>9 DEF Informed
<1> QED BY <1>2, <1>3, <1>10, StepKeepsJ

LEMMA WritesKeepJ ==
  ASSUME JInv, IInv', NEW t \in Threads,
         GetValue(t) \/ SetDone(t) \/ GetError(t) \/ StoreOutcome(t) \/ StoreDone(t)
  PROVE  JInv' /\ Persist
<1> DEFINE f == On(t)
<1>1. /\ Sane(call[t]) /\ Informed(t) /\ cf \in [Futures -> Outcomes \cup {Pending}]
      /\ MemoryOK /\ CallsOK
  BY DEF JInv, IInv, Control, TypesOK
<1>2. ASSUME NEW at, GoTo(t, at), call[t].answer = Waiting
      PROVE  /\ OthersSame(t) /\ call'[t].at = at /\ call'[t].op = call[t].op
             /\ call'[t].on = f /\ call'[t].answer = Waiting /\ buffered' = buffered
  BY <1>1, <1>2, CallGoesOn DEF OthersSame, GoTo, On
<1>3. ASSUME End(t, NoAnswer)
      PROVE  /\ OthersSame(t) /\ call'[t].at = "end" /\ call'[t].op = call[t].op
             /\ call'[t].on = f /\ buffered' = buffered
  BY <1>1, <1>3, CallEnds DEF OthersSame, End, On
<1>4. f = On(t)
  OBVIOUS
<1> HIDE DEF f
<1>5. CASE GetValue(t)
  <2>1. f \in Futures /\ call[t].at = "future.get" /\ call[t].answer = Waiting
    BY <1>1, <1>5 DEF GetValue, At, On, Sane, f
  <2>2. cf[f] = Value(cf[f].of) /\ cf[f].of \in Values
    BY <1>1, <1>5, <2>1, KindsDiffer DEF GetValue, f
  <2>3. [on |-> f, field |-> "result", val |-> cf[f].of] \in Stored
    BY <2>1, <2>2 DEF Stored
  <2>4. Write(t, f, "result", cf[f].of) /\ UNCHANGED <<cf, started, settled>>
    BY <1>5 DEF GetValue, f
  <2>5. GoTo(t, "done=true")
    BY <1>5 DEF GetValue
  <2> QED BY <1>2, <1>4, <2>1, <2>2, <2>3, <2>4, <2>5, WriteKeepsJ DEF Fields
<1>6. CASE SetDone(t)
  <2>1. /\ f \in Futures /\ call[t].at = "done=true"
        /\ call[t].op = "get" /\ call[t].answer = Waiting
    BY <1>1, <1>6 DEF SetDone, At, On, Sane, f
  <2>2. ~buffered => CachedValue(f) /\ Cached(f)
    BY <1>1, <2>1 DEF Informed, Cached, f, On
  <2>3. [on |-> f, field |-> "done", val |-> TRUE] \in Stored
    BY <2>1 DEF Stored
  <2>4. Write(t, f, "done", TRUE) /\ UNCHANGED <<cf, started, settled>>
    BY <1>6 DEF SetDone, f
  <2>5. GoTo(t, "return")
    BY <1>6 DEF SetDone
  <2>6. /\ OthersSame(t) /\ call'[t].at = "return" /\ call'[t].op = call[t].op
        /\ call'[t].on = f /\ call'[t].answer = Waiting /\ buffered' = buffered
    BY <1>2, <2>1, <2>5
  <2> QED BY <1>4, <2>1, <2>2, <2>3, <2>4, <2>6, WriteKeepsJ DEF Fields
<1>7. CASE GetError(t)
  <2>1. f \in Futures /\ call[t].at = "future.get" /\ call[t].answer = Waiting
    BY <1>1, <1>7 DEF GetError, At, On, Sane, f
  <2>2. cf[f] = Error(cf[f].of) /\ cf[f].of \in Errors
    BY <1>1, <1>7, <2>1, KindsDiffer DEF GetError, f
  <2>3. [on |-> f, field |-> "exception", val |-> cf[f].of] \in Stored
    BY <2>1, <2>2 DEF Stored
  <2>4. Write(t, f, "exception", cf[f].of) /\ UNCHANGED <<cf, started, settled>>
    BY <1>7 DEF GetError, f
  <2>5. GoTo(t, "throw")
    BY <1>7 DEF GetError
  <2> QED BY <1>2, <1>4, <2>1, <2>2, <2>3, <2>4, <2>5, WriteKeepsJ DEF Fields
<1>8. CASE StoreOutcome(t)
  <2> DEFINE o == call[t].arg
             field == IF o.kind = "value" THEN "result" ELSE "exception"
  <2>1. /\ f \in Futures /\ call[t].at = "this.value=" /\ call[t].op = "set"
        /\ call[t].answer = Waiting /\ o \in Outcomes \ {Cancelled}
    BY <1>1, <1>8 DEF StoreOutcome, At, On, Sane, f
  <2>2. cf[f] = o
    BY <1>1, <2>1 DEF Informed, f, On
  <2>3. /\ o.kind = "value" => o = Value(o.of) /\ o.of \in Values
        /\ o.kind # "value" => o = Error(o.of) /\ o.of \in Errors
    BY <2>1, KindsDiffer
  <2>4. [on |-> f, field |-> field, val |-> o.of] \in Stored
    BY <2>1, <2>3 DEF Stored
  <2>5. Write(t, f, field, o.of) /\ UNCHANGED <<cf, started, settled>>
    BY <1>8 DEF StoreOutcome, f
  <2>6. field \in {"result", "exception"} /\ field \in Fields /\ field # "done"
    BY DEF Fields
  <2>7. field = "result" => cf[f] = Value(o.of)
    BY <2>2, <2>3
  <2>8. field = "exception" => cf[f] = Error(o.of)
    BY <2>2, <2>3
  <2>9. GoTo(t, "this.done=")
    BY <1>8 DEF StoreOutcome
  <2>10. /\ OthersSame(t) /\ call'[t].at = "this.done=" /\ call'[t].op = call[t].op
         /\ call'[t].on = f /\ call'[t].answer = Waiting /\ buffered' = buffered
    BY <1>2, <2>1, <2>9
  <2> HIDE DEF o, field
  <2> QED BY <1>4, <2>1, <2>4, <2>5, <2>6, <2>7, <2>8, <2>10, WriteKeepsJ
<1>9. CASE StoreDone(t)
  <2>1. f \in Futures /\ call[t].at = "this.done=" /\ call[t].op = "set"
    BY <1>1, <1>9 DEF StoreDone, At, On, Sane, f
  <2>2. ~buffered => Cached(f)
    BY <1>1, <2>1 DEF Informed, f, On
  <2>3. [on |-> f, field |-> "done", val |-> TRUE] \in Stored
    BY <2>1 DEF Stored
  <2>4. Write(t, f, "done", TRUE) /\ UNCHANGED <<cf, started, settled>>
    BY <1>9 DEF StoreDone, f
  <2>5. End(t, NoAnswer)
    BY <1>9 DEF StoreDone
  <2> QED BY <1>3, <1>4, <2>1, <2>2, <2>3, <2>4, <2>5, WriteKeepsJ DEF Fields
<1> QED BY <1>5, <1>6, <1>7, <1>8, <1>9

LEMMA CompleteFutureKeepsJ ==
  ASSUME JInv, IInv', NEW t \in Threads, CompleteFuture(t)
  PROVE  JInv' /\ Persist
<1> DEFINE f == On(t)
           o == call[t].arg
<1>1. /\ f \in Futures \ Coroutines /\ o \in Outcomes
      /\ call[t].at = "complete" /\ call[t].op = "set" /\ CallsOK
      /\ cf[f] = Pending /\ settled[f] = 1
      /\ \A u \in Threads \ {t} : call[u].at = "complete" => call[u].on # f
  BY DEF CompleteFuture, At, On, JInv, IInv, TypesOK, Control, Sane, OnceOnly
<1>2. Complete(f, o) /\ UNCHANGED <<fields, stores, started, settled>>
  BY DEF CompleteFuture
<1>3. /\ OthersSame(t) /\ buffered' = buffered /\ call'[t].op = "set" /\ call'[t].on = f
      /\ call'[t].arg = o /\ call'[t].at \in {"end", "this.value="}
  BY <1>1, CallGoesOn, CallEnds DEF CompleteFuture, OthersSame, On, GoTo, End
<1> HIDE DEF f, o
<1>4. cf'[f] = o /\ \A g \in Futures \ {f} : cf'[g] = cf[g]
  BY <1>1, <1>2, CompletionLasts DEF JInv
<1>5. OnceOnly'
  <2>1. \A g \in Futures \ Coroutines : settled'[g] = 0 => cf'[g] = Pending
    BY <1>1, <1>2, <1>4 DEF JInv, OnceOnly
  <2>2. \A u \in Threads : call'[u].at = "complete" =>
          u # t /\ call'[u] = call[u] /\ call[u].on \in Futures \ {f}
    BY <1>1, <1>3 DEF OthersSame, JInv, IInv, Control, Sane
  <2> QED BY <1>2, <1>4, <2>1, <2>2 DEF JInv, OnceOnly
<1>6. Informed(t)'
  BY <1>3, <1>4 DEF Informed
<1>7. Persist /\ Truthful' /\ InOrder'
  BY <1>1, <1>2, <1>3, Completed
<1> QED BY <1>3, <1>5, <1>6, <1>7, StepKeepsJ

LEMMA EndCoroutineKeepsJ ==
  ASSUME JInv, IInv', NEW f \in Coroutines, EndCoroutine(f)
  PROVE  JInv' /\ Persist
<1>1. PICK o \in Outcomes : Complete(f, o)
  BY DEF EndCoroutine
<1>2. UNCHANGED <<buffered, fields, stores, settled, call>> /\ f \in Futures
  BY FuturesAssumption DEF EndCoroutine
<1>3. \A g \in Futures \ {f} : cf'[g] = cf[g]
  BY <1>1, <1>2, CompletionLasts DEF JInv
<1>4. Persist /\ Truthful' /\ InOrder'
  BY <1>1, <1>2, Completed
<1>5. OnceOnly'
  <2>1. \A t \in Threads : call[t].at = "complete" => call[t].on \in Futures \ Coroutines
    BY DEF JInv, IInv, Control, Sane
  <2> QED BY <1>2, <1>3, <2>1 DEF JInv, OnceOnly
<1>6. \A t \in Threads : Informed(t)'
  BY <1>2, <1>4, InformedStays
<1> QED BY <1>4, <1>5, <1>6 DEF JInv

-----------------------------------------------------------------------------
(* The invariant holds in all reachable states. *)

LEMMA InitJInv == Init => JInv
<1> SUFFICES ASSUME Init PROVE JInv
  OBVIOUS
<1>1. IInv
  BY InitIInv
<1> DEFINE Given(given, f) == IF f \in Coroutines THEN Pending ELSE given[f]
<1>2. PICK given \in [Futures \ Coroutines -> {Pending} \cup {Value(v) : v \in Values}] :
        /\ cf = [f \in Futures |-> Given(given, f)]
        /\ fields = [f \in Futures |-> [result |-> Given(given, f).of, exception |-> Null,
                                        done |-> Given(given, f) # Pending]]
        /\ settled = [f \in Futures |-> IF Given(given, f) = Pending THEN 0 ELSE 1]
  BY Zenon DEF Init
<1>3. stores = [t \in Threads |-> {}] /\ call = [t \in Threads |-> NoCall]
  BY DEF Init
<1>4. ASSUME NEW f \in Futures
      PROVE  Given(given, f) = Pending \/ Given(given, f) = Value(Given(given, f).of)
  <2>1. CASE f \in Coroutines
    BY <2>1
  <2>2. CASE f \notin Coroutines
    <3>1. given[f] \in {Pending} \cup {Value(v) : v \in Values}
      BY <2>2
    <3>2. given[f] = Pending \/ given[f] = Value(given[f].of)
      BY <3>1 DEF Value
    <3> QED BY <2>2, <3>2
  <2> QED BY <2>1, <2>2
<1>5. Pending.of = Null
  BY DEF Pending
<1> HIDE DEF Given
<1>6. \A f \in Futures : /\ fields[f].exception = Null /\ fields[f].result = cf[f].of
                         /\ cf[f] = Pending \/ cf[f] = Value(cf[f].of)
                         /\ settled[f] = 0 => cf[f] = Pending
                         /\ fields[f].done => cf[f] # Pending
  <2> SUFFICES ASSUME NEW f \in Futures
               PROVE  /\ fields[f].exception = Null /\ fields[f].result = cf[f].of
                      /\ cf[f] = Pending \/ cf[f] = Value(cf[f].of)
                      /\ settled[f] = 0 => cf[f] = Pending
                      /\ fields[f].done => cf[f] # Pending
    OBVIOUS
  <2>1. cf[f] = Given(given, f)
    BY <1>2
  <2>2. settled[f] = IF cf[f] = Pending THEN 0 ELSE 1
    BY <1>2, <2>1
  <2>3. fields[f] = [result |-> cf[f].of, exception |-> Null, done |-> cf[f] # Pending]
    BY <1>2, <2>1, Zenon
  <2>4. cf[f] = Pending => ~fields[f].done
    <3>1. cf[f] = Pending => (cf[f] # Pending) = FALSE
      OBVIOUS
    <3>2. cf[f] = Pending =>
            fields[f] = [result |-> cf[f].of, exception |-> Null, done |-> FALSE]
      BY <2>3, <3>1, Zenon
    <3> QED BY <3>2
  <2>5. fields[f].exception = Null /\ fields[f].result = cf[f].of
    BY <2>3
  <2>6. cf[f] = Pending \/ cf[f] = Value(cf[f].of)
    BY <1>4, <2>1
  <2> QED BY <2>2, <2>4, <2>5, <2>6
<1>7. OnceOnly
  BY <1>3, <1>6 DEF OnceOnly, NoCall
<1>8. Truthful
  BY <1>3, <1>5, <1>6 DEF Truthful, Seen
<1>9. InOrder
  BY <1>3, <1>6 DEF InOrder, Cached, CachedValue
<1>10. \A t \in Threads : Informed(t)
  BY <1>3 DEF Informed, NoCall
<1> QED BY <1>1, <1>7, <1>8, <1>9, <1>10 DEF JInv

LEMMA NextJInv ==
  ASSUME MaxSettled = 1
  PROVE  JInv /\ [Next]_vars => JInv' /\ Persist
<1> SUFFICES ASSUME JInv, [Next]_vars PROVE JInv' /\ Persist
  OBVIOUS
<1>1. IInv'
  BY NextIInv DEF JInv
<1>2. CASE UNCHANGED vars
  <2>1. Persist /\ Truthful' /\ InOrder' /\ call' = call
    BY <1>2, NothingWritten DEF vars
  <2>2. OnceOnly'
    BY <1>2 DEF vars, JInv, OnceOnly
  <2> QED BY <1>1, <2>1, <2>2, InformedStays DEF JInv
<1>3. ASSUME NEW t \in Threads,
             \/ Begins(t) \/ ThreadStep(t) \/ TimeOut(t) \/ BecomeVisible(t)
             \/ \E f \in Coroutines : Run(t, f)
             \/ \E list \in Lists : BeginAll(t, "gather", list) \/ BeginAll(t, "first", list)
      PROVE  JInv' /\ Persist
  BY <1>1, <1>3, BeginsKeepJ, LooksKeepJ, WritesKeepJ, CompleteFutureKeepsJ, VisibleKeepsJ
     DEF ThreadStep, Steps
<1>4. ASSUME NEW f \in Coroutines, EndCoroutine(f) PROVE JInv' /\ Persist
  BY <1>1, <1>4, EndCoroutineKeepsJ
<1> QED BY <1>2, <1>3, <1>4 DEF Next

LEMMA AlwaysJInv ==
  ASSUME MaxSettled = 1
  PROVE  Spec => []JInv
<1>1. JInv /\ [Next]_vars => JInv'
  BY NextJInv
<1> QED BY InitJInv, <1>1, PTL DEF Spec

(* If futures are completed once, no order in which writes become visible  *)
(* to other threads makes get deliver anything but the outcome of the      *)
(* future or null, or give up when it was told to ($Future.get).           *)
THEOREM GetsNeverInvent ==
  ASSUME MaxSettled = 1
  PROVE  Spec => []GetsInventNothing
<1>1. JInv => GetsInventNothing
  BY DEF JInv, Informed, GetsInventNothing, On
<1> QED BY <1>1, AlwaysJInv, PTL

-----------------------------------------------------------------------------
(* What a Promise sees of a step *)

Asked == [t \in Threads |-> Asking(call[t])]

LEMMA SeenByPromise ==
  ASSUME NEW t \in Threads, OthersSame(t), buffered' = buffered
  PROVE  Asked' = [Asked EXCEPT ![t] = Asking(call[t])']
<1>1. \A u \in Threads \ {t} : Asking(call[u])' = Asking(call[u])
  BY DEF OthersSame, Asking
<1> QED BY <1>1 DEF Asked

LEMMA NothingSeen ==
  ASSUME JInv, NEW t \in Threads, OthersSame(t), buffered' = buffered, cf' = cf,
         Asking(call[t])' = Asking(call[t])
  PROVE  UNCHANGED P!vars
<1>1. Asked' = [Asked EXCEPT ![t] = Asked[t]]
  BY SeenByPromise DEF Asked
<1>2. Asked' = Asked
  BY <1>1 DEF Asked
<1> QED BY <1>2 DEF P!vars, Asked

LEMMA GoingOnIsUnseen ==
  ASSUME JInv, NEW t \in Threads, NEW at, GoTo(t, at), cf' = cf
  PROVE  UNCHANGED P!vars
<1>1. /\ OthersSame(t) /\ buffered' = buffered /\ call'[t].op = call[t].op
      /\ call'[t].on = call[t].on /\ call'[t].arg = call[t].arg /\ call'[t].answer = call[t].answer
  BY CallGoesOn DEF JInv, IInv, TypesOK, OthersSame, GoTo
<1> QED BY <1>1, NothingSeen DEF Asking

LEMMA EndOfOthersIsUnseen ==
  ASSUME JInv, NEW t \in Threads, NEW answer, End(t, answer), cf' = cf,
         call[t].op # "get" \/ buffered
  PROVE  UNCHANGED P!vars
<1>1. OthersSame(t) /\ buffered' = buffered /\ call'[t].op = call[t].op
  BY CallEnds DEF JInv, IInv, TypesOK, OthersSame, End
<1> QED BY <1>1, NothingSeen DEF Asking

LEMMA EndOfGetIsSeen ==
  ASSUME JInv, NEW t \in Threads, NEW answer, End(t, answer), call[t].op = "get", ~buffered
  PROVE  Asked' = [Asked EXCEPT ![t].answer = answer]
<1>1. /\ OthersSame(t) /\ buffered' = buffered /\ call'[t].op = call[t].op
      /\ call'[t].on = call[t].on /\ call'[t].arg = call[t].arg /\ call'[t].answer = answer
  BY CallEnds DEF JInv, IInv, TypesOK, OthersSame, End
<1>2. Asked[t] = [on |-> call[t].on, timed |-> call[t].arg, answer |-> call[t].answer]
  BY DEF Asked, Asking
<1>3. Asking(call[t])' = [Asked[t] EXCEPT !.answer = answer]
  BY <1>1, <1>2 DEF Asking
<1> QED BY <1>1, <1>3, SeenByPromise

LEMMA WaitingIsSeen ==
  ASSUME JInv, NEW t \in Threads
  PROVE  /\ call[t].at = "end" => ~P!IsWaiting(t)
         /\ call[t].at # "end" /\ call[t].op = "get" /\ ~buffered =>
              /\ P!IsWaiting(t)
              /\ Asked[t].on = call[t].on /\ Asked[t].timed = call[t].arg
<1>1. Sane(call[t])
  BY DEF JInv, IInv, Control
<1>2. Asked[t] = Asking(call[t]) /\ (P!IsWaiting(t) <=> Asked[t].answer = Waiting)
  BY DEF Asked, P!IsWaiting
<1>3. call[t].at = "end" <=> call[t].answer # Waiting
  BY <1>1 DEF Sane
<1>4. NoQuestion.answer # Waiting
  BY KindsDiffer DEF NoQuestion
<1>5. CASE call[t].op = "get" /\ ~buffered
  <2>1. Asked[t] = [on |-> call[t].on, timed |-> call[t].arg, answer |-> call[t].answer]
    BY <1>2, <1>5 DEF Asking
  <2> QED BY <1>2, <1>3, <2>1
<1>6. CASE call[t].op # "get" \/ buffered
  BY <1>2, <1>4, <1>6 DEF Asking
<1> QED BY <1>5, <1>6

-----------------------------------------------------------------------------
(* Every step is one of Promise or none. *)

LEMMA AnswersArePromised ==
  ASSUME JInv, NEW t \in Threads, NEW answer, End(t, answer), cf' = cf,
         call[t].at # "end", call[t].op = "get", ~buffered,
         \/ cf[call[t].on] # Pending /\ answer = cf[call[t].on]
         \/ cf[call[t].on] = Pending /\ answer = TimedOut /\ call[t].arg = TRUE
  PROVE  P!Next
<1>1. Asked' = [Asked EXCEPT ![t].answer = answer]
  BY EndOfGetIsSeen
<1>2. P!IsWaiting(t) /\ Asked[t].on = call[t].on /\ Asked[t].timed = call[t].arg
  BY WaitingIsSeen
<1>3. CASE cf[call[t].on] # Pending
  <2>1. P!Answer(t)
    BY <1>1, <1>2, <1>3 DEF P!Answer, Asked
  <2> QED BY <2>1 DEF P!Next
<1>4. CASE cf[call[t].on] = Pending
  <2>1. P!GiveUp(t)
    BY <1>1, <1>2, <1>4 DEF P!GiveUp, Asked
  <2> QED BY <2>1 DEF P!Next
<1> QED BY <1>3, <1>4

LEMMA BeginsArePromised ==
  ASSUME JInv, NEW t \in Threads, NEW op, NEW on, NEW arg, NEW at, Begin(t, op, on, arg, at),
         op = "get" => on \in Futures /\ arg \in BOOLEAN, cf' = cf
  PROVE  P!Next
<1> call[t].at = "end"
  BY DEF Begin
<1>1. /\ OthersSame(t) /\ buffered' = buffered
      /\ call'[t] = [op |-> op, on |-> on, arg |-> arg, at |-> at, answer |-> Waiting]
  BY CallBegins DEF JInv, IInv, TypesOK, OthersSame
<1>2. ~P!IsWaiting(t)
  BY <1>1, WaitingIsSeen
<1>3. Asked' = [Asked EXCEPT ![t] = Asking(call[t])']
  BY <1>1, SeenByPromise
<1>4. CASE op = "get" /\ ~buffered
  <2>1. Asking(call[t])' = P!Question(on, arg)
    BY <1>1, <1>4 DEF Asking, P!Question
  <2>2. P!Ask(t, on, arg)
    BY <1>2, <1>3, <2>1 DEF P!Ask, Asked
  <2> QED BY <1>4, <2>2 DEF P!Next
<1>5. CASE op # "get" \/ buffered
  <2>1. Asking(call[t])' = NoQuestion
    BY <1>1, <1>5 DEF Asking
  <2>2. P!Forget(t)
    BY <1>2, <1>3, <2>1 DEF P!Forget, Asked
  <2> QED BY <2>2 DEF P!Next
<1> QED BY <1>4, <1>5

LEMMA CompletionsArePromised ==
  ASSUME JInv, NEW f \in Futures, NEW o \in Outcomes, Complete(f, o), Asked' = Asked
  PROVE  [P!Next]_(P!vars)
<1>1. CASE cf[f] = Pending
  <2>1. cf' = [cf EXCEPT ![f] = o]
    BY <1>1 DEF Complete
  <2>2. P!Resolve(f, o)
    BY <1>1, <2>1 DEF P!Resolve, Asked
  <2> QED BY <2>2 DEF P!Next
<1>2. CASE cf[f] # Pending
  <2>1. cf' = cf
    BY <1>2 DEF Complete, JInv, IInv, TypesOK
  <2> QED BY <2>1 DEF P!vars, Asked
<1> QED BY <1>1, <1>2

LEMMA LooksArePromised ==
  ASSUME JInv, NEW t \in Threads,
         \/ ReadDone(t) \/ ReadException(t) \/ ThrowException(t) \/ ReturnResult(t)
         \/ GetCancelled(t) \/ TimeOut(t) \/ ReprDone(t) \/ Gather(t) \/ First(t)
  PROVE  [P!Next]_(P!vars)
<1> DEFINE f == On(t)
<1>1. Sane(call[t]) /\ Informed(t) /\ cf' = cf
  BY DEF JInv, IInv, Control, ReadDone, ReadException, ThrowException, ReturnResult,
         GetCancelled, TimeOut, ReprDone, Gather, First
<1>2. ASSUME NEW at, GoTo(t, at) PROVE [P!Next]_(P!vars)
  BY <1>1, <1>2, GoingOnIsUnseen
<1>3. ASSUME NEW answer, End(t, answer), call[t].at # "end",
             call[t].op = "get" /\ ~buffered =>
               \/ cf[f] # Pending /\ answer = cf[f]
               \/ cf[f] = Pending /\ answer = TimedOut /\ call[t].arg = TRUE
      PROVE  [P!Next]_(P!vars)
  BY <1>1, <1>3, EndOfOthersIsUnseen, AnswersArePromised DEF On
<1>4. CASE ReadDone(t) \/ ReadException(t)
  BY <1>2, <1>4 DEF ReadDone, ReadException
<1>5. CASE ThrowException(t)
  <2>1. call[t].at = "throw" /\ call[t].op \in {"get", "repr"} /\ f \in Futures
    BY <1>1, <1>5 DEF ThrowException, At, Sane, On
  <2>2. cf[f] = Error(Read(t, f, "exception"))
    BY <1>1, <2>1, ExceptionIsTrue DEF Informed, On
  <2> QED BY <1>3, <1>5, <2>1, <2>2, KindsDiffer DEF ThrowException
<1>6. CASE ReturnResult(t)
  <2>1. call[t].at = "return"
    BY <1>6 DEF ReturnResult, At
  <2>2. ASSUME call[t].op = "get", ~buffered PROVE cf[f] = Value(Read(t, f, "result"))
    <3>1. Read(t, f, "result") = fields[f].result
      BY <2>2 DEF JInv, InOrder, Read, Own
    <3> QED BY <1>1, <2>1, <2>2, <3>1 DEF Informed, CachedValue, On
  <2> QED BY <1>3, <1>6, <2>1, <2>2, KindsDiffer DEF ReturnResult
<1>7. CASE GetCancelled(t)
  BY <1>3, <1>7, KindsDiffer DEF GetCancelled, At
<1>8. CASE TimeOut(t)
  BY <1>3, <1>8 DEF TimeOut, At
<1>9. CASE ReprDone(t)
  <2>1. call[t].op = "repr" /\ call[t].at # "end"
    BY <1>1, <1>9 DEF ReprDone, At, Sane
  <2> QED BY <1>2, <1>3, <1>9, <2>1 DEF ReprDone
<1>10. CASE Gather(t) \/ First(t)
  <2>1. call[t].op # "get" /\ call[t].at # "end"
    BY <1>1, <1>10 DEF Gather, First, At, Sane
  <2>2. PICK answer : End(t, answer)
    BY <1>10 DEF Gather, First
  <2> QED BY <1>3, <2>1, <2>2
<1> QED BY <1>4, <1>5, <1>6, <1>7, <1>8, <1>9, <1>10

LEMMA WritesArePromised ==
  ASSUME JInv, NEW t \in Threads,
         GetValue(t) \/ SetDone(t) \/ GetError(t) \/ StoreOutcome(t) \/ StoreDone(t)
  PROVE  UNCHANGED P!vars
<1>1. cf' = cf /\ Sane(call[t])
  BY DEF GetValue, SetDone, GetError, StoreOutcome, StoreDone, JInv, IInv, Control
<1>2. CASE StoreDone(t)
  <2>1. call[t].op # "get" /\ End(t, NoAnswer)
    BY <1>1, <1>2 DEF StoreDone, At, Sane
  <2> QED BY <1>1, <2>1, EndOfOthersIsUnseen
<1>3. CASE ~StoreDone(t)
  <2>1. PICK at : GoTo(t, at)
    BY <1>3 DEF GetValue, SetDone, GetError, StoreOutcome
  <2> QED BY <1>1, <2>1, GoingOnIsUnseen
<1> QED BY <1>2, <1>3

LEMMA CompleteFutureIsPromised ==
  ASSUME JInv, NEW t \in Threads, CompleteFuture(t)
  PROVE  [P!Next]_(P!vars)
<1>1. /\ On(t) \in Futures /\ call[t].arg \in Outcomes /\ call[t].op = "set" /\ CallsOK
      /\ Complete(On(t), call[t].arg)
  BY DEF CompleteFuture, At, On, JInv, IInv, TypesOK, Control, Sane
<1>2. OthersSame(t) /\ buffered' = buffered /\ call'[t].op = "set"
  BY <1>1, CallGoesOn, CallEnds DEF CompleteFuture, OthersSame, GoTo, End
<1>3. Asking(call[t])' = Asked[t]
  BY <1>1, <1>2 DEF Asking, Asked
<1>4. Asked' = [Asked EXCEPT ![t] = Asked[t]]
  BY <1>2, <1>3, SeenByPromise
<1>5. Asked' = Asked
  BY <1>4 DEF Asked
<1> QED BY <1>1, <1>5, CompletionsArePromised

LEMMA NextIsPromised == JInv /\ [Next]_vars => [P!Next]_(P!vars)
<1> SUFFICES ASSUME JInv, [Next]_vars PROVE [P!Next]_(P!vars)
  OBVIOUS
<1>1. CASE UNCHANGED <<buffered, cf, call>>
  BY <1>1 DEF P!vars, Asking
<1>2. ASSUME NEW t \in Threads,
             \/ Begins(t) \/ (\E f \in Coroutines : Run(t, f))
             \/ \E list \in Lists : BeginAll(t, "gather", list) \/ BeginAll(t, "first", list)
      PROVE  P!Next
  <2>1. ASSUME NEW f \in Futures, NEW timed \in BOOLEAN, BeginGet(t, f, timed) PROVE P!Next
    BY <2>1, BeginsArePromised DEF BeginGet
  <2>2. ASSUME NEW f \in Futures, NEW o \in Outcomes, BeginSet(t, f, o) PROVE P!Next
    BY <2>2, BeginsArePromised DEF BeginSet
  <2>3. ASSUME NEW f \in Futures, BeginRepr(t, f) PROVE P!Next
    BY <2>3, BeginsArePromised DEF BeginRepr
  <2>4. ASSUME NEW f \in Coroutines, Run(t, f) PROVE P!Next
    BY <2>4, BeginsArePromised, FuturesAssumption DEF Run
  <2>5. ASSUME NEW list \in Lists, NEW op \in {"gather", "first"}, BeginAll(t, op, list)
        PROVE  P!Next
    BY <2>5, BeginsArePromised DEF BeginAll
  <2> QED BY <1>2, <2>1, <2>2, <2>3, <2>4, <2>5 DEF Begins
<1>3. ASSUME NEW f \in Coroutines, EndCoroutine(f) PROVE [P!Next]_(P!vars)
  <2>1. f \in Futures /\ Asked' = Asked /\ \E o \in Outcomes : Complete(f, o)
    BY <1>3, FuturesAssumption DEF EndCoroutine, Asked, Asking
  <2> QED BY <2>1, CompletionsArePromised
<1>4. ASSUME NEW t \in Threads, BecomeVisible(t) PROVE UNCHANGED <<buffered, cf, call>>
  BY <1>4 DEF BecomeVisible
<1> QED BY <1>1, <1>2, <1>3, <1>4, LooksArePromised, WritesArePromised, CompleteFutureIsPromised
        DEF Next, ThreadStep, Steps, vars

(* If futures are completed once, what threads ask of futures and are told *)
(* follows Promise step by step: a future gets one outcome, a get delivers *)
(* that outcome, and only a get with a timeout gives up, while there is    *)
(* none.  KeepsPromise adds that every get is answered.                    *)
THEOREM StepsKeepPromise ==
  ASSUME MaxSettled = 1
  PROVE  Spec => P!Init /\ [][P!Next]_(P!vars)
<1>1. Init => P!Init
  <2> SUFFICES ASSUME Init PROVE P!Init
    OBVIOUS
  <2>1. cf \in [Futures -> Outcomes \cup {Pending}]
    BY InitIInv DEF IInv, TypesOK
  <2>2. call = [t \in Threads |-> NoCall]
    BY DEF Init
  <2> QED BY <2>1, <2>2 DEF P!Init, Asking, NoCall
<1>2. JInv /\ [Next]_vars => [P!Next]_(P!vars)
  BY NextIsPromised
<1> QED BY <1>1, <1>2, AlwaysJInv, PTL DEF Spec

-----------------------------------------------------------------------------
(* What a thread has learned from its earlier calls *)

Delivered(c) == c.op = "get" /\ c.answer \in Outcomes \ {Cancelled}

ShownDone(c) == c.op = "repr" /\ c.answer \notin {Pending, Waiting}

(* What is known of a future because of a call *)
Known(c) ==
  /\ c.op \in {"get", "repr"} => c.on \in Futures
  /\ Delivered(c) => cf[c.on] = c.answer /\ Cached(c.on)
  /\ ShownDone(c) => cf[c.on] # Pending

(* Where __repr__ relies on what it has read *)
ReprKnows(t) ==
  LET c == call[t] IN
  /\ c.op = "repr" /\ c.at \in {"exception?", "throw", "return"} => cf[c.on] # Pending
  /\ c.op = "repr" /\ c.at = "return" =>
       \A i \in DOMAIN past[t] :
         Delivered(past[t][i]) /\ past[t][i].on = c.on => CachedValue(c.on)

PastOK(t) ==
  LET p == past[t] IN
  /\ p \in Seq({p[i] : i \in DOMAIN p})
  /\ \A i \in DOMAIN p : Known(p[i]) /\ p[i].answer # Waiting
  /\ \A i, j \in DOMAIN p : i < j => Agree(p[i], p[j])

Remembers(t) ==
  /\ PastOK(t)
  /\ \A i \in DOMAIN past[t] : Agree(past[t][i], call[t])
  /\ Known(call[t])
  /\ ReprKnows(t)

PastsKept == past = [t \in Threads |-> past[t]]

KInv == JInv /\ PastsKept /\ (~buffered => \A t \in Threads : Remembers(t))

LEMMA KnownStays ==
  ASSUME Persist, ~buffered, NEW c, Known(c)
  PROVE  Known(c)'
<1>1. ASSUME Delivered(c) PROVE cf'[c.on] = c.answer /\ Cached(c.on)'
  <2>1. c.on \in Futures /\ cf[c.on] = c.answer /\ Cached(c.on)
    BY <1>1 DEF Known, Delivered
  <2>2. cf[c.on] # Pending
    BY <1>1, <2>1, KindsDiffer DEF Delivered
  <2> QED BY <2>1, <2>2 DEF Persist, Lasting
<1>2. ASSUME ShownDone(c) PROVE cf'[c.on] # Pending
  BY <1>2 DEF Known, ShownDone, Persist, Lasting
<1>3. c.op \in {"get", "repr"} => c.on \in Futures
  BY DEF Known
<1> QED BY <1>1, <1>2, <1>3 DEF Known, Delivered, ShownDone

LEMMA PastStays ==
  ASSUME Persist, ~buffered, NEW t \in Threads, PastOK(t), past'[t] = past[t]
  PROVE  PastOK(t)'
BY KnownStays DEF PastOK

LEMMA ReprKnowsOn ==
  ASSUME Persist, ~buffered, NEW t \in Threads, Known(call[t]), ReprKnows(t),
         past'[t] = past[t], call'[t] = call[t]
  PROVE  ReprKnows(t)'
<1> DEFINE c == call[t]
<1>1. c.op = "repr" => c.on \in Futures
  BY DEF Known
<1>2. c.op = "repr" /\ c.at \in {"exception?", "throw", "return"} => cf'[c.on] # Pending
  BY <1>1 DEF ReprKnows, Persist, Lasting
<1>3. ASSUME c.op = "repr", c.at = "return", NEW i \in DOMAIN past[t],
             Delivered(past[t][i]), past[t][i].on = c.on
      PROVE  CachedValue(c.on)'
  BY <1>1, <1>3 DEF ReprKnows, Persist
<1> QED BY <1>2, <1>3 DEF ReprKnows, Delivered

LEMMA OthersRemember ==
  ASSUME Persist, ~buffered, NEW t \in Threads, Remembers(t),
         past'[t] = past[t], call'[t] = call[t]
  PROVE  Remembers(t)'
<1>1. PastOK(t)' /\ Known(call[t])' /\ ReprKnows(t)'
  BY PastStays, KnownStays, ReprKnowsOn DEF Remembers
<1> QED BY <1>1 DEF Remembers, Agree

(* A call that begins knows nothing yet. *)
LEMMA BeginRemembers ==
  ASSUME JInv, Persist, ~buffered, NEW t \in Threads, Remembers(t),
         NEW op, NEW on, NEW arg, NEW at, Begin(t, op, on, arg, at),
         past = [u \in Threads |-> past[u]],
         op \in {"get", "repr"} => on \in Futures,
         at \notin {"exception?", "throw", "return"}
  PROVE  Remembers(t)'
<1> DEFINE p == past[t]
           q == past'[t]
           c == call'[t]
           S == {p[i] : i \in DOMAIN p}
<1>1. CallsOK /\ Sane(call[t]) /\ call[t].at = "end"
  BY DEF JInv, IInv, TypesOK, Control, Begin
<1>2. c = [op |-> op, on |-> on, arg |-> arg, at |-> at, answer |-> Waiting]
  BY <1>1, CallBegins
<1>3. call[t].answer # Waiting
  BY <1>1 DEF Sane
<1>4. p \in Seq(S) /\ q = Append(p, call[t])
  BY DEF Remembers, PastOK, Begin
<1>5. /\ q \in Seq(S \cup {call[t]}) /\ Len(p) \in Nat
      /\ DOMAIN p = 1..Len(p) /\ DOMAIN q = 1..(Len(p) + 1)
      /\ q[Len(p) + 1] = call[t] /\ \A i \in DOMAIN p : q[i] = p[i]
  <2> HIDE DEF S, p, q
  <2>1. p \in Seq(S \cup {call[t]})
    BY <1>4
  <2> QED BY <1>4, <2>1
<1>6. q \in Seq({q[i] : i \in DOMAIN q})
  <2>1. S \cup {call[t]} \subseteq {q[i] : i \in DOMAIN q}
    BY <1>5
  <2> HIDE DEF S, p, q
  <2> QED BY <1>5, <2>1
<1>7. \A i \in DOMAIN q : q[i] = call[t] \/ \E j \in DOMAIN p : j = i /\ q[i] = p[j]
  BY <1>5
<1>8. ASSUME NEW i \in DOMAIN q
      PROVE  \E b : b = q[i] /\ Known(b)' /\ b.answer # Waiting
  <2>1. PICK b : b = q[i]
    OBVIOUS
  <2>2. Known(b) /\ b.answer # Waiting
    BY <1>3, <1>7, <2>1 DEF Remembers, PastOK
  <2>3. Known(b)'
    BY <2>2, KnownStays
  <2> QED BY <2>1, <2>2, <2>3
<1>9. ASSUME NEW i \in DOMAIN q, NEW j \in DOMAIN q, i < j PROVE Agree(q[i], q[j])
  <2>1. i \in DOMAIN p /\ q[i] = p[i]
    BY <1>5, <1>9
  <2>2. CASE j \in DOMAIN p
    BY <1>5, <1>9, <2>1, <2>2 DEF Remembers, PastOK
  <2>3. CASE j \notin DOMAIN p
    <3>1. q[j] = call[t]
      BY <1>7, <2>3
    <3> QED BY <2>1, <3>1 DEF Remembers
  <2> QED BY <2>2, <2>3
<1>10. PastOK(t)'
  BY <1>6, <1>8, <1>9 DEF PastOK, Agree
<1>11. c.answer = Waiting /\ c.op = op /\ c.on = on /\ c.at = at
  BY <1>2
<1>12. \A d : Agree(d, c)
  BY <1>11, TimedOutDiffers DEF Agree
<1>13. Known(call[t])'
  BY <1>11, KindsDiffer DEF Known, Delivered, ShownDone
<1>14. ReprKnows(t)'
  BY <1>11 DEF ReprKnows
<1> QED BY <1>10, <1>12, <1>13, <1>14 DEF Remembers, Agree

LEMMA GoToRemembers ==
  ASSUME JInv, Persist, ~buffered, NEW t \in Threads, Remembers(t), NEW at, GoTo(t, at),
         ReprKnows(t)'
  PROVE  Remembers(t)'
<1>1. /\ past' = past /\ call'[t].op = call[t].op /\ call'[t].on = call[t].on
      /\ call'[t].answer = call[t].answer
  BY CallGoesOn DEF JInv, IInv, TypesOK, GoTo
<1>2. PastOK(t)' /\ Known(call[t])'
  <2>1. \A c, d : c.op = d.op /\ c.on = d.on /\ c.answer = d.answer /\ Known(c)' => Known(d)'
    BY DEF Known, Delivered, ShownDone
  <2>2. Known(call[t]) /\ PastOK(t)
    BY DEF Remembers
  <2> DEFINE c == call[t]
  <2>3. ASSUME NEW d, d.op = c.op, d.on = c.on, d.answer = c.answer PROVE Known(d)
    BY <2>2, <2>3 DEF Known, Delivered, ShownDone
  <2>4. Known(call'[t])
    BY <1>1, <2>3
  <2> QED BY <1>1, <2>2, <2>4, PastStays, KnownStays
<1>3. \A i \in DOMAIN past[t] : Agree(past[t][i], call'[t])
  BY <1>1 DEF Remembers, Agree
<1> QED BY <1>1, <1>2, <1>3 DEF Remembers, Agree

LEMMA EndRemembers ==
  ASSUME JInv, Persist, ~buffered, NEW t \in Threads, Remembers(t), NEW answer, End(t, answer),
         call[t].op = "get" =>
           /\ answer \in Outcomes \ {Cancelled} => cf[call[t].on] = answer /\ Cached(call[t].on)
           /\ answer = TimedOut => cf[call[t].on] = Pending,
         call[t].op = "repr" =>
           /\ answer # Pending => cf[call[t].on] # Pending
           /\ \A i \in DOMAIN past[t] :
                Delivered(past[t][i]) /\ past[t][i].on = call[t].on => answer = cf[call[t].on]
  PROVE  Remembers(t)'
<1>1. /\ past' = past /\ call'[t].op = call[t].op /\ call'[t].on = call[t].on
      /\ call'[t].answer = answer /\ call'[t].at = "end"
  BY CallEnds DEF JInv, IInv, TypesOK, End
<1> PICK c : c = call'[t]
  OBVIOUS
<1>2. Known(c)
  BY <1>1 DEF Remembers, Known, Delivered, ShownDone
<1>3. PastOK(t)' /\ Known(c)'
  BY <1>1, <1>2, PastStays, KnownStays DEF Remembers
<1>4. ASSUME NEW i \in DOMAIN past[t] PROVE Agree(past[t][i], c)
  <2> DEFINE b == past[t][i]
  <2>1. Known(b) /\ b.answer # Waiting
    BY DEF Remembers, PastOK
  <2>2. ASSUME b.op = "get", c.op = "repr", b.on = c.on, b.answer \in Outcomes \ {Cancelled}
        PROVE  c.answer = b.answer
    BY <1>1, <2>1, <2>2 DEF Known, Delivered
  <2>3. ASSUME b.op = "repr", c.op = "get", b.on = c.on, b.answer # Pending
        PROVE  c.answer # TimedOut
    BY <1>1, <2>1, <2>3 DEF Known, ShownDone
  <2> QED BY <2>2, <2>3 DEF Agree
<1>5. ReprKnows(t)'
  BY <1>1 DEF ReprKnows
<1> QED BY <1>1, <1>3, <1>4, <1>5 DEF Remembers, Agree

LEMMA OnlyOneMoves ==
  ASSUME PastsKept, NEW t \in Threads,
         \/ \E at : GoTo(t, at)
         \/ \E answer : End(t, answer)
         \/ \E op, on, arg, at : Begin(t, op, on, arg, at)
  PROVE  PastsKept' /\ \A u \in Threads \ {t} : past'[u] = past[u]
<1>1. CASE (\E at : GoTo(t, at)) \/ (\E answer : End(t, answer))
  BY <1>1 DEF GoTo, End, PastsKept
<1>2. CASE \E op, on, arg, at : Begin(t, op, on, arg, at)
  BY <1>2 DEF Begin, PastsKept
<1> QED BY <1>1, <1>2

LEMMA BeginsRemember ==
  ASSUME KInv, Persist, ~buffered, NEW t \in Threads,
         \/ Begins(t)
         \/ \E f \in Coroutines : Run(t, f)
         \/ \E list \in Lists : BeginAll(t, "gather", list) \/ BeginAll(t, "first", list)
  PROVE  Remembers(t)' /\ \E op, on, arg, at : Begin(t, op, on, arg, at)
<1> USE DEF KInv, PastsKept
<1>1. ASSUME NEW f \in Futures, NEW timed \in BOOLEAN, BeginGet(t, f, timed)
      PROVE  Remembers(t)' /\ Begin(t, "get", f, timed, "done?")
  BY <1>1, BeginRemembers DEF BeginGet
<1>2. ASSUME NEW f \in Futures, NEW o \in Outcomes, BeginSet(t, f, o)
      PROVE  Remembers(t)' /\ Begin(t, "set", f, o, "complete")
  BY <1>2, BeginRemembers DEF BeginSet
<1>3. ASSUME NEW f \in Futures, BeginRepr(t, f)
      PROVE  Remembers(t)' /\ Begin(t, "repr", f, Null, "isDone")
  BY <1>3, BeginRemembers DEF BeginRepr
<1>4. ASSUME NEW f \in Coroutines, Run(t, f)
      PROVE  Remembers(t)' /\ Begin(t, "get", f, FALSE, "done?")
  BY <1>4, BeginRemembers, FuturesAssumption DEF Run
<1>5. ASSUME NEW list \in Lists, NEW op \in {"gather", "first"}, BeginAll(t, op, list)
      PROVE  Remembers(t)' /\ Begin(t, op, list, Null, op)
  BY <1>5, BeginRemembers DEF BeginAll
<1> HIDE DEF KInv, PastsKept
<1> QED BY <1>1, <1>2, <1>3, <1>4, <1>5 DEF Begins

LEMMA LooksRemember ==
  ASSUME KInv, Persist, ~buffered, NEW t \in Threads,
         \/ ReadDone(t) \/ ReadException(t) \/ ThrowException(t) \/ ReturnResult(t)
         \/ GetCancelled(t) \/ TimeOut(t) \/ ReprDone(t) \/ Gather(t) \/ First(t)
  PROVE  Remembers(t)' /\ ((\E at : GoTo(t, at)) \/ (\E answer : End(t, answer)))
<1> DEFINE f == On(t)
           op == call[t].op
<1>1. /\ JInv /\ Remembers(t) /\ Sane(call[t]) /\ Informed(t) /\ f = call[t].on
      /\ CallsOK /\ cf \in [Futures -> Outcomes \cup {Pending}] /\ IInv
  BY DEF KInv, JInv, IInv, Control, TypesOK, On
<1>2. \A field : Read(t, f, field) = fields[f][field]
  BY <1>1 DEF JInv, InOrder, Read, Own
<1>3. op \in {"get", "repr"} => f \in Futures /\ cf[f] # Error(Null)
  BY <1>1, KindsDiffer, FuturesAssumption DEF Sane
<1>4. ASSUME NEW at, GoTo(t, at), UNCHANGED <<cf, fields>>,
             op = "repr" /\ at \in {"exception?", "throw", "return"} => cf[f] # Pending,
             op = "repr" /\ at = "return" =>
               \A i \in DOMAIN past[t] :
                 Delivered(past[t][i]) /\ past[t][i].on = f => CachedValue(f)
      PROVE  Remembers(t)' /\ ((\E x : GoTo(t, x)) \/ (\E answer : End(t, answer)))
  <2>1. past' = past /\ call'[t].op = op /\ call'[t].on = f /\ call'[t].at = at
    BY <1>1, <1>4, CallGoesOn DEF GoTo
  <2>2. ReprKnows(t)'
    <3> HIDE DEF f, op
    <3> QED BY <1>4, <2>1 DEF ReprKnows, CachedValue, Delivered
  <2> QED BY <1>1, <1>4, <2>2, GoToRemembers
<1>5. ASSUME NEW answer, End(t, answer),
             op = "get" =>
               \/ answer = Cancelled
               \/ answer = cf[f] /\ Cached(f) /\ answer # TimedOut
               \/ answer = TimedOut /\ cf[f] = Pending,
             op = "repr" =>
               /\ answer # Pending => cf[f] # Pending
               /\ \A i \in DOMAIN past[t] :
                    Delivered(past[t][i]) /\ past[t][i].on = f => answer = cf[f]
      PROVE  Remembers(t)' /\ ((\E at : GoTo(t, at)) \/ (\E x : End(t, x)))
  <2>1. Cancelled # TimedOut /\ TimedOut \notin Outcomes
    BY TimedOutDiffers DEF Outcomes
  <2>2. op = "get" =>
          /\ answer \in Outcomes \ {Cancelled} => cf[f] = answer /\ Cached(f)
          /\ answer = TimedOut => cf[f] = Pending
    BY <1>5, <2>1
  <2> HIDE DEF f
  <2>3. f = call[t].on
    BY <1>1
  <2> QED BY <1>1, <1>5, <2>2, <2>3, EndRemembers
<1>6. \A i \in DOMAIN past[t] :
        Delivered(past[t][i]) /\ past[t][i].on = f => cf[f] # Pending /\ Cached(f)
  BY <1>1, KindsDiffer DEF Remembers, PastOK, Known, Delivered
<1>7. op = "repr" =>
        /\ call[t].at \in {"exception?", "throw", "return"} => cf[f] # Pending
        /\ call[t].at = "return" =>
             \A i \in DOMAIN past[t] :
               Delivered(past[t][i]) /\ past[t][i].on = f => CachedValue(f)
  BY <1>1 DEF Remembers, ReprKnows
<1>8. \A x : Error(x) # TimedOut /\ Value(x) # TimedOut
  BY TimedOutDiffers
<1>9. f = On(t)
  OBVIOUS
<1> HIDE DEF f
<1>10. CASE ReadDone(t)
  <2>1. op = "get"
    BY <1>1, <1>10 DEF ReadDone, At, Sane
  <2>2. PICK at : GoTo(t, at)
    BY <1>10 DEF ReadDone
  <2>3. UNCHANGED <<cf, fields>>
    BY <1>10 DEF ReadDone
  <2> QED BY <1>4, <2>1, <2>2, <2>3
<1>11. CASE ReadException(t)
  <2>1. call[t].at = "exception?" /\ op \in {"get", "repr"} /\ UNCHANGED <<cf, fields>>
    BY <1>1, <1>11 DEF ReadException, At, Sane
  <2>2. CASE Read(t, f, "exception") # Null
    <3>1. GoTo(t, "throw")
      BY <1>9, <1>11, <2>2 DEF ReadException
    <3> QED BY <1>4, <1>7, <2>1, <3>1
  <2>3. CASE Read(t, f, "exception") = Null
    <3>1. GoTo(t, "return")
      BY <1>9, <1>11, <2>3 DEF ReadException
    <3>2. Cached(f) => CachedValue(f)
      BY <1>2, <1>3, <2>1, <2>3 DEF Cached
    <3> QED BY <1>4, <1>6, <1>7, <2>1, <3>1, <3>2
  <2> QED BY <2>2, <2>3
<1>12. CASE ThrowException(t)
  <2>1. call[t].at = "throw" /\ op \in {"get", "repr"} /\ f \in Futures
    BY <1>1, <1>3, <1>12 DEF ThrowException, At, Sane
  <2>2. cf[f] = Error(Read(t, f, "exception"))
    BY <1>1, <2>1, ExceptionIsTrue DEF Informed
  <2>3. Cached(f)
    BY <1>2, <2>2 DEF Cached
  <2>4. End(t, cf[f])
    BY <1>9, <1>12, <2>2 DEF ThrowException
  <2>5. cf[f] # TimedOut
    BY <1>8, <2>2
  <2> QED BY <1>5, <1>7, <2>1, <2>3, <2>4, <2>5
<1>13. CASE ReturnResult(t)
  <2>1. call[t].at = "return" /\ op \in {"get", "repr"}
    BY <1>1, <1>13 DEF ReturnResult, At, Sane
  <2>2. CachedValue(f) => cf[f] = Value(Read(t, f, "result")) /\ Cached(f)
    BY <1>2 DEF CachedValue, Cached
  <2>3. End(t, Value(Read(t, f, "result")))
    BY <1>9, <1>13 DEF ReturnResult
  <2>4. op = "get" => CachedValue(f)
    BY <1>1, <2>1 DEF Informed
  <2> QED BY <1>5, <1>7, <1>8, <2>1, <2>2, <2>3, <2>4
<1>14. CASE GetCancelled(t)
  <2>1. call[t].at = "future.get" /\ op = "get" /\ End(t, Cancelled)
    BY <1>1, <1>14 DEF GetCancelled, At, Sane
  <2> QED BY <1>5, <2>1
<1>15. CASE TimeOut(t)
  <2>1. call[t].at = "future.get" /\ op = "get" /\ End(t, TimedOut) /\ cf[f] = Pending
    BY <1>1, <1>9, <1>15 DEF TimeOut, At, Sane
  <2> QED BY <1>5, <2>1
<1>16. CASE ReprDone(t)
  <2>1. op = "repr" /\ UNCHANGED <<cf, fields>>
    BY <1>1, <1>16 DEF ReprDone, At, Sane
  <2>2. CASE IsDone(t)
    <3>1. GoTo(t, "exception?")
      BY <1>16, <2>2 DEF ReprDone
    <3>2. Read(t, f, "done") => Seen(f, "done", TRUE)
      <4>1. fields[f].done \in BOOLEAN
        BY <1>1, <1>3, <2>1 DEF IInv, TypesOK, MemoryOK, InMemory
      <4> QED BY <1>2, <4>1 DEF Seen
    <3>3. cf[f] # Pending
      BY <1>1, <1>3, <1>9, <2>1, <2>2, <3>2 DEF IsDone, IInv, DoneKnown
    <3> QED BY <1>4, <2>1, <3>1, <3>3
  <2>3. CASE ~IsDone(t)
    <3>1. End(t, Pending) /\ cf[f] = Pending
      BY <1>9, <1>16, <2>3 DEF ReprDone, IsDone
    <3> QED BY <1>5, <1>6, <2>1, <3>1
  <2> QED BY <2>2, <2>3
<1>17. CASE Gather(t) \/ First(t)
  <2>1. op \notin {"get", "repr"}
    BY <1>1, <1>17 DEF Gather, First, At, Sane
  <2>2. PICK answer : End(t, answer)
    BY <1>17 DEF Gather, First
  <2> QED BY <1>5, <2>1, <2>2
<1> QED BY <1>10, <1>11, <1>12, <1>13, <1>14, <1>15, <1>16, <1>17

LEMMA WritesRemember ==
  ASSUME KInv, Persist, ~buffered, NEW t \in Threads,
         \/ GetValue(t) \/ SetDone(t) \/ GetError(t) \/ StoreOutcome(t) \/ StoreDone(t)
         \/ CompleteFuture(t)
  PROVE  Remembers(t)' /\ ((\E at : GoTo(t, at)) \/ (\E answer : End(t, answer)))
<1>1. JInv /\ Remembers(t) /\ Sane(call[t]) /\ CallsOK
  BY DEF KInv, JInv, IInv, Control, TypesOK
<1>2. call[t].op \in {"get", "set"}
  BY <1>1 DEF GetValue, SetDone, GetError, StoreOutcome, StoreDone, CompleteFuture, At, Sane
<1>3. ASSUME NEW at, GoTo(t, at) PROVE Remembers(t)'
  <2>1. call'[t].op # "repr"
    BY <1>1, <1>2, <1>3, CallGoesOn
  <2> QED BY <1>1, <1>3, <2>1, GoToRemembers DEF ReprKnows
<1>4. ASSUME NEW answer, End(t, answer), call[t].op = "set" PROVE Remembers(t)'
  BY <1>1, <1>4, EndRemembers
<1>5. CASE GetValue(t) \/ SetDone(t) \/ GetError(t) \/ StoreOutcome(t)
  <2>1. PICK at : GoTo(t, at)
    BY <1>5 DEF GetValue, SetDone, GetError, StoreOutcome
  <2> QED BY <1>3, <2>1
<1>6. CASE StoreDone(t) \/ CompleteFuture(t)
  <2>1. call[t].op = "set" /\ ((\E at : GoTo(t, at)) \/ (\E answer : End(t, answer)))
    BY <1>1, <1>6 DEF StoreDone, CompleteFuture, At, Sane
  <2> QED BY <1>3, <1>4, <2>1
<1> QED BY <1>5, <1>6

LEMMA InitKInv == Init => KInv
<1> SUFFICES ASSUME Init PROVE KInv
  OBVIOUS
<1>1. JInv /\ call = [t \in Threads |-> NoCall] /\ past = [t \in Threads |-> <<>>]
  BY InitJInv DEF Init
<1>2. ASSUME NEW t \in Threads PROVE Remembers(t)
  <2>1. call[t] = NoCall /\ past[t] = <<>> /\ DOMAIN past[t] = {}
    BY <1>1
  <2>2. PastOK(t)
    BY <2>1 DEF PastOK
  <2> QED BY <2>1, <2>2 DEF Remembers, Known, Delivered, ShownDone, ReprKnows, NoCall
<1> QED BY <1>1, <1>2 DEF KInv, PastsKept

LEMMA NextKInv ==
  ASSUME MaxSettled = 1
  PROVE  KInv /\ [Next]_vars => KInv'
<1> SUFFICES ASSUME KInv, [Next]_vars PROVE KInv'
  OBVIOUS
<1>1. JInv' /\ Persist
  BY NextJInv DEF KInv
<1>2. buffered' = buffered
  BY <1>1 DEF Persist
<1>3. CASE past' = past /\ call' = call
  BY <1>1, <1>2, <1>3, OthersRemember DEF KInv, PastsKept
<1>4. ASSUME NEW t \in Threads, ~buffered => Remembers(t)',
             \/ \E at : GoTo(t, at)
             \/ \E answer : End(t, answer)
             \/ \E op, on, arg, at : Begin(t, op, on, arg, at)
      PROVE  KInv'
  <2>1. PastsKept' /\ \A u \in Threads \ {t} : past'[u] = past[u]
    BY <1>4, OnlyOneMoves DEF KInv
  <2>2. \A u \in Threads \ {t} : call'[u] = call[u]
    BY <1>4, CallGoesOn, CallEnds, CallBegins DEF KInv, JInv, IInv, TypesOK
  <2>3. ASSUME ~buffered, NEW u \in Threads PROVE Remembers(u)'
    BY <1>1, <1>4, <2>1, <2>2, <2>3, OthersRemember DEF KInv
  <2> QED BY <1>1, <1>2, <2>1, <2>3 DEF KInv
<1>5. ASSUME NEW t \in Threads,
             \/ Begins(t) \/ (\E f \in Coroutines : Run(t, f))
             \/ \E list \in Lists : BeginAll(t, "gather", list) \/ BeginAll(t, "first", list)
      PROVE  KInv'
  <2>1. \E op, on, arg, at : Begin(t, op, on, arg, at)
    BY <1>5 DEF Begins, BeginGet, BeginSet, BeginRepr, Run, BeginAll
  <2> QED BY <1>1, <1>4, <1>5, <2>1, BeginsRemember
<1>6. ASSUME NEW t \in Threads, ThreadStep(t) \/ TimeOut(t) PROVE KInv'
  <2>1. (\E at : GoTo(t, at)) \/ (\E answer : End(t, answer))
    BY <1>6 DEF ThreadStep, Steps, ReadDone, ReadException, ThrowException, ReturnResult, GetValue,
       SetDone, GetError, GetCancelled, CompleteFuture, StoreOutcome, StoreDone, ReprDone, Gather,
       First, TimeOut
  <2>2. ~buffered => Remembers(t)'
    BY <1>1, <1>6, LooksRemember, WritesRemember DEF ThreadStep, Steps
  <2> QED BY <1>4, <2>1, <2>2
<1>7. CASE UNCHANGED vars \/ (\E t \in Threads : BecomeVisible(t))
           \/ (\E f \in Coroutines : EndCoroutine(f))
  BY <1>3, <1>7 DEF vars, BecomeVisible, EndCoroutine
<1> QED BY <1>5, <1>6, <1>7 DEF Next

(* Where writes are ordered, a thread that has been told the outcome of a  *)
(* future by get is told the same by __repr__ ever after, and a get does   *)
(* not time out on a future that __repr__ has shown as done                *)
(* ($Future.get and __repr__, futures completed once).                     *)
THEOREM ThreadsKeepKnowledge ==
  ASSUME MaxSettled = 1
  PROVE  Spec => []KnowledgeLasts
<1>1. KInv /\ [Next]_vars => KInv'
  BY NextKInv
<1>2. KInv => KnowledgeLasts
  <2> SUFFICES ASSUME KInv, ~buffered, NEW t \in Threads,
                      NEW i \in DOMAIN Calls(t), NEW j \in DOMAIN Calls(t), i < j
               PROVE  Agree(Calls(t)[i], Calls(t)[j])
    BY DEF KnowledgeLasts
  <2> DEFINE p == past[t]
             S == {p[k] : k \in DOMAIN p}
  <2>1. Remembers(t) /\ p \in Seq(S)
    BY DEF KInv, Remembers, PastOK
  <2>2. /\ DOMAIN Calls(t) = 1..(Len(p) + 1) /\ DOMAIN p = 1..Len(p) /\ Len(p) \in Nat
        /\ Calls(t)[Len(p) + 1] = call[t] /\ \A k \in 1..Len(p) : Calls(t)[k] = p[k]
    <3>1. Calls(t) = Append(p, call[t])
      BY DEF Calls
    <3> HIDE DEF S, p
    <3>2. p \in Seq(S \cup {call[t]})
      BY <2>1
    <3> QED BY <3>1, <3>2
  <2>3. i \in DOMAIN p /\ Calls(t)[i] = p[i] /\ (j \in DOMAIN p \/ j = Len(p) + 1)
    BY <2>2
  <2>4. CASE j \in DOMAIN p
    BY <2>1, <2>2, <2>3, <2>4 DEF Remembers, PastOK
  <2>5. CASE j = Len(p) + 1
    BY <2>1, <2>2, <2>3, <2>5 DEF Remembers
  <2> QED BY <2>3, <2>4, <2>5
<1> QED BY <1>1, <1>2, InitKInv, PTL DEF Spec
=============================================================================
