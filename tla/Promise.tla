-------------------------------- MODULE Promise --------------------------------
(***************************************************************************)
(* What a future promises: it gets one outcome, and everyone who asks is   *)
(* told that outcome, or gives up if he set himself a limit.               *)
(***************************************************************************)
CONSTANTS Futures, Threads, Outcomes,
          Pending, Idle, Waiting, TimedOut

VARIABLES outcome,   \* of each future
          asking     \* each thread's question and its answer

vars == <<outcome, asking>>

Question(f, timed) == [on |-> f, timed |-> timed, answer |-> Waiting]

IsWaiting(t) == asking[t].answer = Waiting

Init ==
  /\ outcome \in [Futures -> Outcomes \cup {Pending}]
  /\ asking = [t \in Threads |-> Idle]

Resolve(f, o) ==
  /\ outcome[f] = Pending
  /\ outcome' = [outcome EXCEPT ![f] = o]
  /\ UNCHANGED asking

Ask(t, f, timed) ==
  /\ ~IsWaiting(t)
  /\ asking' = [asking EXCEPT ![t] = Question(f, timed)]
  /\ UNCHANGED outcome

Answer(t) ==
  /\ IsWaiting(t)
  /\ outcome[asking[t].on] # Pending
  /\ asking' = [asking EXCEPT ![t].answer = outcome[asking[t].on]]
  /\ UNCHANGED outcome

GiveUp(t) ==
  /\ IsWaiting(t)
  /\ asking[t].timed
  /\ outcome[asking[t].on] = Pending
  /\ asking' = [asking EXCEPT ![t].answer = TimedOut]
  /\ UNCHANGED outcome

Forget(t) ==
  /\ ~IsWaiting(t)
  /\ asking' = [asking EXCEPT ![t] = Idle]
  /\ UNCHANGED outcome

Next ==
  \/ \E f \in Futures, o \in Outcomes : Resolve(f, o)
  \/ \E t \in Threads, f \in Futures, timed \in BOOLEAN : Ask(t, f, timed)
  \/ \E t \in Threads : Answer(t) \/ GiveUp(t) \/ Forget(t)

Spec == Init /\ [][Next]_vars /\ \A t \in Threads : WF_vars(Answer(t))
=============================================================================
