------------------------------ MODULE SafeQueue ------------------------------
(***************************************************************************)
(* SafeQueue (data_struct/SafeQueue.hpp) and SafeStack (SafeStack.hpp):    *)
(* a queue, or a stack, under one mutex with a condition variable.  The    *)
(* two classes have the same text but for front() and top(), the constant  *)
(* Lifo here.  Every operation is one critical section, notify_one         *)
(* included, and so one step; wait_pop is split at its sleep.              *)
(***************************************************************************)
EXTENDS Integers, Sequences, FiniteSets

CONSTANTS
  Threads,
  Values,
  NoValue,     \* no value was handed out yet, or try_pop returned false
  Lifo,        \* SafeStack
  MaxPushes    \* bound: pushes of all threads together

VARIABLES
  queue_,    \* the values inside, oldest first (stack_: the top is last)
  pc,        \* where each thread is in wait_pop
  answer,    \* what the last pop of each thread returned
  pushed,    \* history: every value pushed, in order
  popped     \* history: every value handed out, in order

qVars == <<queue_, pc, answer, pushed, popped>>

Asleep == {t \in Threads : pc[t] = "asleep"}
Awake  == {t \in Threads : pc[t] = "waiting"}

QInit ==
  /\ queue_ = << >>
  /\ pc = [t \in Threads |-> "idle"]
  /\ answer = [t \in Threads |-> NoValue]
  /\ pushed = << >>
  /\ popped = << >>

push(t, v) ==
  /\ pc[t] = "idle"
  /\ Len(pushed) < MaxPushes
  /\ queue_' = Append(queue_, v)
  /\ pushed' = Append(pushed, v)
  /\ \/ Asleep = {} /\ UNCHANGED pc
     \/ \E w \in Asleep : pc' = [pc EXCEPT ![w] = "waiting"]
  /\ UNCHANGED <<answer, popped>>

WaitPopCall(t) ==
  /\ pc[t] = "idle"
  /\ pc' = [pc EXCEPT ![t] = "waiting"]
  /\ UNCHANGED <<queue_, answer, pushed, popped>>

\* front(), or top(), and pop().
Take(t) ==
  /\ queue_ # << >>
  /\ LET at   == IF Lifo THEN Len(queue_) ELSE 1
         rest == IF Lifo THEN SubSeq(queue_, 1, Len(queue_) - 1) ELSE Tail(queue_)
     IN  /\ answer' = [answer EXCEPT ![t] = queue_[at]]
         /\ popped' = Append(popped, queue_[at])
         /\ queue_' = rest
  /\ UNCHANGED pushed

wait_pop(t) ==
  /\ pc[t] = "waiting"
  /\ Take(t)
  /\ pc' = [pc EXCEPT ![t] = "idle"]

Sleep(t) ==
  /\ pc[t] = "waiting"
  /\ queue_ = << >>
  /\ pc' = [pc EXCEPT ![t] = "asleep"]
  /\ UNCHANGED <<queue_, answer, pushed, popped>>

WakesSpuriously(t) ==
  /\ pc[t] = "asleep"
  /\ pc' = [pc EXCEPT ![t] = "waiting"]
  /\ UNCHANGED <<queue_, answer, pushed, popped>>

try_pop(t) ==
  /\ pc[t] = "idle"
  /\ \/ Take(t)
     \/ /\ queue_ = << >>
        /\ answer' = [answer EXCEPT ![t] = NoValue]
        /\ UNCHANGED <<queue_, pushed, popped>>
  /\ UNCHANGED pc

\* empty() only looks, and is no step of its own.
QNext ==
  \E t \in Threads :
    \/ \E v \in Values : push(t, v)
    \/ WaitPopCall(t) \/ wait_pop(t) \/ Sleep(t) \/ WakesSpuriously(t) \/ try_pop(t)

QSpec == QInit /\ [][QNext]_qVars

-----------------------------------------------------------------------------
(* Properties *)

QTypeOK ==
  /\ queue_ \in Seq(Values) /\ pushed \in Seq(Values) /\ popped \in Seq(Values)
  /\ pc \in [Threads -> {"idle", "waiting", "asleep"}]
  /\ answer \in [Threads -> Values \cup {NoValue}]

(***************************************************************************)
(* SafeQueue hands out what was pushed, each value once and in order.      *)
(***************************************************************************)
PoppedInOrder == ~Lifo => pushed = popped \o queue_

(***************************************************************************)
(* notify_one in push is enough: as long as a wait_pop sleeps, there is an *)
(* awake one for every value inside.                                       *)
(***************************************************************************)
WakeupsSuffice == Asleep # {} => Len(queue_) <= Cardinality(Awake)
=============================================================================
