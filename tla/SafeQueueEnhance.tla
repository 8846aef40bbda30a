-------------------------- MODULE SafeQueueEnhance --------------------------
(***************************************************************************)
(* SafeQueueEnhance (data_struct/SafeQueue.hpp): a linked queue with a     *)
(* dummy node at its end and one mutex for each end.  The poppers compare  *)
(* head_ with tail_, which push writes under the other mutex; the race on  *)
(* that plain pointer is modelled as the build for x86-64 has it, with one *)
(* load and one store and the stores of push in the order of the source.   *)
(* Nothing ever notifies cv_lock_.                                         *)
(***************************************************************************)
EXTENDS Integers, Sequences, FiniteSets

CONSTANTS
  Threads,
  Values,
  NoValue,
  NoThread,    \* the mutex is free
  MaxPushes    \* bound: pushes of all threads together

ASSUME EnhanceAssumption ==
  /\ MaxPushes \in Nat
  /\ NoThread \notin Threads
  /\ NoValue \notin Values

Nodes == 0..MaxPushes
Null  == -1

VARIABLES
  data, next,   \* the members of each QueueNode
  allocated,    \* how many nodes were ever made
  freed,        \* the nodes that were destroyed
  head_, tail_,
  mt_head_, mt_tail_,
  pc,           \* where each thread is
  node,         \* push's new_tail
  arg,          \* push's data
  answer,       \* what the last pop of each thread returned
  pushed, popped  \* history: values published and values handed out, in order

vars == <<data, next, allocated, freed, head_, tail_, mt_head_, mt_tail_, pc, node, arg,
          answer, pushed, popped>>

nodeVars  == <<data, next, allocated, freed>>
localVars == <<node, arg>>

Init ==
  /\ data = [n \in Nodes |-> NoValue]
  /\ next = [n \in Nodes |-> Null]
  /\ allocated = 1
  /\ freed = {}
  /\ head_ = 0 /\ tail_ = 0
  /\ mt_head_ = NoThread /\ mt_tail_ = NoThread
  /\ pc = [t \in Threads |-> "idle"]
  /\ node = [t \in Threads |-> Null]
  /\ arg = [t \in Threads |-> NoValue]
  /\ answer = [t \in Threads |-> NoValue]
  /\ pushed = << >> /\ popped = << >>

Goto(t, place) == pc' = [pc EXCEPT ![t] = place]

-----------------------------------------------------------------------------
(* push *)

PushCall(t) ==
  /\ pc[t] = "idle"
  /\ allocated <= MaxPushes
  /\ node' = [node EXCEPT ![t] = allocated]
  /\ allocated' = allocated + 1
  /\ \E v \in Values : arg' = [arg EXCEPT ![t] = v]
  /\ Goto(t, "push")
  /\ UNCHANGED <<data, next, freed, head_, tail_, mt_head_, mt_tail_, answer, pushed, popped>>

PushData(t) ==
  /\ pc[t] = "push"
  /\ mt_tail_ = NoThread
  /\ mt_tail_' = t
  /\ data' = [data EXCEPT ![tail_] = arg[t]]
  /\ Goto(t, "linking")
  /\ UNCHANGED <<next, allocated, freed, head_, tail_, mt_head_, localVars, answer, pushed, popped>>

\* mutant: tail_ is moved before the new node is linked
PushPublishFirst(t) ==
  /\ pc[t] = "linking"
  /\ tail_' = node[t]
  /\ pushed' = Append(pushed, arg[t])
  /\ Goto(t, "publishing")
  /\ UNCHANGED <<nodeVars, head_, mt_head_, mt_tail_, localVars, answer, popped>>

PushLink(t) ==
  /\ pc[t] = "linking"
  /\ next' = [next EXCEPT ![tail_] = node[t]]
  /\ Goto(t, "publishing")
  /\ UNCHANGED <<data, allocated, freed, head_, tail_, mt_head_, mt_tail_, localVars, answer,
                 pushed, popped>>

PushPublish(t) ==
  /\ pc[t] = "publishing"
  /\ tail_' = node[t]
  /\ mt_tail_' = NoThread
  /\ pushed' = Append(pushed, arg[t])
  /\ node' = [node EXCEPT ![t] = Null]
  /\ arg' = [arg EXCEPT ![t] = NoValue]
  /\ Goto(t, "idle")
  /\ UNCHANGED <<nodeVars, head_, mt_head_, answer, popped>>

-----------------------------------------------------------------------------
(* wait_pop and try_pop *)

PopCall(t, op) ==
  /\ pc[t] = "idle"
  /\ Goto(t, op)
  /\ UNCHANGED <<nodeVars, head_, tail_, mt_head_, mt_tail_, localVars, answer, pushed, popped>>

\* The queue is not empty: the thread keeps mt_head_ and will pop.
PopFound(t) ==
  /\ head_ # tail_
  /\ mt_head_' = t
  /\ Goto(t, IF pc[t] = "try_pop" THEN "try_popping" ELSE "wait_popping")
  /\ UNCHANGED answer

TryPopEmpty(t) ==
  /\ pc[t] = "try_pop"
  /\ head_ = tail_
  /\ answer' = [answer EXCEPT ![t] = NoValue]
  /\ Goto(t, "idle")
  /\ UNCHANGED mt_head_

WaitPopSleep(t) ==
  /\ pc[t] = "wait_pop"
  /\ head_ = tail_
  /\ Goto(t, "asleep")
  /\ UNCHANGED <<mt_head_, answer>>

\* mutant: the test is `old_head->next == nullptr` and not against tail_
PopLockUnpublished(t) ==
  /\ pc[t] \in {"wait_pop", "try_pop"}
  /\ mt_head_ = NoThread
  /\ next[head_] # Null
  /\ mt_head_' = t
  /\ Goto(t, IF pc[t] = "try_pop" THEN "try_popping" ELSE "wait_popping")
  /\ UNCHANGED <<nodeVars, head_, tail_, mt_tail_, localVars, answer, pushed, popped>>

PopLock(t) ==
  /\ pc[t] \in {"wait_pop", "try_pop"}
  /\ mt_head_ = NoThread
  /\ PopFound(t) \/ TryPopEmpty(t) \/ WaitPopSleep(t)
  /\ UNCHANGED <<nodeVars, head_, tail_, mt_tail_, localVars, pushed, popped>>

\* old_head goes with the scope, its next having been moved out.
pop(t) ==
  /\ pc[t] \in {"wait_popping", "try_popping"}
  /\ answer' = [answer EXCEPT ![t] = data[head_]]
  /\ popped' = Append(popped, data[head_])
  /\ head_' = next[head_]
  /\ next' = [next EXCEPT ![head_] = Null]
  /\ freed' = freed \cup {head_}
  /\ mt_head_' = NoThread
  /\ Goto(t, "idle")
  /\ UNCHANGED <<data, allocated, tail_, mt_tail_, localVars, pushed>>

SpuriousWakeup(t) ==
  /\ pc[t] = "asleep"
  /\ Goto(t, "wait_pop")
  /\ UNCHANGED <<nodeVars, head_, tail_, mt_head_, mt_tail_, localVars, answer, pushed, popped>>

-----------------------------------------------------------------------------
Next ==
  \E t \in Threads :
    \/ PushCall(t) \/ PushData(t) \/ PushLink(t) \/ PushPublish(t)
    \/ PopCall(t, "wait_pop") \/ PopCall(t, "try_pop")
    \/ PopLock(t) \/ pop(t) \/ SpuriousWakeup(t)

Spec == Init /\ [][Next]_vars

-----------------------------------------------------------------------------
(* Properties *)

(***************************************************************************)
(* The pushers write to the node tail_ and the poppers read the node head_ *)
(* under different mutexes: neither is ever destroyed, both are the same   *)
(* list, and every node before the dummy has its value and its successor.  *)
(***************************************************************************)
EndsAlive ==
  LET reach[n \in Nodes \cup {Null}] ==
        IF n \in {tail_, Null} THEN {n} ELSE {n} \cup reach[next[n]]
  IN  /\ tail_ \in reach[head_]
      /\ reach[head_] \cap freed = {}
      /\ \A n \in reach[head_] \ {tail_} : data[n] # NoValue

Contents ==
  LET from[n \in Nodes \cup {Null}] ==
        IF n \in {tail_, Null} THEN << >> ELSE <<data[n]>> \o from[next[n]]
  IN  from[head_]

\* A sleeper counts as one that is awake and never gets the mutex.
QueuePc ==
  [t \in Threads |-> IF pc[t] \in {"wait_pop", "wait_popping", "asleep"} THEN "waiting" ELSE "idle"]

Queue == INSTANCE SafeQueue WITH queue_ <- Contents, pc <- QueuePc, Lifo <- FALSE

(***************************************************************************)
(* Apart from its wakeups, the queue with two mutexes is the queue with    *)
(* one: pushes and pops take effect one after the other in an order that   *)
(* all threads agree on, and try_pop fails only on an empty queue.         *)
(***************************************************************************)
ImplementsSafeQueue == Queue!QSpec
=============================================================================
