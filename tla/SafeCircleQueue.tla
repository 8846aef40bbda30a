-------------------------- MODULE SafeCircleQueue ---------------------------
(***************************************************************************)
(* SafeCircleQueue (data_struct/SafeCircleQueue.hpp): a ring of Cap + 1    *)
(* positions under one mutex.  Each operation holds the mutex from its     *)
(* first line to its return, and so is one step; an emplace into a full    *)
(* queue and a pop of an empty one return false and change nothing.        *)
(***************************************************************************)
EXTENDS Integers, Sequences

CONSTANTS
  Cap,       \* the template's capacity
  Values,    \* what is ever put in
  Garbage    \* what a position holds that was never constructed

max_size_ == Cap + 1
Positions == 0..Cap

VARIABLES
  head_,    \* position of the oldest element
  tail_,    \* position of the next element
  data_,    \* the ring
  popped    \* history: the values handed out, in order

queueVars == <<head_, tail_, data_, popped>>

Following(i) == (i + 1) % max_size_

QueueInit ==
  /\ head_ = 0
  /\ tail_ = 0
  /\ data_ = [i \in Positions |-> Garbage]
  /\ popped = << >>

Emplace(v) ==
  /\ Following(tail_) # head_
  /\ data_' = [data_ EXCEPT ![tail_] = v]
  /\ tail_' = Following(tail_)
  /\ UNCHANGED <<head_, popped>>

Pop ==
  /\ head_ # tail_
  /\ popped' = Append(popped, data_[head_])
  /\ head_' = Following(head_)
  /\ UNCHANGED <<tail_, data_>>

QueueNext == Pop \/ \E v \in Values : Emplace(v)

QueueSpec == QueueInit /\ [][QueueNext]_queueVars
=============================================================================
