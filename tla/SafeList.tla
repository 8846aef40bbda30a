------------------------------ MODULE SafeList ------------------------------
(***************************************************************************)
(* SafeList (data_struct/SafeList.hpp): a linked list behind a dummy node  *)
(* head_, with a mutex in every node and a pointer tail_ under global_mt_. *)
(* Traversals go from node to node hand over hand; pushBack goes straight  *)
(* to the node it reads from tail_ before it holds any lock.               *)
(*                                                                         *)
(* pushBack before any pushFront reads a pointer that was never set, and a *)
(* removal frees the node whose mutex it unlocks next, and with it the     *)
(* rest of the list.  Behaviour is undefined from there on: undefined is   *)
(* set and nothing more happens.                                           *)
(***************************************************************************)
EXTENDS Integers, Sequences

CONSTANTS
  Threads,
  NoThread,    \* the mutex is free
  MaxCalls,    \* bound: calls of all threads together
  MaxPushes    \* bound: how many of them push

ASSUME ListAssumption ==
  /\ MaxCalls \in Nat /\ MaxPushes \in Nat
  /\ NoThread \notin Threads

head_ == 0
Nodes == 0..MaxPushes   \* a node stands for its value, too
Unset == -1             \* the value of tail_ before it is first assigned
Null  == -1             \* an empty next_

Pushes     == {"pushFront", "pushBack"}
Traversals == {"findFirstIf", "forEach", "removeIf", "removeFirstIf"}

VARIABLES
  next_,       \* the successor of each node
  mt_,         \* who holds the mutex of each node
  tail_,
  global_mt_,  \* who holds global_mt_
  allocated,   \* how many values were pushed so far, or are being pushed
  undefined,   \* memory was used that is not there
  call,        \* the operation each thread is in
  pc,
  node,        \* push: new_node; traversals: current
  old_tail,    \* pushBack: the node whose mutex it takes
  calls,
  fronts, backs,  \* history: what pushFront and pushBack have linked, in order
  todo, seen      \* history: what was in the list when forEach began; what it has visited

vars == <<next_, mt_, tail_, global_mt_, allocated, undefined, call, pc, node, old_tail, calls,
          fronts, backs, todo, seen>>

lists == <<fronts, backs>>
views == <<todo, seen>>

Reversed(s) == [i \in DOMAIN s |-> s[Len(s) + 1 - i]]

\* The nodes behind n.
Behind(n) ==
  LET from[m \in Nodes \cup {Null}] ==
        IF m = Null THEN << >> ELSE <<m>> \o from[next_[m]]
  IN  from[next_[n]]

Init ==
  /\ next_ = [n \in Nodes |-> Null]
  /\ mt_ = [n \in Nodes |-> NoThread]
  /\ tail_ = Unset
  /\ global_mt_ = NoThread
  /\ allocated = 0
  /\ undefined = FALSE
  /\ call = [t \in Threads |-> "none"]
  /\ pc = [t \in Threads |-> "idle"]
  /\ node = [t \in Threads |-> Null]
  /\ old_tail = [t \in Threads |-> Null]
  /\ calls = 0
  /\ fronts = << >> /\ backs = << >>
  /\ todo = [t \in Threads |-> << >>] /\ seen = [t \in Threads |-> << >>]

Goto(t, place) == pc' = [pc EXCEPT ![t] = place]

\* The end of the scope: the thread's locks are freed.
Return(t) ==
  /\ Goto(t, "idle")
  /\ mt_' = [n \in Nodes |-> IF mt_[n] = t THEN NoThread ELSE mt_[n]]
  /\ global_mt_' = IF global_mt_ = t THEN NoThread ELSE global_mt_
  /\ call' = [call EXCEPT ![t] = "none"]
  /\ node' = [node EXCEPT ![t] = Null]
  /\ old_tail' = [old_tail EXCEPT ![t] = Null]
  /\ todo' = [todo EXCEPT ![t] = << >>] /\ seen' = [seen EXCEPT ![t] = << >>]
  /\ UNCHANGED <<allocated, calls>>

-----------------------------------------------------------------------------
(* pushFront and pushBack *)

\* new_node is made before any lock is taken.
PushCall(t, op) ==
  /\ pc[t] = "idle"
  /\ calls < MaxCalls /\ allocated < MaxPushes
  /\ calls' = calls + 1
  /\ allocated' = allocated + 1
  /\ node' = [node EXCEPT ![t] = allocated + 1]
  /\ call' = [call EXCEPT ![t] = op]
  /\ Goto(t, "begin")
  /\ UNCHANGED <<next_, mt_, tail_, global_mt_, undefined, old_tail, lists, views>>

\* new_node->next_=std::move(head_->next_) leaves head_ without a successor.
PushFrontTake(t) ==
  /\ call[t] = "pushFront" /\ pc[t] = "begin"
  /\ mt_[head_] = NoThread
  /\ mt_' = [mt_ EXCEPT ![head_] = t]
  /\ next_' = [next_ EXCEPT ![node[t]] = next_[head_], ![head_] = Null]
  /\ Goto(t, "taken")
  /\ UNCHANGED <<tail_, global_mt_, allocated, undefined, call, node, old_tail, calls, lists, views>>

PushFrontLink(t) ==
  /\ call[t] = "pushFront" /\ pc[t] = "taken"
  /\ next_' = [next_ EXCEPT ![head_] = node[t]]
  /\ fronts' = Append(fronts, node[t])
  /\ Goto(t, "linked")
  /\ UNCHANGED <<mt_, tail_, global_mt_, allocated, undefined, call, node, old_tail, calls, backs, views>>

\* `if(head_->next_->next_==nullptr)`: only the first node sets tail_.
PushFrontReturn(t) ==
  /\ call[t] = "pushFront" /\ pc[t] = "linked"
  /\ IF next_[next_[head_]] = Null
     THEN global_mt_ = NoThread /\ tail_' = next_[head_]
     ELSE UNCHANGED tail_
  /\ Return(t)
  /\ UNCHANGED <<next_, undefined, lists>>

\* tail_->mt_, with no lock held; tail_ may move before the mutex is taken.
PushBackRead(t) ==
  /\ call[t] = "pushBack" /\ pc[t] = "begin"
  /\ undefined' = (tail_ = Unset)
  /\ old_tail' = [old_tail EXCEPT ![t] = tail_]
  /\ Goto(t, "read")
  /\ UNCHANGED <<next_, mt_, tail_, global_mt_, allocated, call, node, calls, lists, views>>

PushBackLock(t) ==
  /\ call[t] = "pushBack" /\ pc[t] = "read"
  /\ mt_[old_tail[t]] = NoThread
  /\ mt_' = [mt_ EXCEPT ![old_tail[t]] = t]
  /\ Goto(t, "locked")
  /\ UNCHANGED <<next_, tail_, global_mt_, allocated, undefined, call, node, old_tail, calls, lists, views>>

PushBackGlobalLock(t) ==
  /\ call[t] = "pushBack" /\ pc[t] = "locked"
  /\ global_mt_ = NoThread
  /\ global_mt_' = t
  /\ Goto(t, "global")
  /\ UNCHANGED <<next_, mt_, tail_, allocated, undefined, call, node, old_tail, calls, lists, views>>

\* mutant: the new node is hung on the node that was locked
PushBackLinkLocked(t) ==
  /\ call[t] = "pushBack" /\ pc[t] = "global"
  /\ next_' = [next_ EXCEPT ![old_tail[t]] = node[t]]
  /\ backs' = Append(backs, node[t])
  /\ Goto(t, "linked")
  /\ UNCHANGED <<mt_, tail_, global_mt_, allocated, undefined, call, node, old_tail, calls, fronts, views>>

PushBackLink(t) ==
  /\ call[t] = "pushBack" /\ pc[t] = "global"
  /\ next_' = [next_ EXCEPT ![tail_] = node[t]]
  /\ backs' = Append(backs, node[t])
  /\ Goto(t, "linked")
  /\ UNCHANGED <<mt_, tail_, global_mt_, allocated, undefined, call, node, old_tail, calls, fronts, views>>

PushBackReturn(t) ==
  /\ call[t] = "pushBack" /\ pc[t] = "linked"
  /\ tail_' = next_[tail_]
  /\ Return(t)
  /\ UNCHANGED <<next_, undefined, lists>>

-----------------------------------------------------------------------------
(* findFirstIf, forEach, removeIf, removeFirstIf *)

TraverseCall(t, op) ==
  /\ pc[t] = "idle"
  /\ calls < MaxCalls
  /\ calls' = calls + 1
  /\ call' = [call EXCEPT ![t] = op]
  /\ Goto(t, "begin")
  /\ UNCHANGED <<next_, mt_, tail_, global_mt_, allocated, undefined, node, old_tail, lists, views>>

\* mutant: the traversal starts without head_'s mutex
StartUnlocked(t) ==
  /\ call[t] \in Traversals /\ pc[t] = "begin"
  /\ node' = [node EXCEPT ![t] = head_]
  /\ todo' = [todo EXCEPT ![t] = IF call[t] = "forEach" THEN Reversed(fronts) \o backs ELSE << >>]
  /\ Goto(t, "at")
  /\ UNCHANGED <<next_, mt_, tail_, global_mt_, allocated, undefined, call, old_tail, calls, lists, seen>>

LockHead(t) ==
  /\ call[t] \in Traversals /\ pc[t] = "begin"
  /\ mt_[head_] = NoThread
  /\ mt_' = [mt_ EXCEPT ![head_] = t]
  /\ node' = [node EXCEPT ![t] = head_]
  /\ todo' = [todo EXCEPT ![t] = IF call[t] = "forEach" THEN Reversed(fronts) \o backs ELSE << >>]
  /\ Goto(t, "at")
  /\ UNCHANGED <<next_, tail_, global_mt_, allocated, undefined, call, old_tail, calls, lists, seen>>

AtNode(t) == call[t] \in Traversals /\ pc[t] = "at"

\* mutant: the last mutex is not freed
TraverseEndLocked(t) ==
  /\ AtNode(t)
  /\ next_[node[t]] = Null
  /\ Goto(t, "idle")
  /\ UNCHANGED <<next_, mt_, tail_, global_mt_, allocated, undefined, call, node, old_tail, calls, lists,
                 views>>

\* `while(auto next=current->next_.get())` ends.
TraverseEnd(t) ==
  /\ AtNode(t)
  /\ next_[node[t]] = Null
  /\ Return(t)
  /\ UNCHANGED <<next_, tail_, undefined, lists>>

\* forEach, removeIf and removeFirstIf lock next, test or visit it, and free
\* current: next's mutex is the one they go on with.
MoveOn(t) ==
  /\ AtNode(t)
  /\ call[t] # "findFirstIf"
  /\ LET next == next_[node[t]] IN
       /\ next # Null
       /\ mt_[next] = NoThread
       /\ mt_' = [mt_ EXCEPT ![next] = t, ![node[t]] = NoThread]
       /\ node' = [node EXCEPT ![t] = next]
       /\ seen' = [seen EXCEPT ![t] = IF call[t] = "forEach" THEN Append(@, next) ELSE @]
  /\ UNCHANGED <<next_, tail_, global_mt_, allocated, undefined, call, pc, old_tail, calls, lists, todo>>

\* findFirstIf frees next's mutex at once.  What `lock=std::move(next_lock)`
\* moves is head_'s mutex, which goes at the end of the first round.
FindOn(t) ==
  /\ AtNode(t)
  /\ call[t] = "findFirstIf"
  /\ LET next == next_[node[t]] IN
       /\ next # Null
       /\ mt_[next] = NoThread
       /\ node' = [node EXCEPT ![t] = next]
  /\ mt_' = IF mt_[head_] = t THEN [mt_ EXCEPT ![head_] = NoThread] ELSE mt_
  /\ UNCHANGED <<next_, tail_, global_mt_, allocated, undefined, call, pc, old_tail, calls, lists, views>>

\* findFirstIf's p holds for next.
Found(t) ==
  /\ AtNode(t)
  /\ call[t] = "findFirstIf"
  /\ next_[node[t]] # Null
  /\ mt_[next_[node[t]]] = NoThread
  /\ Return(t)
  /\ UNCHANGED <<next_, tail_, undefined, lists>>

\* removeIf's or removeFirstIf's p holds for next: reset() deletes next and,
\* through next's own next_, all that follows; the mutex of next is unlocked then.
Remove(t) ==
  /\ AtNode(t)
  /\ call[t] \in {"removeIf", "removeFirstIf"}
  /\ next_[node[t]] # Null
  /\ mt_[next_[node[t]]] = NoThread
  /\ undefined' = TRUE
  /\ UNCHANGED <<next_, mt_, tail_, global_mt_, allocated, call, pc, node, old_tail, calls, lists, views>>

-----------------------------------------------------------------------------
Step(t) ==
  \/ PushFrontTake(t) \/ PushFrontLink(t) \/ PushFrontReturn(t)
  \/ PushBackRead(t) \/ PushBackLock(t) \/ PushBackGlobalLock(t) \/ PushBackLink(t)
  \/ PushBackReturn(t)
  \/ LockHead(t) \/ TraverseEnd(t) \/ MoveOn(t) \/ FindOn(t) \/ Found(t) \/ Remove(t)

Next ==
  /\ ~undefined
  /\ \E t \in Threads :
       \/ \E op \in Pushes : PushCall(t, op)
       \/ \E op \in Traversals : TraverseCall(t, op)
       \/ Step(t)

Spec == Init /\ [][Next]_vars

\* Every thread is scheduled; the calls being bounded, a mutex that is not
\* held for ever is free for good in the end.
FairSpec == Spec /\ \A t \in Threads : WF_vars(~undefined /\ Step(t))

-----------------------------------------------------------------------------
(* Properties *)

(***************************************************************************)
(* No push is lost: the list is what pushFront has put in, the latest      *)
(* first, and then what pushBack has, the latest last.  So pushBack never  *)
(* overwrites a successor, though it may hold the mutex of a node that is  *)
(* no longer the last one and write to one whose mutex another thread has. *)
(***************************************************************************)
PushedInOrder ==
  \/ Behind(head_) = Reversed(fronts) \o backs
  \/ \E t \in Threads : pc[t] = "taken" /\ Behind(node[t]) = Reversed(fronts) \o backs

(***************************************************************************)
(* forEach visits every node that was in the list when it began, once and  *)
(* in order; all it may see besides are nodes that pushBack added since.   *)
(***************************************************************************)
ForEachComplete ==
  \A t \in Threads :
    call[t] = "forEach" /\ pc[t] = "at" =>
      \E k \in 0..Len(backs) :
        seen[t] \o Behind(node[t]) = todo[t] \o SubSeq(backs, k + 1, Len(backs))

(***************************************************************************)
(* Hand-over-hand traversals and pushes, which take their two or three     *)
(* mutexes in different orders, never block each other: every call returns *)
(* (unless the behaviour becomes undefined).                               *)
(***************************************************************************)
CallsReturn == \A t \in Threads : pc[t] # "idle" ~> pc[t] = "idle" \/ undefined
=============================================================================
