-------------------------- MODULE SafeQueue_proof --------------------------
(***************************************************************************)
(* Proofs about SafeQueue and SafeStack, and about SafeQueueEnhance, which *)
(* is shown to implement SafeQueue, for any number of threads, any values  *)
(* and any number of pushes.  The first two have their own queue_; the     *)
(* threads, answers and histories have the same names in both models, and  *)
(* no theorem is about both at once but the refinement.                    *)
(***************************************************************************)
EXTENDS SafeQueueEnhance, SequenceLemmas, SequenceTheorems, FiniteSetTheorems, TLAPS

CONSTANT Lifo
VARIABLE queue_

INSTANCE SafeQueue

-----------------------------------------------------------------------------
(* SafeQueue and SafeStack *)

(***************************************************************************)
(* front() and top(): the value taken was inside, and one value less is    *)
(* inside afterwards.                                                      *)
(***************************************************************************)
LEMMA TakeTakes ==
  ASSUME QTypeOK, NEW t \in Threads, Take(t)
  PROVE  \E v \in Values : /\ answer' = [answer EXCEPT ![t] = v]
                           /\ popped' = Append(popped, v)
                           /\ queue_' \in Seq(Values) /\ Len(queue_') = Len(queue_) - 1
                           /\ ~Lifo => v = Head(queue_) /\ queue_' = Tail(queue_)
<1>1. queue_ \in Seq(Values) /\ queue_ # << >>
  BY DEF QTypeOK, Take
<1>2. Len(queue_) \in Nat /\ Len(queue_) >= 1
  BY <1>1, EmptySeq, SMT
<1>3. CASE Lifo
  <2>1. queue_[Len(queue_)] \in Values
    BY <1>1, <1>2, ElementOfSeq
  <2>2. /\ SubSeq(queue_, 1, Len(queue_) - 1) \in Seq(Values)
        /\ Len(SubSeq(queue_, 1, Len(queue_) - 1)) = Len(queue_) - 1
    BY <1>1, <1>2, SubSeqProperties, SMT
  <2> QED
    BY <1>3, <2>1, <2>2, Zenon DEF Take
<1>4. CASE ~Lifo
  <2>1. /\ queue_[1] \in Values /\ queue_[1] = Head(queue_)
        /\ Tail(queue_) \in Seq(Values) /\ Len(Tail(queue_)) = Len(queue_) - 1
    BY <1>1, <1>2, HeadTailProperties, SMT
  <2> QED
    BY <1>4, <2>1, Zenon DEF Take
<1> QED
  BY <1>3, <1>4, Zenon

\* No step leaves the types.
LEMMA TypeStep == QTypeOK /\ [QNext]_qVars => QTypeOK'
<1> SUFFICES ASSUME QTypeOK, [QNext]_qVars PROVE QTypeOK'
  OBVIOUS
<1>1. ASSUME NEW t \in Threads, NEW v \in Values, push(t, v) PROVE QTypeOK'
  BY <1>1 DEF push, QTypeOK, Asleep
<1>2. ASSUME NEW t \in Threads, Take(t) PROVE
        /\ queue_' \in Seq(Values) /\ pushed' \in Seq(Values) /\ popped' \in Seq(Values)
        /\ answer' \in [Threads -> Values \cup {NoValue}]
  <2>1. PICK v \in Values : /\ answer' = [answer EXCEPT ![t] = v]
                            /\ popped' = Append(popped, v) /\ queue_' \in Seq(Values)
    BY <1>2, TakeTakes, Zenon
  <2> QED
    BY <1>2, <2>1 DEF QTypeOK, Take
<1>3. ASSUME NEW t \in Threads, wait_pop(t) PROVE QTypeOK'
  BY <1>3, <1>2 DEF wait_pop, QTypeOK
<1>4. ASSUME NEW t \in Threads, try_pop(t) PROVE QTypeOK'
  <2>1. CASE Take(t)
    BY <1>4, <2>1, <1>2 DEF try_pop, QTypeOK
  <2>2. CASE ~Take(t)
    BY <1>4, <2>2 DEF try_pop, QTypeOK
  <2> QED
    BY <2>1, <2>2
<1>5. ASSUME NEW t \in Threads, WaitPopCall(t) \/ Sleep(t) \/ WakesSpuriously(t) PROVE QTypeOK'
  BY <1>5 DEF WaitPopCall, Sleep, WakesSpuriously, QTypeOK
<1>6. CASE UNCHANGED qVars
  BY <1>6 DEF qVars, QTypeOK
<1> QED
  BY <1>1, <1>3, <1>4, <1>5, <1>6 DEF QNext

\* The variables of SafeQueue and SafeStack keep their types.
THEOREM TypeCorrect == QSpec => []QTypeOK
<1>1. QInit => QTypeOK
  BY DEF QInit, QTypeOK
<1> QED
  BY <1>1, TypeStep, PTL DEF QSpec

-----------------------------------------------------------------------------
\* A push extends what was pushed at the back, a pop moves the front of the queue.
LEMMA OrderStep == QTypeOK /\ PoppedInOrder /\ [QNext]_qVars => PoppedInOrder'
<1> SUFFICES ASSUME QTypeOK, PoppedInOrder, [QNext]_qVars, ~Lifo
             PROVE  pushed' = popped' \o queue_'
  BY DEF PoppedInOrder
<1>0. /\ pushed = popped \o queue_
      /\ queue_ \in Seq(Values) /\ popped \in Seq(Values)
  BY DEF PoppedInOrder, QTypeOK
<1>1. ASSUME NEW t \in Threads, NEW v \in Values, push(t, v) PROVE pushed' = popped' \o queue_'
  <2>1. popped \o Append(queue_, v) = Append(popped \o queue_, v)
    BY <1>0, AppendConcat
  <2> QED
    BY <1>0, <1>1, <2>1 DEF push
<1>2. ASSUME NEW t \in Threads, Take(t) PROVE pushed' = popped' \o queue_'
  <2>1. /\ popped' = Append(popped, Head(queue_)) /\ queue_' = Tail(queue_)
        /\ queue_ # << >> /\ pushed' = pushed
    BY <1>2, TakeTakes, Zenon DEF Take
  <2>2. Append(popped, Head(queue_)) \o Tail(queue_) = popped \o queue_
    BY <1>0, <2>1, HeadMoves
  <2> QED
    BY <1>0, <2>1, <2>2, Zenon
<1>3. ASSUME NEW t \in Threads, wait_pop(t) \/ try_pop(t) PROVE pushed' = popped' \o queue_'
  BY <1>0, <1>2, <1>3, Zenon DEF wait_pop, try_pop
<1>4. ASSUME NEW t \in Threads, WaitPopCall(t) \/ Sleep(t) \/ WakesSpuriously(t)
      PROVE  pushed' = popped' \o queue_'
  BY <1>0, <1>4 DEF WaitPopCall, Sleep, WakesSpuriously
<1>5. CASE UNCHANGED qVars
  BY <1>0, <1>5 DEF qVars
<1> QED
  BY <1>1, <1>3, <1>4, <1>5 DEF QNext

\* SafeQueue hands out what was pushed, each value once and in order.
THEOREM PoppedInOrderHolds == QSpec => []PoppedInOrder
<1>1. QInit => PoppedInOrder
  BY ConcatEmptySeq DEF QInit, PoppedInOrder
<1> QED
  BY <1>1, OrderStep, TypeCorrect, PTL DEF QSpec

-----------------------------------------------------------------------------
(* notify_one in push is enough, for the queue and for the stack. *)

\* The awake threads can be counted.
LEMMA AwakeFinite ==
  ASSUME IsFiniteSet(Threads)
  PROVE  /\ IsFiniteSet(Awake) /\ Cardinality(Awake) \in Nat
         /\ IsFiniteSet(Awake') /\ Cardinality(Awake') \in Nat
<1>1. Awake \subseteq Threads /\ Awake' \subseteq Threads
  BY DEF Awake
<1> QED
  BY <1>1, FS_Subset, FS_CardinalityType

\* A step that adds no value, puts nobody to sleep and keeps the awake awake.
LEMMA AwakeKept ==
  ASSUME IsFiniteSet(Threads), QTypeOK, QTypeOK', WakeupsSuffice,
         Len(queue_') <= Len(queue_), Asleep' \subseteq Asleep, Awake \subseteq Awake'
  PROVE  WakeupsSuffice'
<1>1. Cardinality(Awake) <= Cardinality(Awake')
  BY AwakeFinite, FS_Subset
<1>2. Len(queue_) \in Nat /\ Len(queue_') \in Nat
  BY LenProperties DEF QTypeOK
<1> QED
  BY <1>1, <1>2, AwakeFinite DEF WakeupsSuffice

\* Every push wakes one for its value, and a wait_pop that leaves takes one value along.
LEMMA WakeupStep ==
  ASSUME IsFiniteSet(Threads), QTypeOK, QTypeOK', WakeupsSuffice, [QNext]_qVars
  PROVE  WakeupsSuffice'
<1>0. /\ Len(queue_) \in Nat /\ Len(queue_') \in Nat
      /\ pc \in [Threads -> {"idle", "waiting", "asleep"}]
  BY LenProperties DEF QTypeOK
<1>1. ASSUME NEW t \in Threads, NEW v \in Values, push(t, v) PROVE WakeupsSuffice'
  <2>1. Len(queue_') = Len(queue_) + 1
    BY <1>1 DEF push, QTypeOK
  <2>2. CASE Asleep = {} /\ pc' = pc
    BY <2>2 DEF Asleep, WakeupsSuffice
  <2>3. ASSUME NEW w \in Asleep, pc' = [pc EXCEPT ![w] = "waiting"] PROVE WakeupsSuffice'
    <3>1. w \notin Awake /\ Awake' = Awake \cup {w}
      BY <1>0, <2>3 DEF Awake, Asleep
    <3>2. Cardinality(Awake') = Cardinality(Awake) + 1
      BY <3>1, AwakeFinite, FS_AddElement
    <3> QED
      BY <1>0, <2>1, <2>3, <3>2, AwakeFinite DEF WakeupsSuffice
  <2> QED
    BY <1>1, <2>2, <2>3 DEF push
<1>2. ASSUME NEW t \in Threads, wait_pop(t) PROVE WakeupsSuffice'
  <2>1. Len(queue_') = Len(queue_) - 1
    BY <1>2, TakeTakes, Zenon DEF wait_pop
  <2>2. t \in Awake /\ Awake' = Awake \ {t} /\ Asleep' = Asleep
    BY <1>0, <1>2 DEF wait_pop, Awake, Asleep
  <2>3. Cardinality(Awake') = Cardinality(Awake) - 1
    BY <2>2, AwakeFinite, FS_RemoveElement
  <2> QED
    BY <1>0, <2>1, <2>2, <2>3, AwakeFinite DEF WakeupsSuffice
<1>3. ASSUME NEW t \in Threads, try_pop(t) PROVE WakeupsSuffice'
  <2>1. pc' = pc /\ (Take(t) \/ queue_' = queue_)
    BY <1>3, Zenon DEF try_pop
  <2>2. Take(t) => Len(queue_') = Len(queue_) - 1
    BY TakeTakes, Zenon
  <2>3. Len(queue_') <= Len(queue_)
    BY <1>0, <2>1, <2>2
  <2> QED
    BY <2>1, <2>3, AwakeKept DEF Asleep, Awake
<1>4. ASSUME NEW t \in Threads, Sleep(t) PROVE WakeupsSuffice'
  BY <1>4, AwakeFinite DEF Sleep, WakeupsSuffice
<1>5. ASSUME NEW t \in Threads, WaitPopCall(t) \/ WakesSpuriously(t) PROVE WakeupsSuffice'
  <2>1. /\ Len(queue_') <= Len(queue_)
        /\ Asleep' \subseteq Asleep /\ Awake \subseteq Awake'
    BY <1>0, <1>5 DEF WaitPopCall, WakesSpuriously, Asleep, Awake
  <2> QED
    BY <2>1, AwakeKept
<1>6. CASE UNCHANGED qVars
  BY <1>6 DEF qVars, WakeupsSuffice, Asleep, Awake
<1> QED
  BY <1>1, <1>2, <1>3, <1>4, <1>5, <1>6 DEF QNext

(***************************************************************************)
(* As long as a wait_pop of SafeQueue or SafeStack sleeps, there is an     *)
(* awake one for every value inside, for any finite number of threads.     *)
(***************************************************************************)
THEOREM WakeupsSufficeHolds ==
  ASSUME IsFiniteSet(Threads) PROVE QSpec => []WakeupsSuffice
<1>1. QInit => WakeupsSuffice
  BY DEF QInit, WakeupsSuffice, Asleep
<1>2. QTypeOK /\ QTypeOK' /\ WakeupsSuffice /\ [QNext]_qVars => WakeupsSuffice'
  BY WakeupStep
<1> QED
  BY <1>1, <1>2, TypeCorrect, PTL DEF QSpec

-----------------------------------------------------------------------------
(* SafeQueueEnhance *)

Places  == {"idle", "push", "linking", "publishing", "wait_pop", "try_pop", "asleep",
            "wait_popping", "try_popping"}
Pushing == {"push", "linking", "publishing"}
Popping == {"wait_popping", "try_popping"}

\* The members of the queue, its nodes and the threads have their types.
Shape ==
  /\ data \in [Nodes -> Values \cup {NoValue}]
  /\ next \in [Nodes -> Nodes \cup {Null}]
  /\ allocated \in 1..MaxPushes + 1
  /\ head_ \in Nodes /\ tail_ \in Nodes
  /\ mt_head_ \in Threads \cup {NoThread} /\ mt_tail_ \in Threads \cup {NoThread}
  /\ pc \in [Threads -> Places]
  /\ node \in [Threads -> Nodes \cup {Null}]
  /\ arg \in [Threads -> Values \cup {NoValue}]
  /\ pushed \in Seq(Values) /\ popped \in Seq(Values)

\* Who is between its first and its last step under a mutex holds it.
Holding ==
  \A t \in Threads :
    /\ mt_tail_ = t <=> pc[t] \in {"linking", "publishing"}
    /\ mt_head_ = t <=> pc[t] \in Popping

(***************************************************************************)
(* A pusher has a node of its own.  What it has written under mt_tail_ is  *)
(* still there, and what a popper has found under mt_head_ is still true,  *)
(* although the other end is written under the other mutex.                *)
(***************************************************************************)
Underway ==
  \A t \in Threads :
    /\ pc[t] \in Pushing =>
         /\ arg[t] \in Values /\ node[t] \in 0..allocated - 1
         /\ \A u \in Threads : pc[u] \in Pushing /\ node[u] = node[t] => u = t
    /\ pc[t] \in {"linking", "publishing"} => data[tail_] = arg[t]
    /\ pc[t] = "publishing" => next[tail_] = node[t]
    /\ pc[t] \in Popping => head_ # tail_

\* The places of the chain, of its nodes that are still in the queue, and of those before
\* the dummy.
Chain  == 1..Len(pushed) + 1
Inside == Len(popped) + 1..Len(pushed) + 1
Filled == Len(popped) + 1..Len(pushed)

(***************************************************************************)
(* c lists all nodes that were ever published, the dummy at the end last:  *)
(* no node twice, and none that a push still has for itself.  The popped   *)
(* ones are destroyed.  Of the others, those before the dummy are linked   *)
(* and filled, and no other node has a successor.                          *)
(***************************************************************************)
Linked(c) ==
  /\ \A i, j \in Chain : c[i] = c[j] => i = j
  /\ \A i \in Chain : c[i] < allocated
  /\ \A i \in Chain : \A t \in Threads : pc[t] \in Pushing => node[t] # c[i]
  /\ head_ = c[Len(popped) + 1] /\ tail_ = c[Len(pushed) + 1]
  /\ \A i \in Filled : next[c[i]] = c[i + 1] /\ data[c[i]] = pushed[i]
  /\ \A n \in Nodes : (\A i \in Inside : c[i] # n) => next[n] = Null
  /\ freed = {c[i] : i \in 1..Len(popped)}

\* What was popped is the beginning of what was pushed.
Begun == Len(popped) <= Len(pushed) /\ \A i \in 1..Len(popped) : popped[i] = pushed[i]

Inv ==
  /\ Shape /\ Holding /\ Underway /\ Begun
  /\ \E c \in [Chain -> Nodes] : Linked(c)

LEMMA InitInv == Init => Inv
<1> SUFFICES ASSUME Init PROVE Inv
  OBVIOUS
<1> USE EnhanceAssumption
<1>1. pushed = << >> /\ popped = << >> /\ Len(pushed) = 0 /\ Len(popped) = 0
  BY DEF Init
<1>2. Shape /\ Begun
  BY <1>1 DEF Init, Shape, Begun, Nodes, Null, Places
<1>3. Holding /\ Underway
  BY DEF Init, Holding, Underway, Pushing, Popping
<1>4. \E c \in [Chain -> Nodes] : Linked(c)
  <2> DEFINE d == [i \in Chain |-> 0]
  <2>1. Chain = {1} /\ Inside = {1} /\ Filled = {}
    BY <1>1 DEF Chain, Inside, Filled
  <2>2. d \in [Chain -> Nodes] /\ d[1] = 0
    BY <2>1 DEF Nodes
  <2>3. Linked(d)
    BY <1>1, <2>1, <2>2 DEF Init, Linked, Pushing
  <2> QED
    BY <2>2, <2>3, Zenon
<1> QED
  BY <1>2, <1>3, <1>4, Zenon DEF Inv

HasChain == \E c \in [Chain -> Nodes] : Linked(c)

(***************************************************************************)
(* Steps that leave the list alone: data may be written to the dummy, and  *)
(* a push may have a node that is newer than all of the chain.             *)
(***************************************************************************)
LEMMA ChainKept ==
  ASSUME Shape, Shape', Begun, HasChain, UNCHANGED <<next, freed, head_, tail_, pushed, popped>>,
         allocated <= allocated',
         data' = data \/ \E x : data' = [data EXCEPT ![tail_] = x],
         \A t \in Threads : pc'[t] \in Pushing =>
           (pc[t] \in Pushing /\ node'[t] = node[t]) \/ node'[t] = allocated
  PROVE  HasChain'
<1> USE EnhanceAssumption
<1>1. PICK c \in [Chain -> Nodes] : Linked(c)
  BY DEF HasChain
<1>2. Chain' = Chain /\ Inside' = Inside /\ Filled' = Filled /\ Nodes' = Nodes
  BY DEF Chain, Inside, Filled, Nodes
<1>3. Len(pushed) \in Nat /\ Len(popped) \in Nat /\ allocated \in Nat /\ allocated' \in Nat
  BY DEF Shape
<1>4. \A i \in Chain : c[i] \in Nat /\ c[i] < allocated
  BY <1>1 DEF Linked, Nodes
<1>5. \A i \in Chain : c[i] < allocated'
  BY <1>3, <1>4
<1>6. \A i \in Chain : \A t \in Threads : pc'[t] \in Pushing => node'[t] # c[i]
  <2>1. \A i \in Chain : c[i] # allocated
    BY <1>3, <1>4
  <2> QED
    BY <1>1, <2>1, Zenon DEF Linked
<1>7. \A i \in Filled : data'[c[i]] = data[c[i]]
  <2> SUFFICES ASSUME NEW i \in Filled PROVE data'[c[i]] = data[c[i]]
    OBVIOUS
  <2>1. i \in Chain /\ Len(pushed) + 1 \in Chain /\ i # Len(pushed) + 1
    BY <1>3 DEF Filled, Chain
  <2>2. c[i] # tail_ /\ c[i] \in Nodes
    BY <1>1, <2>1, Zenon DEF Linked
  <2> QED
    BY <2>2 DEF Shape
<1>8. Linked(c)'
  BY <1>1, <1>2, <1>5, <1>6, <1>7, Zenon DEF Linked
<1> QED
  BY <1>1, <1>2, <1>8, Zenon DEF HasChain

\* push makes its node: it is none that was made before.
LEMMA PushCallInv ==
  ASSUME Inv, NEW t \in Threads, PushCall(t)
  PROVE  Inv'
<1> USE EnhanceAssumption
<1>1. PICK v \in Values : arg' = [arg EXCEPT ![t] = v]
  BY DEF PushCall
<1>2. Shape' /\ Begun'
  BY <1>1 DEF PushCall, Inv, Shape, Begun, Nodes, Places, Goto
<1>3. Holding'
  BY DEF PushCall, Inv, Shape, Holding, Goto, Popping
<1>4. Underway'
  BY <1>1 DEF PushCall, Inv, Shape, Underway, Goto, Pushing, Popping, Nodes
<1>5. HasChain'
  <2>1. /\ UNCHANGED <<data, next, freed, head_, tail_, pushed, popped>>
        /\ allocated <= allocated'
        /\ \A u \in Threads : pc'[u] \in Pushing =>
              (pc[u] \in Pushing /\ node'[u] = node[u]) \/ node'[u] = allocated
    BY DEF PushCall, Inv, Shape, Goto, Pushing
  <2> QED
    BY <1>2, <2>1, ChainKept, Zenon DEF Inv, HasChain
<1> QED
  BY <1>2, <1>3, <1>4, <1>5, Zenon DEF Inv, HasChain

\* Under mt_tail_, the data goes to the dummy, which no popper looks at.
LEMMA PushDataInv ==
  ASSUME Inv, NEW t \in Threads, PushData(t)
  PROVE  Inv'
<1> USE EnhanceAssumption
<1>0. pc[t] = "push" /\ arg[t] \in Values
  BY DEF PushData, Inv, Underway, Pushing
<1>1. Shape' /\ Begun'
  BY <1>0 DEF PushData, Inv, Shape, Begun, Places, Goto, localVars
<1>2. Holding'
  BY DEF PushData, Inv, Shape, Holding, Goto, Popping
<1>3. Underway'
  <2>1. /\ UNCHANGED <<next, head_, tail_, node, arg, allocated>>
        /\ data' = [data EXCEPT ![tail_] = arg[t]] /\ data'[tail_] = arg[t]
        /\ pc' = [pc EXCEPT ![t] = "linking"]
    BY DEF PushData, Inv, Shape, Goto, localVars
  <2>2. \A u \in Threads : u # t => pc'[u] = pc[u] /\ pc[u] \notin {"linking", "publishing"}
    BY EnhanceAssumption, <2>1 DEF PushData, Inv, Shape, Holding
  <2>3. pc'[t] = "linking"
    BY <2>1 DEF Inv, Shape
  <2> QED
    BY <1>0, <2>1, <2>2, <2>3 DEF Inv, Underway, Pushing, Popping
<1>4. HasChain'
  <2>1. /\ UNCHANGED <<next, freed, head_, tail_, pushed, popped>>
        /\ data' = [data EXCEPT ![tail_] = arg[t]] /\ allocated <= allocated'
        /\ \A u \in Threads : pc'[u] \in Pushing =>
              (pc[u] \in Pushing /\ node'[u] = node[u]) \/ node'[u] = allocated
    BY DEF PushData, Inv, Shape, Goto, Pushing, localVars
  <2> QED
    BY <1>1, <2>1, ChainKept, Zenon DEF Inv, HasChain
<1> QED
  BY <1>1, <1>2, <1>3, <1>4, Zenon DEF Inv, HasChain

\* The dummy gets a successor, which is not published yet.
LEMMA PushLinkInv ==
  ASSUME Inv, NEW t \in Threads, PushLink(t)
  PROVE  Inv'
<1> USE EnhanceAssumption
<1>0. pc[t] = "linking" /\ mt_tail_ = t /\ node[t] \in Nodes
  BY DEF PushLink, Inv, Holding, Underway, Pushing, Shape, Nodes
<1>1. Shape' /\ Begun'
  BY <1>0 DEF PushLink, Inv, Shape, Begun, Places, Goto, localVars
<1>2. Holding'
  BY DEF PushLink, Inv, Shape, Holding, Goto, Popping
<1>3. Underway'
  BY <1>0 DEF PushLink, Inv, Shape, Holding, Underway, Goto, Pushing, Popping, localVars
<1>4. HasChain'
  <2>1. PICK c \in [Chain -> Nodes] : Linked(c)
    BY DEF Inv
  <2>2. /\ UNCHANGED <<data, freed, head_, tail_, pushed, popped, allocated, node>>
        /\ next' = [next EXCEPT ![tail_] = node[t]]
        /\ \A u \in Threads : pc'[u] \in Pushing => pc[u] \in Pushing
    BY DEF PushLink, Inv, Shape, Goto, Pushing, localVars
  <2>3. Chain' = Chain /\ Inside' = Inside /\ Filled' = Filled /\ Nodes' = Nodes
    BY <2>2 DEF Chain, Inside, Filled, Nodes
  <2>4. Len(pushed) \in Nat /\ Len(popped) \in Nat
    BY DEF Inv, Shape
  <2>5. \A n \in Nodes : n # tail_ => next'[n] = next[n]
    BY <2>2 DEF Inv, Shape
  <2>6. \A i \in Filled : c[i] # tail_ /\ c[i] \in Nodes
    <3>1. \A i \in Filled : i \in Chain /\ Len(pushed) + 1 \in Chain /\ i # Len(pushed) + 1
      BY <2>4 DEF Filled, Chain
    <3> QED
      BY <2>1, <3>1, Zenon DEF Linked
  <2>7. \A n \in Nodes : (\A i \in Inside : c[i] # n) => n # tail_
    <3>1. Len(pushed) + 1 \in Inside
      BY <2>4 DEF Inside, Inv, Begun
    <3> QED
      BY <2>1, <3>1, Zenon DEF Linked
  <2>8. Linked(c)'
    BY <2>1, <2>2, <2>3, <2>5, <2>6, <2>7, Zenon DEF Linked
  <2> QED
    BY <2>1, <2>3, <2>8, Zenon DEF HasChain
<1> QED
  BY <1>1, <1>2, <1>3, <1>4, Zenon DEF Inv, HasChain

\* The new node is the dummy, and the old one is inside with its value and its successor.
LEMMA PushPublishInv ==
  ASSUME Inv, NEW t \in Threads, PushPublish(t)
  PROVE  Inv'
<1> USE EnhanceAssumption
<1>0. /\ pc[t] = "publishing" /\ mt_tail_ = t
      /\ arg[t] \in Values /\ node[t] \in Nodes /\ node[t] < allocated
      /\ data[tail_] = arg[t] /\ next[tail_] = node[t]
  BY DEF PushPublish, Inv, Holding, Underway, Pushing, Shape, Nodes
<1>1. /\ UNCHANGED <<data, next, freed, head_, popped, allocated>>
      /\ tail_' = node[t] /\ pushed' = Append(pushed, arg[t])
      /\ pc' = [pc EXCEPT ![t] = "idle"] /\ node' = [node EXCEPT ![t] = Null]
      /\ arg' = [arg EXCEPT ![t] = NoValue] /\ mt_head_' = mt_head_ /\ mt_tail_' = NoThread
  BY DEF PushPublish, Goto, nodeVars
<1>2. /\ pushed' \in Seq(Values) /\ Len(pushed') = Len(pushed) + 1
      /\ \A i \in 1..Len(pushed) : pushed'[i] = pushed[i]
      /\ pushed'[Len(pushed) + 1] = arg[t]
      /\ Len(pushed) \in Nat /\ Len(popped) \in Nat /\ Len(popped) <= Len(pushed)
  BY <1>0, <1>1 DEF Inv, Shape, Begun
<1>3. Shape' /\ Begun'
  <2>1. Begun'
    BY <1>1, <1>2 DEF Inv, Begun
  <2>2. Shape'
    BY <1>0, <1>1, <1>2 DEF Inv, Shape, Places
  <2> QED
    BY <2>1, <2>2
<1>4. /\ pc'[t] = "idle" /\ \A u \in Threads : u # t => pc'[u] = pc[u] /\ node'[u] = node[u] /\ arg'[u] = arg[u]
      /\ \A u \in Threads : u # t => pc[u] \notin {"linking", "publishing"}
  BY <1>0, <1>1 DEF Inv, Shape, Holding
<1>5. Holding'
  BY <1>0, <1>1, <1>4 DEF Inv, Holding, Popping
<1>6. PICK c \in [Chain -> Nodes] : Linked(c)
  BY DEF Inv
<1>7. /\ Chain' = Chain \cup {Len(pushed) + 2} /\ Inside' = Inside \cup {Len(pushed) + 2}
      /\ Filled' = Inside /\ Inside = Filled \cup {Len(pushed) + 1}
      /\ Inside \subseteq Chain /\ Filled \subseteq 1..Len(pushed)
      /\ Len(pushed) + 2 \notin Chain /\ Len(popped) + 1 \in Chain /\ Len(pushed) + 1 \in Chain
      /\ Len(pushed) + 1 \notin Filled
  BY <1>1, <1>2 DEF Chain, Inside, Filled
<1>8. Underway'
  <2>1. \A i \in Chain : node[t] # c[i]
    BY <1>0, <1>6, Zenon DEF Linked, Pushing
  <2>2. head_ # node[t]
    BY <1>6, <1>7, <2>1, Zenon DEF Linked
  <2> QED
    BY <1>1, <1>4, <2>2 DEF Inv, Underway, Pushing, Popping
<1>9. HasChain'
  <2>1. PICK d \in [Chain' -> Nodes'] :
          d[Len(pushed) + 2] = node[t] /\ \A i \in Chain : d[i] = c[i]
    <3> DEFINE e == [i \in Chain' |-> IF i = Len(pushed) + 2 THEN node[t] ELSE c[i]]
    <3>1. /\ e \in [Chain' -> Nodes'] /\ e[Len(pushed) + 2] = node[t]
          /\ \A i \in Chain : e[i] = c[i]
      BY <1>0, <1>6, <1>7 DEF Nodes
    <3> QED
      BY <3>1, Zenon
  <2>2. \A i \in Chain : node[t] # c[i]
    BY <1>0, <1>6, Zenon DEF Linked, Pushing
  <2>3. ASSUME NEW i \in Chain', NEW j \in Chain', d[i] = d[j] PROVE i = j
    <3>1. CASE i \in Chain /\ j \in Chain
      <4>1. c[i] = c[j]
        BY <2>1, <2>3, <3>1, Zenon
      <4> QED
        BY <1>6, <3>1, <4>1, Zenon DEF Linked
    <3>2. CASE i \notin Chain \/ j \notin Chain
      BY <1>7, <2>1, <2>2, <2>3, <3>2, Zenon
    <3> QED
      BY <3>1, <3>2
  <2>4. \A i \in Chain' : d[i] < allocated'
    BY <1>0, <1>1, <1>6, <1>7, <2>1, Zenon DEF Linked
  <2>5. \A i \in Chain' : \A u \in Threads : pc'[u] \in Pushing => node'[u] # d[i]
    <3>1. ASSUME NEW u \in Threads, pc'[u] \in Pushing
          PROVE  pc[u] \in Pushing /\ node'[u] = node[u] /\ node[u] # node[t]
      <4>1. "idle" \notin Pushing /\ pc[t] \in Pushing
        BY <1>0 DEF Pushing
      <4>2. u # t /\ pc[u] \in Pushing /\ node'[u] = node[u]
        BY <1>4, <3>1, <4>1, Zenon
      <4> QED
        BY <4>1, <4>2, Zenon DEF Inv, Underway
    <3>2. ASSUME NEW u \in Threads, pc'[u] \in Pushing, NEW i \in Chain PROVE node'[u] # d[i]
      <4>1. node'[u] = node[u] /\ pc[u] \in Pushing /\ d[i] = c[i]
        BY <2>1, <3>1, <3>2, Zenon
      <4> QED
        BY <1>6, <4>1, Zenon DEF Linked
    <3> QED
      BY <1>7, <2>1, <3>1, <3>2, Zenon
  <2>6. head_' = d[Len(popped') + 1] /\ tail_' = d[Len(pushed') + 1]
    <3>1. Len(pushed') + 1 = Len(pushed) + 2
      BY <1>2
    <3>2. head_' = c[Len(popped) + 1] /\ tail_' = node[t] /\ popped' = popped
      BY <1>1, <1>6, Zenon DEF Linked
    <3> QED
      BY <1>7, <2>1, <3>1, <3>2, Zenon
  <2>7. ASSUME NEW i \in Filled' PROVE next'[d[i]] = d[i + 1] /\ data'[d[i]] = pushed'[i]
    <3>1. CASE i = Len(pushed) + 1
      <4>1. i + 1 = Len(pushed) + 2 /\ c[i] = tail_
        BY <1>2, <1>6, <3>1 DEF Linked
      <4>2. d[i] = tail_ /\ d[i + 1] = node[t] /\ pushed'[i] = arg[t]
        BY <1>2, <1>7, <2>1, <3>1, <4>1, Zenon
      <4> QED
        BY <1>0, <1>1, <4>2, Zenon
    <3>2. CASE i \in Filled
      <4>1. i \in Chain /\ i + 1 \in Chain /\ i \in 1..Len(pushed)
        BY <1>2, <3>2 DEF Filled, Chain
      <4>2. next[c[i]] = c[i + 1] /\ data[c[i]] = pushed[i]
        BY <1>6, <3>2, Zenon DEF Linked
      <4> QED
        BY <1>1, <1>2, <2>1, <4>1, <4>2, Zenon
    <3> QED
      BY <1>7, <3>1, <3>2, Zenon
  <2>8. \A n \in Nodes' : (\A i \in Inside' : d[i] # n) => next'[n] = Null
    <3>1. Nodes' = Nodes
      BY DEF Nodes
    <3>2. ASSUME NEW n \in Nodes, \A i \in Inside' : d[i] # n PROVE next'[n] = Null
      <4>1. \A i \in Inside : c[i] # n
        BY <1>7, <2>1, <3>2, Zenon
      <4> QED
        BY <1>1, <1>6, <4>1, Zenon DEF Linked
    <3> QED
      BY <3>1, <3>2, Zenon
  <2>9. freed' = {d[i] : i \in 1..Len(popped')}
    <3>1. 1..Len(popped) \subseteq Chain
      BY <1>2 DEF Chain
    <3>2. {d[i] : i \in 1..Len(popped)} = {c[i] : i \in 1..Len(popped)}
      BY <2>1, <3>1, Zenon
    <3> QED
      BY <1>1, <1>6, <3>2, Zenon DEF Linked
  <2>10. Linked(d)'
    BY <2>3, <2>4, <2>5, <2>6, <2>7, <2>8, <2>9, Zenon DEF Linked
  <2> QED
    BY <2>1, <2>10, Zenon DEF HasChain
<1> QED
  BY <1>3, <1>5, <1>8, <1>9, Zenon DEF Inv, HasChain

\* Calls, the test under mt_head_, sleeping and waking leave the list alone.
LEMMA PopLockInv ==
  ASSUME Inv, NEW t \in Threads,
         PopCall(t, "wait_pop") \/ PopCall(t, "try_pop") \/ PopLock(t) \/ SpuriousWakeup(t)
  PROVE  Inv'
<1> USE EnhanceAssumption
<1>1. /\ UNCHANGED <<data, next, freed, head_, tail_, pushed, popped, allocated, node, arg>>
      /\ mt_tail_' = mt_tail_ /\ pc[t] \notin Pushing \cup Popping
      /\ \/ /\ \E place \in Places \ (Pushing \cup Popping) : pc' = [pc EXCEPT ![t] = place]
            /\ mt_head_' = mt_head_
         \/ /\ \E place \in Popping : pc' = [pc EXCEPT ![t] = place]
            /\ mt_head_ = NoThread /\ mt_head_' = t /\ head_ # tail_
  <2>1. CASE PopCall(t, "wait_pop") \/ PopCall(t, "try_pop") \/ SpuriousWakeup(t)
    BY <2>1 DEF PopCall, SpuriousWakeup, Goto, nodeVars, localVars, Places, Pushing, Popping
  <2>2. CASE PopLock(t)
    BY <2>2 DEF PopLock, PopFound, TryPopEmpty, WaitPopSleep, Goto, nodeVars, localVars, Places,
                Pushing, Popping
  <2> QED
    BY <2>1, <2>2
<1>2. /\ pc' \in [Threads -> Places] /\ pc'[t] \notin Pushing
      /\ \A u \in Threads : u # t => pc'[u] = pc[u]
  BY <1>1 DEF Inv, Shape, Places, Pushing, Popping
<1>3. Shape' /\ Begun'
  BY <1>1, <1>2 DEF Inv, Shape, Begun, Nodes
<1>4. Holding'
  BY <1>1, <1>2 DEF Inv, Shape, Holding, Places, Pushing, Popping
<1>5. Underway'
  BY <1>1, <1>2 DEF Inv, Shape, Underway, Places, Pushing, Popping
<1>6. HasChain'
  <2>1. /\ allocated <= allocated'
        /\ \A u \in Threads : pc'[u] \in Pushing => pc[u] \in Pushing /\ node'[u] = node[u]
    BY <1>1, <1>2 DEF Inv, Shape
  <2> QED
    BY <1>1, <1>3, <2>1, ChainKept, Zenon DEF Inv, HasChain
<1> QED
  BY <1>3, <1>4, <1>5, <1>6, Zenon DEF Inv, HasChain

\* What a pop hands out and where head_ goes.
LEMMA PopTakes ==
  ASSUME Inv, NEW t \in Threads, pop(t)
  PROVE  /\ Len(popped) < Len(pushed) /\ data[head_] = pushed[Len(popped) + 1]
         /\ data[head_] \in Values
<1>1. PICK c \in [Chain -> Nodes] : Linked(c)
  BY DEF Inv
<1>2. Len(popped) \in Nat /\ Len(pushed) \in Nat /\ Len(popped) <= Len(pushed)
  BY DEF Inv, Shape, Begun
<1>3. head_ = c[Len(popped) + 1] /\ tail_ = c[Len(pushed) + 1] /\ head_ # tail_
  BY <1>1, Zenon DEF pop, Inv, Underway, Linked, Popping
<1>4. Len(popped) # Len(pushed)
  BY <1>3
<1>5. Len(popped) + 1 \in Filled /\ Len(popped) + 1 \in 1..Len(pushed)
  BY <1>2, <1>4 DEF Filled
<1>6. data[head_] = pushed[Len(popped) + 1]
  BY <1>1, <1>3, <1>5, Zenon DEF Linked
<1>7. pushed[Len(popped) + 1] \in Values
  BY <1>5, ElementOfSeq DEF Inv, Shape
<1> QED
  BY <1>2, <1>4, <1>6, <1>7

\* pop moves head_ along the chain and destroys the node it leaves behind.
LEMMA PopInv ==
  ASSUME Inv, NEW t \in Threads, pop(t)
  PROVE  Inv'
<1> USE EnhanceAssumption
<1>1. /\ UNCHANGED <<data, tail_, pushed, allocated, node, arg>>
      /\ popped' = Append(popped, data[head_])
      /\ head_' = next[head_] /\ next' = [next EXCEPT ![head_] = Null]
      /\ freed' = freed \cup {head_} /\ pc[t] \in Popping
      /\ pc' = [pc EXCEPT ![t] = "idle"] /\ mt_tail_' = mt_tail_ /\ mt_head_' = NoThread
  BY DEF pop, Goto, localVars, Popping
<1>2. /\ popped' \in Seq(Values) /\ Len(popped') = Len(popped) + 1
      /\ \A i \in 1..Len(popped) : popped'[i] = popped[i]
      /\ popped'[Len(popped) + 1] = pushed[Len(popped) + 1]
      /\ Len(pushed) \in Nat /\ Len(popped) \in Nat /\ Len(popped) < Len(pushed)
  BY <1>1, PopTakes DEF Inv, Shape
<1>3. /\ pc'[t] = "idle" /\ \A u \in Threads : u # t => pc'[u] = pc[u] /\ pc[u] \notin Popping
      /\ "idle" \notin Popping
      /\ \A u \in Threads : pc'[u] \in Pushing => pc[u] \in Pushing
      /\ pc' \in [Threads -> Places]
  BY <1>1 DEF Inv, Shape, Holding, Popping, Pushing, Places
<1>4. PICK c \in [Chain -> Nodes] : Linked(c)
  BY DEF Inv
<1>5. /\ Chain' = Chain /\ Nodes' = Nodes
      /\ Inside = Inside' \cup {Len(popped) + 1} /\ Filled = Filled' \cup {Len(popped) + 1}
      /\ Inside \subseteq Chain /\ Filled \subseteq Chain
      /\ Len(popped) + 1 \notin Inside' /\ Len(popped) + 1 \notin Filled'
      /\ 1..Len(popped') = 1..Len(popped) \cup {Len(popped) + 1}
      /\ Filled' \subseteq Filled
  BY <1>1, <1>2 DEF Chain, Inside, Filled, Nodes
<1>6. /\ head_ = c[Len(popped) + 1] /\ next[head_] = c[Len(popped) + 2]
      /\ Len(popped) + 1 \in Chain /\ Len(popped) + 2 \in Chain
  <2>1. Len(popped) + 1 \in Filled /\ (Len(popped) + 1) + 1 = Len(popped) + 2
    BY <1>2 DEF Filled
  <2>2. Len(popped) + 1 \in Chain /\ Len(popped) + 2 \in Chain
    BY <1>2 DEF Chain
  <2> QED
    BY <1>4, <2>1, <2>2, Zenon DEF Linked
<1>7. head_ \in Nodes /\ next[head_] \in Nodes /\ head_ # tail_
  BY <1>1, <1>4, <1>6 DEF Inv, Underway
<1>8. Shape' /\ Begun'
  <2>1. Begun'
    BY <1>1, <1>2 DEF Inv, Begun
  <2>2. Shape'
    BY <1>1, <1>2, <1>3, <1>7 DEF Inv, Shape, Nodes
  <2> QED
    BY <2>1, <2>2
<1>9. Holding'
  BY <1>1, <1>3 DEF Inv, Shape, Holding, Popping
<1>10. Underway'
  <2>1. next'[tail_] = next[tail_]
    BY <1>1, <1>7 DEF Inv, Shape
  <2>2. ASSUME NEW u \in Threads PROVE pc'[u] \notin Popping
    BY <1>3, Zenon
  <2>3. ASSUME NEW u \in Threads, pc'[u] \in Pushing PROVE pc'[u] = pc[u] /\ u # t
    BY <1>3, <2>3 DEF Pushing
  <2> QED
    BY <1>1, <2>1, <2>2, <2>3, Zenon DEF Inv, Underway, Pushing
<1>11. HasChain'
  <2>1. ASSUME NEW i \in Filled' PROVE c[i] # head_ /\ c[i] \in Nodes
    <3>1. i \in Chain /\ i # Len(popped) + 1
      BY <1>5, Zenon
    <3>2. c[i] # c[Len(popped) + 1]
      BY <1>4, <1>6, <3>1, Zenon DEF Linked
    <3> QED
      BY <1>4, <1>6, <3>1, <3>2, Zenon
  <2>2. \A n \in Nodes : n # head_ => next'[n] = next[n]
    BY <1>1 DEF Inv, Shape
  <2>3. next'[head_] = Null
    BY <1>1, <1>7 DEF Inv, Shape
  <2>4. ASSUME NEW n \in Nodes, \A i \in Inside' : c[i] # n PROVE next'[n] = Null
    <3>1. CASE n = head_
      BY <2>3, <3>1
    <3>2. CASE n # head_
      <4>1. \A i \in Inside : c[i] # n
        BY <1>5, <1>6, <2>4, <3>2, Zenon
      <4> QED
        BY <1>4, <2>2, <3>2, <4>1, Zenon DEF Linked
    <3> QED
      BY <3>1, <3>2
  <2>5. freed' = {c[i] : i \in 1..Len(popped')}
    <3>1. freed = {c[i] : i \in 1..Len(popped)}
      BY <1>4, Zenon DEF Linked
    <3>2. {c[i] : i \in 1..Len(popped')} = {c[i] : i \in 1..Len(popped)} \cup {c[Len(popped) + 1]}
      BY <1>5, Zenon
    <3> QED
      BY <1>1, <1>6, <3>1, <3>2, Zenon
  <2>6. head_' = c[Len(popped') + 1] /\ tail_' = c[Len(pushed') + 1]
    <3>1. Len(popped') + 1 = Len(popped) + 2
      BY <1>2
    <3>2. tail_ = c[Len(pushed) + 1]
      BY <1>4, Zenon DEF Linked
    <3> QED
      BY <1>1, <1>6, <3>1, <3>2, Zenon
  <2>7. \A i \in Filled' : next'[c[i]] = c[i + 1] /\ data'[c[i]] = pushed'[i]
    BY <1>1, <1>4, <1>5, <2>1, <2>2, Zenon DEF Linked
  <2>8. Linked(c)'
    BY <1>1, <1>3, <1>4, <1>5, <2>4, <2>5, <2>6, <2>7, Zenon DEF Linked
  <2> QED
    BY <1>4, <1>5, <2>8, Zenon DEF HasChain
<1> QED
  BY <1>8, <1>9, <1>10, <1>11, Zenon DEF Inv, HasChain

LEMMA AlwaysInv == Spec => []Inv
<1>1. Inv /\ [Next]_vars => Inv'
  <2> SUFFICES ASSUME Inv, [Next]_vars PROVE Inv'
    OBVIOUS
  <2>1. CASE UNCHANGED vars
    <3>1. /\ UNCHANGED <<data, next, freed, head_, tail_, pushed, popped, allocated, pc, node>>
          /\ UNCHANGED <<arg, mt_head_, mt_tail_>>
      BY <2>1 DEF vars
    <3>2. Shape' /\ Holding' /\ Underway' /\ Begun'
      BY <3>1 DEF Inv, Shape, Holding, Underway, Begun, Nodes
    <3>3. HasChain'
      <4>1. allocated <= allocated'
        BY <3>1 DEF Inv, Shape
      <4> QED
        BY <3>1, <3>2, <4>1, ChainKept, Zenon DEF Inv, HasChain
    <3> QED
      BY <3>2, <3>3, Zenon DEF Inv, HasChain
  <2> QED
    BY <2>1, PushCallInv, PushDataInv, PushLinkInv, PushPublishInv, PopLockInv, PopInv DEF Next
<1> QED
  BY <1>1, InitInv, PTL DEF Spec

-----------------------------------------------------------------------------
(* What the recursive functions of the model are on the chain *)

Rest == SubSeq(pushed, Len(popped) + 1, Len(pushed))

\* From head_ to the dummy, the values are those pushed and not yet popped.
LEMMA ContentsIs ==
  ASSUME Inv
  PROVE  Contents = Rest
<1> DEFINE D    == Nodes \cup {Null}
           F(g) == [n \in D |-> IF n \in {tail_, Null} THEN << >> ELSE <<data[n]>> \o g[next[n]]]
           f    == CHOOSE g : g = F(g)
           N    == Len(pushed)
<1>1. Contents = f[head_]
  BY Zenon DEF Contents
<1>2. PICK c \in [Chain -> Nodes] : Linked(c)
  BY DEF Inv
<1>3. /\ N \in Nat /\ Len(popped) \in Nat /\ Len(popped) <= N /\ pushed \in Seq(Values)
      /\ Null \notin Nodes /\ Inside \subseteq Chain /\ Filled \subseteq Inside
      /\ N + 1 \in Inside /\ Len(popped) + 1 \in Inside
      /\ \A i \in Inside : i # N + 1 => i \in Filled
      /\ \A i \in Filled : i + 1 \in Inside /\ i # N + 1
  BY EnhanceAssumption DEF Inv, Shape, Begun, Inside, Filled, Chain, Nodes, Null
<1>4. /\ \A i \in Inside : c[i] \in Nodes /\ c[i] \in D /\ c[i] # Null
      /\ \A i, j \in Inside : c[i] = c[j] => i = j
      /\ tail_ = c[N + 1] /\ head_ = c[Len(popped) + 1]
      /\ \A i \in Filled : next[c[i]] = c[i + 1] /\ data[c[i]] = pushed[i] /\ c[i] # tail_
      /\ \A n \in Nodes : (\A i \in Inside : c[i] # n) => next[n] = Null
  <2>1. \A i \in Inside : c[i] \in Nodes /\ c[i] \in D /\ c[i] # Null
    BY <1>3
  <2>2. \A i, j \in Inside : c[i] = c[j] => i = j
    BY <1>2, <1>3, Zenon DEF Linked
  <2>3. tail_ = c[N + 1] /\ head_ = c[Len(popped) + 1]
    BY <1>2, Zenon DEF Linked
  <2>4. \A i \in Filled : c[i] # tail_
    BY <1>3, <2>2, <2>3, Zenon
  <2> QED
    BY <1>2, <2>1, <2>2, <2>3, <2>4, Zenon DEF Linked
<1>5. \A i \in Filled : <<pushed[i]>> \o SubSeq(pushed, i + 1, N) = SubSeq(pushed, i, N)
  <2> SUFFICES ASSUME NEW i \in Filled
               PROVE  <<pushed[i]>> \o SubSeq(pushed, i + 1, N) = SubSeq(pushed, i, N)
    OBVIOUS
  <2>1. i \in 1..Len(pushed) /\ N \in i..Len(pushed)
    BY <1>3 DEF Filled
  <2> QED
    BY <1>3, <2>1, SubSeqRecursiveFirst
<1>6. SubSeq(pushed, N + 1, N) = << >>
  BY <1>3, SubSeqEmpty
<1>7. \E g : g = F(g)
  <2> DEFINE At(n) == CHOOSE i \in Inside : c[i] = n
             g == [n \in D |-> IF \E i \in Inside : c[i] = n THEN SubSeq(pushed, At(n), N)
                               ELSE IF n = Null THEN << >> ELSE <<data[n]>>]
  <2>1. \A i \in Inside : g[c[i]] = SubSeq(pushed, i, N)
    <3> SUFFICES ASSUME NEW i \in Inside PROVE g[c[i]] = SubSeq(pushed, i, N)
      OBVIOUS
    <3>1. At(c[i]) = i
      BY <1>4, Zenon
    <3> QED
      BY <1>4, <3>1, Zenon
  <2>2. g[Null] = << >>
    BY <1>4, Zenon
  <2>3. \A n \in Nodes : (\A i \in Inside : c[i] # n) => g[n] = <<data[n]>>
    BY <1>3, Zenon
  <2>4. ASSUME NEW n \in D
        PROVE  g[n] = IF n \in {tail_, Null} THEN << >> ELSE <<data[n]>> \o g[next[n]]
    <3> HIDE DEF g
    <3>1. CASE n = Null
      BY <2>2, <3>1, Zenon
    <3>2. ASSUME NEW i \in Inside, n = c[i]
          PROVE  g[n] = IF n \in {tail_, Null} THEN << >> ELSE <<data[n]>> \o g[next[n]]
      <4>1. CASE i = N + 1
        BY <1>4, <1>6, <2>1, <3>2, <4>1, Zenon
      <4>2. CASE i \in Filled
        <5>1. g[next[n]] = SubSeq(pushed, i + 1, N) /\ n \notin {tail_, Null}
          BY <1>3, <1>4, <2>1, <3>2, <4>2, Zenon
        <5> QED
          BY <1>4, <1>5, <2>1, <3>2, <4>2, <5>1, Zenon
      <4> QED
        BY <1>3, <4>1, <4>2, Zenon
    <3>3. CASE n # Null /\ \A i \in Inside : c[i] # n
      <4>1. n \in Nodes /\ n # tail_ /\ next[n] = Null
        BY <1>3, <1>4, <3>3, Zenon
      <4>2. <<data[n]>> \o << >> = <<data[n]>>
        OBVIOUS
      <4> QED
        BY <2>2, <2>3, <3>3, <4>1, <4>2, Zenon
    <3> QED
      BY <3>1, <3>2, <3>3, Zenon
  <2>5. g = F(g)
    BY <2>4, Zenon
  <2> QED
    BY <2>5, Zenon
<1>8. f = F(f)
  BY <1>7, Zenon
<1>9. \A n \in D : f[n] = IF n \in {tail_, Null} THEN << >> ELSE <<data[n]>> \o f[next[n]]
  BY <1>8, Zenon
<1> DEFINE G == {i \in Inside : f[c[i]] = SubSeq(pushed, i, N)}
<1> HIDE DEF f
<1>10. N + 1 \in G
  BY <1>3, <1>4, <1>6, <1>9, Zenon
<1>11. ASSUME NEW i \in Len(popped) + 2..N + 1, i \in G PROVE i - 1 \in G
  <2>1. i - 1 \in Filled /\ (i - 1) + 1 = i
    BY <1>3 DEF Filled
  <2> DEFINE j == i - 1
  <2> HIDE DEF j
  <2>2. j \in Filled /\ j + 1 = i /\ j + 1 \in G
    BY <1>11, <2>1 DEF j
  <2>3. f[c[j]] = <<pushed[j]>> \o SubSeq(pushed, j + 1, N)
    <3>1. /\ c[j] \in D /\ c[j] \notin {tail_, Null}
          /\ data[c[j]] = pushed[j] /\ next[c[j]] = c[j + 1]
      BY <1>3, <1>4, <2>2, Zenon
    <3>2. f[c[j]] = <<data[c[j]]>> \o f[next[c[j]]]
      BY <1>9, <3>1, Zenon
    <3>3. f[c[j + 1]] = SubSeq(pushed, j + 1, N)
      BY <2>2, Zenon
    <3> QED
      BY <3>1, <3>2, <3>3, Zenon
  <2>4. j \in G
    BY <1>3, <1>5, <2>2, <2>3, Zenon
  <2> QED
    BY <2>4, Zenon DEF j
<1> HIDE DEF G
<1>12. Len(popped) + 1 \in G
  <2>1. /\ Len(popped) + 1 \in Int /\ N + 1 \in Int /\ (Len(popped) + 1) + 1 = Len(popped) + 2
        /\ Len(popped) + 1 \in Len(popped) + 1..N + 1
    BY <1>3
  <2> QED
    BY <1>10, <1>11, <2>1, IntervalDownwards
<1> QED
  BY <1>1, <1>4, <1>12, Zenon DEF G, Rest

\* The nodes that are reached from head_ are those of the chain that were not popped.
LEMMA ReachIs ==
  ASSUME Inv, NEW c \in [Chain -> Nodes], Linked(c)
  PROVE  LET reach[n \in Nodes \cup {Null}] ==
               IF n \in {tail_, Null} THEN {n} ELSE {n} \cup reach[next[n]]
         IN  reach[head_] = {c[i] : i \in Inside}
<1> DEFINE D    == Nodes \cup {Null}
           F(g) == [n \in D |-> IF n \in {tail_, Null} THEN {n} ELSE {n} \cup g[next[n]]]
           f    == CHOOSE g : g = F(g)
           N    == Len(pushed)
           From(i) == {c[j] : j \in i..N + 1}
<1>1. SUFFICES f[head_] = {c[i] : i \in Inside}
  BY Zenon
<1>3. /\ N \in Nat /\ Len(popped) \in Nat /\ Len(popped) <= N
      /\ Null \notin Nodes /\ Inside \subseteq Chain /\ Filled \subseteq Inside
      /\ N + 1 \in Inside /\ Len(popped) + 1 \in Inside
      /\ \A i \in Inside : i # N + 1 => i \in Filled
      /\ \A i \in Filled : i + 1 \in Inside /\ i # N + 1
  BY EnhanceAssumption DEF Inv, Shape, Begun, Inside, Filled, Chain, Nodes, Null
<1>4. /\ \A i \in Inside : c[i] \in Nodes /\ c[i] \in D /\ c[i] # Null
      /\ \A i, j \in Inside : c[i] = c[j] => i = j
      /\ tail_ = c[N + 1] /\ head_ = c[Len(popped) + 1]
      /\ \A i \in Filled : next[c[i]] = c[i + 1] /\ c[i] # tail_
      /\ \A n \in Nodes : (\A i \in Inside : c[i] # n) => next[n] = Null
  <2>1. \A i \in Inside : c[i] \in Nodes /\ c[i] \in D /\ c[i] # Null
    BY <1>3
  <2>2. \A i, j \in Inside : c[i] = c[j] => i = j
    BY <1>3, Zenon DEF Linked
  <2>3. tail_ = c[N + 1] /\ head_ = c[Len(popped) + 1]
    BY Zenon DEF Linked
  <2>4. \A i \in Filled : c[i] # tail_
    BY <1>3, <2>2, <2>3, Zenon
  <2> QED
    BY <2>1, <2>2, <2>3, <2>4, Zenon DEF Linked
<1>5. \A i \in Filled : {c[i]} \cup From(i + 1) = From(i)
  <2> SUFFICES ASSUME NEW i \in Filled PROVE {c[i]} \cup From(i + 1) = From(i)
    OBVIOUS
  <2>1. i..N + 1 = {i} \cup (i + 1..N + 1)
    BY <1>3 DEF Filled
  <2> QED
    BY <2>1, Zenon
<1>6. From(N + 1) = {c[N + 1]}
  <2>1. N + 1..N + 1 = {N + 1}
    BY <1>3
  <2> QED
    BY <2>1, Zenon
<1> HIDE DEF From
<1>7. \E g : g = F(g)
  <2> DEFINE At(n) == CHOOSE i \in Inside : c[i] = n
             g == [n \in D |-> IF \E i \in Inside : c[i] = n THEN From(At(n))
                               ELSE IF n = Null THEN {Null} ELSE {n, Null}]
  <2>1. \A i \in Inside : g[c[i]] = From(i)
    <3> SUFFICES ASSUME NEW i \in Inside PROVE g[c[i]] = From(i)
      OBVIOUS
    <3>1. At(c[i]) = i
      BY <1>4, Zenon
    <3> QED
      BY <1>4, <3>1, Zenon
  <2>2. g[Null] = {Null}
    BY <1>4, Zenon
  <2>3. \A n \in Nodes : (\A i \in Inside : c[i] # n) => g[n] = {n, Null}
    BY <1>3, Zenon
  <2>4. ASSUME NEW n \in D
        PROVE  g[n] = IF n \in {tail_, Null} THEN {n} ELSE {n} \cup g[next[n]]
    <3> HIDE DEF g
    <3>1. CASE n = Null
      BY <2>2, <3>1, Zenon
    <3>2. ASSUME NEW i \in Inside, n = c[i]
          PROVE  g[n] = IF n \in {tail_, Null} THEN {n} ELSE {n} \cup g[next[n]]
      <4>1. CASE i = N + 1
        BY <1>4, <1>6, <2>1, <3>2, <4>1, Zenon
      <4>2. CASE i \in Filled
        <5>1. g[next[n]] = From(i + 1) /\ n \notin {tail_, Null}
          BY <1>3, <1>4, <2>1, <3>2, <4>2, Zenon
        <5> QED
          BY <1>5, <2>1, <3>2, <4>2, <5>1, Zenon
      <4> QED
        BY <1>3, <4>1, <4>2, Zenon
    <3>3. CASE n # Null /\ \A i \in Inside : c[i] # n
      <4>1. n \in Nodes /\ n # tail_ /\ next[n] = Null
        BY <1>3, <1>4, <3>3, Zenon
      <4>2. {n} \cup {Null} = {n, Null}
        OBVIOUS
      <4> QED
        BY <2>2, <2>3, <3>3, <4>1, <4>2, Zenon
    <3> QED
      BY <3>1, <3>2, <3>3, Zenon
  <2>5. g = F(g)
    BY <2>4, Zenon
  <2> QED
    BY <2>5, Zenon
<1>8. f = F(f)
  BY <1>7, Zenon
<1>9. \A n \in D : f[n] = IF n \in {tail_, Null} THEN {n} ELSE {n} \cup f[next[n]]
  BY <1>8, Zenon
<1> DEFINE G == {i \in Inside : f[c[i]] = From(i)}
<1> HIDE DEF f
<1>10. N + 1 \in G
  BY <1>3, <1>4, <1>6, <1>9, Zenon
<1>11. ASSUME NEW i \in Len(popped) + 2..N + 1, i \in G PROVE i - 1 \in G
  <2>1. i - 1 \in Filled /\ (i - 1) + 1 = i
    BY <1>3 DEF Filled
  <2> DEFINE j == i - 1
  <2> HIDE DEF j
  <2>2. j \in Filled /\ j + 1 = i /\ j + 1 \in G
    BY <1>11, <2>1 DEF j
  <2>3. f[c[j]] = {c[j]} \cup From(j + 1)
    <3>1. c[j] \in D /\ c[j] \notin {tail_, Null} /\ next[c[j]] = c[j + 1]
      BY <1>3, <1>4, <2>2, Zenon
    <3>2. f[c[j]] = {c[j]} \cup f[next[c[j]]]
      BY <1>9, <3>1, Zenon
    <3>3. f[c[j + 1]] = From(j + 1)
      BY <2>2, Zenon
    <3> QED
      BY <3>1, <3>2, <3>3, Zenon
  <2>4. j \in G
    BY <1>3, <1>5, <2>2, <2>3, Zenon
  <2> QED
    BY <2>4, Zenon DEF j
<1> HIDE DEF G
<1>12. Len(popped) + 1 \in G
  <2>1. /\ Len(popped) + 1 \in Int /\ N + 1 \in Int /\ (Len(popped) + 1) + 1 = Len(popped) + 2
        /\ Len(popped) + 1 \in Len(popped) + 1..N + 1
    BY <1>3
  <2> QED
    BY <1>10, <1>11, <2>1, IntervalDownwards
<1> QED
  BY <1>4, <1>12, Zenon DEF G, From, Inside

(***************************************************************************)
(* Neither the node that pushers write to nor the one that poppers read is *)
(* ever destroyed, although they use different mutexes: head_ leads to     *)
(* tail_ through nodes that are alive and, before the dummy, filled.       *)
(***************************************************************************)
THEOREM EndsAliveHolds == Spec => []EndsAlive
<1>1. ASSUME Inv PROVE EndsAlive
  <2>1. PICK c \in [Chain -> Nodes] : Linked(c)
    BY <1>1 DEF Inv
  <2>2. /\ Len(pushed) \in Nat /\ Len(popped) \in Nat /\ Len(popped) <= Len(pushed)
        /\ pushed \in Seq(Values)
    BY <1>1 DEF Inv, Shape, Begun
  <2>3. /\ Len(pushed) + 1 \in Inside /\ Inside \subseteq Chain /\ 1..Len(popped) \subseteq Chain
        /\ \A i \in Inside : i \notin 1..Len(popped) /\ (i # Len(pushed) + 1 => i \in Filled)
    BY <2>2 DEF Inside, Chain, Filled
  <2>4. tail_ \in {c[i] : i \in Inside}
    BY <2>1, <2>3, Zenon DEF Linked
  <2>5. {c[i] : i \in Inside} \cap freed = {}
    <3>1. freed = {c[i] : i \in 1..Len(popped)} /\ \A i, j \in Chain : c[i] = c[j] => i = j
      BY <2>1, Zenon DEF Linked
    <3> QED
      BY <2>3, <3>1, Zenon
  <2>6. \A n \in {c[i] : i \in Inside} \ {tail_} : data[n] # NoValue
    <3>1. \A i \in Filled : data[c[i]] = pushed[i] /\ tail_ = c[Len(pushed) + 1]
      BY <2>1, Zenon DEF Linked
    <3>2. \A i \in Filled : pushed[i] \in Values
      BY <2>2 DEF Filled
    <3>3. ASSUME NEW i \in Inside, c[i] # tail_ PROVE data[c[i]] # NoValue
      <4>1. i \in Filled
        <5>1. tail_ = c[Len(pushed) + 1]
          BY <2>1, Zenon DEF Linked
        <5> QED
          BY <2>3, <3>3, <5>1, Zenon
      <4> QED
        BY <3>1, <3>2, <4>1, EnhanceAssumption, Zenon
    <3> QED
      BY <3>3, Zenon
  <2> QED
    BY <1>1, <2>1, <2>4, <2>5, <2>6, ReachIs, Zenon DEF EndsAlive
<1> QED
  BY <1>1, AlwaysInv, PTL

-----------------------------------------------------------------------------
(* The queue with two mutexes is the queue with one *)

\* A push has a node that is not in the chain, and so there is room for its value.
LEMMA RoomLeft ==
  ASSUME Inv, NEW t \in Threads, pc[t] \in Pushing
  PROVE  Len(pushed) < MaxPushes
<1>1. PICK c \in [Chain -> Nodes] : Linked(c)
  BY DEF Inv
<1>2. /\ Len(pushed) \in Nat /\ MaxPushes \in Nat /\ node[t] \in Nodes
      /\ \A i \in Chain : c[i] # node[t]
      /\ \A i, j \in Chain : c[i] = c[j] => i = j
  <2>1. Len(pushed) \in Nat /\ MaxPushes \in Nat /\ node[t] \in Nodes
    BY EnhanceAssumption DEF Inv, Shape, Underway, Nodes
  <2>2. \A i \in Chain : c[i] # node[t]
    BY <1>1, Zenon DEF Linked
  <2>3. \A i, j \in Chain : c[i] = c[j] => i = j
    BY <1>1, Zenon DEF Linked
  <2> QED
    BY <2>1, <2>2, <2>3, Zenon
<1> SUFFICES ASSUME Len(pushed) >= MaxPushes PROVE FALSE
  BY <1>2
<1> DEFINE All == 0..Len(pushed) + 1
           f   == [i \in All |-> IF i = 0 THEN node[t] ELSE c[i]]
<1>3. /\ IsFiniteSet(All) /\ Cardinality(All) = Len(pushed) + 2
      /\ IsFiniteSet(Nodes) /\ Cardinality(Nodes) = MaxPushes + 1
  BY <1>2, FS_Interval DEF Nodes
<1>4. \A i \in All : i # 0 => i \in Chain
  BY <1>2 DEF Chain
<1>5. f \in [All -> Nodes]
  BY <1>2, <1>4
<1>6. Cardinality(Nodes) < Cardinality(All)
  BY <1>2, <1>3
<1> HIDE DEF All
<1>7. \E x, y \in All : x # y /\ f[x] = f[y]
  <2> HIDE DEF f
  <2> QED
    BY <1>3, <1>5, <1>6, FS_PigeonHole
<1> QED
  BY <1>2, <1>4, <1>7, Zenon

\* Nothing is inside exactly when the ends meet.
LEMMA EmptyIs ==
  ASSUME Inv, head_ = tail_
  PROVE  Rest = << >>
<1>1. PICK c \in [Chain -> Nodes] : Linked(c)
  BY DEF Inv
<1>2. /\ Len(pushed) \in Nat /\ Len(popped) \in Nat /\ Len(popped) <= Len(pushed)
      /\ pushed \in Seq(Values) /\ Len(popped) + 1 \in Chain /\ Len(pushed) + 1 \in Chain
  BY DEF Inv, Shape, Begun, Chain
<1>3. Len(popped) + 1 = Len(pushed) + 1
  <2>1. c[Len(popped) + 1] = c[Len(pushed) + 1]
    BY <1>1, Zenon DEF Linked
  <2>2. \A i, j \in Chain : c[i] = c[j] => i = j
    BY <1>1, Zenon DEF Linked
  <2> QED
    BY <1>2, <2>1, <2>2
<1>4. Len(popped) = Len(pushed)
  BY <1>2, <1>3
<1>5. Rest \in Seq(Values) /\ Len(Rest) = 0
  BY <1>2, <1>4, SubSeqProperties DEF Rest
<1> QED
  BY <1>5, EmptySeq

\* A push appends to what is inside.
LEMMA RestGrows ==
  ASSUME Inv, NEW v \in Values, pushed' = Append(pushed, v), popped' = popped
  PROVE  Rest' = Append(Rest, v)
<1>1. /\ Len(pushed) \in Nat /\ Len(popped) \in Nat /\ Len(popped) <= Len(pushed)
      /\ pushed \in Seq(Values)
  BY DEF Inv, Shape, Begun
<1> DEFINE a == Len(popped) + 1
           n == Len(pushed)
           l == SubSeq(Append(pushed, v), a, n + 1)
           r == Append(SubSeq(pushed, a, n), v)
<1>2. Append(pushed, v) \in Seq(Values) /\ Len(Append(pushed, v)) = n + 1
  BY <1>1
<1>3. /\ l \in Seq(Values) /\ Len(l) = n + 1 - Len(popped)
      /\ \A i \in 1..n + 1 - Len(popped) : l[i] = Append(pushed, v)[a + i - 1]
  BY <1>1, <1>2, SubSeqProperties
<1>4. /\ SubSeq(pushed, a, n) \in Seq(Values) /\ Len(SubSeq(pushed, a, n)) = n - Len(popped)
      /\ \A i \in 1..n - Len(popped) : SubSeq(pushed, a, n)[i] = pushed[a + i - 1]
  BY <1>1, SubSeqProperties
<1>5. r \in Seq(Values) /\ Len(r) = n + 1 - Len(popped)
  BY <1>1, <1>4
<1>6. ASSUME NEW i \in 1..n + 1 - Len(popped) PROVE l[i] = r[i]
  <2>1. l[i] = Append(pushed, v)[a + i - 1] /\ a + i - 1 \in 1..n + 1
    BY <1>1, <1>3
  <2>2. CASE i = n + 1 - Len(popped)
    BY <1>1, <1>4, <2>1, <2>2
  <2>3. CASE i # n + 1 - Len(popped)
    <3>1. i \in 1..n - Len(popped) /\ a + i - 1 \in 1..n
      BY <1>1, <2>3
    <3> QED
      BY <1>1, <1>4, <2>1, <3>1
  <2> QED
    BY <2>2, <2>3
<1>7. l = r
  <2> HIDE DEF l, r
  <2> QED
    BY <1>1, <1>3, <1>5, <1>6, SeqEqual
<1>8. Len(pushed') = n + 1
  BY <1>1
<1> QED
  BY <1>7, <1>8, Zenon DEF Rest

\* A pop takes the first value inside.
LEMMA RestShrinks ==
  ASSUME Inv, Len(popped) < Len(pushed), NEW v, popped' = Append(popped, v), pushed' = pushed
  PROVE  /\ Rest # << >> /\ Rest[1] = pushed[Len(popped) + 1] /\ Rest' = Tail(Rest)
<1>1. /\ Len(pushed) \in Nat /\ Len(popped) \in Nat /\ Len(popped) <= Len(pushed)
      /\ pushed \in Seq(Values)
  BY DEF Inv, Shape, Begun
<1>2. Len(popped') = Len(popped) + 1
  BY DEF Inv, Shape
<1> DEFINE a == Len(popped) + 1
           n == Len(pushed)
           l == SubSeq(pushed, a + 1, n)
           r == Tail(SubSeq(pushed, a, n))
<1>3. /\ l \in Seq(Values) /\ Len(l) = n - a
      /\ \A i \in 1..n - a : l[i] = pushed[a + i]
  BY <1>1, SubSeqProperties
<1>4. /\ SubSeq(pushed, a, n) \in Seq(Values) /\ Len(SubSeq(pushed, a, n)) = n - Len(popped)
      /\ \A i \in 1..n - Len(popped) : SubSeq(pushed, a, n)[i] = pushed[a + i - 1]
  BY <1>1, SubSeqProperties
<1>5. SubSeq(pushed, a, n) # << >> /\ SubSeq(pushed, a, n)[1] = pushed[a]
  BY <1>1, <1>4
<1>6. /\ r \in Seq(Values) /\ Len(r) = n - a
      /\ \A i \in 1..n - a : r[i] = SubSeq(pushed, a, n)[i + 1]
  BY <1>1, <1>4, <1>5, HeadTailProperties
<1>7. l = r
  <2>1. ASSUME NEW i \in 1..Len(l) PROVE l[i] = r[i]
    BY <1>1, <1>3, <1>4, <1>6
  <2> HIDE DEF l, r
  <2> QED
    BY <1>1, <1>3, <1>6, <2>1, SeqEqual
<1> QED
  BY <1>2, <1>5, <1>7, Zenon DEF Rest

\* The places that the mapping shows as one that waits for a value.
Waiting == {"wait_pop", "wait_popping", "asleep"}

\* The mutex of the one, seen from the other: nobody sleeps there.
LEMMA NobodyAsleep == Queue!Asleep = {}
BY DEF Queue!Asleep, QueuePc

\* Going from one place to another moves the thread as the mapping says.
LEMMA PlaceMoves ==
  ASSUME Inv, NEW t \in Threads, NEW place \in Places, Goto(t, place)
  PROVE  QueuePc' = [QueuePc EXCEPT ![t] =
           IF place \in Waiting THEN "waiting" ELSE "idle"]
BY DEF Inv, Shape, Goto, QueuePc, Waiting

LEMMA PlaceSame ==
  ASSUME Inv, NEW t \in Threads, NEW place \in Places, Goto(t, place),
         pc[t] \in Waiting <=> place \in Waiting
  PROVE  UNCHANGED QueuePc
BY DEF Inv, Shape, Goto, QueuePc, Waiting

\* The store to tail_ is the push.
LEMMA PublishPushes ==
  ASSUME Inv, Contents = Rest, Contents' = Rest', NEW t \in Threads, PushPublish(t)
  PROVE  Queue!QNext
<1>1. /\ pc[t] = "publishing" /\ pushed' = Append(pushed, arg[t]) /\ Goto(t, "idle")
      /\ UNCHANGED <<answer, popped>>
  BY DEF PushPublish
<1>2. arg[t] \in Values /\ Len(pushed) < MaxPushes
  BY <1>1, RoomLeft DEF Inv, Underway, Pushing
<1>3. Rest' = Append(Rest, arg[t])
  BY <1>1, <1>2, RestGrows
<1>4. QueuePc[t] = "idle"
  BY <1>1 DEF QueuePc
<1>5. UNCHANGED QueuePc
  BY <1>1, PlaceSame DEF Places, Waiting
<1>6. Queue!push(t, arg[t])
  BY <1>1, <1>2, <1>3, <1>4, <1>5, NobodyAsleep, Zenon DEF Queue!push
<1> QED
  BY <1>2, <1>6, Zenon DEF Queue!QNext

\* A pop takes the first value of the queue with one mutex.
LEMMA PopPops ==
  ASSUME Inv, Contents = Rest, Contents' = Rest', NEW t \in Threads, pop(t)
  PROVE  Queue!QNext
<1>1. /\ pc[t] \in Popping /\ answer' = [answer EXCEPT ![t] = data[head_]]
      /\ popped' = Append(popped, data[head_]) /\ Goto(t, "idle") /\ pushed' = pushed
  BY DEF pop, Popping
<1>2. /\ Rest # << >> /\ Rest[1] = data[head_] /\ Rest' = Tail(Rest)
  BY <1>1, PopTakes, RestShrinks
<1>3. Queue!Take(t)
  BY <1>1, <1>2, Zenon DEF Queue!Take
<1>4. CASE pc[t] = "wait_popping"
  <2>1. QueuePc[t] = "waiting" /\ QueuePc' = [QueuePc EXCEPT ![t] = "idle"]
    BY <1>1, <1>4, PlaceMoves DEF Places, QueuePc, Waiting
  <2> QED
    BY <1>3, <2>1, Zenon DEF Queue!QNext, Queue!wait_pop
<1>5. CASE pc[t] = "try_popping"
  <2>1. QueuePc[t] = "idle" /\ UNCHANGED QueuePc
    BY <1>1, <1>5, PlaceSame DEF Places, QueuePc, Waiting
  <2> QED
    BY <1>3, <2>1, Zenon DEF Queue!QNext, Queue!try_pop
<1> QED
  BY <1>1, <1>4, <1>5 DEF Popping

\* A try_pop that finds the ends together fails on an empty queue.
LEMMA EmptyFails ==
  ASSUME Inv, Contents = Rest, Contents' = Rest', UNCHANGED <<pushed, popped>>,
         NEW t \in Threads, TryPopEmpty(t)
  PROVE  Queue!QNext
<1>1. /\ pc[t] = "try_pop" /\ head_ = tail_ /\ answer' = [answer EXCEPT ![t] = NoValue]
      /\ Goto(t, "idle")
  BY DEF TryPopEmpty
<1>2. Rest = << >> /\ Rest' = Rest
  BY <1>1, EmptyIs DEF Rest
<1>3. QueuePc[t] = "idle" /\ UNCHANGED QueuePc
  BY <1>1, PlaceSame DEF Places, QueuePc, Waiting
<1>4. Queue!try_pop(t)
  BY <1>1, <1>2, <1>3, Zenon DEF Queue!try_pop
<1> QED
  BY <1>4, Zenon DEF Queue!QNext

\* The call of wait_pop.
LEMMA CallWaits ==
  ASSUME Inv, Contents = Rest, Contents' = Rest', NEW t \in Threads, PopCall(t, "wait_pop")
  PROVE  Queue!QNext
<1>1. pc[t] = "idle" /\ Goto(t, "wait_pop") /\ UNCHANGED <<answer, pushed, popped>>
  BY DEF PopCall
<1>2. QueuePc[t] = "idle" /\ QueuePc' = [QueuePc EXCEPT ![t] = "waiting"]
  BY <1>1, PlaceMoves DEF Places, QueuePc, Waiting
<1>3. Rest' = Rest
  BY <1>1 DEF Rest
<1>4. Queue!WaitPopCall(t)
  BY <1>1, <1>2, <1>3, Zenon DEF Queue!WaitPopCall
<1> QED
  BY <1>4, Zenon DEF Queue!QNext

\* All other steps change nothing that the queue with one mutex has.
LEMMA OthersStutter ==
  ASSUME Inv, Contents = Rest, Contents' = Rest', NEW t \in Threads,
         \/ PushCall(t) \/ PushData(t) \/ PushLink(t) \/ PopCall(t, "try_pop") \/ SpuriousWakeup(t)
         \/ PopLock(t) /\ (PopFound(t) \/ WaitPopSleep(t))
  PROVE  UNCHANGED Queue!qVars
<1>1. UNCHANGED <<answer, pushed, popped>>
  BY DEF PushCall, PushData, PushLink, PopCall, SpuriousWakeup, PopLock, PopFound, WaitPopSleep
<1>2. Rest' = Rest
  BY <1>1 DEF Rest
<1>3. PICK place \in Places :
        Goto(t, place) /\ (pc[t] \in Waiting <=> place \in Waiting)
  <2>1. CASE PushCall(t)
    BY <2>1 DEF PushCall, Places, Waiting
  <2>2. CASE PushData(t)
    BY <2>2 DEF PushData, Places, Waiting
  <2>3. CASE PushLink(t)
    BY <2>3 DEF PushLink, Places, Waiting
  <2>4. CASE PopCall(t, "try_pop")
    BY <2>4 DEF PopCall, Places, Waiting
  <2>5. CASE SpuriousWakeup(t)
    BY <2>5 DEF SpuriousWakeup, Places, Waiting
  <2>6. CASE PopLock(t) /\ PopFound(t)
    BY <2>6 DEF PopLock, PopFound, Places, Waiting
  <2>7. CASE PopLock(t) /\ WaitPopSleep(t)
    BY <2>7 DEF WaitPopSleep, Places, Waiting
  <2> QED
    BY <2>1, <2>2, <2>3, <2>4, <2>5, <2>6, <2>7, Zenon
<1>4. UNCHANGED QueuePc
  BY <1>3, PlaceSame
<1> QED
  BY <1>1, <1>2, <1>4, Zenon DEF Queue!qVars

(***************************************************************************)
(* The queue with two mutexes implements the queue with one, for any       *)
(* number of threads and pushes: a push takes effect at its store to       *)
(* tail_, a pop when it moves head_, and a try_pop fails only when nothing *)
(* is inside, although it compares head_ with a pointer that is written    *)
(* under the other mutex.                                                  *)
(***************************************************************************)
THEOREM EnhanceImplementsSafeQueue == Spec => ImplementsSafeQueue
<1> DEFINE Same == Contents = Rest
<1>1. Inv => Same
  BY ContentsIs
<1>2. Init /\ Inv => Queue!QInit
  <2> SUFFICES ASSUME Init, Inv PROVE Queue!QInit
    OBVIOUS
  <2>1. Contents = << >>
    BY ContentsIs, EmptyIs DEF Init
  <2>2. QueuePc = [t \in Threads |-> "idle"]
    BY DEF Init, QueuePc
  <2> QED
    BY <2>1, <2>2 DEF Init, Queue!QInit
<1>3. Inv /\ Same /\ Same' /\ [Next]_vars => [Queue!QNext]_(Queue!qVars)
  <2> SUFFICES ASSUME Inv, Contents = Rest, Contents' = Rest', [Next]_vars
               PROVE  Queue!QNext \/ UNCHANGED Queue!qVars
    OBVIOUS
  <2>1. CASE UNCHANGED vars
    <3>1. UNCHANGED <<answer, pushed, popped, pc>>
      BY <2>1 DEF vars
    <3>2. UNCHANGED <<Rest, QueuePc>>
      BY <3>1 DEF Rest, QueuePc
    <3> QED
      BY <3>1, <3>2, Zenon DEF Queue!qVars
  <2>2. CASE Next
    <3>1. PICK t \in Threads :
            \/ PushCall(t) \/ PushData(t) \/ PushLink(t) \/ PushPublish(t)
            \/ PopCall(t, "wait_pop") \/ PopCall(t, "try_pop")
            \/ PopLock(t) \/ pop(t) \/ SpuriousWakeup(t)
      BY <2>2, Zenon DEF Next
    <3>2. ASSUME PopLock(t)
          PROVE  \/ PopLock(t) /\ (PopFound(t) \/ WaitPopSleep(t))
                 \/ TryPopEmpty(t) /\ UNCHANGED <<pushed, popped>>
      BY <3>2 DEF PopLock
    <3> QED
      BY <3>1, <3>2, PublishPushes, PopPops, EmptyFails, CallWaits, OthersStutter, Zenon
  <2> QED
    BY <2>1, <2>2, Zenon
<1> QED
  BY <1>1, <1>2, <1>3, AlwaysInv, PTL DEF Spec, ImplementsSafeQueue, Queue!QSpec

=============================================================================
