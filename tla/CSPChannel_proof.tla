-------------------------- MODULE CSPChannel_proof --------------------------
(***************************************************************************)
(* Proofs about CSPChannel, for any number of producers and consumers, any *)
(* capacities and any number of sends; and, in the second part, about the  *)
(* ring without a mutex, SafeCircleQueNOLock, for any number of threads    *)
(* and any capacity.                                                       *)
(***************************************************************************)
EXTENDS CSPChannel, SequenceLemmas, SequenceTheorems, FiniteSetTheorems, TLAPS

-----------------------------------------------------------------------------
(***************************************************************************)
(* HasRoom, as the predicate of send computes it, is room for one more.    *)
(***************************************************************************)
LEMMA RoomLeft ==
  ASSUME TypeOK
  PROVE  /\ Room \in Nat \ {0}
         /\ HasRoom <=> Len(queue_) < Room
BY BoundsAssumption, EmptySeq DEF TypeOK, Room, HasRoom

(***************************************************************************)
(* notify_one and notify_all only ever move sleeping threads towards the   *)
(* mutex.                                                                  *)
(***************************************************************************)
LEMMA NotifyOneMoves ==
  ASSUME NEW S, S \subseteq Threads, NEW pcs \in [Threads -> ThreadPc], NotifyOne(S, pcs)
  PROVE  /\ pc' \in [Threads -> ThreadPc]
         /\ \A t \in Threads : pc'[t] = pcs[t] \/ (pc[t] = "waiting" /\ t \in S /\ pc'[t] = "locking")
BY DEF NotifyOne, Waiting, ThreadPc

\* NotifyAll wakes the sleepers of S and touches nobody else.
LEMMA NotifyAllMoves ==
  ASSUME NEW S, S \subseteq Threads, NotifyAll(S), pc \in [Threads -> ThreadPc]
  PROVE  /\ pc' \in [Threads -> ThreadPc]
         /\ \A t \in Threads : pc'[t] = pc[t] \/ (pc[t] = "waiting" /\ t \in S /\ pc'[t] = "locking")
BY DEF NotifyAll, Waiting, ThreadPc

-----------------------------------------------------------------------------
(* Every action preserves the inductive invariant. *)

\* The constructor of CSPChannel establishes the inductive invariant.
LEMMA InitIInv == Init => IInv
<1> SUFFICES ASSUME Init PROVE IInv
  OBVIOUS
<1>1. TypeOK
  <2>1. sent \in [Producers -> 0..MaxSends]
    BY BoundsAssumption DEF Init
  <2>2. << >> \in Seq(Values)
    OBVIOUS
  <2>3. QED
    BY <2>1, <2>2 DEF Init, TypeOK, ThreadPc, StopPc
<1>2. MutexHeld /\ Callers /\ FoundStillHolds /\ EndedStaysEnded
  BY ThreadsAssumption
  DEF Init, MutexHeld, Callers, FoundStillHolds, EndedStaysEnded, Threads
<1>3. CapacityRespected
  BY <1>1, RoomLeft, EmptySeq DEF Init, CapacityRespected
<1>4. FifoDelivery
  BY <1>1, ConcatEmptySeq DEF Init, TypeOK, FifoDelivery
<1>5. QED
  BY <1>1, <1>2, <1>3, <1>4 DEF IInv

\* Calling send preserves it: the value of the call exists before it is pushed.
LEMMA SendCallIInv ==
  ASSUME IInv, NEW p \in Producers, SendCall(p)
  PROVE  IInv'
BY ThreadsAssumption, BoundsAssumption
DEF SendCall, IInv, TypeOK, MutexHeld, Callers, FoundStillHolds, EndedStaysEnded,
    CapacityRespected, FifoDelivery, Room, ThreadPc, Threads, Values

\* send with the mutex: a producer that is let in has found room in an open channel.
LEMMA SendLockIInv ==
  ASSUME IInv, NEW p \in Producers, SendLock(p)
  PROVE  IInv'
<1> USE ThreadsAssumption
    DEF IInv, TypeOK, MutexHeld, Callers, FoundStillHolds, EndedStaysEnded,
        CapacityRespected, FifoDelivery, ThreadPc, Threads
<1>1. CASE SendRefused(p)
  BY <1>1 DEF SendLock, SendRefused, Room
<1>2. CASE SendAdmitted(p)
  <2>1. Len(queue_) < Room
    BY <1>2, RoomLeft DEF SendAdmitted
  <2>2. QED
    BY <1>2, <2>1 DEF SendLock, SendAdmitted, Room
<1>3. CASE ~stop_ /\ ~HasRoom /\ MustWait(p)
  <2>1. Len(queue_) >= Room
    BY <1>3, RoomLeft
  <2>2. QED
    BY <1>3, <2>1 DEF SendLock, MustWait, Room
<1>4. QED
  BY <1>1, <1>2, <1>3 DEF SendLock

\* push_back fits: the room found under the mutex is still there.
LEMMA SendPushIInv ==
  ASSUME IInv, NEW p \in Producers, SendPush(p)
  PROVE  IInv'
<1> DEFINE pcs == [pc EXCEPT ![p] = "idle"]
<1>1. pcs \in [Threads -> ThreadPc]
  BY DEF IInv, TypeOK, ThreadPc, Threads
<1>2. /\ pc' \in [Threads -> ThreadPc]
      /\ \A t \in Threads : pc'[t] = pcs[t] \/ (pc[t] = "waiting" /\ t \in Consumers /\ pc'[t] = "locking")
  BY <1>1, NotifyOneMoves DEF SendPush, Threads
<1>3. Data(p) \in Values
  <2>1. sent[p] \in 0..MaxSends /\ sent[p] > 0
    BY DEF SendPush, IInv, TypeOK, Callers
  <2>2. QED
    BY <2>1, BoundsAssumption DEF Data, Values
<1>4. TypeOK'
  BY <1>2, <1>3 DEF SendPush, IInv, TypeOK, Threads
<1>5. MutexHeld'
  BY <1>2, ThreadsAssumption DEF SendPush, IInv, TypeOK, MutexHeld, Threads
<1>6. Callers'
  BY <1>2, ThreadsAssumption DEF SendPush, IInv, TypeOK, Callers, Threads
<1>7. FoundStillHolds' /\ EndedStaysEnded'
  <2>1. \A t \in Threads : pc'[t] \notin {"blocking", "pushing"}
    BY <1>2, ThreadsAssumption DEF SendPush, IInv, TypeOK, MutexHeld, Threads
  <2>2. ended = {} /\ ended' = {}
    BY DEF SendPush, IInv, EndedStaysEnded
  <2>3. QED
    BY <2>1, <2>2 DEF FoundStillHolds, EndedStaysEnded, Threads
<1>8. CapacityRespected'
  <2>1. Len(queue_) \in Nat /\ Len(queue_') = Len(queue_) + 1
    BY <1>3 DEF SendPush, IInv, TypeOK
  <2>2. QED
    BY <2>1, RoomLeft DEF SendPush, IInv, FoundStillHolds, CapacityRespected, Room
<1>9. FifoDelivery'
  <2>1. received \in Seq(Values) /\ queue_ \in Seq(Values)
    BY DEF IInv, TypeOK
  <2>2. ASSUME NEW e \in Values
        PROVE  received \o Append(queue_, e) = Append(received \o queue_, e)
    BY <2>1, AppendConcat
  <2>3. QED
    BY <1>3, <2>2 DEF SendPush, IInv, FifoDelivery
<1>10. QED
  BY <1>4, <1>5, <1>6, <1>7, <1>8, <1>9 DEF IInv

\* Calling recv preserves it.
LEMMA RecvCallIInv ==
  ASSUME IInv, NEW c \in Consumers, RecvCall(c)
  PROVE  IInv'
BY ThreadsAssumption
DEF RecvCall, IInv, TypeOK, MutexHeld, Callers, FoundStillHolds, EndedStaysEnded,
    CapacityRespected, FifoDelivery, Room, ThreadPc, Threads

\* recv moves the first value of the queue to the end of what was received.
LEMMA RecvTakeIInv ==
  ASSUME IInv, NEW c \in Consumers, RecvLock(c), RecvTake(c)
  PROVE  IInv'
<1> DEFINE pcs == [pc EXCEPT ![c] = "idle"]
<1>1. pcs \in [Threads -> ThreadPc]
  BY DEF IInv, TypeOK, ThreadPc, Threads
<1>2. /\ pc' \in [Threads -> ThreadPc]
      /\ \A t \in Threads : pc'[t] = pcs[t] \/ (pc[t] = "waiting" /\ t \in Producers /\ pc'[t] = "locking")
  BY <1>1, NotifyOneMoves DEF RecvTake, Threads
<1>3. /\ queue_ \in Seq(Values) /\ queue_ # << >>
      /\ Head(queue_) \in Values
      /\ Tail(queue_) \in Seq(Values)
      /\ Len(Tail(queue_)) = Len(queue_) - 1
  BY HeadTailProperties DEF RecvTake, IInv, TypeOK
<1>4. TypeOK'
  BY <1>2, <1>3 DEF RecvTake, IInv, TypeOK, Threads
<1>5. \A t \in Threads : pc[t] \notin {"blocking", "pushing"} /\ pc'[t] \notin {"blocking", "pushing"}
  BY <1>2, ThreadsAssumption DEF RecvLock, RecvTake, IInv, TypeOK, MutexHeld, Threads
<1>6. MutexHeld'
  BY <1>5, ThreadsAssumption DEF RecvLock, RecvTake, MutexHeld
<1>7. Callers'
  BY <1>2, ThreadsAssumption DEF RecvLock, RecvTake, IInv, TypeOK, Callers, Threads
<1>8. ended = {} /\ ended' = {}
  BY DEF RecvTake, IInv, EndedStaysEnded
<1>9. FoundStillHolds' /\ EndedStaysEnded'
  BY <1>5, <1>8 DEF FoundStillHolds, EndedStaysEnded, Threads
<1>10. CapacityRespected'
  BY <1>3, RoomLeft DEF RecvTake, IInv, TypeOK, CapacityRespected, Room
<1>11. FifoDelivery'
  <2>1. received \in Seq(Values)
    BY DEF IInv, TypeOK
  <2>2. Append(received, Head(queue_)) \o Tail(queue_) = received \o queue_
    BY <1>3, <2>1, HeadMoves
  <2>3. QED
    BY <2>2 DEF RecvTake, IInv, FifoDelivery
<1>12. QED
  BY <1>4, <1>6, <1>7, <1>9, <1>10, <1>11 DEF IInv

\* recv with the mutex: it takes, ends or goes to sleep.
LEMMA RecvLockIInv ==
  ASSUME IInv, NEW c \in Consumers, RecvLock(c)
  PROVE  IInv'
<1>1. CASE RecvTake(c)
  BY <1>1, RecvTakeIInv
<1>2. CASE RecvEnd(c)
  BY <1>2, ThreadsAssumption
  DEF RecvLock, RecvEnd, IInv, TypeOK, MutexHeld, Callers, FoundStillHolds, EndedStaysEnded,
      CapacityRespected, FifoDelivery, Room, ThreadPc, Threads
<1>3. CASE ~stop_ /\ queue_ = << >> /\ MustWait(c)
  BY <1>3, ThreadsAssumption
  DEF RecvLock, MustWait, IInv, TypeOK, MutexHeld, Callers, FoundStillHolds, EndedStaysEnded,
      CapacityRespected, FifoDelivery, Room, ThreadPc, Threads
<1>4. QED
  BY <1>1, <1>2, <1>3 DEF RecvLock

\* Falling asleep frees the mutex that the thread held.
LEMMA BlockIInv ==
  ASSUME IInv, NEW t \in Threads, Block(t)
  PROVE  IInv'
BY ThreadsAssumption
DEF Block, IInv, TypeOK, MutexHeld, Callers, FoundStillHolds, EndedStaysEnded,
    CapacityRespected, FifoDelivery, Room, ThreadPc, Threads

\* A wakeup without a notification preserves it.
LEMMA SpuriousWakeupIInv ==
  ASSUME IInv, NEW t \in Threads, SpuriousWakeup(t)
  PROVE  IInv'
BY ThreadsAssumption
DEF SpuriousWakeup, IInv, TypeOK, MutexHeld, Callers, FoundStillHolds, EndedStaysEnded,
    CapacityRespected, FifoDelivery, Room, ThreadPc, Threads

\* The three statements of stop() preserve it, although stop() takes no mutex.
LEMMA StopIInv ==
  ASSUME IInv, StopSet \/ StopNotifyProducers \/ StopNotifyConsumers
  PROVE  IInv'
<1>1. CASE StopSet
  BY <1>1 DEF StopSet, IInv, TypeOK, MutexHeld, Callers, FoundStillHolds, EndedStaysEnded,
    CapacityRespected, FifoDelivery, Room, StopPc
<1>2. CASE StopNotifyProducers \/ StopNotifyConsumers
  <2>1. /\ pc' \in [Threads -> ThreadPc]
        /\ \A t \in Threads : pc'[t] = pc[t] \/ (pc[t] = "waiting" /\ pc'[t] = "locking")
    BY <1>2, NotifyAllMoves DEF StopNotifyProducers, StopNotifyConsumers, IInv, TypeOK, Threads
  <2>2. QED
    BY <1>2, <2>1
    DEF StopNotifyProducers, StopNotifyConsumers, IInv, TypeOK, MutexHeld, Callers,
        FoundStillHolds, EndedStaysEnded, CapacityRespected, FifoDelivery, Room, StopPc, Threads
<1>3. QED
  BY <1>1, <1>2

\* Every step of send, recv, wait and stop preserves it.
LEMMA NextIInv == IInv /\ [Next]_vars => IInv'
<1> SUFFICES ASSUME IInv, [Next]_vars PROVE IInv'
  OBVIOUS
<1>1. CASE UNCHANGED vars
  BY <1>1 DEF vars, IInv, TypeOK, MutexHeld, Callers, FoundStillHolds, EndedStaysEnded,
    CapacityRespected, FifoDelivery, Room
<1>2. CASE Next
  BY <1>2, SendCallIInv, SendLockIInv, SendPushIInv, RecvCallIInv, RecvLockIInv, BlockIInv,
     SpuriousWakeupIInv, StopIInv
  DEF Next
<1>3. QED
  BY <1>1, <1>2

-----------------------------------------------------------------------------
(***************************************************************************)
(* The inductive invariant holds of every behaviour of the channel.        *)
(***************************************************************************)
THEOREM InductiveInvariant == Spec => []IInv
BY InitIInv, NextIInv, PTL DEF Spec

(***************************************************************************)
(* The variables of send, recv and stop keep their types.                  *)
(***************************************************************************)
THEOREM TypeCorrect == Spec => []TypeOK
<1>1. IInv => TypeOK
  BY DEF IInv
<1>2. QED
  BY <1>1, InductiveInvariant, PTL

(***************************************************************************)
(* What send accepted is what recv handed out followed by what is queued:  *)
(* nothing is lost, duplicated or reordered, with any number of threads.   *)
(***************************************************************************)
THEOREM FifoDeliveryHolds == Spec => []FifoDelivery
<1>1. IInv => FifoDelivery
  BY DEF IInv
<1>2. QED
  BY <1>1, InductiveInvariant, PTL

(***************************************************************************)
(* send never lets the queue grow past its capacity.                       *)
(***************************************************************************)
THEOREM CapacityHolds == Spec => []CapacityRespected
<1>1. IInv => CapacityRespected
  BY DEF IInv
<1>2. QED
  BY <1>1, InductiveInvariant, PTL

(***************************************************************************)
(* No send that passed `if(stop_)` pushes after a recv has returned false. *)
(***************************************************************************)
THEOREM EndIsFinalHolds == Spec => EndIsFinal
<1>1. IInv /\ [Next]_vars => [ended # {} => accepted' = accepted /\ queue_' = << >>]_vars
  <2> SUFFICES ASSUME IInv, Next, ended # {}
               PROVE  accepted' = accepted /\ queue_' = << >>
    OBVIOUS
  <2>1. queue_ = << >> /\ \A p \in Producers : pc[p] # "pushing"
    BY DEF IInv, EndedStaysEnded
  <2>2. QED
    BY <2>1
    DEF Next, SendCall, SendLock, SendRefused, SendAdmitted, MustWait, SendPush, RecvCall,
        RecvLock, RecvTake, RecvEnd, Block, SpuriousWakeup, StopSet, StopNotifyProducers,
        StopNotifyConsumers
<1>2. QED
  BY <1>1, InductiveInvariant, PTL DEF Spec, EndIsFinal

-----------------------------------------------------------------------------
(* The channel implements BoundedFifo. *)

(***************************************************************************)
(* Every step of the channel is a step of BoundedFifo or leaves it alone.  *)
(***************************************************************************)
LEMMA FifoStep ==
  ASSUME IInv, [Next]_vars
  PROVE  [Fifo!FifoNext]_(Fifo!fifoVars)
<1> USE DEF Fifo!fifoVars
<1>1. cv_mt_ = NoThread => InFlight = queue_
  BY ThreadsAssumption DEF InFlight, Threads
<1>2. cv_mt_' = NoThread => InFlight' = queue_'
  BY ThreadsAssumption DEF InFlight, Threads
<1>3. ASSUME UNCHANGED <<queue_, cv_mt_, pc, sent>> PROVE InFlight' = InFlight
  BY <1>3 DEF InFlight, Data
<1>4. ASSUME NEW p \in Producers, SendCall(p) PROVE UNCHANGED Fifo!fifoVars
  <2>1. InFlight' = InFlight
    BY <1>4 DEF SendCall, InFlight, Data, IInv, TypeOK, Threads
  <2>2. QED
    BY <1>4, <2>1 DEF SendCall, Room
<1>5. ASSUME NEW p \in Producers, SendLock(p) PROVE [Fifo!FifoNext]_(Fifo!fifoVars)
  <2>1. CASE SendRefused(p)
    BY <1>1, <1>2, <1>5, <2>1 DEF SendLock, SendRefused, Room
  <2>2. CASE SendAdmitted(p)
    <3>1. InFlight' = Append(InFlight, Data(p))
      BY <1>1, <1>5, <2>2 DEF SendLock, SendAdmitted, InFlight, Data, IInv, TypeOK, Threads
    <3>2. Data(p) \in Values
      <4>1. sent[p] \in 0..MaxSends /\ sent[p] > 0
        BY <1>5 DEF SendLock, IInv, TypeOK, Callers
      <4>2. QED
        BY <4>1, BoundsAssumption DEF Data, Values
    <3>3. Len(InFlight) < Room
      BY <1>1, <1>5, <2>2, RoomLeft DEF SendLock, SendAdmitted, IInv
    <3>4. Fifo!Put(Data(p))
      BY <2>2, <3>1, <3>3 DEF SendAdmitted, Fifo!Put, Room
    <3>5. QED
      BY <3>2, <3>4 DEF Fifo!FifoNext
  <2>3. CASE ~stop_ /\ ~HasRoom /\ MustWait(p)
    <3>1. InFlight' = queue_
      BY <2>3 DEF MustWait, InFlight, IInv, TypeOK, Threads
    <3>2. QED
      BY <1>1, <1>5, <2>3, <3>1 DEF SendLock, MustWait, Room
  <2>4. QED
    BY <1>5, <2>1, <2>2, <2>3 DEF SendLock
<1>6. ASSUME NEW p \in Producers, SendPush(p) PROVE UNCHANGED Fifo!fifoVars
  <2>1. InFlight = Append(queue_, Data(p))
    BY <1>6 DEF SendPush, InFlight, IInv, MutexHeld, Threads
  <2>2. QED
    BY <1>2, <1>6, <2>1 DEF SendPush, Room
<1>7. ASSUME NEW c \in Consumers, RecvCall(c) PROVE UNCHANGED Fifo!fifoVars
  <2>1. InFlight' = InFlight
    BY <1>7, ThreadsAssumption DEF RecvCall, InFlight, Data, IInv, TypeOK, Threads
  <2>2. QED
    BY <1>7, <2>1 DEF RecvCall, Room
<1>8. ASSUME NEW c \in Consumers, RecvLock(c) PROVE [Fifo!FifoNext]_(Fifo!fifoVars)
  <2>1. CASE RecvTake(c)
    <3>1. Fifo!Take
      BY <1>1, <1>2, <1>8, <2>1 DEF RecvLock, RecvTake, Fifo!Take, Room
    <3>2. QED
      BY <3>1 DEF Fifo!FifoNext
  <2>2. CASE RecvEnd(c)
    <3>1. Fifo!End
      BY <1>1, <1>2, <1>8, <2>2 DEF RecvLock, RecvEnd, Fifo!End, Room
    <3>2. QED
      BY <3>1 DEF Fifo!FifoNext
  <2>3. CASE ~stop_ /\ queue_ = << >> /\ MustWait(c)
    <3>1. InFlight' = queue_
      BY <2>3, ThreadsAssumption DEF MustWait, InFlight
    <3>2. QED
      BY <1>1, <1>8, <2>3, <3>1 DEF RecvLock, MustWait, Room
  <2>4. QED
    BY <1>8, <2>1, <2>2, <2>3 DEF RecvLock
<1>9. ASSUME NEW t \in Threads, Block(t) PROVE UNCHANGED Fifo!fifoVars
  <2>1. InFlight = queue_
    BY <1>9 DEF Block, InFlight, IInv, MutexHeld, Threads
  <2>2. QED
    BY <1>2, <1>9, <2>1 DEF Block, Room
<1>10. ASSUME NEW t \in Threads, SpuriousWakeup(t) PROVE UNCHANGED Fifo!fifoVars
  <2>1. InFlight' = InFlight
    BY <1>10 DEF SpuriousWakeup, InFlight, Data, IInv, TypeOK, Threads
  <2>2. QED
    BY <1>10, <2>1 DEF SpuriousWakeup, Room
<1>11. ASSUME StopSet PROVE [Fifo!FifoNext]_(Fifo!fifoVars)
  <2>1. Fifo!Close
    BY <1>3, <1>11 DEF StopSet, Fifo!Close, Room
  <2>2. QED
    BY <2>1 DEF Fifo!FifoNext
<1>12. ASSUME StopNotifyProducers \/ StopNotifyConsumers PROVE UNCHANGED Fifo!fifoVars
  <2>1. \A t \in Threads : pc'[t] = pc[t] \/ (pc[t] = "waiting" /\ pc'[t] = "locking")
    BY <1>12, NotifyAllMoves DEF StopNotifyProducers, StopNotifyConsumers, IInv, TypeOK, Threads
  <2>2. InFlight' = InFlight
    BY <1>12, <2>1 DEF StopNotifyProducers, StopNotifyConsumers, InFlight, Data, Threads
  <2>3. QED
    BY <1>12, <2>2 DEF StopNotifyProducers, StopNotifyConsumers, Room
<1>13. CASE UNCHANGED vars
  BY <1>3, <1>13 DEF vars, Room
<1>14. QED
  BY <1>4, <1>5, <1>6, <1>7, <1>8, <1>9, <1>10, <1>11, <1>12, <1>13 DEF Next

(***************************************************************************)
(* CSPChannel implements BoundedFifo, with any number of threads.          *)
(***************************************************************************)
THEOREM ChannelImplementsFifo == Spec => ImplementsFifo
<1>1. Init => Fifo!FifoInit
  <2> SUFFICES ASSUME Init PROVE Fifo!FifoInit
    OBVIOUS
  <2>1. InFlight = << >>
    BY ThreadsAssumption DEF Init, InFlight, Threads
  <2>2. Room \in Nat \ {0}
    BY InitIInv, RoomLeft DEF IInv
  <2>3. QED
    BY <2>1, <2>2 DEF Init, Fifo!FifoInit
<1>2. QED
  BY <1>1, FifoStep, InductiveInvariant, PTL DEF Spec, ImplementsFifo, Fifo!FifoSpec

-----------------------------------------------------------------------------
(* notify_one is enough. *)

\* The sets of awake threads are finite, so that they can be counted.
LEMMA AwakeFinite ==
  /\ IsFiniteSet(AwakeConsumers) /\ Cardinality(AwakeConsumers) \in Nat
  /\ IsFiniteSet(AwakeProducers) /\ Cardinality(AwakeProducers) \in Nat
  /\ IsFiniteSet(AwakeConsumers') /\ Cardinality(AwakeConsumers') \in Nat
  /\ IsFiniteSet(AwakeProducers') /\ Cardinality(AwakeProducers') \in Nat
<1>1. /\ AwakeConsumers \subseteq Threads /\ AwakeConsumers' \subseteq Threads
      /\ AwakeProducers \subseteq Threads /\ AwakeProducers' \subseteq Threads
  BY DEF AwakeConsumers, AwakeProducers, Locking, Threads
<1>2. QED
  BY <1>1, ThreadsAssumption, FS_Subset, FS_CardinalityType

(***************************************************************************)
(* A step that leaves the queue alone, puts no consumer to sleep and takes *)
(* none away from the mutex cannot lose a wakeup; nor can one that leaves  *)
(* the queue empty.                                                        *)
(***************************************************************************)
LEMMA ConsumersKept ==
  ASSUME ConsumersWoken,
         queue_' = queue_,
         Waiting(Consumers)' \subseteq Waiting(Consumers),
         AwakeConsumers \subseteq AwakeConsumers',
         IInv
  PROVE  ConsumersWoken'
<1>1. Cardinality(AwakeConsumers) <= Cardinality(AwakeConsumers')
  BY AwakeFinite, FS_Subset
<1>2. Len(queue_) \in Nat
  BY DEF IInv, TypeOK
<1>3. QED
  BY <1>1, <1>2, AwakeFinite DEF ConsumersWoken

\* An empty queue asks for no awake consumer.
LEMMA ConsumersEmpty ==
  ASSUME queue_' = << >>
  PROVE  ConsumersWoken'
BY AwakeFinite DEF ConsumersWoken

\* The same for producers: no slot is freed, none falls asleep, the awake stay awake.
LEMMA ProducersKept ==
  ASSUME ProducersWoken,
         queue_' = queue_, capacity_' = capacity_, stop_' = stop_,
         Waiting(Producers)' \subseteq Waiting(Producers),
         AwakeProducers \subseteq AwakeProducers',
         IInv
  PROVE  ProducersWoken'
<1>1. Cardinality(AwakeProducers) <= Cardinality(AwakeProducers')
  BY AwakeFinite, FS_Subset
<1>2. Len(queue_) \in Nat /\ Room \in Nat /\ Room' = Room
  BY RoomLeft DEF IInv, TypeOK, Room
<1>3. QED
  BY <1>1, <1>2, AwakeFinite DEF ProducersWoken

\* A full queue asks for no awake producer.
LEMMA ProducersFull ==
  ASSUME IInv, stop_' \/ (queue_' = queue_ /\ capacity_' = capacity_ /\ Len(queue_) >= Room)
  PROVE  ProducersWoken'
<1>1. CASE stop_'
  BY <1>1 DEF ProducersWoken
<1>2. CASE queue_' = queue_ /\ capacity_' = capacity_ /\ Len(queue_) >= Room
  <2>1. Len(queue_) \in Nat /\ Room \in Nat /\ Room' = Room
    BY <1>2, RoomLeft DEF IInv, TypeOK, Room
  <2>2. QED
    BY <1>2, <2>1, AwakeFinite DEF ProducersWoken
<1>3. QED
  BY <1>1, <1>2

(***************************************************************************)
(* A push finds some consumer asleep and wakes one, or finds none asleep.  *)
(***************************************************************************)
LEMMA SendPushWakes ==
  ASSUME IInv, WakeupsSuffice, NEW p \in Producers, SendPush(p)
  PROVE  WakeupsSuffice'
<1>1. /\ Len(queue_) \in Nat /\ Room \in Nat /\ Room' = Room
      /\ Len(queue_') = Len(queue_) + 1
      /\ stop_' = stop_
  BY RoomLeft DEF SendPush, IInv, TypeOK, Room
<1>2. ConsumersWoken'
  <2> SUFFICES ASSUME Waiting(Consumers)' # {}
               PROVE  Len(queue_') <= Cardinality(AwakeConsumers')
    BY DEF ConsumersWoken
  <2>1. PICK c \in Waiting(Consumers) : pc' = [pc EXCEPT ![p] = "idle", ![c] = "locking"]
    BY ThreadsAssumption DEF SendPush, NotifyOne, Waiting, IInv, TypeOK, Threads
  <2>2. c \notin AwakeConsumers /\ AwakeConsumers' = AwakeConsumers \cup {c}
    BY <2>1, ThreadsAssumption DEF AwakeConsumers, Locking, Waiting, IInv, TypeOK, Threads
  <2>3. Cardinality(AwakeConsumers') = Cardinality(AwakeConsumers) + 1
    BY <2>2, AwakeFinite, FS_AddElement
  <2>4. Len(queue_) <= Cardinality(AwakeConsumers)
    BY <2>1 DEF WakeupsSuffice, ConsumersWoken
  <2>5. QED
    BY <1>1, <2>3, <2>4, AwakeFinite
<1>3. ProducersWoken'
  <2> SUFFICES ASSUME Waiting(Producers)' # {}, ~stop_'
               PROVE  Room' - Len(queue_') <= Cardinality(AwakeProducers')
    BY DEF ProducersWoken
  <2>1. \A q \in Producers : pc'[q] = IF q = p THEN "idle" ELSE pc[q]
    BY ThreadsAssumption DEF SendPush, NotifyOne, Waiting, IInv, TypeOK, Threads
  <2>2. p \in AwakeProducers /\ AwakeProducers' = AwakeProducers \ {p}
    BY <2>1 DEF AwakeProducers, SendPush
  <2>3. Cardinality(AwakeProducers') = Cardinality(AwakeProducers) - 1
    BY <2>2, AwakeFinite, FS_RemoveElement
  <2>4. Waiting(Producers) # {} /\ ~stop_
    BY <1>1, <2>1 DEF Waiting
  <2>5. QED
    BY <1>1, <2>3, <2>4, AwakeFinite DEF WakeupsSuffice, ProducersWoken
<1>4. QED
  BY <1>2, <1>3 DEF WakeupsSuffice

(***************************************************************************)
(* A pop takes its consumer and its value away together, and wakes a       *)
(* producer for the slot if one is asleep.                                 *)
(***************************************************************************)
LEMMA RecvTakeWakes ==
  ASSUME IInv, WakeupsSuffice, NEW c \in Consumers, RecvLock(c), RecvTake(c)
  PROVE  WakeupsSuffice'
<1>1. /\ Len(queue_) \in Nat /\ Room \in Nat /\ Room' = Room
      /\ Len(queue_') \in Nat /\ Len(queue_') = Len(queue_) - 1
      /\ stop_' = stop_
  <2>1. Len(queue_') \in Nat /\ Len(queue_') = Len(queue_) - 1
    BY HeadTailProperties DEF RecvTake, IInv, TypeOK
  <2>2. QED
    BY <2>1, RoomLeft DEF RecvTake, IInv, TypeOK, Room
<1>2. ConsumersWoken'
  <2> SUFFICES ASSUME Waiting(Consumers)' # {}
               PROVE  Len(queue_') <= Cardinality(AwakeConsumers')
    BY DEF ConsumersWoken
  <2>1. \A q \in Consumers : pc'[q] = IF q = c THEN "idle" ELSE pc[q]
    BY ThreadsAssumption DEF RecvTake, NotifyOne, Waiting, IInv, TypeOK, Threads
  <2>2. c \in AwakeConsumers /\ AwakeConsumers' = AwakeConsumers \ {c}
    BY <2>1 DEF AwakeConsumers, Locking, RecvLock
  <2>3. Cardinality(AwakeConsumers') = Cardinality(AwakeConsumers) - 1
    BY <2>2, AwakeFinite, FS_RemoveElement
  <2>4. Waiting(Consumers) # {}
    BY <2>1 DEF Waiting
  <2>5. QED
    BY <1>1, <2>3, <2>4, AwakeFinite DEF WakeupsSuffice, ConsumersWoken
<1>3. ProducersWoken'
  <2> SUFFICES ASSUME Waiting(Producers)' # {}, ~stop_'
               PROVE  Room' - Len(queue_') <= Cardinality(AwakeProducers')
    BY DEF ProducersWoken
  <2>1. PICK p \in Waiting(Producers) : pc' = [pc EXCEPT ![c] = "idle", ![p] = "locking"]
    BY ThreadsAssumption DEF RecvTake, NotifyOne, Waiting, IInv, TypeOK, Threads
  <2>2. p \notin AwakeProducers /\ AwakeProducers' = AwakeProducers \cup {p}
    BY <2>1, ThreadsAssumption DEF AwakeProducers, Waiting, IInv, TypeOK, Threads
  <2>3. Cardinality(AwakeProducers') = Cardinality(AwakeProducers) + 1
    BY <2>2, AwakeFinite, FS_AddElement
  <2>4. Room - Len(queue_) <= Cardinality(AwakeProducers)
    BY <1>1, <2>1 DEF WakeupsSuffice, ProducersWoken
  <2>5. QED
    BY <1>1, <2>3, <2>4, AwakeFinite
<1>4. QED
  BY <1>2, <1>3 DEF WakeupsSuffice

\* Every step keeps as many threads awake as there are values or free slots.
LEMMA NextWakes == IInv /\ WakeupsSuffice /\ [Next]_vars => WakeupsSuffice'
<1> SUFFICES ASSUME IInv, WakeupsSuffice, [Next]_vars PROVE WakeupsSuffice'
  OBVIOUS
<1> USE ThreadsAssumption
<1>1. ASSUME NEW p \in Producers, SendCall(p) PROVE WakeupsSuffice'
  <2>1. /\ UNCHANGED <<queue_, capacity_, stop_>>
        /\ Waiting(Producers)' \subseteq Waiting(Producers) /\ AwakeProducers \subseteq AwakeProducers'
        /\ Waiting(Consumers)' \subseteq Waiting(Consumers) /\ AwakeConsumers \subseteq AwakeConsumers'
    BY <1>1 DEF SendCall, Waiting, Locking, AwakeConsumers, AwakeProducers, IInv, TypeOK, Threads
  <2>2. QED
    BY <2>1, ConsumersKept, ProducersKept DEF WakeupsSuffice
<1>2. ASSUME NEW p \in Producers, SendLock(p) PROVE WakeupsSuffice'
  <2>1. /\ UNCHANGED <<queue_, capacity_, stop_>>
        /\ Waiting(Producers)' \subseteq Waiting(Producers)
        /\ Waiting(Consumers)' \subseteq Waiting(Consumers) /\ AwakeConsumers \subseteq AwakeConsumers'
    BY <1>2 DEF SendLock, SendRefused, SendAdmitted, MustWait, Waiting, Locking, AwakeConsumers,
                IInv, TypeOK, Threads
  <2>2. CASE SendRefused(p)
    BY <2>1, <2>2, ConsumersKept, ProducersFull DEF SendRefused, WakeupsSuffice
  <2>3. CASE SendAdmitted(p)
    <3>1. AwakeProducers \subseteq AwakeProducers'
      BY <2>3 DEF SendAdmitted, AwakeProducers, IInv, TypeOK, Threads
    <3>2. QED
      BY <2>1, <3>1, ConsumersKept, ProducersKept DEF WakeupsSuffice
  <2>4. CASE ~stop_ /\ ~HasRoom /\ MustWait(p)
    <3>1. Len(queue_) >= Room
      BY <2>4, RoomLeft DEF IInv, TypeOK
    <3>2. QED
      BY <2>1, <3>1, ConsumersKept, ProducersFull DEF WakeupsSuffice
  <2>5. QED
    BY <1>2, <2>2, <2>3, <2>4 DEF SendLock
<1>3. ASSUME NEW c \in Consumers, RecvCall(c) PROVE WakeupsSuffice'
  <2>1. /\ UNCHANGED <<queue_, capacity_, stop_>>
        /\ Waiting(Producers)' \subseteq Waiting(Producers) /\ AwakeProducers \subseteq AwakeProducers'
        /\ Waiting(Consumers)' \subseteq Waiting(Consumers) /\ AwakeConsumers \subseteq AwakeConsumers'
    BY <1>3 DEF RecvCall, Waiting, Locking, AwakeConsumers, AwakeProducers, IInv, TypeOK, Threads
  <2>2. QED
    BY <2>1, ConsumersKept, ProducersKept DEF WakeupsSuffice
<1>4. ASSUME NEW c \in Consumers, RecvLock(c), ~RecvTake(c) PROVE WakeupsSuffice'
  <2>1. /\ UNCHANGED <<queue_, capacity_, stop_>>
        /\ queue_' = << >>
        /\ Waiting(Producers)' \subseteq Waiting(Producers) /\ AwakeProducers \subseteq AwakeProducers'
    BY <1>4 DEF RecvLock, RecvEnd, MustWait, Waiting, AwakeProducers, IInv, TypeOK, Threads
  <2>2. QED
    BY <2>1, ConsumersEmpty, ProducersKept DEF WakeupsSuffice
<1>5. ASSUME NEW p \in Producers, Block(p) PROVE WakeupsSuffice'
  <2>1. /\ UNCHANGED <<queue_, capacity_, stop_>>
        /\ Len(queue_) >= Room
        /\ Waiting(Consumers)' \subseteq Waiting(Consumers) /\ AwakeConsumers \subseteq AwakeConsumers'
    BY <1>5 DEF Block, Waiting, Locking, AwakeConsumers, FoundStillHolds, IInv, TypeOK, Threads
  <2>2. QED
    BY <2>1, ConsumersKept, ProducersFull DEF WakeupsSuffice
<1>6. ASSUME NEW c \in Consumers, Block(c) PROVE WakeupsSuffice'
  <2>1. /\ UNCHANGED <<queue_, capacity_, stop_>>
        /\ queue_' = << >>
        /\ Waiting(Producers)' \subseteq Waiting(Producers) /\ AwakeProducers \subseteq AwakeProducers'
    BY <1>6 DEF Block, Waiting, AwakeProducers, FoundStillHolds, IInv, TypeOK, Threads
  <2>2. QED
    BY <2>1, ConsumersEmpty, ProducersKept DEF WakeupsSuffice
<1>7. ASSUME NEW t \in Threads, SpuriousWakeup(t) PROVE WakeupsSuffice'
  <2>1. /\ UNCHANGED <<queue_, capacity_, stop_>>
        /\ Waiting(Producers)' \subseteq Waiting(Producers) /\ AwakeProducers \subseteq AwakeProducers'
        /\ Waiting(Consumers)' \subseteq Waiting(Consumers) /\ AwakeConsumers \subseteq AwakeConsumers'
    BY <1>7 DEF SpuriousWakeup, Waiting, Locking, AwakeConsumers, AwakeProducers, IInv, TypeOK, Threads
  <2>2. QED
    BY <2>1, ConsumersKept, ProducersKept DEF WakeupsSuffice
<1>8. ASSUME StopSet PROVE WakeupsSuffice'
  <2>1. /\ queue_' = queue_ /\ stop_'
        /\ Waiting(Consumers)' \subseteq Waiting(Consumers) /\ AwakeConsumers \subseteq AwakeConsumers'
    BY <1>8 DEF StopSet, Waiting, Locking, AwakeConsumers
  <2>2. QED
    BY <2>1, ConsumersKept, ProducersFull DEF WakeupsSuffice
<1>9. ASSUME StopNotifyProducers \/ StopNotifyConsumers PROVE WakeupsSuffice'
  <2>1. \A t \in Threads : pc'[t] = pc[t] \/ (pc[t] = "waiting" /\ pc'[t] = "locking")
    BY <1>9, NotifyAllMoves DEF StopNotifyProducers, StopNotifyConsumers, IInv, TypeOK, Threads
  <2>2. /\ UNCHANGED <<queue_, capacity_, stop_>>
        /\ Waiting(Producers)' \subseteq Waiting(Producers) /\ AwakeProducers \subseteq AwakeProducers'
        /\ Waiting(Consumers)' \subseteq Waiting(Consumers) /\ AwakeConsumers \subseteq AwakeConsumers'
    BY <1>9, <2>1 DEF StopNotifyProducers, StopNotifyConsumers, Waiting, Locking,
                      AwakeConsumers, AwakeProducers, Threads
  <2>3. QED
    BY <2>2, ConsumersKept, ProducersKept DEF WakeupsSuffice
<1>10. CASE UNCHANGED vars
  BY <1>10 DEF vars, WakeupsSuffice, ConsumersWoken, ProducersWoken, AwakeConsumers,
               AwakeProducers, Waiting, Locking, Room
<1>11. QED
  BY <1>1, <1>2, <1>3, <1>4, <1>5, <1>6, <1>7, <1>8, <1>9, <1>10, SendPushWakes, RecvTakeWakes
  DEF Next, Threads

(***************************************************************************)
(* No wakeup is lost between send and recv: notify_one is enough, for any  *)
(* number of threads.                                                      *)
(***************************************************************************)
THEOREM WakeupsSufficeHolds == Spec => []WakeupsSuffice
<1>1. Init => WakeupsSuffice
  BY DEF Init, WakeupsSuffice, ConsumersWoken, ProducersWoken, Waiting, Threads
<1>2. QED
  BY <1>1, NextWakes, InductiveInvariant, PTL DEF Spec

-----------------------------------------------------------------------------
(***************************************************************************)
(* SafeCircleQueNOLock, the ring without a mutex.  Its model shares        *)
(* nothing with the channel's but the names of its threads and of pc, and  *)
(* no theorem is about both.                                               *)
(***************************************************************************)
CONSTANTS Cap, MaxEmplaces, MaxPopped, Garbage
VARIABLES head_, tail_, tail_up_, data_, local, next, data, emplaces, claimed, popped, seen, lapped

NoLock == INSTANCE SafeCircleQueNOLock

\* The position k places after h in the ring.
Spot(h, k) == IF h + k <= Cap THEN h + k ELSE h + k - (Cap + 1)

\* Values are counted from 0: those before Taken are popped, and those before Claims are claimed.
Taken  == Len(popped)
Claims == Len(claimed)

Claiming(p) == pc[p] \in {"construct", "publish"}

RingShape ==
  /\ NoLock!RingAssumption /\ NoLock!TypeOK
  /\ \A p \in Producers : pc[p] # "idle" => emplaces[p] >= 1

\* The ring when the values before u are published.
Placed(u) ==
  /\ Taken <= u /\ u <= Claims /\ Claims - Taken <= Cap
  /\ tail_ = Spot(head_, Claims - Taken) /\ tail_up_ = Spot(head_, u - Taken)
  /\ \A i \in 1..Taken : popped[i] = claimed[i]
  /\ \A i \in Taken..Claims - 1 :
       (\A p \in Producers : pc[p] = "construct" => seen[p] # i) =>
         data_[Spot(head_, i - Taken)] = claimed[i + 1]

\* A producer whose tail is still the last one, and one that has claimed a position.
Producing(p, u) ==
  /\ seen[p] <= Claims
  /\ pc[p] \in {"checkFull", "claim"} /\ seen[p] = Claims => local[p] = tail_
  /\ pc[p] = "claim" /\ seen[p] = Claims => Claims - Taken < Cap
  /\ Claiming(p) =>
       /\ u <= seen[p] /\ seen[p] < Claims /\ local[p] = Spot(head_, seen[p] - Taken)
       /\ claimed[seen[p] + 1] = NoLock!Value(p)
       /\ \A q \in Producers : Claiming(q) /\ seen[q] = seen[p] => q = p

\* A consumer whose head is still the first one.
Consuming(c, u) ==
  /\ seen[c] <= Taken
  /\ pc[c] \notin {"idle", "loading"} /\ seen[c] = Taken => local[c] = head_
  /\ pc[c] \in {"copy", "loadNext", "exchange"} /\ seen[c] = Taken => Taken < u
  /\ pc[c] \in {"loadNext", "exchange"} /\ seen[c] = Taken => data[c] = claimed[Taken + 1]
  /\ pc[c] = "exchange" /\ seen[c] = Taken => next[c] = NoLock!Following(head_)

Ordered(u) ==
  /\ Placed(u)
  /\ \A p \in Producers : Producing(p, u)
  /\ \A c \in Consumers : Consuming(c, u)

\* The inductive invariant: nothing is known once a thread is lapped.
RingInv == RingShape /\ (~lapped => \E u \in Nat : Ordered(u))

\* Positions follow one another round the ring.
LEMMA SpotFacts ==
  ASSUME Cap \in Nat \ {0}, NEW h \in 0..Cap
  PROVE  /\ Spot(h, 0) = h
         /\ \A k \in 0..Cap : Spot(h, k) \in 0..Cap
         /\ \A j, k \in 0..Cap : Spot(h, j) = Spot(h, k) => j = k
         /\ NoLock!Following(h) \in 0..Cap
         /\ \A k \in 0..Cap - 1 : NoLock!Following(Spot(h, k)) = Spot(h, k + 1)
         /\ NoLock!Following(Spot(h, Cap)) = h
         /\ \A k \in 1..Cap : Spot(NoLock!Following(h), k - 1) = Spot(h, k)
<1>1. ASSUME NEW i \in 0..Cap PROVE NoLock!Following(i) = IF i = Cap THEN 0 ELSE i + 1
  <2>1. NoLock!Following(i) = (i + 1) % (Cap + 1)
    BY DEF NoLock!Following, NoLock!max_size_
  <2>2. CASE i = Cap
    <3>1. (Cap + 1) % (Cap + 1) = 0
      OBVIOUS
    <3> QED
      BY <2>1, <2>2, <3>1
  <2>3. CASE i # Cap
    <3>1. i + 1 \in 0..Cap
      BY <2>3
    <3>2. \A j \in 0..Cap : j % (Cap + 1) = j
      OBVIOUS
    <3> QED
      BY <2>1, <2>3, <3>1, <3>2
  <2> QED
    BY <2>2, <2>3
<1>2. Spot(h, 0) = h /\ \A k \in 0..Cap : Spot(h, k) \in 0..Cap
  BY DEF Spot
<1>3. \A j, k \in 0..Cap : Spot(h, j) = Spot(h, k) => j = k
  BY DEF Spot
<1>4. NoLock!Following(h) \in 0..Cap /\ NoLock!Following(Spot(h, Cap)) = h
  <2>1. Spot(h, Cap) \in 0..Cap
    BY <1>2
  <2>2. NoLock!Following(Spot(h, Cap)) = h
    BY <1>1, <2>1 DEF Spot
  <2> QED
    BY <1>1, <2>2
<1>5. ASSUME NEW k \in 0..Cap - 1 PROVE NoLock!Following(Spot(h, k)) = Spot(h, k + 1)
  <2>1. Spot(h, k) \in 0..Cap
    BY <1>2
  <2> QED
    BY <1>1, <2>1 DEF Spot
<1>6. ASSUME NEW k \in 1..Cap PROVE Spot(NoLock!Following(h), k - 1) = Spot(h, k)
  BY <1>1 DEF Spot
<1> QED
  BY <1>2, <1>3, <1>4, <1>5, <1>6

LEMMA RingInit == ASSUME NoLock!RingAssumption, NoLock!Init PROVE RingInv
<1> USE DEF NoLock!RingAssumption, NoLock!Init
<1>1. NoLock!TypeOK
  <2>1. 0 \in NoLock!Positions /\ 0 \in 0..MaxEmplaces /\ "idle" \in NoLock!Pc
    BY DEF NoLock!Positions, NoLock!Pc
  <2>2. claimed \in Seq(NoLock!Values) /\ popped \in Seq(NoLock!Values \cup {Garbage})
    OBVIOUS
  <2>3. seen \in [NoLock!Threads -> Nat]
    OBVIOUS
  <2> QED
    BY <2>1, <2>2, <2>3, Zenon DEF NoLock!TypeOK
<1>2. RingShape
  BY <1>1 DEF RingShape, NoLock!Threads
<1>3. Taken = 0 /\ Claims = 0
  BY DEF Taken, Claims
<1>4. Placed(0)
  <2>1. Spot(0, 0) = 0
    BY DEF Spot
  <2> QED
    BY <1>3, <2>1 DEF Placed
<1>5. ASSUME NEW p \in Producers PROVE Producing(p, 0)
  BY <1>3 DEF Producing, Claiming, NoLock!Threads
<1>6. ASSUME NEW c \in Consumers PROVE Consuming(c, 0)
  BY <1>3 DEF Consuming, NoLock!Threads
<1> QED
  BY <1>2, <1>4, <1>5, <1>6 DEF RingInv, Ordered

LEMMA RingTypes ==
  ASSUME RingShape
  PROVE  /\ Cap \in Nat \ {0} /\ NoLock!Positions = 0..Cap
         /\ head_ \in 0..Cap /\ tail_ \in 0..Cap /\ tail_up_ \in 0..Cap
         /\ Taken \in Nat /\ Claims \in Nat
         /\ \A t \in NoLock!Threads : seen[t] \in Nat /\ local[t] \in 0..Cap
         /\ Producers \subseteq NoLock!Threads /\ Consumers \subseteq NoLock!Threads
         /\ \A p \in Producers : p \notin Consumers
BY DEF RingShape, NoLock!TypeOK, NoLock!RingAssumption, NoLock!Positions, NoLock!Threads, Taken, Claims

\* The steps of emplace keep the types.
LEMMA EmplaceShape ==
  ASSUME RingShape, NEW p \in Producers,
         \/ NoLock!EmplaceCall(p) \/ NoLock!EmplaceLoad(p) \/ NoLock!EmplaceCheckFull(p)
         \/ NoLock!EmplaceClaim(p) \/ NoLock!EmplaceConstruct(p) \/ NoLock!EmplacePublish(p)
  PROVE  RingShape'
<1>1. /\ p \in NoLock!Threads /\ NoLock!Positions' = NoLock!Positions /\ NoLock!Values' = NoLock!Values
      /\ NoLock!Threads' = NoLock!Threads /\ NoLock!Pc' = NoLock!Pc /\ Producers \subseteq NoLock!Threads
  BY DEF NoLock!Threads, NoLock!Positions, NoLock!Values, NoLock!Pc
<1>2. /\ NoLock!TypeOK /\ \A q \in Producers : pc[q] # "idle" => emplaces[q] >= 1
  BY DEF RingShape
<1>3. UNCHANGED <<head_, next, data, popped>>
  BY DEF NoLock!EmplaceCall, NoLock!EmplaceLoad, NoLock!EmplaceCheckFull, NoLock!EmplaceClaim,
         NoLock!EmplaceConstruct, NoLock!EmplacePublish, NoLock!emplaceLeaves
<1>4. PICK label \in NoLock!Pc : pc' = [pc EXCEPT ![p] = label]
  BY DEF NoLock!EmplaceCall, NoLock!EmplaceLoad, NoLock!EmplaceCheckFull, NoLock!EmplaceClaim,
         NoLock!EmplaceConstruct, NoLock!EmplacePublish, NoLock!Goto, NoLock!Pc
<1>5. pc' \in [NoLock!Threads -> NoLock!Pc]
  BY <1>1, <1>2, <1>4 DEF NoLock!TypeOK
<1>6. emplaces' \in [Producers -> 0..MaxEmplaces] /\ \A q \in Producers : pc'[q] # "idle" => emplaces'[q] >= 1
  <2>1. CASE NoLock!EmplaceCall(p)
    <3>1. /\ emplaces[p] \in 0..MaxEmplaces /\ emplaces[p] < MaxEmplaces
          /\ emplaces' = [emplaces EXCEPT ![p] = emplaces[p] + 1]
      BY <1>2, <2>1 DEF NoLock!EmplaceCall, NoLock!TypeOK
    <3>2. /\ MaxEmplaces \in Nat /\ emplaces \in [Producers -> 0..MaxEmplaces]
          /\ pc \in [NoLock!Threads -> NoLock!Pc]
      BY <1>2, Zenon DEF RingShape, NoLock!RingAssumption, NoLock!TypeOK
    <3>3. emplaces[p] + 1 \in 0..MaxEmplaces /\ emplaces[p] + 1 >= 1
      BY <3>1, <3>2
    <3>4. emplaces' \in [Producers -> 0..MaxEmplaces] /\ emplaces'[p] >= 1
      BY <3>1, <3>2, <3>3
    <3>5. ASSUME NEW q \in Producers, q # p PROVE emplaces'[q] = emplaces[q] /\ pc'[q] = pc[q]
      BY <1>1, <1>4, <3>1, <3>2, <3>5
    <3> QED
      BY <1>2, <3>4, <3>5, Zenon
  <2>2. CASE emplaces' = emplaces /\ pc[p] # "idle"
    BY <1>1, <1>2, <1>4, <2>2 DEF NoLock!TypeOK
  <2> QED
    BY <2>1, <2>2 DEF NoLock!EmplaceLoad, NoLock!EmplaceCheckFull, NoLock!EmplaceClaim,
                      NoLock!EmplaceConstruct, NoLock!EmplacePublish
<1>7. ASSUME pc[p] # "idle" PROVE NoLock!Value(p) \in NoLock!Values
  BY <1>1, <1>2, <1>7 DEF NoLock!Value, NoLock!Values, NoLock!TypeOK
<1>8. NoLock!Following(local[p]) \in NoLock!Positions
  BY <1>1, RingTypes, SpotFacts
<1>9. /\ tail_' \in NoLock!Positions /\ tail_up_' \in NoLock!Positions
      /\ local' \in [NoLock!Threads -> NoLock!Positions]
  BY <1>1, <1>2, <1>8
     DEF NoLock!EmplaceCall, NoLock!EmplaceLoad, NoLock!EmplaceCheckFull, NoLock!EmplaceClaim,
         NoLock!EmplaceConstruct, NoLock!EmplacePublish, NoLock!TypeOK
<1>10. seen' \in [NoLock!Threads -> Nat]
  <2>1. Len(claimed) \in Nat
    BY <1>2 DEF NoLock!TypeOK
  <2> QED
    BY <1>1, <1>2, <2>1
       DEF NoLock!EmplaceCall, NoLock!EmplaceLoad, NoLock!EmplaceCheckFull, NoLock!EmplaceClaim,
           NoLock!EmplaceConstruct, NoLock!EmplacePublish, NoLock!TypeOK
<1>11. claimed' \in Seq(NoLock!Values)
  <2>1. claimed \in Seq(NoLock!Values)
    BY <1>2, Zenon DEF NoLock!TypeOK
  <2>2. CASE claimed' = Append(claimed, NoLock!Value(p)) /\ pc[p] # "idle"
    BY <1>7, <2>1, <2>2, AppendProperties, Zenon
  <2>3. claimed' = claimed \/ (claimed' = Append(claimed, NoLock!Value(p)) /\ pc[p] # "idle")
    BY DEF NoLock!EmplaceCall, NoLock!EmplaceLoad, NoLock!EmplaceCheckFull, NoLock!EmplaceClaim,
           NoLock!EmplaceConstruct, NoLock!EmplacePublish
  <2> QED
    BY <2>1, <2>2, <2>3, Zenon
<1>12. data_' \in [NoLock!Positions -> NoLock!Values \cup {Garbage}]
  <2>1. CASE NoLock!EmplaceConstruct(p)
    <3>1. NoLock!Value(p) \in NoLock!Values
      BY <1>7, <2>1 DEF NoLock!EmplaceConstruct
    <3>2. data_' = [data_ EXCEPT ![local[p]] = NoLock!Value(p)] /\ local[p] \in NoLock!Positions
      BY <1>1, <1>2, <2>1 DEF NoLock!EmplaceConstruct, NoLock!TypeOK
    <3>3. data_ \in [NoLock!Positions -> NoLock!Values \cup {Garbage}]
      BY <1>2, Zenon DEF NoLock!TypeOK
    <3> QED
      BY <3>1, <3>2, <3>3
  <2>2. CASE data_' = data_
    BY <1>2, <2>2 DEF NoLock!TypeOK
  <2> QED
    BY <2>1, <2>2 DEF NoLock!EmplaceCall, NoLock!EmplaceLoad, NoLock!EmplaceCheckFull,
                      NoLock!EmplaceClaim, NoLock!EmplacePublish
<1>13. lapped' \in BOOLEAN
  BY <1>2, Zenon
     DEF NoLock!EmplaceCall, NoLock!EmplaceLoad, NoLock!EmplaceCheckFull, NoLock!EmplaceClaim,
         NoLock!EmplaceConstruct, NoLock!EmplacePublish, NoLock!TypeOK
<1>14. NoLock!TypeOK'
  BY <1>1, <1>2, <1>3, <1>5, <1>6, <1>9, <1>10, <1>11, <1>12, <1>13, Zenon DEF NoLock!TypeOK
<1>15. NoLock!RingAssumption'
  BY DEF RingShape, NoLock!RingAssumption, NoLock!Values
<1> QED
  BY <1>6, <1>14, <1>15 DEF RingShape

\* So do those of pop.
LEMMA PopShape ==
  ASSUME RingShape, NEW c \in Consumers,
         \/ NoLock!PopCall(c) \/ NoLock!PopLoad(c) \/ NoLock!PopCheckEmpty(c)
         \/ NoLock!PopCheckPublished(c) \/ NoLock!PopCopy(c) \/ NoLock!PopLoadNext(c)
         \/ NoLock!PopExchange(c)
  PROVE  RingShape'
<1> USE DEF NoLock!PopCall, NoLock!PopLoad, NoLock!PopCheckEmpty, NoLock!PopCheckPublished,
            NoLock!PopCopy, NoLock!PopLoadNext, NoLock!PopExchange
<1>1. /\ c \in NoLock!Threads /\ NoLock!Positions' = NoLock!Positions /\ NoLock!Values' = NoLock!Values
      /\ NoLock!Threads' = NoLock!Threads /\ NoLock!Pc' = NoLock!Pc /\ c \notin Producers
      /\ Producers \subseteq NoLock!Threads
  BY DEF NoLock!Threads, NoLock!Positions, NoLock!Values, NoLock!Pc, RingShape, NoLock!RingAssumption
<1>2. /\ NoLock!TypeOK /\ \A q \in Producers : pc[q] # "idle" => emplaces[q] >= 1
  BY Zenon DEF RingShape
<1>3. UNCHANGED <<tail_, tail_up_, data_, emplaces, claimed>>
  BY DEF NoLock!popLeaves
<1>4. PICK label \in NoLock!Pc : pc' = [pc EXCEPT ![c] = label]
  BY DEF NoLock!Goto, NoLock!Pc
<1>5. pc' \in [NoLock!Threads -> NoLock!Pc] /\ \A q \in Producers : pc'[q] = pc[q]
  BY <1>1, <1>2, <1>4 DEF NoLock!TypeOK
<1>6. NoLock!Following(head_) \in NoLock!Positions
  BY RingTypes, SpotFacts
<1>7. /\ head_' \in NoLock!Positions /\ local' \in [NoLock!Threads -> NoLock!Positions]
      /\ next' \in [Consumers -> NoLock!Positions]
  BY <1>1, <1>2, <1>6 DEF NoLock!TypeOK
<1>8. data' \in [Consumers -> NoLock!Values \cup {Garbage}]
  BY <1>1, <1>2 DEF NoLock!TypeOK
<1>9. seen' \in [NoLock!Threads -> Nat]
  <2>1. Len(popped) \in Nat
    BY <1>2 DEF NoLock!TypeOK
  <2> QED
    BY <1>1, <1>2, <2>1 DEF NoLock!TypeOK
<1>10. popped' \in Seq(NoLock!Values \cup {Garbage})
  <2>1. CASE popped' = Append(popped, data[c])
    <3>1. data[c] \in NoLock!Values \cup {Garbage}
      BY <1>2 DEF NoLock!TypeOK
    <3>2. popped \in Seq(NoLock!Values \cup {Garbage})
      BY <1>2 DEF NoLock!TypeOK
    <3> QED
      BY <2>1, <3>1, <3>2, AppendProperties, Zenon
  <2>2. CASE popped' = popped
    BY <1>2, <2>2, Zenon DEF NoLock!TypeOK
  <2> QED
    BY <2>1, <2>2, Zenon
<1>11. lapped' \in BOOLEAN
  BY <1>2, Zenon DEF NoLock!TypeOK
<1>12. NoLock!TypeOK'
  <2>1. {head_, tail_, tail_up_}' \subseteq NoLock!Positions
    BY <1>2, <1>3, <1>7, Zenon DEF NoLock!TypeOK
  <2> QED
    BY <1>1, <1>2, <1>3, <1>5, <1>7, <1>8, <1>9, <1>10, <1>11, <2>1, Zenon DEF NoLock!TypeOK
<1>13. NoLock!RingAssumption'
  BY Zenon DEF RingShape, NoLock!RingAssumption, NoLock!Values
<1> QED
  BY <1>2, <1>3, <1>5, <1>12, <1>13, Zenon DEF RingShape

\* A step of t that moves nothing in the ring: only what t knows has to be shown.
LEMMA QuietOrdered ==
  ASSUME NEW u \in Nat, Ordered(u), NEW t \in NoLock!Threads,
         UNCHANGED <<head_, tail_, tail_up_, data_, claimed, popped>>,
         \A s \in NoLock!Threads \ {t} : pc'[s] = pc[s] /\ local'[s] = local[s] /\ seen'[s] = seen[s],
         \A c \in Consumers \ {t} : data'[c] = data[c] /\ next'[c] = next[c],
         \A p \in Producers \ {t} : emplaces'[p] = emplaces[p],
         t \in Producers => ~Claiming(t) /\ ~Claiming(t)' /\ Producing(t, u)',
         t \in Consumers => t \notin Producers /\ Consuming(t, u)'
  PROVE  Ordered(u)'
<1>1. Taken' = Taken /\ Claims' = Claims
  BY DEF Taken, Claims
<1>2. Producers \subseteq NoLock!Threads /\ Consumers \subseteq NoLock!Threads
  BY DEF NoLock!Threads
<1>3. ASSUME NEW p \in Producers
      PROVE  /\ Claiming(p)' <=> Claiming(p)
             /\ Claiming(p) => seen'[p] = seen[p]
             /\ pc'[p] = "construct" <=> pc[p] = "construct"
  BY <1>2 DEF Claiming
<1>4. Placed(u)'
  <2>1. Placed(u)
    BY DEF Ordered
  <2>2. \A p \in Producers : pc'[p] = "construct" <=> pc[p] = "construct" /\ Claiming(p)
    BY <1>3 DEF Claiming
  <2>3. ASSUME NEW i, \A p \in Producers : pc'[p] = "construct" => seen'[p] # i
        PROVE  \A p \in Producers : pc[p] = "construct" => seen[p] # i
    BY <1>3, <2>2, <2>3, Zenon
  <2>4. ASSUME NEW i \in Taken..Claims - 1, \A p \in Producers : pc'[p] = "construct" => seen'[p] # i
        PROVE  data_[Spot(head_, i - Taken)] = claimed[i + 1]
    BY <2>1, <2>3, <2>4, Zenon DEF Placed
  <2>5. /\ Taken <= u /\ u <= Claims /\ Claims - Taken <= Cap
        /\ tail_ = Spot(head_, Claims - Taken) /\ tail_up_ = Spot(head_, u - Taken)
        /\ \A i \in 1..Taken : popped[i] = claimed[i]
    BY <2>1, Zenon DEF Placed
  <2>6. /\ tail_' = Spot(head_, Claims - Taken)' /\ tail_up_' = Spot(head_, u - Taken)'
    BY <1>1, <2>5, Zenon DEF Spot
  <2>7. ASSUME NEW i PROVE Spot(head_, i - Taken)' = Spot(head_, i - Taken)
    BY <1>1, Zenon DEF Spot
  <2> QED
    BY <1>1, <2>4, <2>5, <2>6, <2>7, Zenon DEF Placed
<1>5. ASSUME NEW p \in Producers \ {t} PROVE Producing(p, u)'
  <2>1. Producing(p, u)
    BY DEF Ordered
  <2>2. NoLock!Value(p)' = NoLock!Value(p)
    BY DEF NoLock!Value
  <2>3. pc'[p] = pc[p] /\ local'[p] = local[p] /\ seen'[p] = seen[p]
    BY <1>2
  <2> QED
    BY <1>1, <1>3, <2>1, <2>2, <2>3, Zenon DEF Producing, Spot
<1>6. ASSUME NEW c \in Consumers \ {t} PROVE Consuming(c, u)'
  <2>1. Consuming(c, u)
    BY DEF Ordered
  <2>2. pc'[c] = pc[c] /\ local'[c] = local[c] /\ seen'[c] = seen[c]
    BY <1>2
  <2> QED
    BY <1>1, <2>1, <2>2, Zenon DEF Consuming, NoLock!Following, NoLock!max_size_
<1> QED
  BY <1>4, <1>5, <1>6, Zenon DEF Ordered

\* A step of a producer that claims, constructs and publishes nothing.
LEMMA EmplaceQuiet ==
  ASSUME RingShape, NEW u \in Nat, Ordered(u), NEW p \in Producers,
         \/ NoLock!EmplaceCall(p) \/ NoLock!EmplaceLoad(p) \/ NoLock!EmplaceCheckFull(p)
         \/ NoLock!EmplaceClaim(p) /\ tail_ # local[p]
  PROVE  Ordered(u)'
<1> USE DEF NoLock!EmplaceCall, NoLock!EmplaceLoad, NoLock!EmplaceCheckFull, NoLock!EmplaceClaim
<1>1. UNCHANGED <<head_, tail_, tail_up_, data_, claimed, popped, next, data>>
  BY DEF NoLock!emplaceLeaves
<1>2. /\ p \in NoLock!Threads /\ p \notin Consumers /\ Taken \in Nat /\ Claims \in Nat /\ Cap \in Nat \ {0}
      /\ head_ \in 0..Cap /\ local[p] \in 0..Cap /\ seen[p] \in Nat
  BY RingTypes, Zenon
<1>3. PICK label \in NoLock!Pc : pc' = [pc EXCEPT ![p] = label] /\ label \notin {"construct", "publish"}
  BY DEF NoLock!Goto, NoLock!Pc
<1>4. /\ pc \in [NoLock!Threads -> NoLock!Pc] /\ local \in [NoLock!Threads -> NoLock!Positions]
      /\ seen \in [NoLock!Threads -> Nat] /\ emplaces \in [Producers -> 0..MaxEmplaces]
  BY Zenon DEF RingShape, NoLock!TypeOK
<1>5. \A s \in NoLock!Threads \ {p} : pc'[s] = pc[s] /\ local'[s] = local[s] /\ seen'[s] = seen[s]
  BY <1>2, <1>3, <1>4
<1>6. \A q \in Producers \ {p} : emplaces'[q] = emplaces[q]
  BY <1>4
<1>7. pc[p] \notin {"construct", "publish"} /\ pc'[p] \notin {"construct", "publish"}
  BY <1>2, <1>3, <1>4
<1>8. Taken' = Taken /\ Claims' = Claims
  BY <1>1 DEF Taken, Claims
<1>9. Producing(p, u) /\ Placed(u)
  BY Zenon DEF Ordered
<1>10. Producing(p, u)'
  <2>1. CASE NoLock!EmplaceLoad(p)
    <3>1. local'[p] = tail_ /\ seen'[p] = Claims /\ pc'[p] = "checkFull"
      BY <1>2, <1>4, <2>1 DEF NoLock!Goto, Claims
    <3> QED
      BY <1>1, <1>2, <1>7, <1>8, <3>1 DEF Producing, Claiming
  <2>2. CASE NoLock!EmplaceCheckFull(p)
    <3>1. /\ local'[p] = local[p] /\ seen'[p] = seen[p] /\ pc[p] = "checkFull"
          /\ pc'[p] = IF NoLock!Following(local[p]) = head_ THEN "idle" ELSE "claim"
      BY <1>2, <1>4, <2>2 DEF NoLock!Goto
    <3>2. ASSUME pc'[p] = "claim", seen[p] = Claims PROVE Claims - Taken < Cap
      <4>1. local[p] = tail_ /\ tail_ = Spot(head_, Claims - Taken) /\ Claims - Taken <= Cap
        BY <1>9, <3>1, <3>2 DEF Producing, Placed
      <4>2. Claims - Taken # Cap
        BY <1>2, <3>1, <3>2, <4>1, SpotFacts
      <4> QED
        BY <1>2, <4>1, <4>2
    <3> QED
      BY <1>1, <1>7, <1>8, <1>9, <3>1, <3>2 DEF Producing, Claiming
  <2>3. CASE local' = local /\ seen' = seen /\ pc'[p] = "loading"
    BY <1>8, <1>9, <2>3 DEF Producing, Claiming
  <2>4. \/ local' = local /\ seen' = seen /\ pc'[p] = "loading"
        \/ NoLock!EmplaceLoad(p) \/ NoLock!EmplaceCheckFull(p)
    BY <1>2, <1>4 DEF NoLock!Goto
  <2> QED
    BY <2>1, <2>2, <2>3, <2>4, Zenon
<1>11. ~Claiming(p) /\ ~Claiming(p)'
  BY <1>7 DEF Claiming
<1> HIDE DEF NoLock!EmplaceCall, NoLock!EmplaceLoad, NoLock!EmplaceCheckFull, NoLock!EmplaceClaim
<1> QED
  BY <1>1, <1>2, <1>5, <1>6, <1>10, <1>11, QuietOrdered, Zenon

\* A step of a consumer that takes nothing.
LEMMA PopQuiet ==
  ASSUME RingShape, NEW u \in Nat, Ordered(u), NEW c \in Consumers,
         \/ NoLock!PopCall(c) \/ NoLock!PopLoad(c) \/ NoLock!PopCheckEmpty(c)
         \/ NoLock!PopCheckPublished(c) \/ NoLock!PopCopy(c) \/ NoLock!PopLoadNext(c)
         \/ NoLock!PopExchange(c) /\ head_ # local[c]
  PROVE  Ordered(u)'
<1> USE DEF NoLock!PopCall, NoLock!PopLoad, NoLock!PopCheckEmpty, NoLock!PopCheckPublished,
            NoLock!PopCopy, NoLock!PopLoadNext, NoLock!PopExchange
<1>1. UNCHANGED <<head_, tail_, tail_up_, data_, claimed, popped, emplaces>>
  BY DEF NoLock!popLeaves
<1>2. /\ c \in NoLock!Threads /\ c \notin Producers /\ Taken \in Nat /\ Claims \in Nat /\ Cap \in Nat \ {0}
      /\ head_ \in 0..Cap /\ local[c] \in 0..Cap /\ seen[c] \in Nat
  BY RingTypes, Zenon
<1>3. PICK label \in NoLock!Pc : pc' = [pc EXCEPT ![c] = label]
  BY DEF NoLock!Goto, NoLock!Pc
<1>4. /\ pc \in [NoLock!Threads -> NoLock!Pc] /\ local \in [NoLock!Threads -> NoLock!Positions]
      /\ seen \in [NoLock!Threads -> Nat] /\ next \in [Consumers -> NoLock!Positions]
      /\ data \in [Consumers -> NoLock!Values \cup {Garbage}]
  BY Zenon DEF RingShape, NoLock!TypeOK
<1>5. \A s \in NoLock!Threads \ {c} : pc'[s] = pc[s] /\ local'[s] = local[s] /\ seen'[s] = seen[s]
  BY <1>2, <1>3, <1>4
<1>6. \A d \in Consumers \ {c} : data'[d] = data[d] /\ next'[d] = next[d]
  BY <1>4
<1>7. Taken' = Taken /\ Claims' = Claims /\ NoLock!Following(head_)' = NoLock!Following(head_)
  BY <1>1 DEF Taken, Claims, NoLock!Following, NoLock!max_size_
<1>8. Consuming(c, u) /\ Placed(u)
  BY Zenon DEF Ordered
<1>9. Consuming(c, u)'
  <2>1. CASE NoLock!PopLoad(c)
    <3>1. local'[c] = head_ /\ seen'[c] = Taken /\ pc'[c] = "checkEmpty"
      BY <1>2, <1>4, <2>1 DEF NoLock!Goto, Taken
    <3> QED
      BY <1>1, <1>2, <1>7, <3>1 DEF Consuming
  <2>2. CASE NoLock!PopCheckEmpty(c)
    <3>1. /\ local' = local /\ seen' = seen /\ pc[c] = "checkEmpty"
          /\ pc'[c] \in {"idle", "checkPublished"}
      BY <1>2, <1>4, <2>2 DEF NoLock!Goto
    <3> QED
      BY <1>1, <1>7, <1>8, <3>1 DEF Consuming
  <2>3. CASE NoLock!PopCheckPublished(c)
    <3>1. /\ local' = local /\ seen' = seen /\ pc[c] = "checkPublished"
          /\ pc'[c] = IF local[c] = tail_up_ THEN "idle" ELSE "copy"
      BY <1>2, <1>4, <2>3 DEF NoLock!Goto
    <3>2. ASSUME pc'[c] = "copy", seen[c] = Taken PROVE Taken < u
      <4>1. local[c] = head_ /\ tail_up_ = Spot(head_, u - Taken) /\ Taken <= u
        BY <1>8, <3>1, <3>2 DEF Consuming, Placed
      <4>2. u # Taken
        <5>1. Spot(head_, 0) = head_
          BY <1>2, SpotFacts
        <5>2. u = Taken => u - Taken = 0
          BY <1>2
        <5> QED
          BY <3>1, <3>2, <4>1, <5>1, <5>2
      <4> QED
        BY <1>2, <4>1, <4>2
    <3> QED
      BY <1>1, <1>7, <1>8, <3>1, <3>2 DEF Consuming
  <2>4. CASE NoLock!PopCopy(c)
    <3>1. /\ local' = local /\ seen' = seen /\ pc[c] = "copy" /\ pc'[c] = "loadNext"
          /\ data'[c] = data_[local[c]]
      BY <1>2, <1>4, <2>4 DEF NoLock!Goto
    <3>2. ASSUME seen[c] = Taken PROVE data_[local[c]] = claimed[Taken + 1]
      <4>1. local[c] = head_ /\ Taken < u /\ u <= Claims
        BY <1>8, <3>1, <3>2 DEF Consuming, Placed
      <4>2. \A p \in Producers : pc[p] = "construct" => seen[p] # Taken
        <5>1. ASSUME NEW p \in Producers, pc[p] = "construct" PROVE u <= seen[p] /\ seen[p] \in Nat
          <6>1. Producing(p, u) /\ Claiming(p)
            BY <5>1 DEF Ordered, Claiming
          <6> QED
            BY <6>1, RingTypes DEF Producing
        <5> QED
          BY <1>2, <4>1, <5>1
      <4>3. Taken \in Taken..Claims - 1 /\ Taken - Taken = 0
        BY <1>2, <4>1
      <4>4. Spot(head_, 0) = head_
        BY <1>2, SpotFacts
      <4> QED
        BY <1>8, <4>1, <4>2, <4>3, <4>4, Zenon DEF Placed
    <3> QED
      BY <1>1, <1>7, <1>8, <3>1, <3>2 DEF Consuming
  <2>5. CASE NoLock!PopLoadNext(c)
    <3>1. /\ local' = local /\ seen' = seen /\ data' = data /\ pc[c] = "loadNext" /\ pc'[c] = "exchange"
          /\ next'[c] = NoLock!Following(head_)
      BY <1>2, <1>4, <2>5 DEF NoLock!Goto
    <3> QED
      BY <1>1, <1>7, <1>8, <3>1 DEF Consuming
  <2>6. CASE local' = local /\ seen' = seen /\ pc'[c] = "loading"
    BY <1>7, <1>8, <2>6 DEF Consuming
  <2>7. \/ local' = local /\ seen' = seen /\ pc'[c] = "loading"
        \/ NoLock!PopLoad(c) \/ NoLock!PopCheckEmpty(c) \/ NoLock!PopCheckPublished(c)
        \/ NoLock!PopCopy(c) \/ NoLock!PopLoadNext(c)
    BY <1>2, <1>4 DEF NoLock!Goto
  <2> QED
    BY <2>1, <2>2, <2>3, <2>4, <2>5, <2>6, <2>7, Zenon
<1> HIDE DEF NoLock!PopCall, NoLock!PopLoad, NoLock!PopCheckEmpty, NoLock!PopCheckPublished,
             NoLock!PopCopy, NoLock!PopLoadNext, NoLock!PopExchange
<1> QED
  BY <1>1, <1>2, <1>5, <1>6, <1>9, QuietOrdered, Zenon

\* The exchange of tail_ that claims the position of the next value.
LEMMA ClaimOrdered ==
  ASSUME RingShape, NEW u \in Nat, Ordered(u), NEW p \in Producers,
         NoLock!EmplaceClaim(p), tail_ = local[p], seen[p] = Claims
  PROVE  Ordered(u)'
<1>1. /\ UNCHANGED <<head_, tail_up_, data_, popped, next, data, local, emplaces, seen>>
      /\ pc[p] = "claim" /\ pc' = [pc EXCEPT ![p] = "construct"]
      /\ tail_' = NoLock!Following(local[p]) /\ claimed' = Append(claimed, NoLock!Value(p))
  BY DEF NoLock!EmplaceClaim, NoLock!emplaceLeaves, NoLock!Goto
<1>2. /\ Cap \in Nat \ {0} /\ head_ \in 0..Cap /\ Taken \in Nat /\ Claims \in Nat
      /\ \A q \in Producers : seen[q] \in Nat /\ q \in NoLock!Threads /\ q \notin Consumers
      /\ \A c \in Consumers : c \in NoLock!Threads
  BY RingTypes
<1>3. PICK h \in 0..Cap, H \in Nat, T \in Nat : h = head_ /\ H = Taken /\ T = Claims
  BY <1>2
<1>4. pc'[p] = "construct" /\ \A s \in NoLock!Threads \ {p} : pc'[s] = pc[s]
  BY <1>1, <1>2 DEF RingShape, NoLock!TypeOK
<1>5. /\ Claims' = T + 1 /\ Taken' = H /\ claimed'[T + 1] = NoLock!Value(p)
      /\ \A i \in 1..T : claimed'[i] = claimed[i]
  BY <1>1, <1>3 DEF RingShape, NoLock!TypeOK, Claims, Taken
<1>6. Producing(p, u) /\ Placed(u)
  BY DEF Ordered
<1>7. /\ H <= u /\ u <= T /\ T - H < Cap /\ tail_ = Spot(h, T - H) /\ tail_up_ = Spot(h, u - H)
      /\ \A i \in 1..H : popped[i] = claimed[i]
      /\ \A i \in H..T - 1 : (\A q \in Producers : pc[q] = "construct" => seen[q] # i) =>
                               data_[Spot(h, i - H)] = claimed[i + 1]
  <2>1. T - H < Cap
    BY <1>1, <1>3, <1>6, Zenon DEF Producing
  <2> QED
    BY <1>3, <1>6, <2>1, Zenon DEF Placed
<1>8. tail_' = Spot(h, (T + 1) - H)
  <2>1. T - H \in 0..Cap - 1 /\ (T - H) + 1 = (T + 1) - H
    BY <1>2, <1>7
  <2>2. NoLock!Following(Spot(h, T - H)) = Spot(h, (T - H) + 1)
    BY <1>2, <2>1, SpotFacts
  <2> QED
    BY <1>1, <1>7, <2>1, <2>2
<1>9. Placed(u)'
  <2>1. H <= u /\ u <= T + 1 /\ (T + 1) - H <= Cap
    BY <1>2, <1>7
  <2>2. ASSUME NEW i \in 1..H PROVE popped[i] = claimed'[i]
    BY <1>5, <1>7
  <2>3. ASSUME NEW i \in H..(T + 1) - 1, \A q \in Producers : pc'[q] = "construct" => seen[q] # i
        PROVE  data_[Spot(h, i - H)] = claimed'[i + 1]
    <3>1. i # T
      BY <1>3, <1>4, <2>3
    <3>2. i \in H..T - 1 /\ i + 1 \in 1..T
      BY <3>1
    <3>3. \A q \in Producers : pc[q] = "construct" => seen[q] # i
      BY <1>1, <1>2, <1>4, <2>3
    <3> QED
      BY <1>5, <1>7, <3>2, <3>3, Zenon
  <2>4. tail_up_' = Spot(h, u - H)
    BY <1>1, <1>7
  <2>5. /\ Spot(head_, u - Taken)' = Spot(h, u - H) /\ Spot(head_, Claims - Taken)' = Spot(h, (T + 1) - H)
        /\ \A i : Spot(head_, i - Taken)' = Spot(h, i - H)
    BY <1>1, <1>3, <1>5, Zenon DEF Spot
  <2> QED
    BY <1>1, <1>5, <1>8, <2>1, <2>2, <2>3, <2>4, <2>5, Zenon DEF Placed
<1>10. ASSUME NEW q \in Producers, q # p
       PROVE  /\ seen[q] <= T /\ pc'[q] = pc[q] /\ NoLock!Value(q)' = NoLock!Value(q)
              /\ Claiming(q)' <=> Claiming(q)
              /\ Claiming(q) =>
                   /\ u <= seen[q] /\ seen[q] < T /\ local[q] = Spot(h, seen[q] - H)
                   /\ claimed[seen[q] + 1] = NoLock!Value(q)
                   /\ \A r \in Producers : Claiming(r) /\ seen[r] = seen[q] => r = q
  <2>1. Producing(q, u)
    BY DEF Ordered
  <2>2. pc'[q] = pc[q] /\ NoLock!Value(q)' = NoLock!Value(q)
    BY <1>1, <1>2, <1>4, <1>10 DEF NoLock!Value
  <2> QED
    BY <1>3, <2>1, <2>2, Zenon DEF Producing, Claiming
<1>11. ASSUME NEW q \in Producers PROVE Producing(q, u)'
  <2>1. ASSUME NEW r \in Producers, Claiming(r)', Claiming(q)', seen[r] = seen[q] PROVE r = q
    <3>1. CASE r = p /\ q # p
      BY <1>2, <1>3, <1>10, <2>1, <3>1
    <3>2. CASE r # p /\ q = p
      BY <1>2, <1>3, <1>10, <2>1, <3>2
    <3>3. CASE r # p /\ q # p
      BY <1>10, <2>1, <3>3, Zenon
    <3> QED
      BY <3>1, <3>2, <3>3
  <2>2. CASE q # p
    <3>1. /\ seen[q] <= T + 1 /\ seen[q] # T + 1
          /\ Claiming(q) => seen[q] < T + 1 /\ seen[q] + 1 \in 1..T
      BY <1>2, <1>10, <2>2
    <3>2. Spot(head_, seen[q] - Taken)' = Spot(h, seen[q] - H)
      BY <1>1, <1>3, <1>5, Zenon DEF Spot
    <3> QED
      BY <1>1, <1>5, <1>10, <2>1, <2>2, <3>1, <3>2, Zenon DEF Producing
  <2>3. CASE q = p
    <3>1. seen[p] = T /\ T <= T + 1 /\ T < T + 1 /\ T # T + 1 /\ u <= T
      BY <1>3, <1>7
    <3>2. Spot(head_, seen[p] - Taken)' = Spot(h, T - H)
      BY <1>1, <1>3, <1>5, <3>1, Zenon DEF Spot
    <3>3. NoLock!Value(p)' = NoLock!Value(p) /\ pc'[p] \notin {"checkFull", "claim"}
      BY <1>1, <1>4 DEF NoLock!Value
    <3>4. local'[p] = Spot(h, T - H)
      BY <1>1, <1>7
    <3>5. ASSUME NEW r \in Producers, Claiming(r)', Claiming(p)', seen'[r] = seen'[p] PROVE r = p
      BY <1>1, <2>1, <2>3, <3>5
    <3>6. /\ seen'[p] = T /\ claimed'[seen'[p] + 1] = NoLock!Value(p)'
      BY <1>1, <1>5, <3>1, <3>3
    <3> QED
      BY <1>5, <2>3, <3>1, <3>2, <3>3, <3>4, <3>5, <3>6, Zenon DEF Producing
  <2> QED
    BY <2>2, <2>3
<1>12. ASSUME NEW c \in Consumers PROVE Consuming(c, u)'
  <2>1. Consuming(c, u)
    BY DEF Ordered
  <2>2. pc'[c] = pc[c]
    BY <1>2, <1>4
  <2>3. H < u => claimed'[H + 1] = claimed[H + 1]
    <3>1. H < u => H + 1 \in 1..T
      BY <1>7
    <3> QED
      BY <1>5, <3>1
  <2> QED
    BY <1>1, <1>3, <1>5, <2>1, <2>2, <2>3, Zenon DEF Consuming, NoLock!Following, NoLock!max_size_
<1> QED
  BY <1>9, <1>11, <1>12, Zenon DEF Ordered

\* The element is constructed at its position, which no other value has.
LEMMA ConstructOrdered ==
  ASSUME RingShape, NEW u \in Nat, Ordered(u), NEW p \in Producers, NoLock!EmplaceConstruct(p)
  PROVE  Ordered(u)'
<1>1. /\ UNCHANGED <<head_, tail_, tail_up_, popped, next, data, local, emplaces, claimed, seen>>
      /\ pc[p] = "construct" /\ pc' = [pc EXCEPT ![p] = "publish"]
      /\ data_' = [data_ EXCEPT ![local[p]] = NoLock!Value(p)]
  BY DEF NoLock!EmplaceConstruct, NoLock!emplaceLeaves, NoLock!Goto
<1>2. /\ Cap \in Nat \ {0} /\ head_ \in 0..Cap /\ Taken \in Nat /\ Claims \in Nat
      /\ \A q \in Producers : seen[q] \in Nat /\ q \in NoLock!Threads /\ q \notin Consumers
      /\ \A c \in Consumers : c \in NoLock!Threads
      /\ NoLock!Positions = 0..Cap
  BY RingTypes
<1>3. PICK h \in 0..Cap, H \in Nat, T \in Nat : h = head_ /\ H = Taken /\ T = Claims
  BY <1>2
<1>4. pc'[p] = "publish" /\ \A s \in NoLock!Threads \ {p} : pc'[s] = pc[s]
  BY <1>1, <1>2 DEF RingShape, NoLock!TypeOK
<1>5. Claims' = T /\ Taken' = H
  BY <1>1, <1>3 DEF Claims, Taken
<1>6. Claiming(p) /\ Producing(p, u) /\ Placed(u)
  BY <1>1 DEF Ordered, Claiming
<1>7. /\ H <= u /\ u <= seen[p] /\ seen[p] < T /\ T - H <= Cap
      /\ local[p] = Spot(h, seen[p] - H) /\ claimed[seen[p] + 1] = NoLock!Value(p)
  BY <1>3, <1>6, Zenon DEF Producing, Placed
<1>8. \A q \in Producers : Claiming(q)' <=> Claiming(q)
  BY <1>1, <1>2, <1>4 DEF Claiming
<1>9. seen[p] - H \in 0..Cap /\ Spot(h, seen[p] - H) \in 0..Cap
  <2>1. seen[p] - H \in 0..Cap
    BY <1>2, <1>7
  <2> QED
    BY <1>2, <2>1, SpotFacts
<1>10. /\ data_'[local[p]] = NoLock!Value(p)
       /\ \A j \in 0..Cap : j # local[p] => data_'[j] = data_[j]
  BY <1>1, <1>2, <1>7, <1>9 DEF RingShape, NoLock!TypeOK
<1>11. ASSUME NEW i \in H..T - 1, \A q \in Producers : pc'[q] = "construct" => seen[q] # i
       PROVE  data_'[Spot(h, i - H)] = claimed[i + 1]
  <2>1. CASE i = seen[p]
    BY <1>7, <1>10, <2>1
  <2>2. CASE i # seen[p]
    <3>1. \A q \in Producers : pc[q] = "construct" => seen[q] # i
      BY <1>2, <1>4, <1>11, <2>2
    <3>2. data_[Spot(h, i - H)] = claimed[i + 1]
      BY <1>3, <1>6, <3>1, Zenon DEF Placed
    <3>3. i - H \in 0..Cap /\ i - H # seen[p] - H
      BY <1>2, <1>7, <2>2
    <3>4. Spot(h, i - H) \in 0..Cap /\ Spot(h, i - H) # Spot(h, seen[p] - H)
      BY <1>2, <1>9, <3>3, SpotFacts
    <3> QED
      BY <1>7, <1>10, <3>2, <3>4, Zenon
  <2> QED
    BY <2>1, <2>2
<1>12. Placed(u)'
  <2>1. /\ Spot(head_, u - Taken)' = Spot(head_, u - Taken)
        /\ Spot(head_, Claims - Taken)' = Spot(head_, Claims - Taken)
        /\ \A i : Spot(head_, i - Taken)' = Spot(h, i - H)
    BY <1>1, <1>3, <1>5, Zenon DEF Spot
  <2>2. /\ H <= u /\ u <= T /\ T - H <= Cap
        /\ tail_ = Spot(head_, Claims - Taken) /\ tail_up_ = Spot(head_, u - Taken)
        /\ \A i \in 1..H : popped[i] = claimed[i]
    BY <1>3, <1>6, Zenon DEF Placed
  <2> QED
    BY <1>1, <1>5, <1>11, <2>1, <2>2, Zenon DEF Placed
<1>13. ASSUME NEW q \in Producers PROVE Producing(q, u)'
  <2>1. Producing(q, u)
    BY DEF Ordered
  <2>2. NoLock!Value(q)' = NoLock!Value(q) /\ Spot(head_, seen[q] - Taken)' = Spot(head_, seen[q] - Taken)
    BY <1>1, <1>3, <1>5, Zenon DEF NoLock!Value, Spot
  <2>3. pc'[q] \in {"checkFull", "claim"} => pc'[q] = pc[q]
    BY <1>2, <1>4
  <2>4. pc'[q] = "claim" => pc'[q] = pc[q]
    BY <1>2, <1>4
  <2> QED
    BY <1>1, <1>3, <1>5, <1>8, <2>1, <2>2, <2>3, <2>4, Zenon DEF Producing
<1>14. ASSUME NEW c \in Consumers PROVE Consuming(c, u)'
  <2>1. Consuming(c, u)
    BY DEF Ordered
  <2>2. pc'[c] = pc[c]
    BY <1>2, <1>4
  <2> QED
    BY <1>1, <1>3, <1>5, <2>1, <2>2, Zenon DEF Consuming, NoLock!Following, NoLock!max_size_
<1> QED
  BY <1>12, <1>13, <1>14, Zenon DEF Ordered

\* tail_up_ moves on by one value: nobody publishes out of turn.
LEMMA PublishOrdered ==
  ASSUME RingShape, NEW u \in Nat, Ordered(u), NEW p \in Producers, NoLock!EmplacePublish(p)
  PROVE  Ordered(u + 1)'
<1>1. /\ UNCHANGED <<head_, tail_, data_, popped, next, data, local, emplaces, claimed, seen>>
      /\ pc[p] = "publish" /\ pc' = [pc EXCEPT ![p] = "idle"]
      /\ tail_up_ = local[p] /\ tail_up_' = NoLock!Following(local[p])
  BY DEF NoLock!EmplacePublish, NoLock!emplaceLeaves, NoLock!Goto
<1>2. /\ Cap \in Nat \ {0} /\ head_ \in 0..Cap /\ Taken \in Nat /\ Claims \in Nat
      /\ \A q \in Producers : seen[q] \in Nat /\ q \in NoLock!Threads /\ q \notin Consumers
      /\ \A c \in Consumers : c \in NoLock!Threads
  BY RingTypes
<1>3. PICK h \in 0..Cap, H \in Nat, T \in Nat : h = head_ /\ H = Taken /\ T = Claims
  BY <1>2
<1>4. pc'[p] = "idle" /\ \A s \in NoLock!Threads \ {p} : pc'[s] = pc[s]
  BY <1>1, <1>2 DEF RingShape, NoLock!TypeOK
<1>5. Claims' = T /\ Taken' = H
  BY <1>1, <1>3 DEF Claims, Taken
<1>6. Claiming(p) /\ Producing(p, u) /\ Placed(u)
  BY <1>1 DEF Ordered, Claiming
<1>7. /\ H <= u /\ u <= seen[p] /\ seen[p] < T /\ T - H <= Cap
      /\ local[p] = Spot(h, seen[p] - H) /\ tail_up_ = Spot(h, u - H)
      /\ \A q \in Producers : Claiming(q) /\ seen[q] = seen[p] => q = p
  BY <1>3, <1>6, Zenon DEF Producing, Placed
<1>8. seen[p] = u
  <2>1. seen[p] - H \in 0..Cap /\ u - H \in 0..Cap
    BY <1>2, <1>7
  <2>2. seen[p] - H = u - H
    BY <1>1, <1>2, <1>7, <2>1, SpotFacts
  <2> QED
    BY <1>2, <2>2
<1>9. tail_up_' = Spot(h, (u + 1) - H)
  <2>1. u - H \in 0..Cap - 1 /\ (u - H) + 1 = (u + 1) - H
    BY <1>2, <1>7, <1>8
  <2>2. NoLock!Following(Spot(h, u - H)) = Spot(h, (u - H) + 1)
    BY <1>2, <2>1, SpotFacts
  <2> QED
    BY <1>1, <1>7, <2>1, <2>2
<1>10. PICK v \in Nat : v = u + 1
  OBVIOUS
<1>11. H <= v /\ v <= T /\ u < v
  BY <1>2, <1>7, <1>8, <1>10
<1>12. \A q \in Producers : /\ Claiming(q)' <=> Claiming(q) /\ q # p
                            /\ pc'[q] = "construct" <=> pc[q] = "construct"
  BY <1>1, <1>2, <1>4 DEF Claiming
<1>13. Placed(v)'
  <2>1. /\ Spot(head_, v - Taken)' = Spot(h, v - H)
        /\ Spot(head_, Claims - Taken)' = Spot(head_, Claims - Taken)
        /\ \A i : Spot(head_, i - Taken)' = Spot(head_, i - Taken)
    BY <1>1, <1>3, <1>5, Zenon DEF Spot
  <2>2. tail_up_' = Spot(h, v - H)
    BY <1>9, <1>10
  <2> QED
    BY <1>1, <1>3, <1>5, <1>6, <1>11, <1>12, <2>1, <2>2, Zenon DEF Placed
<1>14. ASSUME NEW q \in Producers PROVE Producing(q, v)'
  <2>1. Producing(q, u)
    BY DEF Ordered
  <2>2. NoLock!Value(q)' = NoLock!Value(q) /\ Spot(head_, seen[q] - Taken)' = Spot(head_, seen[q] - Taken)
    BY <1>1, <1>3, <1>5, Zenon DEF NoLock!Value, Spot
  <2>3. Claiming(q)' => v <= seen[q]
    <3> SUFFICES ASSUME Claiming(q), q # p PROVE v <= seen[q]
      BY <1>12
    <3>1. u <= seen[q] /\ seen[q] # u
      BY <1>7, <1>8, <2>1, Zenon DEF Producing
    <3> QED
      BY <1>2, <1>10, <3>1
  <2>4. /\ pc'[q] \in {"checkFull", "claim"} => pc'[q] = pc[q]
        /\ pc'[q] = "claim" => pc'[q] = pc[q]
    BY <1>2, <1>4
  <2> QED
    BY <1>1, <1>3, <1>5, <1>12, <2>1, <2>2, <2>3, <2>4, Zenon DEF Producing
<1>15. ASSUME NEW c \in Consumers PROVE Consuming(c, v)'
  <2>1. Consuming(c, u)
    BY DEF Ordered
  <2>2. pc'[c] = pc[c]
    BY <1>2, <1>4
  <2>3. H < u => H < v
    BY <1>11
  <2> QED
    BY <1>1, <1>3, <1>5, <2>1, <2>2, <2>3, Zenon DEF Consuming, NoLock!Following, NoLock!max_size_
<1>16. Ordered(v)'
  BY <1>13, <1>14, <1>15, Zenon DEF Ordered
<1> QED
  BY <1>10, <1>16

\* The exchange of head_ that takes the first value.
LEMMA ExchangeOrdered ==
  ASSUME RingShape, NEW u \in Nat, Ordered(u), NEW c \in Consumers,
         NoLock!PopExchange(c), head_ = local[c], seen[c] = Taken
  PROVE  /\ Ordered(u)' /\ Taken < u /\ u <= Claims
         /\ head_' = NoLock!Following(head_) /\ data[c] = claimed[Taken + 1]
<1>1. /\ UNCHANGED <<tail_, tail_up_, data_, emplaces, claimed, local, next, data, seen>>
      /\ pc[c] = "exchange" /\ pc' = [pc EXCEPT ![c] = "idle"]
      /\ head_' = next[c] /\ popped' = Append(popped, data[c])
  BY DEF NoLock!PopExchange, NoLock!popLeaves, NoLock!Goto
<1>2. /\ Cap \in Nat \ {0} /\ head_ \in 0..Cap /\ Taken \in Nat /\ Claims \in Nat
      /\ \A q \in Producers : seen[q] \in Nat /\ q \in NoLock!Threads /\ q \notin Consumers
      /\ \A d \in Consumers : d \in NoLock!Threads /\ seen[d] \in Nat
  BY RingTypes
<1>3. PICK h \in 0..Cap, H \in Nat, T \in Nat : h = head_ /\ H = Taken /\ T = Claims
  BY <1>2
<1>4. \A s \in NoLock!Threads \ {c} : pc'[s] = pc[s]
  BY <1>1, <1>2 DEF RingShape, NoLock!TypeOK
<1>5. /\ Claims' = T /\ Taken' = H + 1 /\ popped'[H + 1] = data[c]
      /\ \A i \in 1..H : popped'[i] = popped[i]
  <2>1. popped \in Seq(NoLock!Values \cup {Garbage}) /\ data[c] \in NoLock!Values \cup {Garbage}
    BY DEF RingShape, NoLock!TypeOK
  <2> QED
    BY <1>1, <1>3, <2>1, AppendProperties DEF Claims, Taken
<1>6. Consuming(c, u) /\ Placed(u)
  BY DEF Ordered
<1>7. H < u /\ data[c] = claimed[H + 1] /\ next[c] = NoLock!Following(h)
  BY <1>1, <1>3, <1>6 DEF Consuming
<1>8. /\ u <= T /\ T - H <= Cap /\ tail_ = Spot(h, T - H) /\ tail_up_ = Spot(h, u - H)
      /\ \A i \in 1..H : popped[i] = claimed[i]
      /\ \A i \in H..T - 1 : (\A q \in Producers : pc[q] = "construct" => seen[q] # i) =>
                               data_[Spot(h, i - H)] = claimed[i + 1]
  BY <1>3, <1>6, Zenon DEF Placed
<1>9. PICK g : g = NoLock!Following(h)
  OBVIOUS
<1>10. ASSUME NEW i \in H + 1..T PROVE Spot(g, i - (H + 1)) = Spot(h, i - H)
  <2>1. i - H \in 1..Cap /\ (i - H) - 1 = i - (H + 1)
    BY <1>2, <1>8
  <2>2. Spot(NoLock!Following(h), (i - H) - 1) = Spot(h, i - H)
    BY <1>2, <2>1, SpotFacts
  <2> QED
    BY <1>9, <2>1, <2>2
<1>11. ASSUME NEW i PROVE Spot(head_, i - Taken)' = Spot(g, i - (H + 1))
  BY <1>1, <1>5, <1>7, <1>9, Zenon DEF Spot
<1>12. T \in H + 1..T /\ u \in H + 1..T /\ H + 1 <= u /\ T - (H + 1) <= Cap
  BY <1>2, <1>7, <1>8
<1>13. Placed(u)'
  <2>1. ASSUME NEW i \in 1..H + 1 PROVE popped'[i] = claimed[i]
    <3>1. i \in 1..H \/ i = H + 1
      OBVIOUS
    <3> QED
      BY <1>5, <1>7, <1>8, <3>1
  <2>2. ASSUME NEW i \in H + 1..T - 1, \A q \in Producers : pc'[q] = "construct" => seen[q] # i
        PROVE  data_[Spot(g, i - (H + 1))] = claimed[i + 1]
    <3>1. i \in H..T - 1 /\ i \in H + 1..T
      OBVIOUS
    <3>2. \A q \in Producers : pc[q] = "construct" => seen[q] # i
      BY <1>2, <1>4, <2>2
    <3> QED
      BY <1>8, <1>10, <3>1, <3>2, Zenon
  <2>3. tail_ = Spot(g, T - (H + 1)) /\ tail_up_ = Spot(g, u - (H + 1))
    BY <1>8, <1>10, <1>12
  <2>4. Spot(head_, Claims - Taken)' = Spot(g, T - (H + 1))
    BY <1>1, <1>5, <1>7, <1>9, Zenon DEF Spot
  <2> QED
    BY <1>1, <1>5, <1>8, <1>11, <1>12, <2>1, <2>2, <2>3, <2>4, Zenon DEF Placed
<1>14. ASSUME NEW q \in Producers PROVE Producing(q, u)'
  <2>1. Producing(q, u)
    BY DEF Ordered
  <2>2. pc'[q] = pc[q] /\ NoLock!Value(q)' = NoLock!Value(q)
    BY <1>1, <1>2, <1>4 DEF NoLock!Value
  <2>3. \A r \in Producers : Claiming(r)' <=> Claiming(r)
    BY <1>2, <1>4 DEF Claiming
  <2>4. Claiming(q) => Spot(head_, seen[q] - Taken)' = Spot(h, seen[q] - H)
    <3> SUFFICES ASSUME Claiming(q) PROVE Spot(head_, seen[q] - Taken)' = Spot(h, seen[q] - H)
      OBVIOUS
    <3>1. u <= seen[q] /\ seen[q] < T
      BY <1>3, <2>1 DEF Producing
    <3>2. seen[q] \in H + 1..T
      BY <1>2, <1>7, <3>1
    <3>3. Spot(head_, seen[q] - Taken)' = Spot(g, seen[q] - (H + 1))
      BY <1>1, <1>5, <1>7, <1>9, Zenon DEF Spot
    <3> QED
      BY <1>10, <3>2, <3>3
  <2>5. T - H < Cap => T - (H + 1) < Cap
    BY <1>2
  <2> QED
    BY <1>1, <1>3, <1>5, <2>1, <2>2, <2>3, <2>4, <2>5, Zenon DEF Producing
<1>15. ASSUME NEW d \in Consumers PROVE Consuming(d, u)'
  <2>1. Consuming(d, u)
    BY DEF Ordered
  <2>2. seen[d] <= H + 1 /\ seen[d] # H + 1
    BY <1>2, <1>3, <2>1 DEF Consuming
  <2> QED
    BY <1>1, <1>5, <2>2, Zenon DEF Consuming
<1>16. Ordered(u)'
  BY <1>13, <1>14, <1>15, Zenon DEF Ordered
<1> QED
  BY <1>1, <1>3, <1>7, <1>8, <1>16

\* An exchange that succeeds while nobody is lapped is not one that the ring has gone round.
LEMMA EmplaceLaps ==
  ASSUME NEW p \in Producers, ~lapped',
         \/ NoLock!EmplaceCall(p) \/ NoLock!EmplaceLoad(p) \/ NoLock!EmplaceCheckFull(p)
         \/ NoLock!EmplaceClaim(p) \/ NoLock!EmplaceConstruct(p) \/ NoLock!EmplacePublish(p)
  PROVE  ~lapped /\ (NoLock!EmplaceClaim(p) /\ tail_ = local[p] => seen[p] = Claims)
<1>1. CASE NoLock!EmplaceClaim(p) /\ tail_ = local[p]
  <2>1. lapped' = (lapped \/ seen[p] # Len(claimed))
    BY <1>1, Zenon DEF NoLock!EmplaceClaim
  <2> QED
    BY <2>1, Zenon DEF Claims
<1>2. CASE ~(NoLock!EmplaceClaim(p) /\ tail_ = local[p])
  <2>1. CASE NoLock!EmplaceClaim(p)
    <3>1. lapped' = lapped
      BY <1>2, <2>1, Zenon DEF NoLock!EmplaceClaim
    <3> QED
      BY <1>2, <3>1, Zenon
  <2>2. CASE ~NoLock!EmplaceClaim(p)
    <3>1. lapped' = lapped
      BY <2>2 DEF NoLock!EmplaceCall, NoLock!EmplaceLoad, NoLock!EmplaceCheckFull,
                        NoLock!EmplaceConstruct, NoLock!EmplacePublish
    <3> QED
      BY <1>2, <3>1, Zenon
  <2> QED
    BY <2>1, <2>2, Zenon
<1> QED
  BY <1>1, <1>2, Zenon

LEMMA PopLaps ==
  ASSUME NEW c \in Consumers, ~lapped',
         \/ NoLock!PopCall(c) \/ NoLock!PopLoad(c) \/ NoLock!PopCheckEmpty(c)
         \/ NoLock!PopCheckPublished(c) \/ NoLock!PopCopy(c) \/ NoLock!PopLoadNext(c)
         \/ NoLock!PopExchange(c)
  PROVE  ~lapped /\ (NoLock!PopExchange(c) /\ head_ = local[c] => seen[c] = Taken)
  BY Zenon DEF NoLock!PopCall, NoLock!PopLoad, NoLock!PopCheckEmpty, NoLock!PopCheckPublished,
                       NoLock!PopCopy, NoLock!PopLoadNext, NoLock!PopExchange, Taken

LEMMA RingNext == RingInv /\ [NoLock!Next]_(NoLock!vars) => RingInv'
<1> SUFFICES ASSUME RingInv, [NoLock!Next]_(NoLock!vars) PROVE RingInv'
  OBVIOUS
<1>1. RingShape
  BY DEF RingInv
<1>2. ASSUME NEW p \in Producers,
             \/ NoLock!EmplaceCall(p) \/ NoLock!EmplaceLoad(p) \/ NoLock!EmplaceCheckFull(p)
             \/ NoLock!EmplaceClaim(p) \/ NoLock!EmplaceConstruct(p) \/ NoLock!EmplacePublish(p)
      PROVE  RingInv'
  <2>1. RingShape'
    BY <1>1, <1>2, EmplaceShape
  <2> SUFFICES ASSUME ~lapped' PROVE \E u \in Nat : Ordered(u)'
    BY <2>1 DEF RingInv
  <2>2. ~lapped /\ (NoLock!EmplaceClaim(p) /\ tail_ = local[p] => seen[p] = Claims)
    BY <1>2, EmplaceLaps
  <2>3. PICK u \in Nat : Ordered(u)
    BY <2>2 DEF RingInv
  <2>4. CASE NoLock!EmplacePublish(p)
    BY <1>1, <2>3, <2>4, PublishOrdered
  <2>5. CASE ~NoLock!EmplacePublish(p)
    BY <1>1, <1>2, <2>2, <2>3, <2>5, EmplaceQuiet, ClaimOrdered, ConstructOrdered, Zenon
  <2> QED
    BY <2>4, <2>5
<1>3. ASSUME NEW c \in Consumers,
             \/ NoLock!PopCall(c) \/ NoLock!PopLoad(c) \/ NoLock!PopCheckEmpty(c)
             \/ NoLock!PopCheckPublished(c) \/ NoLock!PopCopy(c) \/ NoLock!PopLoadNext(c)
             \/ NoLock!PopExchange(c)
      PROVE  RingInv'
  <2>1. RingShape'
    BY <1>1, <1>3, PopShape
  <2> SUFFICES ASSUME ~lapped' PROVE \E u \in Nat : Ordered(u)'
    BY <2>1 DEF RingInv
  <2>2. ~lapped /\ (NoLock!PopExchange(c) /\ head_ = local[c] => seen[c] = Taken)
    BY <1>3, PopLaps
  <2>3. PICK u \in Nat : Ordered(u)
    BY <2>2 DEF RingInv
  <2> QED
    BY <1>1, <1>3, <2>2, <2>3, PopQuiet, ExchangeOrdered, Zenon
<1>4. CASE UNCHANGED NoLock!vars
  <2>1. /\ UNCHANGED <<head_, tail_, tail_up_, data_, pc, local, next, data, emplaces, claimed, popped,
                       seen, lapped>>
        /\ UNCHANGED <<NoLock!Positions, NoLock!Values, NoLock!Threads, NoLock!Pc>>
    BY <1>4 DEF NoLock!vars, NoLock!Positions, NoLock!Values, NoLock!Threads, NoLock!Pc
  <2>2. RingShape'
    BY <1>1, <2>1, Zenon DEF RingShape, NoLock!TypeOK, NoLock!RingAssumption
  <2>3. Taken' = Taken /\ Claims' = Claims
    BY <2>1 DEF Taken, Claims
  <2>4. ASSUME NEW u \in Nat, Ordered(u) PROVE Ordered(u)'
    <3>1. \A i : Spot(head_, i - Taken)' = Spot(head_, i - Taken)
      BY <2>1, <2>3, Zenon DEF Spot
    <3>2. Spot(head_, Claims - Taken)' = Spot(head_, Claims - Taken)
      BY <2>1, <2>3, Zenon DEF Spot
    <3>3. Placed(u)'
      BY <2>1, <2>3, <2>4, <3>1, <3>2, Zenon DEF Ordered, Placed
    <3>4. ASSUME NEW p \in Producers PROVE Producing(p, u)'
      <4>1. /\ NoLock!Value(p)' = NoLock!Value(p) /\ Producing(p, u)
            /\ Spot(head_, seen[p] - Taken)' = Spot(head_, seen[p] - Taken)
        BY <2>1, <2>3, <2>4, Zenon DEF NoLock!Value, Ordered, Spot
      <4> QED
        BY <2>1, <2>3, <4>1, Zenon DEF Producing, Claiming
    <3>5. ASSUME NEW c \in Consumers PROVE Consuming(c, u)'
      BY <2>1, <2>3, <2>4, Zenon DEF Ordered, Consuming, NoLock!Following, NoLock!max_size_
    <3> QED
      BY <3>3, <3>4, <3>5, Zenon DEF Ordered
  <2> QED
    BY <2>1, <2>2, <2>4, Zenon DEF RingInv
<1> QED
  BY <1>2, <1>3, <1>4, Zenon DEF NoLock!Next

\* The inductive invariant of the ring.
THEOREM RingInductive == ASSUME NoLock!RingAssumption PROVE NoLock!Spec => []RingInv
<1>1. NoLock!Init => RingInv
  BY RingInit
<1> QED
  BY <1>1, RingNext, PTL DEF NoLock!Spec

(***************************************************************************)
(* Until a thread is lapped, pop hands out the values in the order of the  *)
(* claims, each once and never one that is not constructed, for any number *)
(* of producers and consumers, any capacity and any number of calls.       *)
(***************************************************************************)
THEOREM RingPoppedInOrder == ASSUME NoLock!RingAssumption PROVE NoLock!Spec => []NoLock!PoppedInOrder
<1>1. ASSUME RingInv PROVE NoLock!PoppedInOrder
  <2> SUFFICES ASSUME ~lapped PROVE \A i \in DOMAIN popped : i \in DOMAIN claimed /\ popped[i] = claimed[i]
    BY DEF NoLock!PoppedInOrder
  <2>1. PICK u \in Nat : Ordered(u)
    BY <1>1 DEF RingInv
  <2>2. /\ Taken <= u /\ u <= Claims /\ \A i \in 1..Taken : popped[i] = claimed[i]
    BY <2>1, Zenon DEF Ordered, Placed
  <2>3. /\ DOMAIN popped = 1..Taken /\ DOMAIN claimed = 1..Claims /\ Taken \in Nat /\ Claims \in Nat
    BY <1>1 DEF RingInv, RingShape, NoLock!TypeOK, Taken, Claims
  <2> QED
    BY <2>2, <2>3
<1> QED
  BY <1>1, RingInductive, PTL

-----------------------------------------------------------------------------
(***************************************************************************)
(* Until a thread is lapped the ring implements the queue with a mutex.    *)
(* What a position holds for that queue is the value of the one producer   *)
(* that has claimed it and not constructed it yet, or what is stored.      *)
(***************************************************************************)
Constructing(p, i) == pc[p] = "construct" /\ local[p] = i

ConstructedFacts ==
  /\ NoLock!Constructed = [i \in 0..Cap |-> NoLock!Constructed[i]]
  /\ \A p \in Producers : pc[p] = "construct" => NoLock!Constructed[local[p]] = NoLock!Value(p)
  /\ \A i \in 0..Cap :
       (\A p \in Producers : ~Constructing(p, i)) => NoLock!Constructed[i] = data_[i]
  /\ \A p, q \in Producers : Constructing(p, local[p]) /\ Constructing(q, local[p]) => p = q

LEMMA ConstructedIs == RingInv /\ ~lapped => ConstructedFacts
<1> SUFFICES ASSUME RingInv, ~lapped PROVE ConstructedFacts
  OBVIOUS
<1>1. PICK u \in Nat : Ordered(u)
  BY DEF RingInv
<1>2. RingShape
  BY DEF RingInv
<1>3. /\ Cap \in Nat \ {0} /\ NoLock!Positions = 0..Cap /\ head_ \in 0..Cap
      /\ Taken \in Nat /\ Claims \in Nat
  BY <1>2, RingTypes
<1>4. local \in [NoLock!Threads -> 0..Cap] /\ seen \in [NoLock!Threads -> Nat]
  BY <1>2, <1>3 DEF RingShape, NoLock!TypeOK
<1>5. Taken <= u /\ Claims - Taken <= Cap
  BY <1>1, Zenon DEF Ordered, Placed
<1>6. ASSUME NEW p \in Producers, pc[p] = "construct"
      PROVE  /\ local[p] \in 0..Cap /\ seen[p] - Taken \in 0..Cap
             /\ local[p] = Spot(head_, seen[p] - Taken)
  <2>1. Claiming(p) /\ Producing(p, u)
    BY <1>1, <1>6 DEF Ordered, Claiming
  <2>2. u <= seen[p] /\ seen[p] < Claims /\ local[p] = Spot(head_, seen[p] - Taken)
    BY <2>1, Zenon DEF Producing
  <2>3. local[p] \in 0..Cap /\ seen[p] \in Nat
    BY <1>4 DEF NoLock!Threads
  <2> QED
    BY <1>3, <1>5, <2>2, <2>3
<1>7. ASSUME NEW p \in Producers, NEW q \in Producers,
             pc[p] = "construct", pc[q] = "construct", local[p] = local[q]
      PROVE  p = q
  <2>1. seen[p] - Taken = seen[q] - Taken
    <3>1. \A j, k \in 0..Cap : Spot(head_, j) = Spot(head_, k) => j = k
      BY <1>3, SpotFacts
    <3>2. /\ seen[p] - Taken \in 0..Cap /\ local[p] = Spot(head_, seen[p] - Taken)
          /\ seen[q] - Taken \in 0..Cap /\ local[q] = Spot(head_, seen[q] - Taken)
      BY <1>6, <1>7
    <3> QED
      BY <1>7, <3>1, <3>2, Zenon
  <2>2. seen[p] \in Nat /\ seen[q] \in Nat
    BY <1>4 DEF NoLock!Threads
  <2>3. seen[p] = seen[q]
    BY <1>3, <2>1, <2>2
  <2>4. Claiming(p) /\ Claiming(q) /\ Producing(p, u)
    BY <1>1, <1>7 DEF Ordered, Claiming
  <2> QED
    BY <2>3, <2>4, Zenon DEF Producing
<1>8. ASSUME NEW p \in Producers, pc[p] = "construct"
      PROVE  NoLock!Constructed[local[p]] = NoLock!Value(p)
  <2> DEFINE r == CHOOSE q \in Producers : pc[q] = "construct" /\ local[q] = local[p]
  <2>1. NoLock!Constructed[local[p]] = NoLock!Value(r)
    BY <1>3, <1>6, <1>8 DEF NoLock!Constructed
  <2>2. r \in Producers /\ pc[r] = "construct" /\ local[r] = local[p]
    BY <1>8, Zenon
  <2>3. r = p
    BY <1>7, <1>8, <2>2
  <2> QED
    BY <2>1, <2>3
<1>9. ASSUME NEW i \in 0..Cap, \A p \in Producers : ~Constructing(p, i)
      PROVE  NoLock!Constructed[i] = data_[i]
  BY <1>3, <1>9 DEF NoLock!Constructed, Constructing
<1>10. NoLock!Constructed = [i \in 0..Cap |-> NoLock!Constructed[i]]
  BY <1>3 DEF NoLock!Constructed
<1> QED
  BY <1>7, <1>8, <1>9, <1>10, Zenon DEF ConstructedFacts, Constructing

LEMMA ConstructedNext == RingInv' /\ ~lapped' => ConstructedFacts'
BY ConstructedIs, PTL

\* Positions that the step does not touch hold the same for the queue with a mutex.
LEMMA SameConstructed ==
  ASSUME ConstructedFacts, ConstructedFacts', NEW i \in 0..Cap, data_'[i] = data_[i],
         \A p \in Producers : Constructing(p, i)' <=> Constructing(p, i),
         \A p \in Producers : Constructing(p, i) => NoLock!Value(p)' = NoLock!Value(p)
  PROVE  NoLock!Constructed'[i] = NoLock!Constructed[i]
<1>1. CASE \E p \in Producers : Constructing(p, i)
  <2>1. PICK p \in Producers : Constructing(p, i)
    BY <1>1
  <2>2. NoLock!Constructed[i] = NoLock!Value(p)
    BY <2>1, Zenon DEF ConstructedFacts, Constructing
  <2>3. Constructing(p, i)'
    BY <2>1
  <2>4. NoLock!Constructed'[i] = NoLock!Value(p)'
    BY <2>3, Zenon DEF ConstructedFacts, Constructing
  <2> QED
    BY <2>1, <2>2, <2>4
<1>2. CASE \A p \in Producers : ~Constructing(p, i)
  <2>1. NoLock!Constructed[i] = data_[i]
    BY <1>2, Zenon DEF ConstructedFacts
  <2>2. \A p \in Producers : ~Constructing(p, i)'
    BY <1>2
  <2>3. NoLock!Constructed'[i] = data_'[i]
    BY <2>2, Zenon DEF ConstructedFacts
  <2> QED
    BY <2>1, <2>3
<1> QED
  BY <1>1, <1>2

\* The steps that the queue with a mutex does not notice.
LEMMA StutterConstructed ==
  ASSUME ConstructedFacts, ConstructedFacts', UNCHANGED data_,
         \A p \in Producers : (pc'[p] = "construct") <=> (pc[p] = "construct"),
         \A p \in Producers : pc[p] = "construct" => local'[p] = local[p] /\ emplaces'[p] = emplaces[p]
  PROVE  NoLock!Constructed' = NoLock!Constructed
<1>1. ASSUME NEW i \in 0..Cap PROVE NoLock!Constructed'[i] = NoLock!Constructed[i]
  <2>1. \A p \in Producers : Constructing(p, i)' <=> Constructing(p, i)
    BY DEF Constructing
  <2>2. \A p \in Producers : Constructing(p, i) => NoLock!Value(p)' = NoLock!Value(p)
    BY DEF Constructing, NoLock!Value
  <2>3. data_'[i] = data_[i]
    OBVIOUS
  <2> QED
    BY <2>1, <2>2, <2>3, SameConstructed
<1>2. /\ NoLock!Constructed = [i \in 0..Cap |-> NoLock!Constructed[i]]
      /\ NoLock!Constructed' = [i \in 0..Cap |-> NoLock!Constructed'[i]]
  BY Zenon DEF ConstructedFacts
<1> QED
  BY <1>1, <1>2, Zenon

\* emplace takes place when it claims its position, where its element is at once.
LEMMA ClaimConstructed ==
  ASSUME RingShape, ConstructedFacts, ConstructedFacts', NEW p \in Producers,
         NoLock!EmplaceClaim(p), tail_ = local[p]
  PROVE  NoLock!Constructed' = [NoLock!Constructed EXCEPT ![tail_] = NoLock!Value(p)]
<1>1. /\ UNCHANGED <<data_, local, emplaces>>
      /\ pc[p] = "claim" /\ pc' = [pc EXCEPT ![p] = "construct"]
  BY DEF NoLock!EmplaceClaim, NoLock!Goto
<1>2. /\ p \in NoLock!Threads /\ pc \in [NoLock!Threads -> NoLock!Pc]
      /\ Producers \subseteq NoLock!Threads /\ tail_ \in 0..Cap
  BY RingTypes, Zenon DEF RingShape, NoLock!TypeOK
<1>3. pc'[p] = "construct" /\ \A q \in Producers \ {p} : pc'[q] = pc[q]
  BY <1>1, <1>2
<1>4. NoLock!Constructed'[tail_] = NoLock!Value(p)
  <2>1. NoLock!Constructed'[local'[p]] = NoLock!Value(p)'
    BY <1>3, Zenon DEF ConstructedFacts
  <2>2. NoLock!Value(p)' = NoLock!Value(p)
    BY <1>1 DEF NoLock!Value
  <2> QED
    BY <1>1, <2>1, <2>2
<1>5. ASSUME NEW i \in 0..Cap, i # tail_ PROVE NoLock!Constructed'[i] = NoLock!Constructed[i]
  <2>1. ASSUME NEW q \in Producers PROVE Constructing(q, i)' <=> Constructing(q, i)
    <3>1. CASE q = p
      BY <1>1, <1>3, <1>5, <3>1 DEF Constructing
    <3>2. CASE q # p
      BY <1>1, <1>3, <3>2 DEF Constructing
    <3> QED
      BY <3>1, <3>2
  <2>2. \A q \in Producers : Constructing(q, i) => NoLock!Value(q)' = NoLock!Value(q)
    BY <1>1 DEF NoLock!Value
  <2>3. data_'[i] = data_[i]
    BY <1>1
  <2> QED
    BY <2>1, <2>2, <2>3, SameConstructed
<1>6. /\ NoLock!Constructed = [i \in 0..Cap |-> NoLock!Constructed[i]]
      /\ NoLock!Constructed' = [i \in 0..Cap |-> NoLock!Constructed'[i]]
  BY Zenon DEF ConstructedFacts
<1> HIDE DEF NoLock!Constructed
<1> DEFINE C == NoLock!Constructed
<1> DEFINE D == NoLock!Constructed'
<1>7. /\ C = [i \in 0..Cap |-> C[i]] /\ D = [i \in 0..Cap |-> D[i]]
      /\ D[tail_] = NoLock!Value(p) /\ \A i \in 0..Cap : i # tail_ => D[i] = C[i]
  BY <1>4, <1>5, <1>6
<1> HIDE DEF C, D
<1>8. D = [C EXCEPT ![tail_] = NoLock!Value(p)]
  BY <1>2, <1>7
<1> QED
  BY <1>8 DEF C, D

\* Constructing the element changes nothing that the queue with a mutex sees.
LEMMA ConstructConstructed ==
  ASSUME RingShape, ConstructedFacts, ConstructedFacts', NEW p \in Producers, NoLock!EmplaceConstruct(p)
  PROVE  NoLock!Constructed' = NoLock!Constructed
<1>1. /\ UNCHANGED <<local, emplaces>>
      /\ data_' = [data_ EXCEPT ![local[p]] = NoLock!Value(p)]
      /\ pc[p] = "construct" /\ pc' = [pc EXCEPT ![p] = "publish"]
  BY DEF NoLock!EmplaceConstruct, NoLock!Goto
<1>2. /\ p \in NoLock!Threads /\ pc \in [NoLock!Threads -> NoLock!Pc]
      /\ Producers \subseteq NoLock!Threads /\ local[p] \in 0..Cap
  BY RingTypes, Zenon DEF RingShape, NoLock!TypeOK
<1>3. NoLock!Positions = 0..Cap /\ data_ \in [NoLock!Positions -> NoLock!Values \cup {Garbage}]
  BY RingTypes, Zenon DEF RingShape, NoLock!TypeOK
<1>4. /\ data_'[local[p]] = NoLock!Value(p)
      /\ \A i \in 0..Cap : i # local[p] => data_'[i] = data_[i]
  BY <1>1, <1>2, <1>3
<1>5. pc'[p] = "publish" /\ \A q \in Producers \ {p} : pc'[q] = pc[q]
  BY <1>1, <1>2
<1>6. NoLock!Constructed'[local[p]] = NoLock!Constructed[local[p]]
  <2>1. NoLock!Constructed[local[p]] = NoLock!Value(p)
    BY <1>1, Zenon DEF ConstructedFacts
  <2>2. ASSUME NEW q \in Producers PROVE ~(pc'[q] = "construct" /\ local'[q] = local[p])
    <3>1. \A r \in Producers : Constructing(p, local[p]) /\ Constructing(r, local[p]) => p = r
      BY Zenon DEF ConstructedFacts
    <3> QED
      BY <1>1, <1>5, <3>1 DEF Constructing
  <2>3. PICK i \in 0..Cap : i = local[p]
    BY <1>2
  <2>4. \A q \in Producers : ~Constructing(q, i)'
    BY <2>2, <2>3, Zenon DEF Constructing
  <2>5. NoLock!Constructed'[i] = data_'[i]
    BY <2>4, Zenon DEF ConstructedFacts
  <2> QED
    BY <1>4, <2>1, <2>3, <2>5
<1>7. ASSUME NEW i \in 0..Cap, i # local[p] PROVE NoLock!Constructed'[i] = NoLock!Constructed[i]
  <2>1. ASSUME NEW q \in Producers PROVE Constructing(q, i)' <=> Constructing(q, i)
    <3>1. CASE q = p
      BY <1>1, <1>5, <1>7, <3>1 DEF Constructing
    <3>2. CASE q # p
      BY <1>1, <1>5, <3>2 DEF Constructing
    <3> QED
      BY <3>1, <3>2
  <2>2. \A q \in Producers : Constructing(q, i) => NoLock!Value(q)' = NoLock!Value(q)
    BY <1>1 DEF NoLock!Value
  <2>3. data_'[i] = data_[i]
    BY <1>4, <1>7
  <2> QED
    BY <2>1, <2>2, <2>3, SameConstructed
<1>8. /\ NoLock!Constructed = [i \in 0..Cap |-> NoLock!Constructed[i]]
      /\ NoLock!Constructed' = [i \in 0..Cap |-> NoLock!Constructed'[i]]
  BY Zenon DEF ConstructedFacts
<1>9. \A i \in 0..Cap : NoLock!Constructed'[i] = NoLock!Constructed[i]
  BY <1>6, <1>7, Zenon
<1> QED
  BY <1>8, <1>9, Zenon

\* Both queues go round the ring alike.
LEMMA SameFollowing == \A i : NoLock!Locked!Following(i) = NoLock!Following(i)
BY DEF NoLock!Locked!Following, NoLock!Locked!max_size_, NoLock!Following, NoLock!max_size_

LEMMA EmplaceRefines ==
  ASSUME RingInv, RingInv', ~lapped', NEW p \in Producers,
         \/ NoLock!EmplaceCall(p) \/ NoLock!EmplaceLoad(p) \/ NoLock!EmplaceCheckFull(p)
         \/ NoLock!EmplaceClaim(p) \/ NoLock!EmplaceConstruct(p) \/ NoLock!EmplacePublish(p)
  PROVE  NoLock!Locked!QueueNext \/ UNCHANGED NoLock!Locked!queueVars
<1>1. ~lapped /\ (NoLock!EmplaceClaim(p) /\ tail_ = local[p] => seen[p] = Claims)
  BY EmplaceLaps
<1>2. ConstructedFacts /\ ConstructedFacts' /\ RingShape
  BY <1>1, ConstructedIs, ConstructedNext DEF RingInv
<1>3. /\ p \in NoLock!Threads /\ Producers \subseteq NoLock!Threads
      /\ pc \in [NoLock!Threads -> NoLock!Pc] /\ local \in [NoLock!Threads -> NoLock!Positions]
      /\ emplaces \in [Producers -> 0..MaxEmplaces]
  BY <1>2, RingTypes, Zenon DEF RingShape, NoLock!TypeOK
<1>4. CASE NoLock!EmplaceClaim(p) /\ tail_ = local[p]
  <2>1. PICK u \in Nat : Ordered(u)
    BY <1>1 DEF RingInv
  <2>2. Producing(p, u) /\ Placed(u)
    BY <2>1 DEF Ordered
  <2>3. pc[p] = "claim" /\ tail_' = NoLock!Following(tail_) /\ UNCHANGED <<head_, popped>>
    BY <1>4 DEF NoLock!EmplaceClaim, NoLock!emplaceLeaves
  <2>4. Claims - Taken < Cap
    BY <1>1, <1>4, <2>2, <2>3, Zenon DEF Producing
  <2>5. tail_ = Spot(head_, Claims - Taken) /\ Taken <= u /\ u <= Claims
    BY <2>2, Zenon DEF Placed
  <2>6. NoLock!Following(tail_) # head_
    <3> DEFINE k == Claims - Taken
    <3>1. Cap \in Nat \ {0} /\ head_ \in 0..Cap /\ Taken \in Nat /\ Claims \in Nat
      BY <1>2, RingTypes
    <3>2. k \in 0..Cap - 1
      BY <2>4, <2>5, <3>1
    <3>3. tail_ = Spot(head_, k)
      BY <2>5
    <3> HIDE DEF k
    <3>4. NoLock!Following(tail_) = Spot(head_, k + 1)
      BY <3>1, <3>2, <3>3, SpotFacts
    <3>5. Spot(head_, k + 1) # Spot(head_, 0) /\ Spot(head_, 0) = head_
      <4>1. \A j, l \in 0..Cap : Spot(head_, j) = Spot(head_, l) => j = l
        BY <3>1, SpotFacts
      <4>2. k + 1 \in 0..Cap /\ 0 \in 0..Cap /\ k + 1 # 0
        BY <3>1, <3>2
      <4>3. Spot(head_, 0) = head_
        BY <3>1, SpotFacts
      <4> QED
        BY <4>1, <4>2, <4>3, Zenon
    <3> QED
      BY <3>4, <3>5
  <2>7. NoLock!Constructed' = [NoLock!Constructed EXCEPT ![tail_] = NoLock!Value(p)]
    BY <1>2, <1>4, ClaimConstructed
  <2>8. NoLock!Value(p) \in NoLock!Values
    <3>1. emplaces[p] >= 1
      BY <1>2, <2>3 DEF RingShape
    <3>2. emplaces[p] \in 1..MaxEmplaces
      BY <1>3, <1>2, <3>1 DEF RingShape, NoLock!RingAssumption
    <3> QED
      BY <3>2 DEF NoLock!Value, NoLock!Values
  <2>9. NoLock!Locked!Emplace(NoLock!Value(p))
    BY <2>3, <2>6, <2>7, SameFollowing, Zenon DEF NoLock!Locked!Emplace
  <2> QED
    BY <2>8, <2>9, Zenon DEF NoLock!Locked!QueueNext
<1>5. CASE NoLock!EmplaceConstruct(p)
  <2>1. UNCHANGED <<head_, tail_, popped>>
    BY <1>5 DEF NoLock!EmplaceConstruct, NoLock!emplaceLeaves
  <2>2. NoLock!Constructed' = NoLock!Constructed
    BY <1>2, <1>5, ConstructConstructed
  <2> QED
    BY <2>1, <2>2, Zenon DEF NoLock!Locked!queueVars
<1>6. CASE \/ NoLock!EmplaceCall(p) \/ NoLock!EmplaceLoad(p) \/ NoLock!EmplaceCheckFull(p)
           \/ NoLock!EmplacePublish(p)
           \/ NoLock!EmplaceClaim(p) /\ tail_ # local[p]
  <2>1. UNCHANGED <<head_, tail_, popped, data_>>
    BY <1>6 DEF NoLock!EmplaceCall, NoLock!EmplaceLoad, NoLock!EmplaceCheckFull, NoLock!EmplaceClaim,
                NoLock!EmplacePublish, NoLock!emplaceLeaves
  <2>2. /\ pc[p] # "construct"
        /\ \E l \in {"idle", "loading", "checkFull", "claim"} : pc' = [pc EXCEPT ![p] = l]
    BY <1>6 DEF NoLock!EmplaceCall, NoLock!EmplaceLoad, NoLock!EmplaceCheckFull, NoLock!EmplaceClaim,
                NoLock!EmplacePublish, NoLock!Goto
  <2>3. /\ local' = local \/ local' = [local EXCEPT ![p] = tail_]
        /\ emplaces' = emplaces \/ emplaces' = [emplaces EXCEPT ![p] = @ + 1]
    BY <1>6 DEF NoLock!EmplaceCall, NoLock!EmplaceLoad, NoLock!EmplaceCheckFull, NoLock!EmplaceClaim,
                NoLock!EmplacePublish
  <2>4. \A q \in Producers : (pc'[q] = "construct") <=> (pc[q] = "construct")
    BY <1>3, <2>2
  <2>5. \A q \in Producers \ {p} : local'[q] = local[q] /\ emplaces'[q] = emplaces[q]
    BY <1>3, <2>3
  <2>6. NoLock!Constructed' = NoLock!Constructed
    <3>1. \A q \in Producers : pc[q] = "construct" => local'[q] = local[q] /\ emplaces'[q] = emplaces[q]
      BY <2>2, <2>5
    <3> QED
      BY <1>2, <2>1, <2>4, <3>1, StutterConstructed
  <2> QED
    BY <2>1, <2>6, Zenon DEF NoLock!Locked!queueVars
<1> QED
  BY <1>4, <1>5, <1>6

LEMMA PopRefines ==
  ASSUME RingInv, RingInv', ~lapped', NEW c \in Consumers,
         \/ NoLock!PopCall(c) \/ NoLock!PopLoad(c) \/ NoLock!PopCheckEmpty(c)
         \/ NoLock!PopCheckPublished(c) \/ NoLock!PopCopy(c) \/ NoLock!PopLoadNext(c)
         \/ NoLock!PopExchange(c)
  PROVE  NoLock!Locked!QueueNext \/ UNCHANGED NoLock!Locked!queueVars
<1>1. ~lapped /\ (NoLock!PopExchange(c) /\ head_ = local[c] => seen[c] = Taken)
  BY PopLaps
<1>2. ConstructedFacts /\ ConstructedFacts' /\ RingShape
  BY <1>1, ConstructedIs, ConstructedNext DEF RingInv
<1>3. /\ c \in NoLock!Threads /\ Producers \subseteq NoLock!Threads /\ \A p \in Producers : p # c
      /\ pc \in [NoLock!Threads -> NoLock!Pc] /\ local \in [NoLock!Threads -> NoLock!Positions]
  BY <1>2, RingTypes, Zenon DEF RingShape, NoLock!TypeOK
<1>4. UNCHANGED <<tail_, data_, emplaces>>
  BY DEF NoLock!PopCall, NoLock!PopLoad, NoLock!PopCheckEmpty, NoLock!PopCheckPublished, NoLock!PopCopy,
         NoLock!PopLoadNext, NoLock!PopExchange, NoLock!popLeaves
<1>5. NoLock!Constructed' = NoLock!Constructed
  <2>1. \E l : pc' = [pc EXCEPT ![c] = l]
    BY DEF NoLock!PopCall, NoLock!PopLoad, NoLock!PopCheckEmpty, NoLock!PopCheckPublished, NoLock!PopCopy,
           NoLock!PopLoadNext, NoLock!PopExchange, NoLock!Goto
  <2>2. local' = local \/ local' = [local EXCEPT ![c] = head_]
    BY DEF NoLock!PopCall, NoLock!PopLoad, NoLock!PopCheckEmpty, NoLock!PopCheckPublished, NoLock!PopCopy,
           NoLock!PopLoadNext, NoLock!PopExchange
  <2>3. \A q \in Producers : pc'[q] = pc[q] /\ local'[q] = local[q]
    BY <1>3, <2>1, <2>2
  <2> QED
    BY <1>2, <1>4, <2>3, StutterConstructed
<1>6. CASE NoLock!PopExchange(c) /\ head_ = local[c]
  <2>1. PICK u \in Nat : Ordered(u)
    BY <1>1 DEF RingInv
  <2>2. /\ Taken < u /\ u <= Claims
        /\ head_' = NoLock!Following(head_) /\ data[c] = claimed[Taken + 1]
    BY <1>1, <1>2, <1>6, <2>1, ExchangeOrdered
  <2>3. popped' = Append(popped, data[c])
    BY <1>6 DEF NoLock!PopExchange
  <2>4. /\ Cap \in Nat \ {0} /\ head_ \in 0..Cap /\ Taken \in Nat /\ Claims \in Nat
        /\ \A t \in NoLock!Threads : seen[t] \in Nat
    BY <1>2, RingTypes
  <2>5. \A j, l \in 0..Cap : Spot(head_, j) = Spot(head_, l) => j = l
    BY <2>4, SpotFacts
  <2>6. Spot(head_, 0) = head_
    BY <2>4, SpotFacts
  <2>7. Placed(u)
    BY <2>1 DEF Ordered
  <2>8. head_ # tail_
    <3>1. tail_ = Spot(head_, Claims - Taken) /\ Claims - Taken <= Cap
      BY <2>7, Zenon DEF Placed
    <3>2. Claims - Taken \in 0..Cap /\ 0 \in 0..Cap /\ Claims - Taken # 0
      BY <2>2, <2>4, <3>1
    <3> QED
      BY <2>5, <2>6, <3>1, <3>2, Zenon
  <2>9. ASSUME NEW p \in Producers, pc[p] = "construct"
        PROVE  seen[p] # Taken /\ local[p] # head_
    <3>1. Producing(p, u) /\ Claiming(p)
      BY <2>1, <2>9 DEF Ordered, Claiming
    <3>2. u <= seen[p] /\ seen[p] < Claims /\ local[p] = Spot(head_, seen[p] - Taken)
      BY <3>1, Zenon DEF Producing
    <3>3. Claims - Taken <= Cap
      BY <2>7, Zenon DEF Placed
    <3>4. seen[p] \in Nat
      BY <1>3, <2>4
    <3>5. seen[p] - Taken \in 0..Cap /\ 0 \in 0..Cap /\ seen[p] - Taken # 0 /\ seen[p] # Taken
      BY <2>2, <2>4, <3>2, <3>3, <3>4
    <3> QED
      BY <2>5, <2>6, <3>2, <3>5, Zenon
  <2>10. data_[head_] = claimed[Taken + 1]
    <3>1. Taken \in Taken..Claims - 1 /\ Taken - Taken = 0
      BY <2>2, <2>4
    <3>2. data_[Spot(head_, Taken - Taken)] = claimed[Taken + 1]
      BY <2>7, <2>9, <3>1, Zenon DEF Placed
    <3> QED
      BY <2>6, <3>1, <3>2, Zenon
  <2>11. NoLock!Constructed[head_] = data_[head_]
    <3>1. \A p \in Producers : ~Constructing(p, head_)
      BY <2>9 DEF Constructing
    <3> QED
      BY <1>2, <2>4, <3>1, Zenon DEF ConstructedFacts
  <2>12. popped' = Append(popped, NoLock!Constructed[head_])
    BY <2>2, <2>3, <2>10, <2>11, Zenon
  <2>13. NoLock!Locked!Pop
    BY <1>4, <1>5, <2>2, <2>8, <2>12, SameFollowing, Zenon DEF NoLock!Locked!Pop
  <2> QED
    BY <2>13, Zenon DEF NoLock!Locked!QueueNext
<1>7. CASE ~(NoLock!PopExchange(c) /\ head_ = local[c])
  <2>1. UNCHANGED <<head_, popped>>
    BY <1>7 DEF NoLock!PopCall, NoLock!PopLoad, NoLock!PopCheckEmpty, NoLock!PopCheckPublished,
                NoLock!PopCopy, NoLock!PopLoadNext, NoLock!PopExchange
  <2> QED
    BY <1>4, <1>5, <2>1, Zenon DEF NoLock!Locked!queueVars
<1> QED
  BY <1>6, <1>7

(***************************************************************************)
(* Until a thread is lapped, SafeCircleQueNOLock implements                *)
(* SafeCircleQueue: an emplace takes place when its exchange of tail_      *)
(* succeeds, a pop when its exchange of head_ does, for any number of      *)
(* threads and any capacity.                                               *)
(***************************************************************************)
THEOREM RingImplementsLocked ==
  ASSUME NoLock!RingAssumption PROVE NoLock!Spec => NoLock!ImplementsLocked
<1>1. ASSUME NoLock!Init PROVE NoLock!Locked!QueueInit
  <2>1. \A p \in Producers : pc[p] # "construct"
    BY <1>1 DEF NoLock!Init, NoLock!Threads
  <2>2. NoLock!Constructed = [i \in NoLock!Positions |-> data_[i]]
    BY <2>1 DEF NoLock!Constructed
  <2>3. NoLock!Constructed = [i \in NoLock!Locked!Positions |-> Garbage]
    BY <1>1, <2>2 DEF NoLock!Init, NoLock!Positions, NoLock!Locked!Positions
  <2> QED
    BY <1>1, <2>3, Zenon DEF NoLock!Init, NoLock!Locked!QueueInit
<1>2. ASSUME RingInv, RingInv', [NoLock!Next]_(NoLock!vars)
      PROVE  [NoLock!Locked!QueueNext \/ lapped']_(NoLock!Locked!queueVars)
  <2>1. CASE lapped'
    BY <2>1
  <2>2. CASE ~lapped' /\ NoLock!Next
    BY <1>2, <2>2, EmplaceRefines, PopRefines, Zenon DEF NoLock!Next
  <2>3. CASE UNCHANGED NoLock!vars
    <3>1. UNCHANGED <<head_, tail_, popped, data_, pc, local, emplaces>>
      BY <2>3 DEF NoLock!vars
    <3>2. NoLock!Constructed' = NoLock!Constructed
      BY <3>1 DEF NoLock!Constructed, NoLock!Value, NoLock!Positions
    <3> QED
      BY <3>1, <3>2, Zenon DEF NoLock!Locked!queueVars
  <2> QED
    BY <1>2, <2>1, <2>2, <2>3, Zenon
<1> QED
  BY <1>1, <1>2, RingInductive, PTL DEF NoLock!Spec, NoLock!ImplementsLocked

-----------------------------------------------------------------------------
(***************************************************************************)
(* With one producer and one consumer nobody else moves the end that a     *)
(* thread has loaded, so no thread is ever lapped.                         *)
(***************************************************************************)
OneEach == (\A p, q \in Producers : p = q) /\ (\A c, d \in Consumers : c = d)

UpToDate ==
  /\ ~lapped
  /\ \A p \in Producers : pc[p] \in {"checkFull", "claim"} => seen[p] = Claims
  /\ \A c \in Consumers : pc[c] \notin {"idle", "loading"} => seen[c] = Taken

LEMMA EmplaceUpToDate ==
  ASSUME RingShape, OneEach, UpToDate, NEW p \in Producers,
         \/ NoLock!EmplaceCall(p) \/ NoLock!EmplaceLoad(p) \/ NoLock!EmplaceCheckFull(p)
         \/ NoLock!EmplaceClaim(p) \/ NoLock!EmplaceConstruct(p) \/ NoLock!EmplacePublish(p)
  PROVE  UpToDate'
<1>1. /\ p \in NoLock!Threads /\ Consumers \subseteq NoLock!Threads /\ p \notin Consumers
      /\ pc \in [NoLock!Threads -> NoLock!Pc] /\ seen \in [NoLock!Threads -> Nat]
  BY RingTypes, Zenon DEF RingShape, NoLock!TypeOK
<1>2. pc[p] \in {"checkFull", "claim"} => seen[p] = Len(claimed)
  BY Zenon DEF UpToDate, Claims
<1>3. Taken' = Taken
  BY DEF Taken, NoLock!EmplaceCall, NoLock!EmplaceLoad, NoLock!EmplaceCheckFull, NoLock!EmplaceClaim,
         NoLock!EmplaceConstruct, NoLock!EmplacePublish, NoLock!emplaceLeaves
<1>4. \E l : pc' = [pc EXCEPT ![p] = l]
  BY DEF NoLock!EmplaceCall, NoLock!EmplaceLoad, NoLock!EmplaceCheckFull, NoLock!EmplaceClaim,
         NoLock!EmplaceConstruct, NoLock!EmplacePublish, NoLock!Goto
<1>5. seen' = seen \/ seen' = [seen EXCEPT ![p] = Len(claimed)]
  BY DEF NoLock!EmplaceCall, NoLock!EmplaceLoad, NoLock!EmplaceCheckFull, NoLock!EmplaceClaim,
         NoLock!EmplaceConstruct, NoLock!EmplacePublish
<1>6. \A c \in Consumers : pc'[c] = pc[c] /\ seen'[c] = seen[c]
  BY <1>1, <1>4, <1>5
<1>7. \A c \in Consumers : pc'[c] \notin {"idle", "loading"} => seen'[c] = Taken'
  BY <1>3, <1>6 DEF UpToDate
<1>8. ~lapped'
  <2>1. CASE NoLock!EmplaceClaim(p)
    <3>1. lapped' = (lapped \/ seen[p] # Len(claimed)) \/ lapped' = lapped
      BY <2>1, Zenon DEF NoLock!EmplaceClaim
    <3>2. pc[p] = "claim"
      BY <2>1 DEF NoLock!EmplaceClaim
    <3>3. seen[p] = Len(claimed)
      BY <1>2, <3>2
    <3> QED
      BY <3>1, <3>3, Zenon DEF UpToDate
  <2>2. CASE ~NoLock!EmplaceClaim(p)
    <3>1. lapped' = lapped
      BY <2>2 DEF NoLock!EmplaceCall, NoLock!EmplaceLoad, NoLock!EmplaceCheckFull,
                  NoLock!EmplaceConstruct, NoLock!EmplacePublish
    <3> QED
      BY <3>1, Zenon DEF UpToDate
  <2> QED
    BY <2>1, <2>2
<1>9. pc'[p] \in {"checkFull", "claim"} => seen'[p] = Len(claimed')
  <2>1. CASE NoLock!EmplaceLoad(p)
    <3>1. claimed' = claimed /\ seen' = [seen EXCEPT ![p] = Len(claimed)]
      BY <2>1 DEF NoLock!EmplaceLoad
    <3> QED
      BY <1>1, <3>1
  <2>2. CASE NoLock!EmplaceCheckFull(p)
    BY <1>2, <2>2 DEF NoLock!EmplaceCheckFull
  <2>3. CASE ~NoLock!EmplaceLoad(p) /\ ~NoLock!EmplaceCheckFull(p)
    <3>1. \E l \in {"idle", "loading", "construct", "publish"} : pc' = [pc EXCEPT ![p] = l]
      BY <2>3 DEF NoLock!EmplaceCall, NoLock!EmplaceClaim, NoLock!EmplaceConstruct, NoLock!EmplacePublish,
                  NoLock!Goto
    <3> QED
      BY <1>1, <3>1
  <2> QED
    BY <2>1, <2>2, <2>3
<1>10. \A q \in Producers : q = p
  BY DEF OneEach
<1> QED
  BY <1>7, <1>8, <1>9, <1>10, Zenon DEF UpToDate, Claims

LEMMA PopUpToDate ==
  ASSUME RingShape, OneEach, UpToDate, NEW c \in Consumers,
         \/ NoLock!PopCall(c) \/ NoLock!PopLoad(c) \/ NoLock!PopCheckEmpty(c)
         \/ NoLock!PopCheckPublished(c) \/ NoLock!PopCopy(c) \/ NoLock!PopLoadNext(c)
         \/ NoLock!PopExchange(c)
  PROVE  UpToDate'
<1>1. /\ c \in NoLock!Threads /\ Producers \subseteq NoLock!Threads /\ \A p \in Producers : p # c
      /\ pc \in [NoLock!Threads -> NoLock!Pc] /\ seen \in [NoLock!Threads -> Nat]
  BY RingTypes, Zenon DEF RingShape, NoLock!TypeOK
<1>2. pc[c] \notin {"idle", "loading"} => seen[c] = Len(popped)
  BY Zenon DEF UpToDate, Taken
<1>3. Claims' = Claims
  BY DEF Claims, NoLock!PopCall, NoLock!PopLoad, NoLock!PopCheckEmpty, NoLock!PopCheckPublished,
         NoLock!PopCopy, NoLock!PopLoadNext, NoLock!PopExchange, NoLock!popLeaves
<1>4. \E l : pc' = [pc EXCEPT ![c] = l]
  BY DEF NoLock!PopCall, NoLock!PopLoad, NoLock!PopCheckEmpty, NoLock!PopCheckPublished, NoLock!PopCopy,
         NoLock!PopLoadNext, NoLock!PopExchange, NoLock!Goto
<1>5. seen' = seen \/ seen' = [seen EXCEPT ![c] = Len(popped)]
  BY DEF NoLock!PopCall, NoLock!PopLoad, NoLock!PopCheckEmpty, NoLock!PopCheckPublished, NoLock!PopCopy,
         NoLock!PopLoadNext, NoLock!PopExchange
<1>6. \A p \in Producers : pc'[p] = pc[p] /\ seen'[p] = seen[p]
  BY <1>1, <1>4, <1>5
<1>7. \A p \in Producers : pc'[p] \in {"checkFull", "claim"} => seen'[p] = Claims'
  BY <1>3, <1>6 DEF UpToDate
<1>8. ~lapped'
  <2>1. CASE NoLock!PopExchange(c)
    <3>1. lapped' = (lapped \/ seen[c] # Len(popped)) \/ lapped' = lapped
      BY <2>1, Zenon DEF NoLock!PopExchange
    <3>2. pc[c] = "exchange"
      BY <2>1 DEF NoLock!PopExchange
    <3>3. seen[c] = Len(popped)
      BY <1>2, <3>2
    <3> QED
      BY <3>1, <3>3, Zenon DEF UpToDate
  <2>2. CASE ~NoLock!PopExchange(c)
    <3>1. lapped' = lapped
      BY <2>2 DEF NoLock!PopCall, NoLock!PopLoad, NoLock!PopCheckEmpty, NoLock!PopCheckPublished,
                  NoLock!PopCopy, NoLock!PopLoadNext
    <3> QED
      BY <3>1, Zenon DEF UpToDate
  <2> QED
    BY <2>1, <2>2
<1>9. pc'[c] \notin {"idle", "loading"} => seen'[c] = Len(popped')
  <2>1. CASE NoLock!PopLoad(c)
    <3>1. popped' = popped /\ seen' = [seen EXCEPT ![c] = Len(popped)]
      BY <2>1 DEF NoLock!PopLoad
    <3> QED
      BY <1>1, <3>1
  <2>2. CASE \/ NoLock!PopCheckEmpty(c) \/ NoLock!PopCheckPublished(c) \/ NoLock!PopCopy(c)
             \/ NoLock!PopLoadNext(c)
    BY <1>2, <2>2 DEF NoLock!PopCheckEmpty, NoLock!PopCheckPublished, NoLock!PopCopy, NoLock!PopLoadNext
  <2>3. CASE NoLock!PopCall(c) \/ NoLock!PopExchange(c)
    <3>1. \E l \in {"idle", "loading"} : pc' = [pc EXCEPT ![c] = l]
      BY <2>3 DEF NoLock!PopCall, NoLock!PopExchange, NoLock!Goto
    <3> QED
      BY <1>1, <3>1
  <2> QED
    BY <2>1, <2>2, <2>3
<1>10. \A d \in Consumers : d = c
  BY DEF OneEach
<1> QED
  BY <1>7, <1>8, <1>9, <1>10, Zenon DEF UpToDate, Taken

(***************************************************************************)
(* With one producer and one consumer, SafeCircleQueNOLock implements the  *)
(* queue with a mutex without reservation, for any capacity.               *)
(***************************************************************************)
THEOREM RingOneToOne ==
  ASSUME NoLock!RingAssumption, OneEach PROVE NoLock!Spec => NoLock!Locked!QueueSpec
<1>1. NoLock!Init => UpToDate
  BY DEF NoLock!Init, UpToDate, NoLock!Threads
<1>2. RingInv /\ UpToDate /\ [NoLock!Next]_(NoLock!vars) => UpToDate'
  <2> SUFFICES ASSUME RingInv, UpToDate, [NoLock!Next]_(NoLock!vars) PROVE UpToDate'
    OBVIOUS
  <2>1. RingShape
    BY DEF RingInv
  <2>2. CASE NoLock!Next
    BY <2>1, <2>2, EmplaceUpToDate, PopUpToDate, Zenon DEF NoLock!Next
  <2>3. CASE UNCHANGED NoLock!vars
    BY <2>3, Zenon DEF NoLock!vars, UpToDate, Claims, Taken
  <2> QED
    BY <2>2, <2>3
<1>3. NoLock!Spec => []UpToDate
  BY <1>1, <1>2, RingInductive, PTL DEF NoLock!Spec
<1>4. UpToDate => ~lapped
  BY DEF UpToDate
<1>5. ASSUME ~lapped', [NoLock!Locked!QueueNext \/ lapped']_(NoLock!Locked!queueVars)
      PROVE  [NoLock!Locked!QueueNext]_(NoLock!Locked!queueVars)
  BY <1>5
<1> QED
  BY <1>3, <1>4, <1>5, RingImplementsLocked, PTL DEF NoLock!ImplementsLocked, NoLock!Locked!QueueSpec
=============================================================================
