-------------------------- MODULE ThreadPool_proof --------------------------
(***************************************************************************)
(* Proofs about ThreadPool, for any finite number of workers and of        *)
(* clients and any number of commits.                                      *)
(***************************************************************************)
EXTENDS ThreadPool, SequenceLemmas, SequenceTheorems, FiniteSetTheorems, TLAPS

Locking   == {w \in Workers : worker[w] = "locking"}
Notifying == {c \in Clients : client[c] = "notifying"}
Free      == {w \in Workers : worker[w] # "running"}

(***************************************************************************)
(* The types, thread_num_ left open: its range follows from what it        *)
(* counts.  A client inside commit has counted the call.                   *)
(***************************************************************************)
Shape ==
  /\ tasks_ \in Seq(Tasks) /\ accepted \in Seq(Tasks) /\ taken \in Seq(Tasks)
  /\ stop_ \in BOOLEAN
  /\ cv_mt_ \in Workers \cup {NoThread}
  /\ worker \in [Workers -> WorkerPc]
  /\ client \in [Clients -> ClientPc]
  /\ stopPc \in StopPc
  /\ commits \in [Clients -> 0..MaxCommits]
  /\ overlooked \subseteq Workers
  /\ \A c \in Clients : client[c] # "idle" => commits[c] >= 1

\* thread_num_ is the number of workers that run no task.
FreeCounted == thread_num_ = Cardinality(Free)

\* A worker between the wait predicate and the sleep holds cv_mt_, and the
\* queue it found empty is still empty.
Asleeping == \A w \in Workers : worker[w] = "blocking" => cv_mt_ = w /\ tasks_ = << >>

\* What stop() leaves asleep: the strengthening of StopStrands.
Stranded ==
  /\ stopPc # "idle" => stop_
  /\ stopPc \in {"joining", "done"} =>
       \A w \in Workers : worker[w] \in {"blocking", "waiting"} => w \in overlooked

(***************************************************************************)
(* notify_all in stop() reaches every worker but those that had found      *)
(* stop_ unset and were not yet asleep: nobody else sleeps afterwards, or  *)
(* falls asleep later.                                                     *)
(***************************************************************************)
StopStrands == stopPc \in {"joining", "done"} => Waiting \subseteq overlooked

-----------------------------------------------------------------------------
\* No step leaves the types, and commit numbers its tasks from 1.
LEMMA ShapeStep ==
  ASSUME Shape, [Next]_vars
  PROVE  Shape'
<1> USE PoolAssumption DEF Shape, WorkerPc, ClientPc, StopPc
<1>1. ASSUME NEW c \in Clients, CommitCall(c) PROVE Shape'
  BY <1>1 DEF CommitCall
<1>2. ASSUME NEW c \in Clients, CommitPush(c) PROVE Shape'
  <2>1. Task(c) \in Tasks
    BY <1>2 DEF CommitPush, Task, Tasks
  <2> QED
    BY <1>2, <2>1 DEF CommitPush
<1>3. ASSUME NEW c \in Clients, CommitNotify(c) PROVE Shape'
  BY <1>3 DEF CommitNotify, Waiting
<1>4. ASSUME NEW w \in Workers, WorkerCheck(w) PROVE Shape'
  BY <1>4 DEF WorkerCheck
<1>5. ASSUME NEW w \in Workers, WorkerLock(w) PROVE Shape'
  <2>1. CASE Take(w)
    BY <1>5, <2>1 DEF WorkerLock, Take
  <2>2. CASE Leave(w)
    BY <1>5, <2>2 DEF WorkerLock, Leave
  <2>3. CASE MustWait(w)
    BY <1>5, <2>3 DEF WorkerLock, MustWait
  <2> QED
    BY <1>5, <2>1, <2>2, <2>3 DEF WorkerLock
<1>6. ASSUME NEW w \in Workers, Block(w) \/ SpuriousWakeup(w) PROVE Shape'
  BY <1>6 DEF Block, SpuriousWakeup
<1>7. ASSUME NEW w \in Workers, RunTask(w) \/ TaskDone(w) PROVE Shape'
  BY <1>7 DEF RunTask, TaskDone
<1>8. CASE StopSet \/ StopJoined
  BY <1>8 DEF StopSet, StopJoined
<1>9. CASE StopNotify
  BY <1>9 DEF StopNotify, Waiting
<1>10. CASE UNCHANGED vars
  BY <1>10 DEF vars
<1> QED
  BY <1>1, <1>2, <1>3, <1>4, <1>5, <1>6, <1>7, <1>8, <1>9, <1>10 DEF Next

-----------------------------------------------------------------------------
(* thread_num_ *)

\* The workers that run no task can be counted.
LEMMA FreeFinite ==
  /\ IsFiniteSet(Free) /\ Cardinality(Free) \in 0..Cardinality(Workers)
  /\ IsFiniteSet(Free') /\ Cardinality(Free') \in 0..Cardinality(Workers)
<1>1. Free \subseteq Workers /\ Free' \subseteq Workers
  BY DEF Free
<1> QED
  BY <1>1, PoolAssumption, FS_Subset, FS_CardinalityType

\* A worker counts itself out before its task and in again after it.
LEMMA FreeStep ==
  ASSUME Shape, FreeCounted, [Next]_vars
  PROVE  FreeCounted'
<1> USE DEF Shape, FreeCounted
<1>1. ASSUME NEW w \in Workers, RunTask(w) PROVE FreeCounted'
  <2>1. w \in Free /\ Free' = Free \ {w}
    BY <1>1 DEF RunTask, Free
  <2>2. Cardinality(Free') = Cardinality(Free) - 1
    BY <2>1, FreeFinite, FS_RemoveElement
  <2> QED
    BY <1>1, <2>2 DEF RunTask
<1>2. ASSUME NEW w \in Workers, TaskDone(w) PROVE FreeCounted'
  <2>1. w \notin Free /\ Free' = Free \cup {w}
    BY <1>2 DEF TaskDone, Free
  <2>2. Cardinality(Free') = Cardinality(Free) + 1
    BY <2>1, FreeFinite, FS_AddElement
  <2> QED
    BY <1>2, <2>2 DEF TaskDone
<1>3. ASSUME thread_num_' = thread_num_, Free' = Free PROVE FreeCounted'
  BY <1>3
<1>4. ASSUME NEW c \in Clients, CommitCall(c) \/ CommitPush(c) \/ CommitNotify(c)
      PROVE  FreeCounted'
  BY <1>3, <1>4 DEF CommitCall, CommitPush, CommitNotify, Waiting, Free
<1>5. ASSUME NEW w \in Workers,
             WorkerCheck(w) \/ WorkerLock(w) \/ Block(w) \/ SpuriousWakeup(w)
      PROVE  FreeCounted'
  BY <1>3, <1>5
     DEF WorkerCheck, WorkerLock, Take, Leave, MustWait, Block, SpuriousWakeup, Free
<1>6. CASE StopSet \/ StopNotify \/ StopJoined \/ UNCHANGED vars
  BY <1>3, <1>6 DEF StopSet, StopNotify, StopJoined, vars, Waiting, Free
<1> QED
  BY <1>1, <1>2, <1>4, <1>5, <1>6 DEF Next

\* Both together are inductive.
LEMMA ShapeHolds == Spec => [](Shape /\ FreeCounted)
<1>1. Init => Shape /\ FreeCounted
  <2> SUFFICES ASSUME Init PROVE Shape /\ FreeCounted
    OBVIOUS
  <2>1. /\ << >> \in Seq(Tasks)
        /\ commits \in [Clients -> 0..MaxCommits]
    BY PoolAssumption DEF Init
  <2>2. Shape
    BY <2>1 DEF Init, Shape, WorkerPc, ClientPc, StopPc
  <2>3. Free = Workers
    BY DEF Init, Free
  <2> QED
    BY <2>2, <2>3 DEF Init, FreeCounted
<1>2. Shape /\ FreeCounted /\ [Next]_vars => (Shape /\ FreeCounted)'
  BY ShapeStep, FreeStep
<1> QED
  BY <1>1, <1>2, PTL DEF Spec

(***************************************************************************)
(* The variables of the pool keep their types, and thread_num_, which two  *)
(* separate atomic updates move, stays between 0 and the number of         *)
(* workers.                                                                *)
(***************************************************************************)
THEOREM TypeCorrect == Spec => []TypeOK
<1>1. Shape /\ FreeCounted => TypeOK
  BY FreeFinite DEF Shape, FreeCounted, TypeOK
<1> QED
  BY <1>1, ShapeHolds, PTL

-----------------------------------------------------------------------------
(* the order of the tasks *)

\* commit extends what was accepted at the back, a worker moves the front task.
LEMMA OrderStep ==
  ASSUME Shape, TakenInOrder, [Next]_vars
  PROVE  TakenInOrder'
<1>0. /\ tasks_ \in Seq(Tasks) /\ taken \in Seq(Tasks)
      /\ accepted = taken \o tasks_
  BY DEF Shape, TakenInOrder
<1>1. ASSUME NEW c \in Clients, CommitPush(c) PROVE TakenInOrder'
  <2>1. Task(c) \in Tasks
    BY <1>1, PoolAssumption DEF CommitPush, Task, Tasks, Shape, ClientPc
  <2>2. taken \o Append(tasks_, Task(c)) = Append(taken \o tasks_, Task(c))
    BY <1>0, <2>1, AppendConcat
  <2> QED
    BY <1>0, <1>1, <2>2 DEF CommitPush, TakenInOrder
<1>2. ASSUME NEW w \in Workers, WorkerLock(w), Take(w) PROVE TakenInOrder'
  <2>1. Append(taken, Head(tasks_)) \o Tail(tasks_) = taken \o tasks_
    BY <1>0, <1>2, HeadMoves DEF Take
  <2> QED
    BY <1>0, <1>2, <2>1 DEF WorkerLock, Take, TakenInOrder
<1>3. ASSUME accepted' = accepted, taken' = taken, tasks_' = tasks_ PROVE TakenInOrder'
  BY <1>3, <1>0 DEF TakenInOrder
<1>4. ASSUME NEW c \in Clients, CommitCall(c) \/ CommitNotify(c) PROVE TakenInOrder'
  BY <1>3, <1>4 DEF CommitCall, CommitNotify
<1>5. ASSUME NEW w \in Workers,
             \/ WorkerCheck(w) \/ WorkerLock(w) \/ Block(w) \/ SpuriousWakeup(w)
             \/ RunTask(w) \/ TaskDone(w)
      PROVE  TakenInOrder'
  BY <1>2, <1>3, <1>5
     DEF WorkerCheck, WorkerLock, Leave, MustWait, Block, SpuriousWakeup, RunTask, TaskDone
<1>6. CASE StopSet \/ StopNotify \/ StopJoined \/ UNCHANGED vars
  BY <1>3, <1>6 DEF StopSet, StopNotify, StopJoined, vars
<1> QED
  BY <1>1, <1>4, <1>5, <1>6 DEF Next

(***************************************************************************)
(* Every task that commit put in the queue is taken by exactly one worker, *)
(* in the order of the commits, or is still queued.                        *)
(***************************************************************************)
THEOREM TakenInOrderHolds == Spec => []TakenInOrder
<1>1. Init => TakenInOrder
  BY ConcatEmptySeq DEF Init, TakenInOrder
<1>2. Shape /\ TakenInOrder /\ [Next]_vars => TakenInOrder'
  BY OrderStep
<1> QED
  BY <1>1, <1>2, ShapeHolds, PTL DEF Spec

-----------------------------------------------------------------------------
(* the mutex and the wakeups *)

\* Nobody else enters while a worker is between its predicate and its sleep.
LEMMA AsleepingStep ==
  ASSUME Shape, Asleeping, [Next]_vars
  PROVE  Asleeping'
<1>0. NoThread \notin Workers /\ worker \in [Workers -> WorkerPc]
  BY PoolAssumption DEF Shape
<1>1. ASSUME NEW c \in Clients, CommitCall(c) PROVE Asleeping'
  BY <1>0, <1>1 DEF Asleeping, CommitCall
<1>2. ASSUME NEW c \in Clients, CommitPush(c) PROVE Asleeping'
  BY <1>0, <1>2 DEF Asleeping, CommitPush
<1>3. ASSUME NEW c \in Clients, CommitNotify(c) PROVE Asleeping'
  BY <1>0, <1>3 DEF Asleeping, CommitNotify, Waiting
<1>4. ASSUME NEW w \in Workers, WorkerCheck(w) \/ SpuriousWakeup(w) PROVE Asleeping'
  BY <1>0, <1>4 DEF Asleeping, WorkerCheck, SpuriousWakeup
<1>5. ASSUME NEW w \in Workers, WorkerLock(w) PROVE Asleeping'
  BY <1>0, <1>5 DEF Asleeping, WorkerLock, Take, Leave, MustWait
<1>6. ASSUME NEW w \in Workers, Block(w) PROVE Asleeping'
  BY <1>0, <1>6 DEF Asleeping, Block
<1>7. ASSUME NEW w \in Workers, RunTask(w) \/ TaskDone(w) PROVE Asleeping'
  BY <1>0, <1>7 DEF Asleeping, RunTask, TaskDone
<1>8. CASE StopSet \/ StopNotify \/ StopJoined \/ UNCHANGED vars
  BY <1>0, <1>8 DEF Asleeping, StopSet, StopNotify, StopJoined, vars, Waiting
<1> QED
  BY <1>1, <1>2, <1>3, <1>4, <1>5, <1>6, <1>7, <1>8 DEF Next

\* Those on their way to the mutex and those that have to notify can be counted.
LEMMA WakersFinite ==
  /\ IsFiniteSet(Locking) /\ Cardinality(Locking) \in Nat
  /\ IsFiniteSet(Locking') /\ Cardinality(Locking') \in Nat
  /\ IsFiniteSet(Notifying) /\ Cardinality(Notifying) \in Nat
  /\ IsFiniteSet(Notifying') /\ Cardinality(Notifying') \in Nat
<1>1. /\ Locking \subseteq Workers /\ Locking' \subseteq Workers
      /\ Notifying \subseteq Clients /\ Notifying' \subseteq Clients
  BY DEF Locking, Notifying
<1> QED
  BY <1>1, PoolAssumption, FS_Subset, FS_CardinalityType

\* WakeupsSuffice in these terms.
LEMMA WakeupsSufficeDef ==
  /\ WakeupsSuffice <=>
       (Waiting # {} => Len(tasks_) <= Cardinality(Locking) + Cardinality(Notifying))
  /\ WakeupsSuffice' <=>
       (Waiting' # {} => Len(tasks_') <= Cardinality(Locking') + Cardinality(Notifying'))
BY DEF WakeupsSuffice, Locking, Notifying

\* A step that adds no task, puts nobody to sleep and keeps the wakers.
LEMMA WakersKept ==
  ASSUME Shape, WakeupsSuffice, tasks_' = tasks_, Waiting' \subseteq Waiting,
         Locking \subseteq Locking', Notifying \subseteq Notifying'
  PROVE  WakeupsSuffice'
<1>1. /\ Cardinality(Locking) <= Cardinality(Locking')
      /\ Cardinality(Notifying) <= Cardinality(Notifying')
  BY WakersFinite, FS_Subset
<1>2. Len(tasks_) \in Nat
  BY LenProperties DEF Shape
<1> QED
  BY <1>1, <1>2, WakersFinite, WakeupsSufficeDef

(***************************************************************************)
(* A commit brings a task and a notification, the notification a worker    *)
(* that runs for the mutex, and that worker takes a task.                  *)
(***************************************************************************)
LEMMA WakeupStep ==
  ASSUME Shape, Shape', Asleeping, WakeupsSuffice, [Next]_vars
  PROVE  WakeupsSuffice'
<1>0. /\ Len(tasks_) \in Nat /\ Len(tasks_') \in Nat
      /\ tasks_ \in Seq(Tasks)
      /\ worker \in [Workers -> WorkerPc]
      /\ client \in [Clients -> ClientPc]
  BY LenProperties DEF Shape
<1>1. ASSUME NEW c \in Clients, CommitPush(c) PROVE WakeupsSuffice'
  <2>1. Len(tasks_') = Len(tasks_) + 1
    BY <1>0, <1>1 DEF CommitPush
  <2>2. c \notin Notifying /\ Notifying' = Notifying \cup {c}
    BY <1>0, <1>1 DEF CommitPush, Notifying
  <2>3. Locking' = Locking /\ Waiting' = Waiting
    BY <1>1 DEF CommitPush, Locking, Waiting
  <2>4. Cardinality(Notifying') = Cardinality(Notifying) + 1
    BY <2>2, WakersFinite, FS_AddElement
  <2> QED
    BY <1>0, <2>1, <2>3, <2>4, WakersFinite, WakeupsSufficeDef
<1>2. ASSUME NEW c \in Clients, CommitNotify(c) PROVE WakeupsSuffice'
  <2>1. CASE Waiting = {} /\ UNCHANGED worker
    <3>1. Waiting' = {}
      BY <2>1 DEF Waiting
    <3> QED
      BY <3>1, WakeupsSufficeDef
  <2>2. ASSUME NEW w \in Waiting, worker' = [worker EXCEPT ![w] = "locking"]
        PROVE  WakeupsSuffice'
    <3>1. c \in Notifying /\ Notifying' = Notifying \ {c} /\ tasks_' = tasks_
      BY <1>0, <1>2 DEF CommitNotify, Notifying
    <3>2. w \notin Locking /\ Locking' = Locking \cup {w}
      BY <1>0, <2>2 DEF Waiting, Locking
    <3>3. Cardinality(Notifying') = Cardinality(Notifying) - 1
      BY <3>1, WakersFinite, FS_RemoveElement
    <3>4. Cardinality(Locking') = Cardinality(Locking) + 1
      BY <3>2, WakersFinite, FS_AddElement
    <3> QED
      BY <1>0, <2>2, <3>1, <3>3, <3>4, WakersFinite, WakeupsSufficeDef
  <2> QED
    BY <1>2, <2>1, <2>2 DEF CommitNotify
<1>3. ASSUME NEW w \in Workers, WorkerLock(w), Take(w) PROVE WakeupsSuffice'
  <2>1. Len(tasks_') = Len(tasks_) - 1
    BY <1>0, <1>3, HeadTailProperties DEF Take
  <2>2. /\ w \in Locking /\ Locking' = Locking \ {w}
        /\ Waiting' = Waiting /\ Notifying' = Notifying
    BY <1>0, <1>3 DEF WorkerLock, Take, Locking, Waiting, Notifying
  <2>3. Cardinality(Locking') = Cardinality(Locking) - 1
    BY <2>2, WakersFinite, FS_RemoveElement
  <2> QED
    BY <1>0, <2>1, <2>2, <2>3, WakersFinite, WakeupsSufficeDef
<1>4. ASSUME tasks_' = << >> PROVE WakeupsSuffice'
  BY <1>4, WakersFinite, WakeupsSufficeDef
<1>5. ASSUME NEW w \in Workers, WorkerLock(w), Leave(w) \/ MustWait(w) PROVE WakeupsSuffice'
  BY <1>4, <1>5 DEF Leave, MustWait
<1>6. ASSUME NEW w \in Workers, Block(w) PROVE WakeupsSuffice'
  BY <1>4, <1>6 DEF Block, Asleeping
<1>7. ASSUME NEW c \in Clients, CommitCall(c) PROVE WakeupsSuffice'
  <2>1. tasks_' = tasks_ /\ worker' = worker /\ Notifying' = Notifying
    BY <1>0, <1>7 DEF CommitCall, Notifying
  <2> QED
    BY <2>1, WakersKept DEF Waiting, Locking
<1>8. ASSUME NEW w \in Workers,
             WorkerCheck(w) \/ SpuriousWakeup(w) \/ RunTask(w) \/ TaskDone(w)
      PROVE  WakeupsSuffice'
  <2>1. /\ tasks_' = tasks_ /\ Notifying' = Notifying
        /\ Waiting' \subseteq Waiting /\ Locking \subseteq Locking'
    BY <1>0, <1>8
       DEF WorkerCheck, SpuriousWakeup, RunTask, TaskDone, Notifying, Waiting, Locking
  <2> QED
    BY <2>1, WakersKept
<1>9. CASE StopNotify
  <2>1. Waiting' = {}
    BY <1>0, <1>9 DEF StopNotify, Waiting
  <2> QED
    BY <2>1, WakeupsSufficeDef
<1>10. CASE StopSet \/ StopJoined \/ UNCHANGED vars
  <2>1. tasks_' = tasks_ /\ worker' = worker /\ client' = client
    BY <1>10 DEF StopSet, StopJoined, vars
  <2> QED
    BY <2>1, WakersKept DEF Waiting, Locking, Notifying
<1>11. ASSUME NEW w \in Workers, WorkerLock(w) PROVE WakeupsSuffice'
  BY <1>3, <1>5, <1>11 DEF WorkerLock
<1> QED
  BY <1>1, <1>2, <1>6, <1>7, <1>8, <1>9, <1>10, <1>11 DEF Next

(***************************************************************************)
(* notify_one outside the lock is enough: as long as a worker sleeps,      *)
(* there is for every queued task a worker on its way to the mutex or a    *)
(* commit that has still to notify.                                        *)
(***************************************************************************)
THEOREM WakeupsSufficeHolds == Spec => []WakeupsSuffice
<1>1. Init => Asleeping /\ WakeupsSuffice
  BY DEF Init, Asleeping, WakeupsSuffice, Waiting
<1>2. Shape /\ Shape' /\ Asleeping /\ WakeupsSuffice /\ [Next]_vars
        => Asleeping' /\ WakeupsSuffice'
  BY AsleepingStep, WakeupStep
<1> QED
  BY <1>1, <1>2, ShapeHolds, PTL DEF Spec

-----------------------------------------------------------------------------
(* stop() *)

\* Once stop_ is set no worker starts to wait, and notify_all wakes the sleepers.
LEMMA StrandedStep ==
  ASSUME Shape, Stranded, [Next]_vars
  PROVE  Stranded'
<1>0. worker \in [Workers -> WorkerPc] /\ stopPc \in StopPc
  BY DEF Shape
<1>1. ASSUME NEW c \in Clients, CommitCall(c) \/ CommitPush(c) PROVE Stranded'
  BY <1>1, Zenon DEF CommitCall, CommitPush, Stranded
<1>2. ASSUME NEW c \in Clients, CommitNotify(c) PROVE Stranded'
  BY <1>0, <1>2 DEF CommitNotify, Stranded, Waiting
<1>3. ASSUME NEW w \in Workers,
             WorkerCheck(w) \/ Block(w) \/ SpuriousWakeup(w) \/ RunTask(w) \/ TaskDone(w)
      PROVE  Stranded'
  BY <1>0, <1>3 DEF WorkerCheck, Block, SpuriousWakeup, RunTask, TaskDone, Stranded
<1>4. ASSUME NEW w \in Workers, WorkerLock(w) PROVE Stranded'
  BY <1>0, <1>4 DEF WorkerLock, Take, Leave, MustWait, Stranded, StopPc
<1>5. CASE StopSet
  BY <1>5 DEF StopSet, Stranded
<1>6. CASE StopNotify
  BY <1>0, <1>6 DEF StopNotify, Stranded, Waiting
<1>7. CASE StopJoined \/ UNCHANGED vars
  BY <1>7 DEF StopJoined, vars, Stranded
<1> QED
  BY <1>1, <1>2, <1>3, <1>4, <1>5, <1>6, <1>7 DEF Next

(***************************************************************************)
(* After notify_all in stop() a worker sleeps only if it had found stop_   *)
(* unset and was not yet asleep when it was called: for all others stop()  *)
(* loses no wakeup, although it never takes cv_mt_.                        *)
(***************************************************************************)
THEOREM StopStrandsHolds == Spec => []StopStrands
<1>1. Init => Stranded
  BY DEF Init, Stranded
<1>2. Shape /\ Stranded /\ [Next]_vars => Stranded'
  BY StrandedStep
<1>3. Stranded => StopStrands
  BY DEF Stranded, StopStrands, Waiting
<1> QED
  BY <1>1, <1>2, <1>3, ShapeHolds, PTL DEF Spec
=============================================================================
