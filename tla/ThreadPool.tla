----------------------------- MODULE ThreadPool -----------------------------
(***************************************************************************)
(* ThreadPool (include/ThreadPool.hpp): worker threads that take tasks     *)
(* from a queue.  commit reads stop_ before it takes cv_mt_ and notifies   *)
(* after it has freed it; stop() never takes it.  A call is split wherever *)
(* another thread can fall between two of its statements; a thread that    *)
(* holds cv_mt_ is split only where stop() matters, between the wait       *)
(* predicate and the sleep.                                                *)
(***************************************************************************)
EXTENDS Integers, Sequences, FiniteSets

CONSTANTS
  Workers,      \* the threads of threads_, hardware_concurrency() of them
  Clients,      \* threads that call commit
  MaxCommits,   \* bound: calls of commit per client
  NoThread      \* cv_mt_ is free

ASSUME PoolAssumption ==
  /\ Workers \cap Clients = {}
  /\ NoThread \notin Workers
  /\ IsFiniteSet(Workers) /\ IsFiniteSet(Clients)
  /\ MaxCommits \in Nat

VARIABLES
  tasks_,        \* std::queue<Task> tasks_
  stop_,         \* std::atomic_bool stop_
  thread_num_,   \* std::atomic_int thread_num_: workers that run no task
  cv_mt_,        \* the worker that holds cv_mt_ between two steps, or NoThread
  worker,        \* where each worker is in its loop
  client,        \* where each client is in commit
  stopPc,        \* where the thread that destroys the pool is in stop()
  commits,       \* how often each client has called commit
  accepted,      \* history: the tasks put in the queue, in order
  taken,         \* history: the tasks taken out of it, in order
  overlooked     \* history: workers between predicate and sleep at notify_all

vars == <<tasks_, stop_, thread_num_, cv_mt_, worker, client, stopPc, commits,
          accepted, taken, overlooked>>

WorkerPc == {"checking", "locking", "blocking", "waiting", "taken", "running", "done"}
ClientPc == {"idle", "locking", "notifying"}
StopPc   == {"idle", "notify", "joining", "done"}

Tasks   == Clients \X (1..MaxCommits)
Task(c) == <<c, commits[c]>>

Waiting == {w \in Workers : worker[w] = "waiting"}

Init ==
  /\ tasks_ = << >>
  /\ stop_ = FALSE
  /\ thread_num_ = Cardinality(Workers)
  /\ cv_mt_ = NoThread
  /\ worker = [w \in Workers |-> "checking"]
  /\ client = [c \in Clients |-> "idle"]
  /\ stopPc = "idle"
  /\ commits = [c \in Clients |-> 0]
  /\ accepted = << >>
  /\ taken = << >>
  /\ overlooked = {}

-----------------------------------------------------------------------------
(* commit *)

\* `if(stop_.load())`: a stopped pool hands out an empty future and takes no task.
CommitCall(c) ==
  /\ client[c] = "idle"
  /\ commits[c] < MaxCommits
  /\ commits' = [commits EXCEPT ![c] = @ + 1]
  /\ client' = IF stop_ THEN client ELSE [client EXCEPT ![c] = "locking"]
  /\ UNCHANGED <<tasks_, stop_, thread_num_, cv_mt_, worker, stopPc, accepted, taken,
                 overlooked>>

CommitPush(c) ==
  /\ client[c] = "locking"
  /\ cv_mt_ = NoThread
  /\ tasks_' = Append(tasks_, Task(c))
  /\ accepted' = Append(accepted, Task(c))
  /\ client' = [client EXCEPT ![c] = "notifying"]
  /\ UNCHANGED <<stop_, thread_num_, cv_mt_, worker, stopPc, commits, taken, overlooked>>

\* mutant: commit returns without cv_lock_.notify_one()
CommitSilent(c) ==
  /\ client[c] = "notifying"
  /\ client' = [client EXCEPT ![c] = "idle"]
  /\ UNCHANGED <<tasks_, stop_, thread_num_, cv_mt_, worker, stopPc, commits, accepted, taken, overlooked>>

CommitNotify(c) ==
  /\ client[c] = "notifying"
  /\ client' = [client EXCEPT ![c] = "idle"]
  /\ \/ Waiting = {} /\ UNCHANGED worker
     \/ \E w \in Waiting : worker' = [worker EXCEPT ![w] = "locking"]
  /\ UNCHANGED <<tasks_, stop_, thread_num_, cv_mt_, stopPc, commits, accepted, taken,
                 overlooked>>

-----------------------------------------------------------------------------
(* the loop of a worker *)

WorkerCheck(w) ==
  /\ worker[w] = "checking"
  /\ worker' = [worker EXCEPT ![w] = IF stop_ THEN "done" ELSE "locking"]
  /\ UNCHANGED <<tasks_, stop_, thread_num_, cv_mt_, client, stopPc, commits, accepted, taken, overlooked>>

\* mutant: front() without pop()
TakeAndKeep(w) ==
  /\ tasks_ # << >>
  /\ taken' = Append(taken, Head(tasks_))
  /\ worker' = [worker EXCEPT ![w] = "taken"]
  /\ UNCHANGED <<tasks_, cv_mt_>>

Take(w) ==
  /\ tasks_ # << >>
  /\ taken' = Append(taken, Head(tasks_))
  /\ tasks_' = Tail(tasks_)
  /\ worker' = [worker EXCEPT ![w] = "taken"]
  /\ UNCHANGED cv_mt_

\* Woken by stop(), with nothing to do.
Leave(w) ==
  /\ stop_
  /\ tasks_ = << >>
  /\ worker' = [worker EXCEPT ![w] = "done"]
  /\ UNCHANGED <<tasks_, taken, cv_mt_>>

\* mutant: the mutex is freed before the thread is asleep
MustWaitUnlocked(w) ==
  /\ ~stop_
  /\ tasks_ = << >>
  /\ worker' = [worker EXCEPT ![w] = "blocking"]
  /\ UNCHANGED <<tasks_, taken, cv_mt_>>

\* The predicate is false: the worker is about to sleep and still holds cv_mt_.
MustWait(w) ==
  /\ ~stop_
  /\ tasks_ = << >>
  /\ cv_mt_' = w
  /\ worker' = [worker EXCEPT ![w] = "blocking"]
  /\ UNCHANGED <<tasks_, taken>>

WorkerLock(w) ==
  /\ worker[w] = "locking"
  /\ cv_mt_ = NoThread
  /\ Take(w) \/ Leave(w) \/ MustWait(w)
  /\ UNCHANGED <<stop_, thread_num_, client, stopPc, commits, accepted, overlooked>>

Block(w) ==
  /\ worker[w] = "blocking"
  /\ worker' = [worker EXCEPT ![w] = "waiting"]
  /\ cv_mt_' = NoThread
  /\ UNCHANGED <<tasks_, stop_, thread_num_, client, stopPc, commits, accepted, taken,
                 overlooked>>

SpuriousWakeup(w) ==
  /\ worker[w] = "waiting"
  /\ worker' = [worker EXCEPT ![w] = "locking"]
  /\ UNCHANGED <<tasks_, stop_, thread_num_, cv_mt_, client, stopPc, commits, accepted, taken, overlooked>>

RunTask(w) ==
  /\ worker[w] = "taken"
  /\ thread_num_' = thread_num_ - 1
  /\ worker' = [worker EXCEPT ![w] = "running"]
  /\ UNCHANGED <<tasks_, stop_, cv_mt_, client, stopPc, commits, accepted, taken,
                 overlooked>>

TaskDone(w) ==
  /\ worker[w] = "running"
  /\ thread_num_' = thread_num_ + 1
  /\ worker' = [worker EXCEPT ![w] = "checking"]
  /\ UNCHANGED <<tasks_, stop_, cv_mt_, client, stopPc, commits, accepted, taken,
                 overlooked>>

-----------------------------------------------------------------------------
(* stop *)

StopSet ==
  /\ stopPc = "idle"
  /\ stop_' = TRUE
  /\ stopPc' = "notify"
  /\ UNCHANGED <<tasks_, thread_num_, cv_mt_, worker, client, commits, accepted, taken,
                 overlooked>>

\* mutant: notify_one() in stop()
StopNotifyOne ==
  /\ stopPc = "notify"
  /\ \/ Waiting = {} /\ UNCHANGED worker
     \/ \E w \in Waiting : worker' = [worker EXCEPT ![w] = "locking"]
  /\ overlooked' = {w \in Workers : worker[w] = "blocking"}
  /\ stopPc' = "joining"
  /\ UNCHANGED <<tasks_, stop_, thread_num_, cv_mt_, client, commits, accepted, taken>>

StopNotify ==
  /\ stopPc = "notify"
  /\ worker' = [w \in Workers |-> IF w \in Waiting THEN "locking" ELSE worker[w]]
  /\ overlooked' = {w \in Workers : worker[w] = "blocking"}
  /\ stopPc' = "joining"
  /\ UNCHANGED <<tasks_, stop_, thread_num_, cv_mt_, client, commits, accepted, taken>>

StopJoined ==
  /\ stopPc = "joining"
  /\ \A w \in Workers : worker[w] = "done"
  /\ stopPc' = "done"
  /\ UNCHANGED <<tasks_, stop_, thread_num_, cv_mt_, worker, client, commits, accepted, taken, overlooked>>

-----------------------------------------------------------------------------
Next ==
  \/ \E c \in Clients : CommitCall(c) \/ CommitPush(c) \/ CommitNotify(c)
  \/ \E w \in Workers :
       \/ WorkerCheck(w) \/ WorkerLock(w) \/ Block(w) \/ SpuriousWakeup(w)
       \/ RunTask(w) \/ TaskDone(w)
  \/ StopSet \/ StopNotify \/ StopJoined

(***************************************************************************)
(* The scheduler runs every thread, one that keeps asking for cv_mt_ gets  *)
(* it in the end, and tasks return.  Nobody has to commit a task or to     *)
(* destroy the pool, and no spurious wakeup has to happen.                 *)
(***************************************************************************)
Fairness ==
  /\ \A c \in Clients : SF_vars(CommitPush(c)) /\ WF_vars(CommitNotify(c))
  /\ \A w \in Workers :
       /\ WF_vars(WorkerCheck(w)) /\ SF_vars(WorkerLock(w)) /\ WF_vars(Block(w))
       /\ WF_vars(RunTask(w)) /\ WF_vars(TaskDone(w))
  /\ WF_vars(StopNotify) /\ WF_vars(StopJoined)

Spec     == Init /\ [][Next]_vars
FairSpec == Spec /\ Fairness

-----------------------------------------------------------------------------
(* Properties *)

TypeOK ==
  /\ tasks_ \in Seq(Tasks) /\ accepted \in Seq(Tasks) /\ taken \in Seq(Tasks)
  /\ stop_ \in BOOLEAN
  /\ thread_num_ \in 0..Cardinality(Workers)
  /\ cv_mt_ \in Workers \cup {NoThread}
  /\ worker \in [Workers -> WorkerPc]
  /\ client \in [Clients -> ClientPc]
  /\ stopPc \in StopPc
  /\ commits \in [Clients -> 0..MaxCommits]
  /\ overlooked \subseteq Workers

(***************************************************************************)
(* Every task that commit put in the queue is taken by exactly one worker, *)
(* in the order of the commits, or is still queued.                        *)
(***************************************************************************)
TakenInOrder == accepted = taken \o tasks_

(***************************************************************************)
(* notify_one outside the lock is enough: as long as a worker sleeps,      *)
(* there is for every queued task a worker on its way to the mutex or a    *)
(* commit that has still to notify.                                        *)
(***************************************************************************)
WakeupsSuffice ==
  Waiting # {} =>
    Len(tasks_) <= Cardinality({w \in Workers : worker[w] = "locking"})
                     + Cardinality({c \in Clients : client[c] = "notifying"})

(***************************************************************************)
(* A committed task is started in the end, unless the pool is stopped:     *)
(* stop() abandons what is queued.                                         *)
(***************************************************************************)
EveryTaskStarts ==
  \A n \in 1..(MaxCommits * Cardinality(Clients)) :
    Len(accepted) >= n ~> Len(taken) >= n \/ stop_

(***************************************************************************)
(* stop() returns, unless it notified while some worker had found stop_    *)
(* unset and was not yet asleep: notify_all reaches all the others.        *)
(***************************************************************************)
StopReturns == stopPc = "notify" ~> stopPc = "done" \/ overlooked # {}
=============================================================================
