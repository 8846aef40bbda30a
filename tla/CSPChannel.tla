----------------------------- MODULE CSPChannel -----------------------------
(***************************************************************************)
(* CSPChannel<T> (include/CSPChannel.hpp): a queue of bounded size shared  *)
(* by producers (send) and consumers (recv), and closed by stop().         *)
(*                                                                         *)
(* send and recv hold cv_mt_ from their first line to their return, except *)
(* while they sleep in condition_variable::wait; stop() never takes it.    *)
(* So a call is split exactly where stop() can fall between two of its     *)
(* statements: after the wait predicate was found false and before the     *)
(* thread is asleep (pc = "blocking"), and after `if(stop_)` was found     *)
(* false and before push_back (pc = "pushing").  A thread that is woken    *)
(* takes the mutex and evaluates the predicate again, as one that has just *)
(* called: both are at pc = "locking".                                     *)
(*                                                                         *)
(* The clients are those of testCSPChannel: producers that call send a     *)
(* bounded number of times, consumers that run `while(channel.recv(data))` *)
(* and one thread that calls stop().                                       *)
(***************************************************************************)
EXTENDS Integers, Sequences, FiniteSets

CONSTANTS
  Producers,     \* threads that call send
  Consumers,     \* threads that call recv
  Capacities,    \* the constructor's arguments
  MaxSends,      \* bound: calls of send per producer
  NoThread       \* cv_mt_ is free

Threads == Producers \cup Consumers

ASSUME ThreadsAssumption ==
  /\ Producers \cap Consumers = {}
  /\ NoThread \notin Threads
  /\ IsFiniteSet(Threads)

ASSUME BoundsAssumption ==
  /\ Capacities \subseteq Nat
  /\ MaxSends \in Nat

VARIABLES
  queue_,      \* std::deque<T> queue_
  capacity_,   \* std::size_t capacity_, fixed by the constructor
  stop_,       \* std::atomic_bool stop_
  cv_mt_,      \* the thread that holds std::mutex cv_mt_, or NoThread
  pc,          \* where each producer and consumer is in its call
  stopPc,      \* where the thread that calls stop() is
  sent,        \* how often each producer has called send
  accepted,    \* history: the values pushed, in order
  received,    \* history: the values popped, in order
  ended        \* history: the consumers whose recv has returned false

vars == <<queue_, capacity_, stop_, cv_mt_, pc, stopPc, sent,
          accepted, received, ended>>

ThreadPc == {"idle", "locking", "blocking", "pushing", "waiting", "done"}
StopPc   == {"idle", "notifyProducers", "notifyConsumers", "done"}

Data(p) == <<p, sent[p]>>
Values  == Producers \X (1..MaxSends)

(***************************************************************************)
(* A capacity of 0 lets one value in whenever the queue is empty, so it    *)
(* has the room of a capacity of 1.                                        *)
(***************************************************************************)
Room    == IF capacity_ = 0 THEN 1 ELSE capacity_

\* mutant: `queue_.size()<=capacity_`
HasRoomOffByOne == Len(queue_) <= capacity_

HasRoom == \/ capacity_ = 0 /\ queue_ = << >>
           \/ Len(queue_) < capacity_

Waiting(S) == {t \in S : pc[t] = "waiting"}
Locking(S) == {t \in S : pc[t] = "locking"}

(***************************************************************************)
(* condition_variable: notify_one wakes some sleeping thread if there is   *)
(* one, notify_all wakes them all.  The condition variables are external;  *)
(* cv_producer_ is waited on by producers, cv_consumer_ by consumers.      *)
(***************************************************************************)
NotifyOne(S, pcs) ==
  \/ Waiting(S) = {} /\ pc' = pcs
  \/ \E t \in Waiting(S) : pc' = [pcs EXCEPT ![t] = "locking"]

NotifyAll(S) ==
  pc' = [t \in Threads |-> IF t \in Waiting(S) THEN "locking" ELSE pc[t]]

Init ==
  /\ queue_ = << >>
  /\ capacity_ \in Capacities
  /\ stop_ = FALSE
  /\ cv_mt_ = NoThread
  /\ pc = [t \in Threads |-> "idle"]
  /\ stopPc = "idle"
  /\ sent = [p \in Producers |-> 0]
  /\ accepted = << >>
  /\ received = << >>
  /\ ended = {}

-----------------------------------------------------------------------------
(* send *)

SendCall(p) ==
  /\ pc[p] = "idle"
  /\ sent[p] < MaxSends
  /\ sent' = [sent EXCEPT ![p] = @ + 1]
  /\ pc' = [pc EXCEPT ![p] = "locking"]
  /\ UNCHANGED <<queue_, capacity_, stop_, cv_mt_, stopPc, accepted, received, ended>>

\* The predicate holds because of stop_, and send returns false.
SendRefused(p) ==
  /\ stop_
  /\ pc' = [pc EXCEPT ![p] = "idle"]
  /\ UNCHANGED <<queue_, capacity_, stop_, cv_mt_, stopPc, sent, accepted, received, ended>>

\* mutant: cv_mt_ is released between `if(stop_)` and push_back
SendAdmittedUnlocked(p) ==
  /\ ~stop_
  /\ HasRoom
  /\ pc' = [pc EXCEPT ![p] = "pushing"]
  /\ UNCHANGED <<queue_, capacity_, stop_, cv_mt_, stopPc, sent, accepted, received, ended>>

\* mutant: no `if(stop_)` after the wait
SendAdmittedAfterStop(p) ==
  /\ HasRoom
  /\ cv_mt_' = p
  /\ pc' = [pc EXCEPT ![p] = "pushing"]
  /\ UNCHANGED <<queue_, capacity_, stop_, stopPc, sent, accepted, received, ended>>

\* There is room and `if(stop_)` reads false; push_back is still to come.
SendAdmitted(p) ==
  /\ ~stop_
  /\ HasRoom
  /\ cv_mt_' = p
  /\ pc' = [pc EXCEPT ![p] = "pushing"]
  /\ UNCHANGED <<queue_, capacity_, stop_, stopPc, sent, accepted, received, ended>>

\* The predicate is false: the thread is about to sleep and still holds cv_mt_.
MustWait(t) ==
  /\ cv_mt_' = t
  /\ pc' = [pc EXCEPT ![t] = "blocking"]
  /\ UNCHANGED <<queue_, capacity_, stop_, stopPc, sent, accepted, received, ended>>

SendLock(p) ==
  /\ pc[p] = "locking"
  /\ cv_mt_ = NoThread
  /\ \/ SendRefused(p)
     \/ SendAdmitted(p)
     \/ ~stop_ /\ ~HasRoom /\ MustWait(p)

\* mutant: cv_producer_.notify_one() after the push
SendPushWrongCv(p) ==
  /\ pc[p] = "pushing"
  /\ queue_' = Append(queue_, Data(p))
  /\ accepted' = Append(accepted, Data(p))
  /\ NotifyOne(Producers, [pc EXCEPT ![p] = "idle"])
  /\ cv_mt_' = NoThread
  /\ UNCHANGED <<capacity_, stop_, stopPc, sent, received, ended>>

SendPush(p) ==
  /\ pc[p] = "pushing"
  /\ queue_' = Append(queue_, Data(p))
  /\ accepted' = Append(accepted, Data(p))
  /\ NotifyOne(Consumers, [pc EXCEPT ![p] = "idle"])
  /\ cv_mt_' = NoThread
  /\ UNCHANGED <<capacity_, stop_, stopPc, sent, received, ended>>

-----------------------------------------------------------------------------
(* recv *)

RecvCall(c) ==
  /\ pc[c] = "idle"
  /\ pc' = [pc EXCEPT ![c] = "locking"]
  /\ UNCHANGED <<queue_, capacity_, stop_, cv_mt_, stopPc, sent, accepted, received, ended>>

\* mutant: pop_front() with data left as the caller had it
RecvTakeUnset(c) ==
  /\ queue_ # << >>
  /\ received' = Append(received, << >>)
  /\ queue_' = Tail(queue_)
  /\ NotifyOne(Producers, [pc EXCEPT ![c] = "idle"])
  /\ UNCHANGED <<capacity_, stop_, cv_mt_, stopPc, sent, accepted, ended>>

\* mutant: queue_.back() instead of queue_.front()
RecvTakeBack(c) ==
  /\ queue_ # << >>
  /\ received' = Append(received, queue_[Len(queue_)])
  /\ queue_' = Tail(queue_)
  /\ NotifyOne(Producers, [pc EXCEPT ![c] = "idle"])
  /\ UNCHANGED <<capacity_, stop_, cv_mt_, stopPc, sent, accepted, ended>>

\* mutant: no cv_producer_.notify_one()
RecvTakeSilent(c) ==
  /\ queue_ # << >>
  /\ received' = Append(received, Head(queue_))
  /\ queue_' = Tail(queue_)
  /\ pc' = [pc EXCEPT ![c] = "idle"]
  /\ UNCHANGED <<capacity_, stop_, cv_mt_, stopPc, sent, accepted, ended>>

RecvTake(c) ==
  /\ queue_ # << >>
  /\ received' = Append(received, Head(queue_))
  /\ queue_' = Tail(queue_)
  /\ NotifyOne(Producers, [pc EXCEPT ![c] = "idle"])
  /\ UNCHANGED <<capacity_, stop_, cv_mt_, stopPc, sent, accepted, ended>>

\* mutant: `if(stop_) return false;`
RecvEndAtOnce(c) ==
  /\ stop_
  /\ ended' = ended \cup {c}
  /\ pc' = [pc EXCEPT ![c] = "done"]
  /\ UNCHANGED <<queue_, capacity_, stop_, cv_mt_, stopPc, sent, accepted, received>>

\* recv returns false, and the consumer's loop is over.
RecvEnd(c) ==
  /\ stop_
  /\ queue_ = << >>
  /\ ended' = ended \cup {c}
  /\ pc' = [pc EXCEPT ![c] = "done"]
  /\ UNCHANGED <<queue_, capacity_, stop_, cv_mt_, stopPc, sent, accepted, received>>

RecvLock(c) ==
  /\ pc[c] = "locking"
  /\ cv_mt_ = NoThread
  /\ \/ RecvTake(c)
     \/ RecvEnd(c)
     \/ ~stop_ /\ queue_ = << >> /\ MustWait(c)

-----------------------------------------------------------------------------
(* condition_variable::wait falls asleep and frees the mutex in one step;  *)
(* it may also return with no notification.                                *)

Block(t) ==
  /\ pc[t] = "blocking"
  /\ pc' = [pc EXCEPT ![t] = "waiting"]
  /\ cv_mt_' = NoThread
  /\ UNCHANGED <<queue_, capacity_, stop_, stopPc, sent, accepted, received, ended>>

SpuriousWakeup(t) ==
  /\ pc[t] = "waiting"
  /\ pc' = [pc EXCEPT ![t] = "locking"]
  /\ UNCHANGED <<queue_, capacity_, stop_, cv_mt_, stopPc, sent, accepted, received, ended>>

-----------------------------------------------------------------------------
(* stop *)

StopSet ==
  /\ stopPc = "idle"
  /\ stop_' = TRUE
  /\ stopPc' = "notifyProducers"
  /\ UNCHANGED <<queue_, capacity_, cv_mt_, pc, sent, accepted, received, ended>>

StopNotifyProducers ==
  /\ stopPc = "notifyProducers"
  /\ NotifyAll(Producers)
  /\ stopPc' = "notifyConsumers"
  /\ UNCHANGED <<queue_, capacity_, stop_, cv_mt_, sent, accepted, received, ended>>

StopNotifyConsumers ==
  /\ stopPc = "notifyConsumers"
  /\ NotifyAll(Consumers)
  /\ stopPc' = "done"
  /\ UNCHANGED <<queue_, capacity_, stop_, cv_mt_, sent, accepted, received, ended>>

-----------------------------------------------------------------------------
Next ==
  \/ \E p \in Producers : SendCall(p) \/ SendLock(p) \/ SendPush(p)
  \/ \E c \in Consumers : RecvCall(c) \/ RecvLock(c)
  \/ \E t \in Threads : Block(t) \/ SpuriousWakeup(t)
  \/ StopSet
  \/ StopNotifyProducers
  \/ StopNotifyConsumers

(***************************************************************************)
(* The scheduler runs every thread, and a thread that keeps asking for     *)
(* cv_mt_ gets it in the end (strong fairness: the mutex may be taken and  *)
(* freed by others in between).  A consumer's loop always calls recv       *)
(* again.  Nobody has to call send or stop, and no spurious wakeup ever    *)
(* has to happen.                                                          *)
(***************************************************************************)
Fairness ==
  /\ \A p \in Producers : SF_vars(SendLock(p)) /\ WF_vars(SendPush(p))
  /\ \A c \in Consumers : SF_vars(RecvLock(c)) /\ WF_vars(RecvCall(c))
  /\ \A t \in Threads : WF_vars(Block(t))
  /\ WF_vars(StopNotifyProducers) /\ WF_vars(StopNotifyConsumers)

Spec     == Init /\ [][Next]_vars
FairSpec == Spec /\ Fairness

-----------------------------------------------------------------------------
(* Properties *)

TypeOK ==
  /\ queue_ \in Seq(Values)
  /\ capacity_ \in Capacities
  /\ stop_ \in BOOLEAN
  /\ cv_mt_ \in Threads \cup {NoThread}
  /\ pc \in [Threads -> ThreadPc]
  /\ stopPc \in StopPc
  /\ sent \in [Producers -> 0..MaxSends]
  /\ accepted \in Seq(Values)
  /\ received \in Seq(Values)
  /\ ended \subseteq Consumers

(***************************************************************************)
(* recv hands out exactly the values for which send returned true, each    *)
(* once and in the order they were pushed, whatever the interleaving and   *)
(* whenever stop() is called: a stopped channel is drained, not cleared.   *)
(***************************************************************************)
FifoDelivery == accepted = received \o queue_

(***************************************************************************)
(* The queue never exceeds its capacity (1 for a capacity of 0), although  *)
(* several producers may be woken for the same free slot.                  *)
(***************************************************************************)
CapacityRespected == Len(queue_) <= Room

(***************************************************************************)
(* Once some recv has returned false nothing is accepted any more: the     *)
(* push of a send that passed `if(stop_)` before stop() cannot come after  *)
(* a consumer has been told that the channel is finished.                  *)
(***************************************************************************)
EndIsFinal == [][ended # {} => accepted' = accepted /\ queue_' = << >>]_vars

(***************************************************************************)
(* notify_one is enough: as long as a consumer sleeps in recv, there is an *)
(* awake consumer on its way to the mutex for every value in the queue;    *)
(* and until stop(), as long as a producer sleeps in send, there is an     *)
(* awake producer for every free slot.                                     *)
(***************************************************************************)
AwakeConsumers == Locking(Consumers)
AwakeProducers == {p \in Producers : pc[p] \in {"locking", "pushing"}}

ConsumersWoken ==
  Waiting(Consumers) # {} => Len(queue_) <= Cardinality(AwakeConsumers)
ProducersWoken ==
  Waiting(Producers) # {} /\ ~stop_ => Room - Len(queue_) <= Cardinality(AwakeProducers)

WakeupsSuffice == ConsumersWoken /\ ProducersWoken

(***************************************************************************)
(* Every accepted value is received in the end, also when stop() comes     *)
(* while it is still queued.                                               *)
(***************************************************************************)
EverythingDelivered ==
  \A n \in 1..(MaxSends * Cardinality(Producers)) :
    Len(accepted) >= n ~> Len(received) >= n

(***************************************************************************)
(* A producer that finds the channel full does not sleep for ever.         *)
(***************************************************************************)
SendReturns == \A p \in Producers : pc[p] = "waiting" ~> pc[p] = "idle"

(***************************************************************************)
(* The channel implements BoundedFifo.  A value is inside from the moment  *)
(* its send has passed `if(stop_)`: that test, not push_back, decides      *)
(* whether the value came before stop().                                   *)
(***************************************************************************)
InFlight ==
  IF cv_mt_ \in Producers /\ pc[cv_mt_] = "pushing"
  THEN Append(queue_, Data(cv_mt_))
  ELSE queue_

Fifo == INSTANCE BoundedFifo
          WITH buffer <- InFlight, room <- Room, closed <- stop_, eof <- (ended # {})

ImplementsFifo == Fifo!FifoSpec

(***************************************************************************)
(* The inductive invariant behind the safety properties.  The mutex is     *)
(* held exactly by the thread between its predicate and its sleep or push; *)
(* what that thread found (room for a push, nothing to take) is still true *)
(* as long as it holds the mutex; and an ended stream stays ended.         *)
(***************************************************************************)
MutexHeld ==
  \A t \in Threads : pc[t] \in {"blocking", "pushing"} <=> cv_mt_ = t

Callers ==
  /\ \A p \in Producers : pc[p] # "done" /\ (pc[p] # "idle" => sent[p] > 0)
  /\ \A c \in Consumers : pc[c] # "pushing"

FoundStillHolds ==
  /\ \A p \in Producers : pc[p] = "pushing" => Len(queue_) < Room
  /\ \A c \in Consumers : pc[c] = "blocking" => queue_ = << >>
  /\ \A p \in Producers : pc[p] = "blocking" => Len(queue_) >= Room

EndedStaysEnded ==
  ended # {} => stop_ /\ queue_ = << >> /\ \A p \in Producers : pc[p] # "pushing"

IInv ==
  /\ TypeOK
  /\ MutexHeld
  /\ Callers
  /\ FoundStillHolds
  /\ EndedStaysEnded
  /\ CapacityRespected
  /\ FifoDelivery

(***************************************************************************)
(* What testCSPChannel relies on: after stop() every consumer's            *)
(* `while(channel.recv(data))` ends, so that t2.join() returns.            *)
(***************************************************************************)
StopEndsRecv == stopPc = "done" ~> ended = Consumers
=============================================================================
