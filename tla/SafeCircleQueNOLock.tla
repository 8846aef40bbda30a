------------------------ MODULE SafeCircleQueNOLock -------------------------
(***************************************************************************)
(* SafeCircleQueNOLock (data_struct/SafeCircleQueue.hpp): the ring without *)
(* a mutex.  emplace claims a position by an exchange of tail_, constructs *)
(* the element there, and publishes it by an exchange of tail_up_, in the  *)
(* order of the claims.  pop copies the element at head_ and then claims   *)
(* it by an exchange of head_.                                             *)
(*                                                                         *)
(* Every access to an atomic is a step of its own, also the head_ in the   *)
(* second argument of pop's exchange.  An element is a word (the tests use *)
(* int), so that a copy that races with a construction yields the old or   *)
(* the new value.                                                          *)
(***************************************************************************)
EXTENDS Integers, Sequences, FiniteSets

CONSTANTS
  Producers,     \* threads that call emplace
  Consumers,     \* threads that call pop
  Cap,           \* the template's capacity
  MaxEmplaces,   \* bound: calls of emplace per producer
  MaxPopped,     \* bound: no pop is called once so many have succeeded
  Garbage        \* what a position holds that was never constructed

Threads   == Producers \cup Consumers
Values    == Producers \X (1..MaxEmplaces)
max_size_ == Cap + 1
Positions == 0..Cap

ASSUME RingAssumption ==
  /\ Producers \cap Consumers = {}
  /\ Garbage \notin Values
  /\ Cap \in Nat \ {0}
  /\ MaxEmplaces \in Nat /\ MaxPopped \in Nat

VARIABLES
  head_,      \* std::atomic_size_t head_
  tail_,      \* std::atomic_size_t tail_
  tail_up_,   \* std::atomic_size_t tail_up_: the elements before it are constructed
  data_,      \* T* data_
  pc,         \* where each thread is in its call
  local,      \* the local tail of emplace, the local head of pop
  next,       \* (head_+1)%max_size_, as pop has evaluated it
  data,       \* the argument of pop
  emplaces,   \* how often each producer has called emplace
  claimed,    \* history: the values whose position was claimed, in order
  popped,     \* history: the values for which pop returned true, in order
  seen,       \* history: how many claims, or pops, there were when local was loaded
  lapped      \* history: an exchange has succeeded though others had come in between

vars == <<head_, tail_, tail_up_, data_, pc, local, next, data, emplaces, claimed, popped,
          seen, lapped>>

Pc == {"idle", "loading", "checkFull", "claim", "construct", "publish",
       "checkEmpty", "checkPublished", "copy", "loadNext", "exchange"}

Following(i) == (i + 1) % max_size_
Value(p)     == <<p, emplaces[p]>>

Goto(t, label) == pc' = [pc EXCEPT ![t] = label]

Init ==
  /\ head_ = 0 /\ tail_ = 0 /\ tail_up_ = 0
  /\ data_ = [i \in Positions |-> Garbage]
  /\ pc = [t \in Threads |-> "idle"]
  /\ local = [t \in Threads |-> 0]
  /\ next = [c \in Consumers |-> 0]
  /\ data = [c \in Consumers |-> Garbage]
  /\ emplaces = [p \in Producers |-> 0]
  /\ claimed = << >> /\ popped = << >>
  /\ seen = [t \in Threads |-> 0]
  /\ lapped = FALSE

\* What the steps of emplace leave alone, and what those of pop do.
emplaceLeaves == <<head_, next, data, popped>>
popLeaves     == <<tail_, tail_up_, data_, emplaces, claimed>>

-----------------------------------------------------------------------------
(* emplace *)

EmplaceCall(p) ==
  /\ pc[p] = "idle"
  /\ emplaces[p] < MaxEmplaces
  /\ emplaces' = [emplaces EXCEPT ![p] = @ + 1]
  /\ Goto(p, "loading")
  /\ UNCHANGED <<emplaceLeaves, tail_, tail_up_, data_, local, claimed, seen, lapped>>

EmplaceLoad(p) ==
  /\ pc[p] = "loading"
  /\ local' = [local EXCEPT ![p] = tail_]
  /\ seen' = [seen EXCEPT ![p] = Len(claimed)]
  /\ Goto(p, "checkFull")
  /\ UNCHANGED <<emplaceLeaves, tail_, tail_up_, data_, emplaces, claimed, lapped>>

\* mutant: tail+1 is compared without % max_size_
EmplaceCheckUnwrapped(p) ==
  /\ pc[p] = "checkFull"
  /\ Goto(p, IF local[p] + 1 = head_ THEN "idle" ELSE "claim")
  /\ UNCHANGED <<emplaceLeaves, tail_, tail_up_, data_, local, emplaces, claimed, seen, lapped>>

\* A full queue: emplace returns false.
EmplaceCheckFull(p) ==
  /\ pc[p] = "checkFull"
  /\ Goto(p, IF Following(local[p]) = head_ THEN "idle" ELSE "claim")
  /\ UNCHANGED <<emplaceLeaves, tail_, tail_up_, data_, local, emplaces, claimed, seen, lapped>>

\* tail_.compare_exchange_strong; when it fails, tail is loaded again.
EmplaceClaim(p) ==
  /\ pc[p] = "claim"
  /\ IF tail_ = local[p]
     THEN /\ tail_' = Following(local[p])
          /\ claimed' = Append(claimed, Value(p))
          /\ lapped' = (lapped \/ seen[p] # Len(claimed))
          /\ Goto(p, "construct")
     ELSE /\ Goto(p, "loading")
          /\ UNCHANGED <<tail_, claimed, lapped>>
  /\ UNCHANGED <<emplaceLeaves, tail_up_, data_, local, emplaces, seen>>

EmplaceConstruct(p) ==
  /\ pc[p] = "construct"
  /\ data_' = [data_ EXCEPT ![local[p]] = Value(p)]
  /\ Goto(p, "publish")
  /\ UNCHANGED <<emplaceLeaves, tail_, tail_up_, local, emplaces, claimed, seen, lapped>>

\* mutant: tail_up_ becomes tail_, past the claims of others
EmplacePublishAll(p) ==
  /\ pc[p] = "publish"
  /\ tail_up_ = local[p]
  /\ tail_up_' = tail_
  /\ Goto(p, "idle")
  /\ UNCHANGED <<emplaceLeaves, tail_, data_, local, emplaces, claimed, seen, lapped>>

\* The exchange of tail_up_ is repeated until the elements before are published.
EmplacePublish(p) ==
  /\ pc[p] = "publish"
  /\ tail_up_ = local[p]
  /\ tail_up_' = Following(local[p])
  /\ Goto(p, "idle")
  /\ UNCHANGED <<emplaceLeaves, tail_, data_, local, emplaces, claimed, seen, lapped>>

-----------------------------------------------------------------------------
(* pop *)

PopCall(c) ==
  /\ pc[c] = "idle"
  /\ Len(popped) < MaxPopped
  /\ Goto(c, "loading")
  /\ UNCHANGED <<popLeaves, head_, local, next, data, popped, seen, lapped>>

PopLoad(c) ==
  /\ pc[c] = "loading"
  /\ local' = [local EXCEPT ![c] = head_]
  /\ seen' = [seen EXCEPT ![c] = Len(popped)]
  /\ Goto(c, "checkEmpty")
  /\ UNCHANGED <<popLeaves, head_, next, data, popped, lapped>>

PopCheckEmpty(c) ==
  /\ pc[c] = "checkEmpty"
  /\ Goto(c, IF local[c] = tail_ THEN "idle" ELSE "checkPublished")
  /\ UNCHANGED <<popLeaves, head_, local, next, data, popped, seen, lapped>>

\* mutant: tail_up_ is not looked at
PopUnpublished(c) ==
  /\ pc[c] = "checkPublished"
  /\ Goto(c, "copy")
  /\ UNCHANGED <<popLeaves, head_, local, next, data, popped, seen, lapped>>

PopCheckPublished(c) ==
  /\ pc[c] = "checkPublished"
  /\ Goto(c, IF local[c] = tail_up_ THEN "idle" ELSE "copy")
  /\ UNCHANGED <<popLeaves, head_, local, next, data, popped, seen, lapped>>

PopCopy(c) ==
  /\ pc[c] = "copy"
  /\ data' = [data EXCEPT ![c] = data_[local[c]]]
  /\ Goto(c, "loadNext")
  /\ UNCHANGED <<popLeaves, head_, local, next, popped, seen, lapped>>

PopLoadNext(c) ==
  /\ pc[c] = "loadNext"
  /\ next' = [next EXCEPT ![c] = Following(head_)]
  /\ Goto(c, "exchange")
  /\ UNCHANGED <<popLeaves, head_, local, data, popped, seen, lapped>>

\* head_.compare_exchange_strong; when it fails, head is loaded again.
PopExchange(c) ==
  /\ pc[c] = "exchange"
  /\ IF head_ = local[c]
     THEN /\ head_' = next[c]
          /\ popped' = Append(popped, data[c])
          /\ lapped' = (lapped \/ seen[c] # Len(popped))
          /\ Goto(c, "idle")
     ELSE /\ Goto(c, "loading")
          /\ UNCHANGED <<head_, popped, lapped>>
  /\ UNCHANGED <<popLeaves, local, next, data, seen>>

-----------------------------------------------------------------------------
Next ==
  \/ \E p \in Producers :
       \/ EmplaceCall(p) \/ EmplaceLoad(p) \/ EmplaceCheckFull(p)
       \/ EmplaceClaim(p) \/ EmplaceConstruct(p) \/ EmplacePublish(p)
  \/ \E c \in Consumers :
       \/ PopCall(c) \/ PopLoad(c) \/ PopCheckEmpty(c) \/ PopCheckPublished(c)
       \/ PopCopy(c) \/ PopLoadNext(c) \/ PopExchange(c)

(***************************************************************************)
(* The scheduler runs every producer that is inside emplace.               *)
(***************************************************************************)
Fairness ==
  \A p \in Producers :
    WF_vars(EmplaceLoad(p) \/ EmplaceCheckFull(p) \/ EmplaceClaim(p) \/ EmplaceConstruct(p)
              \/ EmplacePublish(p))

Spec     == Init /\ [][Next]_vars
FairSpec == Spec /\ Fairness

-----------------------------------------------------------------------------
(* Properties *)

TypeOK ==
  /\ {head_, tail_, tail_up_} \subseteq Positions
  /\ data_ \in [Positions -> Values \cup {Garbage}]
  /\ pc \in [Threads -> Pc]
  /\ local \in [Threads -> Positions]
  /\ next \in [Consumers -> Positions]
  /\ data \in [Consumers -> Values \cup {Garbage}]
  /\ emplaces \in [Producers -> 0..MaxEmplaces]
  /\ claimed \in Seq(Values)
  /\ popped \in Seq(Values \cup {Garbage})
  /\ seen \in [Threads -> Nat]
  /\ lapped \in BOOLEAN

(***************************************************************************)
(* Until a thread is lapped, that is until its compare_exchange succeeds   *)
(* because the ring has gone round since it loaded the position, pop hands *)
(* out the values in the order of the claims, each once and never one that *)
(* is not constructed, for any number of producers and consumers.          *)
(***************************************************************************)
PoppedInOrder ==
  ~lapped => \A i \in DOMAIN popped : i \in DOMAIN claimed /\ popped[i] = claimed[i]

(***************************************************************************)
(* Until then it implements the queue with a mutex: an emplace takes place *)
(* when it claims its position, where the locked queue has its element at  *)
(* once, and a pop when its exchange succeeds.                             *)
(***************************************************************************)
Constructed ==
  [i \in Positions |->
     IF \E p \in Producers : pc[p] = "construct" /\ local[p] = i
     THEN Value(CHOOSE p \in Producers : pc[p] = "construct" /\ local[p] = i)
     ELSE data_[i]]

Locked == INSTANCE SafeCircleQueue WITH data_ <- Constructed

ImplementsLocked ==
  Locked!QueueInit /\ [][Locked!QueueNext \/ lapped']_(Locked!queueVars)

(***************************************************************************)
(* Until then an emplace that has claimed its position does not spin for   *)
(* ever for the claims before its own to be published.                     *)
(***************************************************************************)
EmplaceReturns ==
  \A p \in Producers : pc[p] = "construct" ~> pc[p] = "idle" \/ lapped

(***************************************************************************)
(* What tail_up_ is for, "avoid old data when work on the front of queue   *)
(* in multithread": no pop hands out an element that is not the one at the *)
(* front any more, so none is handed out twice.                            *)
(***************************************************************************)
NoOldData == \A i, j \in DOMAIN popped : popped[i] = popped[j] => i = j
=============================================================================
