------------------------------- MODULE SafeMap -------------------------------
(***************************************************************************)
(* SafeMap (data_struct/SafeMap.hpp): a hash map of buckets, each a list   *)
(* of entries under a shared_mutex of its own.  A call locks its bucket,   *)
(* looks the entry up and uses what it found; getMap locks the buckets one *)
(* after the other, copies them one after the other, and frees them all    *)
(* when it returns.                                                        *)
(***************************************************************************)
EXTENDS Integers, Sequences, FiniteSets

CONSTANTS
  Threads,
  Keys,        \* numbers, and std::hash of a number is the number
  Values,
  NoValue,     \* no entry; also the default value that valueFor is given
  NoThread,    \* nobody holds the lock exclusively
  NumBuckets,  \* buckets_.size()
  MaxCalls     \* bound: calls of all threads together

ASSUME MapAssumption ==
  /\ Keys \subseteq Nat
  /\ NumBuckets \in Nat \ {0}
  /\ MaxCalls \in Nat
  /\ NoValue \notin Values
  /\ NoThread \notin Threads

VARIABLES
  data_,     \* the list of entries of each bucket
  writer,    \* who holds smt_ of each bucket exclusively
  readers,   \* who holds it shared
  call,      \* the call each thread is in
  pc,        \* where it is in the call
  item,      \* findEntryFor's iterator; for getMap, how many buckets are locked, then copied
  res,       \* getMap's copy so far
  answer,    \* what the last valueFor or getMap of each thread returned
  calls      \* how many calls have begun

vars == <<data_, writer, readers, call, pc, item, res, answer, calls>>

Buckets == 0..(NumBuckets - 1)

ValueFor       == [op : {"valueFor"}, key : Keys]
AddOrUpdateFor == [op : {"addOrUpdateFor"}, key : Keys, value : Values]
RemoveFor      == [op : {"removeFor"}, key : Keys]
GetMap         == [op : {"getMap"}]
Calls          == ValueFor \cup AddOrUpdateFor \cup RemoveFor \cup GetMap
NoCall         == [op |-> "none"]

EmptyMap == [k \in Keys |-> NoValue]

getBucket(k) == k % NumBuckets

\* The position of k's first entry; 0 stands for end().
findEntryFor(b, k) ==
  LET found == {i \in DOMAIN data_[b] : data_[b][i].key = k}
  IN  IF found = {} THEN 0 ELSE CHOOSE i \in found : \A j \in found : i <= j

Bucket(t) == getBucket(call[t].key)

Init ==
  /\ data_ = [b \in Buckets |-> << >>]
  /\ writer = [b \in Buckets |-> NoThread]
  /\ readers = [b \in Buckets |-> {}]
  /\ call = [t \in Threads |-> NoCall]
  /\ pc = [t \in Threads |-> "idle"]
  /\ item = [t \in Threads |-> 0]
  /\ res = [t \in Threads |-> EmptyMap]
  /\ answer = [t \in Threads |-> NoValue]
  /\ calls = 0

-----------------------------------------------------------------------------
Call(t) ==
  /\ pc[t] = "idle"
  /\ calls < MaxCalls
  /\ calls' = calls + 1
  /\ \E c \in Calls : call' = [call EXCEPT ![t] = c]
  /\ pc' = [pc EXCEPT ![t] = "locking"]
  /\ UNCHANGED <<data_, writer, readers, item, res, answer>>

\* The call is over: its locks and its variables go with the scope.
Return(t) ==
  /\ pc' = [pc EXCEPT ![t] = "idle"]
  /\ call' = [call EXCEPT ![t] = NoCall]
  /\ item' = [item EXCEPT ![t] = 0]
  /\ res' = [res EXCEPT ![t] = EmptyMap]
  /\ writer' = [b \in Buckets |-> IF writer[b] = t THEN NoThread ELSE writer[b]]
  /\ readers' = [b \in Buckets |-> readers[b] \ {t}]
  /\ UNCHANGED calls

\* std::shared_lock: valueFor looks the entry up beside other readers.
LockShared(t) ==
  /\ pc[t] = "locking"
  /\ call[t].op = "valueFor"
  /\ writer[Bucket(t)] = NoThread
  /\ readers' = [readers EXCEPT ![Bucket(t)] = @ \cup {t}]
  /\ item' = [item EXCEPT ![t] = findEntryFor(Bucket(t), call[t].key)]
  /\ pc' = [pc EXCEPT ![t] = "found"]
  /\ UNCHANGED <<data_, writer, call, res, answer, calls>>

\* mutant: addOrUpdateFor takes the lock shared
LockBeside(t) ==
  /\ pc[t] = "locking"
  /\ call[t].op = "addOrUpdateFor"
  /\ writer[Bucket(t)] = NoThread
  /\ readers' = [readers EXCEPT ![Bucket(t)] = @ \cup {t}]
  /\ item' = [item EXCEPT ![t] = findEntryFor(Bucket(t), call[t].key)]
  /\ pc' = [pc EXCEPT ![t] = "found"]
  /\ UNCHANGED <<data_, writer, call, res, answer, calls>>

\* std::unique_lock: updates and removals look the entry up alone.
LockUnique(t) ==
  /\ pc[t] = "locking"
  /\ call[t].op \in {"addOrUpdateFor", "removeFor"}
  /\ writer[Bucket(t)] = NoThread /\ readers[Bucket(t)] = {}
  /\ writer' = [writer EXCEPT ![Bucket(t)] = t]
  /\ item' = [item EXCEPT ![t] = findEntryFor(Bucket(t), call[t].key)]
  /\ pc' = [pc EXCEPT ![t] = "found"]
  /\ UNCHANGED <<data_, readers, call, res, answer, calls>>

valueFor(t) ==
  /\ pc[t] = "found"
  /\ call[t].op = "valueFor"
  /\ answer' = [answer EXCEPT ![t] = IF item[t] = 0 THEN NoValue
                                     ELSE data_[Bucket(t)][item[t]].value]
  /\ Return(t)
  /\ UNCHANGED data_

addOrUpdateFor(t) ==
  /\ pc[t] = "found"
  /\ call[t].op = "addOrUpdateFor"
  /\ LET entry == [key |-> call[t].key, value |-> call[t].value]
     IN  data_' = [data_ EXCEPT ![Bucket(t)] =
                     IF item[t] = 0 THEN Append(@, entry)
                     ELSE [@ EXCEPT ![item[t]] = entry]]
  /\ Return(t)
  /\ UNCHANGED answer

removeFor(t) ==
  /\ pc[t] = "found"
  /\ call[t].op = "removeFor"
  /\ LET erased(s) == SubSeq(s, 1, item[t] - 1) \o SubSeq(s, item[t] + 1, Len(s))
     IN  data_' = [data_ EXCEPT ![Bucket(t)] = IF item[t] = 0 THEN @ ELSE erased(@)]
  /\ Return(t)
  /\ UNCHANGED answer

\* mutant: getMap takes the buckets in the order in which it finds them free
GetMapLockAny(t) ==
  /\ pc[t] = "locking"
  /\ call[t].op = "getMap"
  /\ \E b \in Buckets : /\ writer[b] = NoThread /\ readers[b] = {}
                        /\ writer' = [writer EXCEPT ![b] = t]
  /\ item' = [item EXCEPT ![t] = (@ + 1) % NumBuckets]
  /\ pc' = IF item[t] = NumBuckets - 1 THEN [pc EXCEPT ![t] = "copying"] ELSE pc
  /\ UNCHANGED <<data_, readers, call, res, answer, calls>>

\* The bucket of index item[t]; copying starts when every bucket is locked.
GetMapLock(t) ==
  /\ pc[t] = "locking"
  /\ call[t].op = "getMap"
  /\ writer[item[t]] = NoThread /\ readers[item[t]] = {}
  /\ writer' = [writer EXCEPT ![item[t]] = t]
  /\ item' = [item EXCEPT ![t] = (@ + 1) % NumBuckets]
  /\ pc' = IF item[t] = NumBuckets - 1 THEN [pc EXCEPT ![t] = "copying"] ELSE pc
  /\ UNCHANGED <<data_, readers, call, res, answer, calls>>

\* std::map::insert keeps the entry that is there.
Inserted(m, s) ==
  [k \in Keys |-> LET of == {i \in DOMAIN s : s[i].key = k}
                  IN  IF m[k] # NoValue \/ of = {} THEN m[k]
                      ELSE s[CHOOSE i \in of : \A j \in of : i <= j].value]

\* mutant: the lock of a bucket is freed as soon as the bucket is copied
GetMapCopyAndFree(t) ==
  /\ pc[t] = "copying"
  /\ item[t] < NumBuckets
  /\ res' = [res EXCEPT ![t] = Inserted(@, data_[item[t]])]
  /\ item' = [item EXCEPT ![t] = @ + 1]
  /\ writer' = [writer EXCEPT ![item[t]] = NoThread]
  /\ UNCHANGED <<data_, readers, call, pc, answer, calls>>

GetMapCopy(t) ==
  /\ pc[t] = "copying"
  /\ item[t] < NumBuckets
  /\ res' = [res EXCEPT ![t] = Inserted(@, data_[item[t]])]
  /\ item' = [item EXCEPT ![t] = @ + 1]
  /\ UNCHANGED <<data_, writer, readers, call, pc, answer, calls>>

getMap(t) ==
  /\ pc[t] = "copying"
  /\ item[t] = NumBuckets
  /\ answer' = [answer EXCEPT ![t] = res[t]]
  /\ Return(t)
  /\ UNCHANGED data_

Step(t) ==
  \/ LockShared(t) \/ valueFor(t)
  \/ LockUnique(t) \/ addOrUpdateFor(t) \/ removeFor(t)
  \/ GetMapLock(t) \/ GetMapCopy(t) \/ getMap(t)

Next == \E t \in Threads : Call(t) \/ Step(t)

Spec == Init /\ [][Next]_vars

(***************************************************************************)
(* Every thread is scheduled.  The number of calls being bounded, a lock   *)
(* that is never held for ever is free for good in the end; with readers   *)
(* without end, a shared_mutex may keep getMap out.                        *)
(***************************************************************************)
FairSpec == Spec /\ \A t \in Threads : WF_vars(Step(t))

-----------------------------------------------------------------------------
(* Properties *)

(***************************************************************************)
(* However updates and removals of a key race, its bucket has at most one  *)
(* entry for it, and no other bucket has one: else valueFor and getMap     *)
(* would disagree, and removeFor leave one behind.                         *)
(***************************************************************************)
OneEntryPerKey ==
  \A b \in Buckets : \A i, j \in DOMAIN data_[b] :
    /\ getBucket(data_[b][i].key) = b
    /\ data_[b][i].key = data_[b][j].key => i = j

View ==
  [k \in Keys |-> LET b == getBucket(k) IN
                  IF findEntryFor(b, k) = 0 THEN NoValue
                  ELSE data_[b][findEntryFor(b, k)].value]

\* The moment of a getMap is the one at which it gets its last lock.
AtomicAnswer == [t \in Threads |-> IF pc[t] = "copying" THEN View ELSE answer[t]]

Atomic == INSTANCE AtomicMap WITH map <- View, answer <- AtomicAnswer

(***************************************************************************)
(* Every call, getMap's copy of all the buckets included, takes effect at  *)
(* one moment, of which all threads see the same order: a snapshot never   *)
(* shows a later update without an earlier one.                            *)
(***************************************************************************)
ImplementsAtomicMap == Atomic!MapSpec

(***************************************************************************)
(* No call waits for ever: two getMaps, each holding some of the buckets,  *)
(* or a getMap and updates, never block each other for good.               *)
(***************************************************************************)
CallsReturn == \A t \in Threads : pc[t] = "locking" ~> pc[t] = "idle"
=============================================================================
