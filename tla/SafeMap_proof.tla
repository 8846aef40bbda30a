---------------------------- MODULE SafeMap_proof ----------------------------
(***************************************************************************)
(* Proofs about SafeMap, for any threads, keys, values and number of       *)
(* buckets: a key has at most one entry, and every call, getMap's copy of  *)
(* all the buckets included, happens at one moment.  The second part is    *)
(* about SafeList, for any threads and number of pushes: no push is lost,  *)
(* and forEach misses nothing.                                             *)
(***************************************************************************)
EXTENDS SafeMap, SequenceLemmas, SequenceTheorems, TLAPS

Entries == [key : Keys, value : Values]
Maps    == [Keys -> Values \cup {NoValue}]

TypeOK ==
  /\ data_ \in [Buckets -> Seq(Entries)]
  /\ writer \in [Buckets -> Threads \cup {NoThread}]
  /\ readers \in [Buckets -> SUBSET Threads]
  /\ call \in [Threads -> Calls \cup {NoCall}]
  /\ pc \in [Threads -> {"idle", "locking", "found", "copying"}]
  /\ item \in [Threads -> Nat]
  /\ res \in [Threads -> Maps]
  /\ answer \in [Threads -> Values \cup {NoValue} \cup Maps]
  /\ calls \in 0..MaxCalls

\* Writers are alone.
Exclusive == \A b \in Buckets : writer[b] # NoThread => readers[b] = {}

\* What a thread holds where it is in its call.
Holding(t) ==
  /\ pc[t] \in {"locking", "found", "copying"} => call[t] \in Calls
  /\ pc[t] = "idle" => item[t] = 0 /\ res[t] = EmptyMap
  /\ pc[t] = "locking" =>
       /\ res[t] = EmptyMap
       /\ call[t].op = "getMap" =>
            item[t] \in Buckets /\ \A b \in Buckets : b < item[t] => writer[b] = t
  /\ pc[t] = "found" =>
       \/ call[t].op = "valueFor" /\ t \in readers[Bucket(t)]
       \/ call[t].op \in {"addOrUpdateFor", "removeFor"} /\ writer[Bucket(t)] = t
  /\ pc[t] = "copying" =>
       /\ call[t].op = "getMap"
       /\ item[t] \in 0..NumBuckets
       /\ \A b \in Buckets : writer[b] = t

Locked == Exclusive /\ \A t \in Threads : Holding(t)

\* findEntryFor's iterator is still valid when it is used.
ItemValid ==
  \A t \in Threads :
    pc[t] = "found" => item[t] = findEntryFor(Bucket(t), call[t].key)

\* What getMap has copied is what the map holds.
CopyExact ==
  \A t \in Threads :
    pc[t] = "copying" =>
      res[t] = [k \in Keys |-> IF getBucket(k) < item[t] THEN View[k] ELSE NoValue]

-----------------------------------------------------------------------------
(* One bucket: a list of entries *)

Positions(s, k) == {i \in DOMAIN s : s[i].key = k}
First(s, k)     == IF Positions(s, k) = {} THEN 0
                   ELSE CHOOSE i \in Positions(s, k) : \A j \in Positions(s, k) : i <= j
ValueIn(s, k)   == IF First(s, k) = 0 THEN NoValue ELSE s[First(s, k)].value

\* The entries of a bucket have different keys, all of the bucket.
Clean(b, s) ==
  \A i, j \in DOMAIN s :
    /\ getBucket(s[i].key) = b
    /\ s[i].key = s[j].key => i = j

\* findEntryFor and the abstract map in these terms, now and after a step.
LEMMA FindIsFirst ==
  /\ \A b, k : findEntryFor(b, k) = First(data_[b], k)
  /\ \A b, k : findEntryFor(b, k)' = First(data_'[b], k)
BY DEF findEntryFor, First, Positions

\* The abstract map in these terms, now and after a step.
LEMMA ViewIsValueIn ==
  /\ View = [k \in Keys |-> ValueIn(data_[getBucket(k)], k)]
  /\ View' = [k \in Keys |-> ValueIn(data_'[getBucket(k)], k)]
BY FindIsFirst DEF View, ValueIn

\* OneEntryPerKey in these terms, now and after a step.
LEMMA OneEntryIsClean ==
  /\ OneEntryPerKey <=> \A b \in Buckets : Clean(b, data_[b])
  /\ OneEntryPerKey' <=> \A b \in Buckets : Clean(b, data_'[b])
BY DEF OneEntryPerKey, Clean

\* Every key has a bucket.
LEMMA BucketOf == \A k \in Keys : getBucket(k) \in Buckets
BY MapAssumption DEF getBucket, Buckets

\* The search finds the only entry there is.
LEMMA FirstThere ==
  ASSUME NEW b, NEW s \in Seq(Entries), Clean(b, s), NEW i \in DOMAIN s, NEW k, s[i].key = k
  PROVE  First(s, k) = i /\ i # 0 /\ ValueIn(s, k) = s[i].value
<1>1. Positions(s, k) = {i}
  BY DEF Positions, Clean
<1>2. i \in Nat /\ i >= 1
  OBVIOUS
<1>3. \A x \in {i} : \A j \in {i} : x <= j
  BY <1>2
<1>4. First(s, k) = i
  BY <1>1, <1>3 DEF First
<1> QED
  BY <1>2, <1>4 DEF ValueIn

\* ... and nothing if there is none.
LEMMA FirstAbsent ==
  ASSUME NEW s, NEW k, \A i \in DOMAIN s : s[i].key # k
  PROVE  First(s, k) = 0 /\ ValueIn(s, k) = NoValue
BY DEF First, Positions, ValueIn

\* Which of the two it was is told by the result.
LEMMA FirstTells ==
  ASSUME NEW b, NEW s \in Seq(Entries), Clean(b, s), NEW k
  PROVE  \/ /\ First(s, k) = 0
            /\ \A i \in DOMAIN s : s[i].key # k
         \/ /\ First(s, k) \in DOMAIN s
            /\ First(s, k) # 0
            /\ s[First(s, k)].key = k
BY FirstThere, FirstAbsent

\* The value found is a value.
LEMMA ValueInType ==
  ASSUME NEW b, NEW s \in Seq(Entries), Clean(b, s), NEW k
  PROVE  ValueIn(s, k) \in Values \cup {NoValue}
<1>1. CASE First(s, k) = 0
  BY <1>1 DEF ValueIn
<1>2. CASE First(s, k) \in DOMAIN s /\ First(s, k) # 0
  <2>1. s[First(s, k)] \in Entries
    BY <1>2
  <2> QED
    BY <1>2, <2>1 DEF ValueIn, Entries
<1> QED
  BY <1>1, <1>2, FirstTells

(***************************************************************************)
(* Two clean lists, in each of which k has an entry with the same value or *)
(* none, give k the same value.                                            *)
(***************************************************************************)
LEMMA SameValue ==
  ASSUME NEW b, NEW s \in Seq(Entries), NEW u \in Seq(Entries), Clean(b, s), Clean(b, u), NEW k,
         \A i \in DOMAIN s : s[i].key = k =>
            \E j \in DOMAIN u : u[j].key = k /\ u[j].value = s[i].value,
         \A j \in DOMAIN u : u[j].key = k => \E i \in DOMAIN s : s[i].key = k
  PROVE  ValueIn(u, k) = ValueIn(s, k)
<1>1. CASE \E i \in DOMAIN s : s[i].key = k
  <2>1. PICK i \in DOMAIN s : s[i].key = k
    BY <1>1
  <2>2. PICK j \in DOMAIN u : u[j].key = k /\ u[j].value = s[i].value
    BY <2>1
  <2>3. ValueIn(s, k) = s[i].value
    BY <2>1, FirstThere
  <2>4. ValueIn(u, k) = u[j].value
    BY <2>2, FirstThere
  <2> QED
    BY <2>2, <2>3, <2>4
<1>2. CASE ~\E i \in DOMAIN s : s[i].key = k
  <2>1. (\A i \in DOMAIN s : s[i].key # k) /\ (\A j \in DOMAIN u : u[j].key # k)
    BY <1>2
  <2> QED
    BY <2>1, FirstAbsent
<1> QED
  BY <1>1, <1>2

\* list.push_back of an entry whose key is not in the list.
LEMMA PushBack ==
  ASSUME NEW b, NEW s \in Seq(Entries), Clean(b, s), NEW e \in Entries, getBucket(e.key) = b,
         \A i \in DOMAIN s : s[i].key # e.key
  PROVE  /\ Append(s, e) \in Seq(Entries) /\ Clean(b, Append(s, e))
         /\ ValueIn(Append(s, e), e.key) = e.value
         /\ \A k : k # e.key => ValueIn(Append(s, e), k) = ValueIn(s, k)
<1> DEFINE u == Append(s, e)
<1>1. /\ u \in Seq(Entries) /\ DOMAIN u = 1 .. Len(s) + 1 /\ DOMAIN s = 1 .. Len(s)
      /\ Len(s) \in Nat
      /\ u[Len(s) + 1] = e
      /\ \A i \in DOMAIN s : i \in DOMAIN u /\ u[i] = s[i]
      /\ \A i \in DOMAIN u : i \in DOMAIN s \/ i = Len(s) + 1
  OBVIOUS
<1> HIDE DEF u
<1>2. Clean(b, u)
  BY <1>1 DEF Clean
<1>3. ValueIn(u, e.key) = e.value
  <2>1. Len(s) + 1 \in DOMAIN u
    BY <1>1
  <2> QED
    BY <1>1, <1>2, <2>1, FirstThere
<1>4. ASSUME NEW k, k # e.key PROVE ValueIn(u, k) = ValueIn(s, k)
  <2>1. \A i \in DOMAIN s : s[i].key = k => \E j \in DOMAIN u : u[j].key = k /\ u[j].value = s[i].value
    BY <1>1, Zenon
  <2>2. \A j \in DOMAIN u : u[j].key = k => \E i \in DOMAIN s : s[i].key = k
    BY <1>1, <1>4, Zenon
  <2> QED
    BY <1>1, <1>2, <2>1, <2>2, SameValue
<1> QED
  BY <1>1, <1>2, <1>3, <1>4 DEF u

\* The value of the entry found is overwritten.
LEMMA Overwrite ==
  ASSUME NEW b, NEW s \in Seq(Entries), Clean(b, s), NEW e \in Entries,
         NEW n \in DOMAIN s, s[n].key = e.key
  PROVE  /\ [s EXCEPT ![n] = e] \in Seq(Entries) /\ Clean(b, [s EXCEPT ![n] = e])
         /\ ValueIn([s EXCEPT ![n] = e], e.key) = e.value
         /\ \A k : k # e.key => ValueIn([s EXCEPT ![n] = e], k) = ValueIn(s, k)
<1> DEFINE u == [s EXCEPT ![n] = e]
<1>1. /\ u \in Seq(Entries) /\ DOMAIN u = DOMAIN s
      /\ u[n] = e
      /\ \A i \in DOMAIN s : i # n => u[i] = s[i]
      /\ \A i \in DOMAIN s : u[i].key = s[i].key
  OBVIOUS
<1> HIDE DEF u
<1>2. Clean(b, u)
  BY <1>1 DEF Clean
<1>3. ValueIn(u, e.key) = e.value
  BY <1>1, <1>2, FirstThere
<1>4. ASSUME NEW k, k # e.key PROVE ValueIn(u, k) = ValueIn(s, k)
  <2>1. \A i \in DOMAIN s : s[i].key = k => \E j \in DOMAIN u : u[j].key = k /\ u[j].value = s[i].value
    BY <1>1, <1>4, Zenon
  <2>2. \A j \in DOMAIN u : u[j].key = k => \E i \in DOMAIN s : s[i].key = k
    BY <1>1, <1>4, Zenon
  <2> QED
    BY <1>1, <1>2, <2>1, <2>2, SameValue
<1> QED
  BY <1>1, <1>2, <1>3, <1>4 DEF u

\* list.erase of the entry found.
Erased(s, n) == SubSeq(s, 1, n - 1) \o SubSeq(s, n + 1, Len(s))

\* What erase leaves of a list.
LEMMA ErasedIs ==
  ASSUME NEW s \in Seq(Entries), NEW n \in DOMAIN s
  PROVE  /\ Erased(s, n) \in Seq(Entries)
         /\ Len(Erased(s, n)) = Len(s) - 1
         /\ \A i \in 1 .. Len(s) - 1 : Erased(s, n)[i] = IF i < n THEN s[i] ELSE s[i + 1]
<1> DEFINE l == SubSeq(s, 1, n - 1)
           r == SubSeq(s, n + 1, Len(s))
<1>0. Len(s) \in Nat /\ n \in 1 .. Len(s) /\ DOMAIN s = 1 .. Len(s)
  OBVIOUS
<1>1. /\ l \in Seq(Entries) /\ Len(l) = n - 1
      /\ \A i \in 1 .. n - 1 : l[i] = s[i]
  BY <1>0, SubSeqProperties
<1>2. /\ r \in Seq(Entries) /\ Len(r) = Len(s) - n
      /\ \A i \in 1 .. Len(s) - n : r[i] = s[n + i]
  BY <1>0, SubSeqProperties
<1> HIDE DEF l, r
<1>3. /\ l \o r \in Seq(Entries) /\ Len(l \o r) = Len(l) + Len(r)
      /\ \A i \in 1 .. Len(l) + Len(r) :
           (l \o r)[i] = IF i <= Len(l) THEN l[i] ELSE r[i - Len(l)]
  BY <1>1, <1>2, ConcatProperties
<1>4. Len(l) + Len(r) = Len(s) - 1
  BY <1>0, <1>1, <1>2
<1>5. ASSUME NEW i \in 1 .. Len(s) - 1 PROVE (l \o r)[i] = IF i < n THEN s[i] ELSE s[i + 1]
  <2>1. (l \o r)[i] = IF i <= n - 1 THEN l[i] ELSE r[i - (n - 1)]
    BY <1>1, <1>3, <1>4, <1>5
  <2>2. CASE i < n
    BY <1>0, <1>1, <2>1, <2>2
  <2>3. CASE ~(i < n)
    <3>1. i - (n - 1) \in 1 .. Len(s) - n /\ n + (i - (n - 1)) = i + 1
      BY <1>0, <2>3
    <3>2. r[i - (n - 1)] = s[n + (i - (n - 1))]
      BY <1>2, <3>1
    <3> QED
      BY <1>0, <2>1, <2>3, <3>1, <3>2
  <2> QED
    BY <2>2, <2>3
<1> QED
  BY <1>3, <1>4, <1>5 DEF l, r, Erased

\* No entry of the key is left, and the others keep their values.
LEMMA EraseOne ==
  ASSUME NEW b, NEW s \in Seq(Entries), Clean(b, s), NEW n \in DOMAIN s
  PROVE  /\ Erased(s, n) \in Seq(Entries) /\ Clean(b, Erased(s, n))
         /\ ValueIn(Erased(s, n), s[n].key) = NoValue
         /\ \A k : k # s[n].key => ValueIn(Erased(s, n), k) = ValueIn(s, k)
<1> DEFINE u == Erased(s, n)
           from(i) == IF i < n THEN i ELSE i + 1
           to(i) == IF i < n THEN i ELSE i - 1
<1>0. Len(s) \in Nat /\ n \in 1 .. Len(s) /\ DOMAIN s = 1 .. Len(s)
  OBVIOUS
<1>1. /\ u \in Seq(Entries) /\ DOMAIN u = 1 .. Len(s) - 1
      /\ \A i \in 1 .. Len(s) - 1 : u[i] = IF i < n THEN s[i] ELSE s[i + 1]
  <2>1. /\ u \in Seq(Entries) /\ Len(u) = Len(s) - 1
        /\ \A i \in 1 .. Len(s) - 1 : u[i] = IF i < n THEN s[i] ELSE s[i + 1]
    BY ErasedIs, Zenon
  <2>2. DOMAIN u = 1 .. Len(u)
    BY <2>1
  <2> QED
    BY <2>1, <2>2, Zenon
<1> HIDE DEF u
<1>2. ASSUME NEW i \in DOMAIN u PROVE from(i) \in DOMAIN s /\ from(i) # n /\ u[i] = s[from(i)]
  <2>1. i \in 1 .. Len(s) - 1 /\ u[i] = IF i < n THEN s[i] ELSE s[i + 1]
    BY <1>1, <1>2
  <2>2. CASE i < n
    BY <1>0, <2>1, <2>2
  <2>3. CASE ~(i < n)
    BY <1>0, <2>1, <2>3
  <2> QED
    BY <2>2, <2>3
<1>3. ASSUME NEW i \in DOMAIN s, i # n PROVE to(i) \in DOMAIN u /\ u[to(i)] = s[i]
  <2>1. CASE i < n
    BY <1>0, <1>1, <1>3, <2>1
  <2>2. CASE i > n
    <3>1. to(i) = i - 1 /\ i - 1 \in 1 .. Len(s) - 1 /\ ~(i - 1 < n) /\ (i - 1) + 1 = i
      BY <1>0, <1>3, <2>2
    <3> QED
      BY <1>1, <3>1
  <2> QED
    BY <1>0, <1>3, <2>1, <2>2
<1>4. \A i, j \in DOMAIN u : from(i) = from(j) => i = j
  BY <1>0, <1>1
<1> HIDE DEF from, to
<1>5. Clean(b, u)
  BY <1>2, <1>4 DEF Clean
<1>6. ValueIn(u, s[n].key) = NoValue
  <2>1. \A i \in DOMAIN u : u[i].key # s[n].key
    BY <1>2 DEF Clean
  <2> QED
    BY <2>1, FirstAbsent
<1>7. ASSUME NEW k, k # s[n].key PROVE ValueIn(u, k) = ValueIn(s, k)
  <2>1. \A i \in DOMAIN s : s[i].key = k => \E j \in DOMAIN u : u[j].key = k /\ u[j].value = s[i].value
    BY <1>3, <1>7, Zenon
  <2>2. \A j \in DOMAIN u : u[j].key = k => \E i \in DOMAIN s : s[i].key = k
    BY <1>2, Zenon
  <2> QED
    BY <1>1, <1>5, <2>1, <2>2, SameValue
<1> QED
  BY <1>1, <1>5, <1>6, <1>7 DEF u

-----------------------------------------------------------------------------
(* The calls *)

\* What a call carries.
LEMMA CallFields ==
  ASSUME NEW c \in Calls
  PROVE  /\ c.op \in {"valueFor", "addOrUpdateFor", "removeFor", "getMap"}
         /\ c.op # "getMap" => c.key \in Keys /\ getBucket(c.key) \in Buckets
         /\ c.op = "addOrUpdateFor" => c.value \in Values
BY BucketOf DEF Calls, ValueFor, AddOrUpdateFor, RemoveFor, GetMap

\* The empty map is a map.
LEMMA EmptyMapType == EmptyMap \in Maps
BY DEF EmptyMap, Maps

\* A list that a found thread may change is held by nobody else.
LEMMA HeldAlone ==
  ASSUME TypeOK, Locked, NEW t \in Threads, NEW u \in Threads, u # t,
         pc[t] = "found", call[t].op \in {"addOrUpdateFor", "removeFor"}
  PROVE  /\ pc[u] # "copying"
         /\ pc[u] = "found" => Bucket(u) # Bucket(t)
<1>1. /\ Bucket(t) \in Buckets
      /\ writer[Bucket(t)] = t
      /\ readers[Bucket(t)] = {}
  BY MapAssumption, CallFields DEF Locked, Exclusive, Holding, Bucket
<1>2. pc[u] # "copying"
  BY <1>1 DEF Locked, Holding
<1>3. pc[u] = "found" => Bucket(u) # Bucket(t)
  BY <1>1 DEF Locked, Holding
<1> QED
  BY <1>2, <1>3

\* addOrUpdateFor leaves a clean list that gives its key the new value.
LEMMA AddStep ==
  ASSUME TypeOK, Locked, ItemValid, OneEntryPerKey, NEW t \in Threads, addOrUpdateFor(t)
  PROVE  /\ data_' \in [Buckets -> Seq(Entries)]
         /\ OneEntryPerKey'
         /\ \A b \in Buckets : b # Bucket(t) => data_'[b] = data_[b]
         /\ View' = [View EXCEPT ![call[t].key] = call[t].value]
         /\ call[t].key \in Keys /\ call[t].value \in Values
<1> DEFINE b == Bucket(t)
           k == call[t].key
           e == [key |-> k, value |-> call[t].value]
           s == data_[b]
           u == IF item[t] = 0 THEN Append(s, e) ELSE [s EXCEPT ![item[t]] = e]
<1>1. pc[t] = "found" /\ call[t].op = "addOrUpdateFor" /\ call[t] \in Calls
  BY DEF addOrUpdateFor, Locked, Holding
<1>2. k \in Keys /\ call[t].value \in Values /\ b \in Buckets /\ b = getBucket(k)
  BY <1>1, CallFields DEF Bucket
<1>3. s \in Seq(Entries) /\ Clean(b, s)
  BY <1>2, OneEntryIsClean DEF TypeOK
<1>4. e \in Entries /\ e.key = k /\ e.value = call[t].value
  BY <1>2 DEF Entries
<1>5. data_' = [data_ EXCEPT ![b] = u]
  BY DEF addOrUpdateFor
<1>6. item[t] = First(s, k)
  BY <1>1, FindIsFirst DEF ItemValid
<1> HIDE DEF b, k, e, s
<1>7. /\ u \in Seq(Entries) /\ Clean(b, u)
      /\ ValueIn(u, k) = call[t].value
      /\ \A x : x # k => ValueIn(u, x) = ValueIn(s, x)
  <2>1. CASE item[t] = 0
    <3>1. \A i \in DOMAIN s : s[i].key # e.key
      BY <1>3, <1>4, <1>6, <2>1, FirstTells
    <3> QED
      BY <1>2, <1>3, <1>4, <2>1, <3>1, PushBack
  <2>2. CASE item[t] # 0
    <3>1. item[t] \in DOMAIN s /\ s[item[t]].key = e.key
      BY <1>3, <1>4, <1>6, <2>2, FirstTells
    <3>2. /\ [s EXCEPT ![item[t]] = e] \in Seq(Entries) /\ Clean(b, [s EXCEPT ![item[t]] = e])
          /\ ValueIn([s EXCEPT ![item[t]] = e], e.key) = e.value
          /\ \A x : x # e.key => ValueIn([s EXCEPT ![item[t]] = e], x) = ValueIn(s, x)
      BY <1>3, <1>4, <3>1, Overwrite, Zenon
    <3> QED
      BY <1>4, <2>2, <3>2, Zenon
  <2> QED
    BY <2>1, <2>2
<1> HIDE DEF u
<1>8. /\ data_' \in [Buckets -> Seq(Entries)]
      /\ data_'[b] = u
      /\ \A c \in Buckets : c # b => data_'[c] = data_[c]
  BY <1>2, <1>5, <1>7 DEF TypeOK
<1>9. OneEntryPerKey'
  BY <1>7, <1>8, OneEntryIsClean
<1>10. View' = [View EXCEPT ![k] = call[t].value]
  <2>1. ASSUME NEW x \in Keys
        PROVE  View'[x] = IF x = k THEN call[t].value ELSE View[x]
    <3>1. /\ View'[x] = ValueIn(data_'[getBucket(x)], x)
          /\ View[x] = ValueIn(data_[getBucket(x)], x)
          /\ getBucket(x) \in Buckets
      BY ViewIsValueIn, BucketOf
    <3> QED
      BY <1>2, <1>7, <1>8, <3>1 DEF s
  <2>2. View = [x \in Keys |-> View[x]] /\ View' = [x \in Keys |-> View'[x]]
    BY DEF View
  <2> QED
    BY <1>2, <2>1, <2>2
<1> QED
  BY <1>2, <1>8, <1>9, <1>10 DEF b, k

\* removeFor leaves a clean list that has no entry for its key.
LEMMA RemoveStep ==
  ASSUME TypeOK, Locked, ItemValid, OneEntryPerKey, NEW t \in Threads, removeFor(t)
  PROVE  /\ data_' \in [Buckets -> Seq(Entries)]
         /\ OneEntryPerKey'
         /\ \A b \in Buckets : b # Bucket(t) => data_'[b] = data_[b]
         /\ View' = [View EXCEPT ![call[t].key] = NoValue]
         /\ call[t].key \in Keys
<1> DEFINE b == Bucket(t)
           k == call[t].key
           s == data_[b]
           u == IF item[t] = 0 THEN s ELSE Erased(s, item[t])
<1>1. pc[t] = "found" /\ call[t].op = "removeFor" /\ call[t] \in Calls
  BY DEF removeFor, Locked, Holding
<1>2. k \in Keys /\ b \in Buckets /\ b = getBucket(k)
  BY <1>1, CallFields DEF Bucket
<1>3. s \in Seq(Entries) /\ Clean(b, s)
  BY <1>2, OneEntryIsClean DEF TypeOK
<1>5. data_' = [data_ EXCEPT ![b] = u]
  BY DEF removeFor, Erased
<1>6. item[t] = First(s, k)
  BY <1>1, FindIsFirst DEF ItemValid
<1> HIDE DEF b, k, s
<1>7. /\ u \in Seq(Entries) /\ Clean(b, u)
      /\ ValueIn(u, k) = NoValue
      /\ \A x : x # k => ValueIn(u, x) = ValueIn(s, x)
  <2>1. CASE item[t] = 0
    BY <1>3, <1>6, <2>1, FirstTells, FirstAbsent
  <2>2. CASE item[t] # 0
    <3>1. item[t] \in DOMAIN s /\ s[item[t]].key = k
      BY <1>3, <1>6, <2>2, FirstTells
    <3> QED
      BY <1>3, <2>2, <3>1, EraseOne
  <2> QED
    BY <2>1, <2>2
<1> HIDE DEF u
<1>8. /\ data_' \in [Buckets -> Seq(Entries)]
      /\ data_'[b] = u
      /\ \A c \in Buckets : c # b => data_'[c] = data_[c]
  BY <1>2, <1>5, <1>7 DEF TypeOK
<1>9. OneEntryPerKey'
  BY <1>7, <1>8, OneEntryIsClean
<1>10. View' = [View EXCEPT ![k] = NoValue]
  <2>1. ASSUME NEW x \in Keys
        PROVE  View'[x] = IF x = k THEN NoValue ELSE View[x]
    <3>1. /\ View'[x] = ValueIn(data_'[getBucket(x)], x)
          /\ View[x] = ValueIn(data_[getBucket(x)], x)
          /\ getBucket(x) \in Buckets
      BY ViewIsValueIn, BucketOf
    <3> QED
      BY <1>2, <1>7, <1>8, <3>1 DEF s
  <2>2. View = [x \in Keys |-> View[x]] /\ View' = [x \in Keys |-> View'[x]]
    BY DEF View
  <2> QED
    BY <1>2, <2>1, <2>2
<1> QED
  BY <1>2, <1>8, <1>9, <1>10 DEF b, k

\* What getMap's inner loop adds, in terms of the list's values.
LEMMA InsertedIs ==
  ASSUME NEW m \in Maps, NEW b, NEW s \in Seq(Entries), Clean(b, s)
  PROVE  /\ Inserted(m, s) = [k \in Keys |-> IF m[k] # NoValue THEN m[k] ELSE ValueIn(s, k)]
         /\ Inserted(m, s) \in Maps
<1>1. ASSUME NEW k \in Keys
      PROVE  Inserted(m, s)[k] = IF m[k] # NoValue THEN m[k] ELSE ValueIn(s, k)
  <2>1. CASE Positions(s, k) = {}
    BY <2>1 DEF Inserted, Positions, ValueIn, First
  <2>2. CASE Positions(s, k) # {}
    <3>1. First(s, k) # 0
      BY <2>2, FirstThere DEF Positions
    <3> QED
      BY <2>2, <3>1 DEF Inserted, Positions, ValueIn, First
  <2> QED
    BY <2>1, <2>2
<1>2. Inserted(m, s) = [k \in Keys |-> Inserted(m, s)[k]]
  BY DEF Inserted
<1>3. ASSUME NEW k \in Keys PROVE Inserted(m, s)[k] \in Values \cup {NoValue}
  BY <1>1, ValueInType DEF Maps
<1> QED
  BY <1>1, <1>2, <1>3 DEF Maps

Inv == TypeOK /\ Locked /\ ItemValid /\ CopyExact /\ OneEntryPerKey

\* A valueFor that found its entry answers with the value of its key.
LEMMA LookupStep ==
  ASSUME Inv, NEW t \in Threads, valueFor(t)
  PROVE  /\ call[t].key \in Keys
         /\ answer' = [answer EXCEPT ![t] = View[call[t].key]]
         /\ View[call[t].key] \in Values \cup {NoValue}
<1>1. /\ pc[t] = "found" /\ call[t].op = "valueFor" /\ call[t] \in Calls
      /\ item[t] = First(data_[Bucket(t)], call[t].key)
  BY FindIsFirst DEF valueFor, Inv, Locked, Holding, ItemValid
<1>2. call[t].key \in Keys /\ Bucket(t) \in Buckets /\ Bucket(t) = getBucket(call[t].key)
  BY <1>1, CallFields DEF Bucket
<1>3. View[call[t].key] = ValueIn(data_[Bucket(t)], call[t].key)
  BY <1>2, ViewIsValueIn
<1>4. answer' = [answer EXCEPT ![t] = ValueIn(data_[Bucket(t)], call[t].key)]
  BY <1>1 DEF valueFor, ValueIn
<1>5. data_[Bucket(t)] \in Seq(Entries) /\ Clean(Bucket(t), data_[Bucket(t)])
  BY <1>2, OneEntryIsClean DEF Inv, TypeOK
<1>6. ValueIn(data_[Bucket(t)], call[t].key) \in Values \cup {NoValue}
  BY <1>5, ValueInType
<1> QED
  BY <1>2, <1>3, <1>4, <1>6

\* Copying one more bucket.
LEMMA CopyStep ==
  ASSUME Inv, NEW t \in Threads, GetMapCopy(t)
  PROVE  /\ res'[t] = [k \in Keys |-> IF getBucket(k) < item'[t] THEN View[k] ELSE NoValue]
         /\ res' \in [Threads -> Maps]
         /\ item'[t] \in 0..NumBuckets
<1> DEFINE n == item[t]
<1>1. /\ pc[t] = "copying" /\ n \in 0..NumBuckets /\ n < NumBuckets /\ NumBuckets \in Nat
      /\ res[t] = [k \in Keys |-> IF getBucket(k) < n THEN View[k] ELSE NoValue]
      /\ res[t] \in Maps
  BY MapAssumption DEF GetMapCopy, Inv, Locked, Holding, CopyExact, TypeOK
<1>2. n \in Buckets
  BY <1>1 DEF Buckets
<1>3. data_[n] \in Seq(Entries) /\ Clean(n, data_[n])
  BY <1>2, OneEntryIsClean DEF Inv, TypeOK
<1>4. /\ Inserted(res[t], data_[n])
           = [k \in Keys |-> IF res[t][k] # NoValue THEN res[t][k] ELSE ValueIn(data_[n], k)]
      /\ Inserted(res[t], data_[n]) \in Maps
  BY <1>1, <1>3, InsertedIs
<1>5. item'[t] = n + 1 /\ res' = [res EXCEPT ![t] = Inserted(res[t], data_[n])]
  BY DEF GetMapCopy, Inv, TypeOK
<1> HIDE DEF n
<1>6. ASSUME NEW k \in Keys
      PROVE  Inserted(res[t], data_[n])[k] = IF getBucket(k) < n + 1 THEN View[k] ELSE NoValue
  <2>1. getBucket(k) \in Nat /\ n \in Nat
    BY <1>2, BucketOf DEF Buckets
  <2>2. View[k] = ValueIn(data_[getBucket(k)], k)
    BY ViewIsValueIn
  <2>3. getBucket(k) # n => ValueIn(data_[n], k) = NoValue
    BY <1>3, FirstAbsent DEF Clean
  <2>4. /\ Inserted(res[t], data_[n])[k]
              = IF res[t][k] # NoValue THEN res[t][k] ELSE ValueIn(data_[n], k)
        /\ res[t][k] = IF getBucket(k) < n THEN View[k] ELSE NoValue
    BY <1>1, <1>4
  <2>5. CASE getBucket(k) = n
    BY <2>1, <2>2, <2>4, <2>5
  <2>6. CASE getBucket(k) # n
    <3>1. (getBucket(k) < n + 1) <=> (getBucket(k) < n)
      BY <2>1, <2>6
    <3> QED
      BY <2>3, <2>4, <2>6, <3>1
  <2> QED
    BY <2>5, <2>6
<1>7. res'[t] = Inserted(res[t], data_[n])
  BY <1>5 DEF Inv, TypeOK
<1>8. Inserted(res[t], data_[n])
        = [k \in Keys |-> IF getBucket(k) < n + 1 THEN View[k] ELSE NoValue]
  BY <1>4, <1>6
<1>9. res' \in [Threads -> Maps]
  BY <1>4, <1>5 DEF Inv, TypeOK
<1>10. n + 1 \in 0..NumBuckets
  BY <1>1
<1> QED
  BY <1>5, <1>7, <1>8, <1>9, <1>10

\* A thread whose call does not move, and whose locks are not taken from it.
LEMMA HoldingKept ==
  ASSUME NEW u \in Threads, Holding(u),
         pc'[u] = pc[u], call'[u] = call[u], item'[u] = item[u], res'[u] = res[u],
         \A b \in Buckets : /\ writer[b] = u => writer'[b] = u
                            /\ u \in readers[b] => u \in readers'[b]
  PROVE  Holding(u)'
<1>1. pc[u] = "found" => Bucket(u) \in Buckets /\ Bucket(u)' = Bucket(u)
  BY CallFields DEF Holding, Bucket
<1> QED
  BY <1>1 DEF Holding

\* The types and the locks after the end of a call.
LEMMA ReturnStep ==
  ASSUME TypeOK, Locked, NEW t \in Threads, Return(t),
         data_' \in [Buckets -> Seq(Entries)],
         answer' \in [Threads -> Values \cup {NoValue} \cup Maps]
  PROVE  TypeOK' /\ Locked'
<1>1. TypeOK'
  BY MapAssumption, EmptyMapType DEF Return, TypeOK
<1>2. Exclusive'
  BY MapAssumption DEF Return, TypeOK, Locked, Exclusive
<1>3. Holding(t)'
  BY DEF Return, TypeOK, Holding
<1>4. ASSUME NEW u \in Threads, u # t PROVE Holding(u)'
  <2>1. pc'[u] = pc[u] /\ call'[u] = call[u] /\ item'[u] = item[u] /\ res'[u] = res[u]
    BY <1>4 DEF Return, TypeOK
  <2>2. \A b \in Buckets : /\ writer[b] = u => writer'[b] = u
                           /\ u \in readers[b] => u \in readers'[b]
    BY <1>4 DEF Return
  <2> QED
    BY <2>1, <2>2, HoldingKept DEF Locked
<1> QED
  BY <1>1, <1>2, <1>3, <1>4 DEF Locked

\* Calls that begin, lock and copy keep the types and the locks.
LEMMA LockStep ==
  ASSUME Inv, NEW t \in Threads,
         Call(t) \/ LockShared(t) \/ LockUnique(t) \/ GetMapLock(t) \/ GetMapCopy(t)
  PROVE  TypeOK' /\ Locked'
<1> USE DEF Inv
<1>1. CASE Call(t)
  <2>1. TypeOK'
    BY <1>1, MapAssumption DEF Call, TypeOK
  <2>2. Holding(t)'
    BY <1>1, MapAssumption DEF Call, TypeOK, Locked, Holding, Buckets
  <2>3. ASSUME NEW u \in Threads, u # t PROVE Holding(u)'
    BY <1>1, <2>3, HoldingKept DEF Call, TypeOK, Locked
  <2>4. Exclusive'
    BY <1>1 DEF Call, Locked, Exclusive
  <2> QED
    BY <2>1, <2>2, <2>3, <2>4 DEF Locked
<1>2. CASE LockShared(t)
  <2>0. Bucket(t) \in Buckets /\ Bucket(t)' = Bucket(t) /\ call[t] \in Calls
    BY <1>2, CallFields DEF LockShared, Locked, Holding, Bucket
  <2>1. item'[t] \in Nat /\ item' = [item EXCEPT ![t] = item'[t]]
    <3>1. data_[Bucket(t)] \in Seq(Entries) /\ Clean(Bucket(t), data_[Bucket(t)])
      BY <2>0, OneEntryIsClean DEF TypeOK
    <3>2. First(data_[Bucket(t)], call[t].key) \in Nat
      BY <3>1, FirstTells
    <3> QED
      BY <1>2, <3>2, FindIsFirst DEF LockShared, TypeOK
  <2>2. TypeOK'
    BY <1>2, <2>0, <2>1 DEF LockShared, TypeOK
  <2>3. Holding(t)'
    BY <1>2, <2>0 DEF LockShared, TypeOK, Holding
  <2>4. ASSUME NEW u \in Threads, u # t PROVE Holding(u)'
    BY <1>2, <2>0, <2>4, HoldingKept DEF LockShared, TypeOK, Locked
  <2>5. Exclusive'
    BY <1>2, <2>0 DEF LockShared, TypeOK, Locked, Exclusive
  <2> QED
    BY <2>2, <2>3, <2>4, <2>5 DEF Locked
<1>3. CASE LockUnique(t)
  <2>0. Bucket(t) \in Buckets /\ Bucket(t)' = Bucket(t) /\ call[t] \in Calls
    BY <1>3, CallFields DEF LockUnique, Locked, Holding, Bucket
  <2>1. item'[t] \in Nat /\ item' = [item EXCEPT ![t] = item'[t]]
    <3>1. data_[Bucket(t)] \in Seq(Entries) /\ Clean(Bucket(t), data_[Bucket(t)])
      BY <2>0, OneEntryIsClean DEF TypeOK
    <3>2. First(data_[Bucket(t)], call[t].key) \in Nat
      BY <3>1, FirstTells
    <3> QED
      BY <1>3, <3>2, FindIsFirst DEF LockUnique, TypeOK
  <2>2. TypeOK'
    BY <1>3, <2>0, <2>1 DEF LockUnique, TypeOK
  <2>3. Holding(t)'
    BY <1>3, <2>0 DEF LockUnique, TypeOK, Holding
  <2>4. ASSUME NEW u \in Threads, u # t PROVE Holding(u)'
    BY <1>3, <2>0, <2>4, MapAssumption, HoldingKept DEF LockUnique, TypeOK, Locked
  <2>5. Exclusive'
    BY <1>3, <2>0 DEF LockUnique, TypeOK, Locked, Exclusive
  <2> QED
    BY <2>2, <2>3, <2>4, <2>5 DEF Locked
<1>4. CASE GetMapLock(t)
  <2>0. /\ item[t] \in Buckets /\ NumBuckets \in Nat \ {0} /\ call[t] \in Calls
        /\ \A b \in Buckets : b < item[t] => writer[b] = t
    BY <1>4, MapAssumption DEF GetMapLock, Locked, Holding
  <2>1. /\ item' = [item EXCEPT ![t] = IF item[t] = NumBuckets - 1 THEN 0 ELSE item[t] + 1]
        /\ pc' = IF item[t] = NumBuckets - 1 THEN [pc EXCEPT ![t] = "copying"] ELSE pc
        /\ writer' = [writer EXCEPT ![item[t]] = t]
        /\ UNCHANGED <<data_, readers, call, res, answer, calls>>
    <3>1. (item[t] + 1) % NumBuckets = IF item[t] = NumBuckets - 1 THEN 0 ELSE item[t] + 1
      BY <2>0 DEF Buckets
    <3> QED
      BY <1>4, <3>1 DEF GetMapLock
  <2>2. TypeOK'
    BY <2>0, <2>1 DEF TypeOK, Buckets
  <2>3. Holding(t)'
    <3>1. /\ pc[t] = "locking" /\ call[t].op = "getMap" /\ res[t] = EmptyMap
          /\ call'[t] = call[t] /\ res'[t] = res[t]
      BY <1>4, <2>1 DEF GetMapLock, Locked, Holding
    <3>2. \A b \in Buckets : b < item[t] + 1 => writer'[b] = t
      BY <2>0, <2>1 DEF TypeOK, Buckets
    <3>3. CASE item[t] = NumBuckets - 1
      <4>1. pc'[t] = "copying" /\ item'[t] = 0 /\ \A b \in Buckets : writer'[b] = t
        BY <2>0, <2>1, <3>2, <3>3 DEF TypeOK, Buckets
      <4> QED
        BY <2>0, <3>1, <4>1 DEF Holding
    <3>4. CASE item[t] # NumBuckets - 1
      <4>0. item[t] + 1 \in Buckets
        BY <2>0, <3>4 DEF Buckets
      <4>1. pc'[t] = "locking" /\ item'[t] = item[t] + 1 /\ item'[t] \in Buckets
        BY <2>1, <3>1, <3>4, <4>0 DEF TypeOK
      <4>2. \A b \in Buckets : b < item'[t] => writer'[b] = t
        BY <3>2, <4>1
      <4> QED
        BY <2>0, <3>1, <4>1, <4>2, Zenon DEF Holding
    <3> QED
      BY <3>3, <3>4
  <2>4. ASSUME NEW u \in Threads, u # t PROVE Holding(u)'
    <3>1. pc'[u] = pc[u] /\ call'[u] = call[u] /\ item'[u] = item[u] /\ res'[u] = res[u]
      BY <2>1, <2>4 DEF TypeOK
    <3>2. \A b \in Buckets : /\ writer[b] = u => writer'[b] = u
                             /\ u \in readers[b] => u \in readers'[b]
      BY <1>4, <2>0, <2>1, <2>4, MapAssumption DEF GetMapLock, TypeOK
    <3> QED
      BY <3>1, <3>2, HoldingKept DEF Locked
  <2>5. Exclusive'
    BY <1>4, <2>0, <2>1 DEF GetMapLock, TypeOK, Locked, Exclusive
  <2> QED
    BY <2>2, <2>3, <2>4, <2>5 DEF Locked
<1>5. CASE GetMapCopy(t)
  <2>1. TypeOK'
    <3>1. res' \in [Threads -> Maps]
      BY <1>5, CopyStep
    <3>2. item' \in [Threads -> Nat]
      BY <1>5 DEF GetMapCopy, TypeOK
    <3> QED
      BY <1>5, <3>1, <3>2 DEF GetMapCopy, TypeOK
  <2>2. Holding(t)'
    <3>1. /\ pc[t] = "copying" /\ pc' = pc /\ call' = call /\ writer' = writer
          /\ item'[t] \in 0..NumBuckets
      BY <1>5, CopyStep DEF GetMapCopy
    <3> QED
      BY <3>1 DEF Locked, Holding
  <2>3. ASSUME NEW u \in Threads, u # t PROVE Holding(u)'
    BY <1>5, <2>3, HoldingKept DEF GetMapCopy, TypeOK, Locked
  <2>4. Exclusive'
    BY <1>5 DEF GetMapCopy, Locked, Exclusive
  <2> QED
    BY <2>1, <2>2, <2>3, <2>4 DEF Locked
<1> QED
  BY <1>1, <1>2, <1>3, <1>4, <1>5

\* Looking up, returning and copying leave the entries alone.
LEMMA DataKept ==
  ASSUME data_' = data_
  PROVE  View' = View /\ (OneEntryPerKey => OneEntryPerKey')
BY DEF View, findEntryFor, OneEntryPerKey

\* The entry that a thread has found is still the one when the thread uses it.
LEMMA ItemStep ==
  ASSUME Inv, NEW t \in Threads, Call(t) \/ Step(t)
  PROVE  ItemValid'
<1>1. ASSUME NEW u \in Threads, u # t, pc'[u] = "found"
      PROVE  item'[u] = findEntryFor(Bucket(u), call[u].key)' /\ call'[u] = call[u]
  <2>1. pc[u] = "found" /\ call'[u] = call[u] /\ item'[u] = item[u]
    BY <1>1 DEF Inv, TypeOK, Call, Step, LockShared, valueFor, LockUnique, addOrUpdateFor,
                removeFor, GetMapLock, GetMapCopy, getMap, Return
  <2>2. Bucket(u) \in Buckets /\ Bucket(u)' = Bucket(u)
    BY <2>1, CallFields DEF Inv, Locked, Holding, Bucket
  <2>3. item[u] = First(data_[Bucket(u)], call[u].key)
    BY <2>1, FindIsFirst DEF Inv, ItemValid
  <2>4. data_'[Bucket(u)] = data_[Bucket(u)]
    <3>1. CASE data_' = data_
      BY <3>1
    <3>2. CASE addOrUpdateFor(t)
      BY <1>1, <2>1, <2>2, <3>2, HeldAlone, AddStep DEF Inv, addOrUpdateFor
    <3>3. CASE removeFor(t)
      BY <1>1, <2>1, <2>2, <3>3, HeldAlone, RemoveStep DEF Inv, removeFor
    <3> QED
      BY <3>1, <3>2, <3>3 DEF Call, Step, LockShared, valueFor, LockUnique, GetMapLock,
                              GetMapCopy, getMap
  <2> QED
    BY <2>1, <2>2, <2>3, <2>4, FindIsFirst
<1>2. ASSUME pc'[t] = "found" PROVE item'[t] = findEntryFor(Bucket(t), call[t].key)'
  <2>1. LockShared(t) \/ LockUnique(t)
    BY <1>2 DEF Inv, TypeOK, Locked, Holding, Call, Step, valueFor, addOrUpdateFor, removeFor,
                GetMapLock, GetMapCopy, getMap, Return
  <2>2. data_' = data_ /\ call' = call /\ item'[t] = findEntryFor(Bucket(t), call[t].key)
    BY <2>1 DEF LockShared, LockUnique, Inv, TypeOK
  <2>3. Bucket(t)' = Bucket(t)
    BY <2>2 DEF Bucket
  <2> QED
    BY <2>2, <2>3, FindIsFirst
<1> QED
  BY <1>1, <1>2 DEF ItemValid

\* Nobody changes an entry while getMap copies.
LEMMA ExactStep ==
  ASSUME Inv, NEW t \in Threads, Call(t) \/ Step(t)
  PROVE  CopyExact'
<1>1. ASSUME NEW u \in Threads, u # t, pc'[u] = "copying"
      PROVE  res'[u] = [k \in Keys |-> IF getBucket(k) < item'[u] THEN View'[k] ELSE NoValue]
  <2>1. pc[u] = "copying" /\ res'[u] = res[u] /\ item'[u] = item[u]
    BY <1>1 DEF Inv, TypeOK, Call, Step, LockShared, valueFor, LockUnique, addOrUpdateFor,
                removeFor, GetMapLock, GetMapCopy, getMap, Return
  <2>2. ~addOrUpdateFor(t) /\ ~removeFor(t)
    BY <1>1, <2>1, HeldAlone DEF Inv, addOrUpdateFor, removeFor
  <2>3. View' = View
    BY <2>2, DataKept DEF Call, Step, LockShared, valueFor, LockUnique, GetMapLock,
                          GetMapCopy, getMap
  <2> QED
    BY <2>1, <2>3 DEF Inv, CopyExact
<1>2. ASSUME pc'[t] = "copying"
      PROVE  res'[t] = [k \in Keys |-> IF getBucket(k) < item'[t] THEN View'[k] ELSE NoValue]
  <2>1. GetMapLock(t) \/ GetMapCopy(t)
    BY <1>2 DEF Inv, TypeOK, Call, Step, LockShared, valueFor, LockUnique, addOrUpdateFor,
                removeFor, getMap, Return
  <2>2. View' = View
    BY <2>1, DataKept DEF GetMapLock, GetMapCopy
  <2>3. CASE GetMapCopy(t)
    BY <2>2, <2>3, CopyStep
  <2>4. CASE GetMapLock(t)
    <3>1. item[t] = NumBuckets - 1 /\ res'[t] = EmptyMap
      BY <1>2, <2>4 DEF GetMapLock, Inv, TypeOK, Locked, Holding
    <3>2. item'[t] = 0
      BY <2>4, <3>1, MapAssumption DEF GetMapLock, Inv, TypeOK
    <3>3. \A k \in Keys : ~(getBucket(k) < 0)
      BY BucketOf, MapAssumption DEF Buckets
    <3> QED
      BY <3>1, <3>2, <3>3 DEF EmptyMap
  <2> QED
    BY <2>1, <2>3, <2>4
<1> QED
  BY <1>1, <1>2 DEF CopyExact

\* The whole invariant is inductive.
LEMMA InvStep == Inv /\ [Next]_vars => Inv'
<1> SUFFICES ASSUME Inv, [Next]_vars PROVE Inv'
  OBVIOUS
<1>1. ASSUME NEW t \in Threads, Call(t) \/ Step(t) PROVE TypeOK' /\ Locked' /\ OneEntryPerKey'
  <2>1. CASE Call(t) \/ LockShared(t) \/ LockUnique(t) \/ GetMapLock(t) \/ GetMapCopy(t)
    <3>1. data_' = data_
      BY <2>1 DEF Call, LockShared, LockUnique, GetMapLock, GetMapCopy
    <3> QED
      BY <2>1, <3>1, LockStep, DataKept DEF Inv
  <2>2. CASE valueFor(t)
    <3>1. Return(t) /\ data_' = data_
      BY <2>2 DEF valueFor
    <3>2. answer' \in [Threads -> Values \cup {NoValue} \cup Maps]
      BY <2>2, LookupStep DEF Inv, TypeOK
    <3> QED
      BY <3>1, <3>2, ReturnStep, DataKept DEF Inv, TypeOK
  <2>3. CASE addOrUpdateFor(t)
    <3>1. Return(t) /\ answer' = answer
      BY <2>3 DEF addOrUpdateFor
    <3> QED
      BY <2>3, <3>1, AddStep, ReturnStep DEF Inv, TypeOK
  <2>4. CASE removeFor(t)
    <3>1. Return(t) /\ answer' = answer
      BY <2>4 DEF removeFor
    <3> QED
      BY <2>4, <3>1, RemoveStep, ReturnStep DEF Inv, TypeOK
  <2>5. CASE getMap(t)
    <3>1. Return(t) /\ data_' = data_
      BY <2>5 DEF getMap
    <3>2. answer' \in [Threads -> Values \cup {NoValue} \cup Maps]
      BY <2>5 DEF getMap, Inv, TypeOK
    <3> QED
      BY <3>1, <3>2, ReturnStep, DataKept DEF Inv, TypeOK
  <2> QED
    BY <1>1, <2>1, <2>2, <2>3, <2>4, <2>5 DEF Step
<1>2. ASSUME NEW t \in Threads, Call(t) \/ Step(t) PROVE Inv'
  BY <1>1, <1>2, ItemStep, ExactStep DEF Inv
<1>3. CASE UNCHANGED vars
  <2>1. TypeOK' /\ Exclusive'
    BY <1>3 DEF vars, Inv, TypeOK, Locked, Exclusive
  <2>2. \A t \in Threads : Holding(t)'
    BY <1>3, HoldingKept DEF vars, Inv, Locked
  <2>3. OneEntryPerKey' /\ CopyExact'
    BY <1>3, DataKept DEF vars, Inv, CopyExact
  <2>4. ItemValid'
    BY <1>3, FindIsFirst DEF vars, Inv, ItemValid, Bucket
  <2> QED
    BY <2>1, <2>2, <2>3, <2>4 DEF Inv, Locked
<1> QED
  BY <1>2, <1>3 DEF Next

\* An empty map satisfies it.
LEMMA InvInit == Init => Inv
<1> SUFFICES ASSUME Init PROVE Inv
  OBVIOUS
<1>1. TypeOK
  BY MapAssumption, EmptyMapType DEF Init, TypeOK
<1>2. Locked
  BY DEF Init, Locked, Exclusive, Holding
<1> QED
  BY <1>1, <1>2 DEF Init, Inv, ItemValid, CopyExact, OneEntryPerKey

\* It holds throughout.
LEMMA InvHolds == Spec => []Inv
BY InvInit, InvStep, PTL DEF Spec

\* The variables of the map keep their types.
THEOREM TypeCorrect == Spec => []TypeOK
<1>1. Inv => TypeOK
  BY DEF Inv
<1> QED
  BY <1>1, InvHolds, PTL

(***************************************************************************)
(* However updates and removals of a key race, its bucket has at most one  *)
(* entry for it, and no other bucket has one.                              *)
(***************************************************************************)
THEOREM OneEntryPerKeyHolds == Spec => []OneEntryPerKey
<1>1. Inv => OneEntryPerKey
  BY DEF Inv
<1> QED
  BY <1>1, InvHolds, PTL

-----------------------------------------------------------------------------
(* The refinement *)

\* Every step is a step of the atomic map, or none.
LEMMA RefinementStep == Inv /\ [Next]_vars => [Atomic!MapNext]_(Atomic!mapVars)
<1> SUFFICES ASSUME Inv, [Next]_vars PROVE [Atomic!MapNext]_(Atomic!mapVars)
  OBVIOUS
<1> USE DEF Atomic!MapNext, Atomic!mapVars
<1>1. ASSUME View' = View, AtomicAnswer' = AtomicAnswer PROVE [Atomic!MapNext]_(Atomic!mapVars)
  BY <1>1
<1>2. ASSUME NEW t \in Threads, Call(t) \/ LockShared(t) \/ LockUnique(t) \/ GetMapCopy(t)
      PROVE  [Atomic!MapNext]_(Atomic!mapVars)
  <2>1. data_' = data_ /\ answer' = answer
    BY <1>2 DEF Call, LockShared, LockUnique, GetMapCopy
  <2>2. \A u \in Threads : pc'[u] = "copying" <=> pc[u] = "copying"
    BY <1>2 DEF Call, LockShared, LockUnique, GetMapCopy, Inv, TypeOK
  <2>3. View' = View
    BY <2>1, DataKept
  <2>4. AtomicAnswer' = AtomicAnswer
    BY <2>1, <2>2, <2>3 DEF AtomicAnswer
  <2> QED
    BY <1>1, <2>3, <2>4
<1>3. ASSUME NEW t \in Threads, GetMapLock(t) PROVE [Atomic!MapNext]_(Atomic!mapVars)
  <2>1. data_' = data_ /\ answer' = answer
    BY <1>3 DEF GetMapLock
  <2>2. View' = View
    BY <2>1, DataKept
  <2>3. CASE pc' = pc
    <3>1. AtomicAnswer' = AtomicAnswer
      BY <2>1, <2>2, <2>3 DEF AtomicAnswer
    <3> QED
      BY <1>1, <2>2, <3>1
  <2>4. CASE pc' = [pc EXCEPT ![t] = "copying"]
    <3>1. AtomicAnswer' = [AtomicAnswer EXCEPT ![t] = View]
      BY <2>1, <2>2, <2>4 DEF AtomicAnswer, Inv, TypeOK
    <3>2. Atomic!Snapshot(t)
      BY <2>2, <3>1 DEF Atomic!Snapshot
    <3> QED
      BY <3>2
  <2> QED
    BY <1>3, <2>3, <2>4 DEF GetMapLock
<1>4. ASSUME NEW t \in Threads, valueFor(t) PROVE [Atomic!MapNext]_(Atomic!mapVars)
  <2>1. data_' = data_ /\ pc' = [pc EXCEPT ![t] = "idle"] /\ pc[t] = "found"
    BY <1>4 DEF valueFor, Return
  <2>2. View' = View
    BY <2>1, DataKept
  <2>3. AtomicAnswer' = [AtomicAnswer EXCEPT ![t] = View[call[t].key]]
    BY <1>4, <2>1, <2>2, LookupStep DEF AtomicAnswer, Inv, TypeOK
  <2>4. Atomic!Get(t, call[t].key) /\ call[t].key \in Keys
    BY <1>4, <2>2, <2>3, LookupStep DEF Atomic!Get
  <2> QED
    BY <2>4
<1>5. ASSUME NEW t \in Threads, addOrUpdateFor(t) \/ removeFor(t)
      PROVE  AtomicAnswer' = AtomicAnswer
  <2>1. /\ pc[t] = "found" /\ call[t].op \in {"addOrUpdateFor", "removeFor"}
        /\ answer' = answer /\ pc' = [pc EXCEPT ![t] = "idle"]
    BY <1>5 DEF addOrUpdateFor, removeFor, Return
  <2>2. \A u \in Threads : pc[u] # "copying"
    BY <2>1, HeldAlone DEF Inv
  <2>3. \A u \in Threads : pc'[u] # "copying"
    BY <2>1, <2>2 DEF Inv, TypeOK
  <2> QED
    BY <2>1, <2>2, <2>3 DEF AtomicAnswer
<1>6. ASSUME NEW t \in Threads, addOrUpdateFor(t) PROVE [Atomic!MapNext]_(Atomic!mapVars)
  <2>1. Atomic!Put(call[t].key, call[t].value) /\ call[t].key \in Keys /\ call[t].value \in Values
    BY <1>5, <1>6, AddStep DEF Inv, Atomic!Put
  <2> QED
    BY <2>1
<1>7. ASSUME NEW t \in Threads, removeFor(t) PROVE [Atomic!MapNext]_(Atomic!mapVars)
  <2>1. Atomic!Delete(call[t].key) /\ call[t].key \in Keys
    BY <1>5, <1>7, RemoveStep DEF Inv, Atomic!Delete
  <2> QED
    BY <2>1
<1>8. ASSUME NEW t \in Threads, getMap(t) PROVE [Atomic!MapNext]_(Atomic!mapVars)
  <2>1. /\ data_' = data_ /\ pc' = [pc EXCEPT ![t] = "idle"] /\ pc[t] = "copying"
        /\ answer' = [answer EXCEPT ![t] = res[t]] /\ item[t] = NumBuckets
    BY <1>8 DEF getMap, Return
  <2>2. View' = View
    BY <2>1, DataKept
  <2>3. res[t] = View
    <3>1. \A k \in Keys : getBucket(k) < NumBuckets
      BY BucketOf, MapAssumption DEF Buckets
    <3>2. res[t] = [k \in Keys |-> View[k]]
      BY <2>1, <3>1 DEF Inv, CopyExact
    <3> QED
      BY <3>2 DEF View
  <2>4. AtomicAnswer' = AtomicAnswer
    BY <2>1, <2>2, <2>3 DEF AtomicAnswer, Inv, TypeOK
  <2> QED
    BY <1>1, <2>2, <2>4
<1>9. CASE UNCHANGED vars
  BY <1>1, <1>9, DataKept DEF vars, AtomicAnswer
<1> QED
  BY <1>2, <1>3, <1>4, <1>6, <1>7, <1>8, <1>9 DEF Next, Step

(***************************************************************************)
(* Every call of SafeMap, getMap's copy of all the buckets included, takes *)
(* effect at one moment: the steps of the map are those of AtomicMap.      *)
(***************************************************************************)
THEOREM Refinement == Spec => ImplementsAtomicMap
<1>1. Init => Atomic!MapInit
  <2> SUFFICES ASSUME Init PROVE Atomic!MapInit
    OBVIOUS
  <2>1. View = [k \in Keys |-> NoValue]
    BY BucketOf DEF Init, View, findEntryFor
  <2>2. AtomicAnswer = [t \in Threads |-> NoValue]
    BY DEF Init, AtomicAnswer
  <2> QED
    BY <2>1, <2>2 DEF Atomic!MapInit
<1> QED
  BY <1>1, InvHolds, RefinementStep, PTL DEF Spec, ImplementsAtomicMap, Atomic!MapSpec

-----------------------------------------------------------------------------
(***************************************************************************)
(* SafeList.  Its model shares nothing with SafeMap's but the names of a   *)
(* few constants and variables, and no theorem is about both.              *)
(***************************************************************************)
CONSTANT MaxPushes
VARIABLES next_, mt_, tail_, global_mt_, allocated, undefined, node, old_tail,
          fronts, backs, todo, seen

List == INSTANCE SafeList

(***************************************************************************)
(* The values of the list, counted so that a push never moves them: those  *)
(* of pushBack are 1, 2, ... and those of pushFront 0, -1, ...             *)
(***************************************************************************)
Lo        == 1 - Len(fronts)
Hi        == Len(backs)
At(z)     == IF z >= 1 THEN backs[z] ELSE fronts[1 - z]
FirstNode == IF Lo <= Hi THEN At(Lo) ELSE List!Null
Seg(a, b) == [i \in 1..b - a + 1 |-> At(a + i - 1)]

Taking(t)      == call[t] = "pushFront" /\ pc[t] = "taken"
FrontLinked(t) == call[t] = "pushFront" /\ pc[t] = "linked"
BackLinked(t)  == call[t] = "pushBack" /\ pc[t] = "linked"
Unlinked(t)    == call[t] \in List!Pushes /\ pc[t] \in {"begin", "taken", "read", "locked", "global"}
Visiting(t)    == call[t] \in List!Traversals /\ pc[t] = "at"

ListPlaces == {"idle", "begin", "taken", "linked", "read", "locked", "global", "at"}

\* The list, the locks and the threads have their types.
ListShape ==
  /\ MaxPushes \in Nat /\ NoThread \notin Threads
  /\ next_ \in [List!Nodes -> (1..MaxPushes) \cup {List!Null}]
  /\ mt_ \in [List!Nodes -> Threads \cup {NoThread}]
  /\ allocated \in 0..MaxPushes
  /\ call \in [Threads -> List!Pushes \cup List!Traversals \cup {"none"}]
  /\ pc \in [Threads -> ListPlaces]
  /\ node \in [Threads -> List!Nodes \cup {List!Null}]
  /\ fronts \in Seq(List!Nodes) /\ backs \in Seq(List!Nodes)
  /\ DOMAIN todo = Threads /\ seen \in [Threads -> Seq(List!Nodes)]

\* Who changes or reads the successor of head_ has its mutex, and who moves tail_ has global_mt_.
LocksOf(t) ==
  /\ Taking(t) \/ FrontLinked(t) => mt_[List!head_] = t
  /\ Visiting(t) => node[t] \in List!Nodes /\ (node[t] = List!head_ => mt_[List!head_] = t)
  /\ call[t] = "pushBack" /\ pc[t] \in {"global", "linked"} => global_mt_ = t
  /\ call[t] = "pushBack" /\ pc[t] \in {"read", "locked", "global", "linked"} =>
       tail_ # List!Unset \/ undefined

\* A push that has not linked its node is alone with it.
Owns(t) ==
  Unlinked(t) =>
    /\ node[t] \in 1..allocated
    /\ \A u \in Threads : Unlinked(u) /\ node[u] = node[t] => u = t
    /\ \A z \in Lo..Hi : At(z) # node[t]

\* The nodes are linked in their order.
Joined ==
  /\ \A z \in Lo..Hi : At(z) \in 1..allocated
  /\ \A y, z \in Lo..Hi : At(y) = At(z) => y = z
  /\ \A z \in Lo..Hi - 1 : next_[At(z)] = At(z + 1)
  /\ Lo <= Hi => next_[At(Hi)] = List!Null
  /\ \A n \in 1..MaxPushes :
       (\A z \in Lo..Hi : At(z) # n) => next_[n] = List!Null \/ \E t \in Threads : Taking(t) /\ node[t] = n

\* head_ leads to the first one, but for a pushFront between its two steps.
Headed ==
  /\ (\A t \in Threads : ~Taking(t)) => next_[List!head_] = FirstNode
  /\ \A t \in Threads :
       /\ Taking(t) => next_[List!head_] = List!Null /\ next_[node[t]] = FirstNode
       /\ FrontLinked(t) => Lo <= 0 /\ node[t] = At(Lo)

\* tail_ is the last one, but for the first pushFront and a pushBack between its two steps.
Tailed ==
  /\ tail_ = List!Unset => Hi = 0 /\ Lo >= 0 /\ (Lo = 0 => \E t \in Threads : FrontLinked(t))
  /\ tail_ # List!Unset =>
       /\ Lo <= 0
       /\ (\A t \in Threads : ~BackLinked(t)) => tail_ = At(Hi)
       /\ \A t \in Threads : BackLinked(t) => Hi >= 1 /\ tail_ = At(Hi - 1)

\* forEach began when the list had the places lo to hi, and has come to m.
Visited(t, lo, hi, m) ==
  /\ todo[t] = Seg(lo, hi) /\ seen[t] = Seg(lo, m)
  /\ IF node[t] = List!head_ THEN m = lo - 1 /\ lo = Lo ELSE m >= lo /\ node[t] = At(m)

Visits(t) ==
  /\ pc[t] # "at" => seen[t] = << >>
  /\ call[t] = "forEach" /\ pc[t] = "at" =>
       \E lo \in Lo..1, hi \in 0..Hi, m \in Lo - 1..Hi : lo - 1 <= m /\ Visited(t, lo, hi, m)

ListInv ==
  /\ ListShape /\ Joined /\ Headed /\ Tailed
  /\ \A t \in Threads : LocksOf(t) /\ Owns(t) /\ Visits(t)

LEMMA ListBounds ==
  ASSUME ListShape
  PROVE  /\ Lo \in Int /\ Hi \in Nat /\ Lo <= 1
         /\ Len(fronts) \in Nat /\ Len(backs) \in Nat
         /\ \A z \in Lo..Hi : At(z) \in List!Nodes
<1>1. Lo \in Int /\ Hi \in Nat /\ Lo <= 1 /\ Len(fronts) \in Nat /\ Len(backs) \in Nat
  BY DEF ListShape, Lo, Hi
<1>2. ASSUME NEW z \in Lo..Hi PROVE At(z) \in List!Nodes
  <2>1. CASE z >= 1
    <3>1. z \in 1..Len(backs)
      BY <1>1, <2>1 DEF Hi
    <3> QED
      BY <2>1, <3>1, ElementOfSeq DEF At, ListShape
  <2>2. CASE ~(z >= 1)
    <3>1. 1 - z \in 1..Len(fronts)
      BY <1>1, <2>2 DEF Lo
    <3> QED
      BY <2>2, <3>1, ElementOfSeq DEF At, ListShape
  <2> QED
    BY <2>1, <2>2
<1> QED
  BY <1>1, <1>2

LEMMA ListInit ==
  ASSUME List!ListAssumption, List!Init
  PROVE  ListInv
<1>1. fronts = << >> /\ backs = << >> /\ Len(fronts) = 0 /\ Len(backs) = 0
  BY DEF List!Init
<1>2. Lo = 1 /\ Hi = 0 /\ FirstNode = List!Null
  BY <1>1 DEF Lo, Hi, FirstNode
<1>3. ListShape
  BY <1>1 DEF List!Init, List!ListAssumption, ListShape, List!Nodes, ListPlaces
<1>4. \A t \in Threads : pc[t] = "idle" /\ seen[t] = << >>
  BY DEF List!Init
<1>5. ASSUME NEW t \in Threads PROVE LocksOf(t) /\ Owns(t) /\ Visits(t)
  BY <1>4 DEF LocksOf, Owns, Visits, Taking, FrontLinked, Visiting, Unlinked
<1>6. \A n \in List!Nodes : next_[n] = List!Null
  BY DEF List!Init
<1>7. List!head_ \in List!Nodes /\ 1..MaxPushes \subseteq List!Nodes
  BY <1>3 DEF ListShape, List!Nodes, List!head_
<1>8. Joined
  BY <1>2, <1>6, <1>7 DEF Joined
<1>9. Headed
  BY <1>2, <1>4, <1>6, <1>7 DEF Headed, Taking, FrontLinked
<1>10. Tailed
  BY <1>2 DEF Tailed, List!Init
<1> QED
  BY <1>3, <1>5, <1>8, <1>9, <1>10 DEF ListInv

\* The links are the same as long as nobody is taking the list away from head_.
LEMMA LinksKept ==
  ASSUME ListInv, UNCHANGED <<next_, fronts, backs>>,
         allocated \in Int, allocated' \in Int, allocated <= allocated',
         \A u \in Threads : /\ Taking(u)' <=> Taking(u)
                            /\ FrontLinked(u)' => FrontLinked(u)
                            /\ Taking(u)' \/ FrontLinked(u)' => node'[u] = node[u]
  PROVE  Joined' /\ Headed'
<1>1. Lo' = Lo /\ Hi' = Hi /\ FirstNode' = FirstNode
  BY DEF Lo, Hi, FirstNode, At
<1>2. ASSUME NEW z PROVE At(z)' = At(z)
  BY DEF At
<1>3. Joined'
  <2>1. \A z \in Lo..Hi : At(z) \in 1..allocated'
    BY DEF ListInv, Joined
  <2>2. ASSUME NEW n \in 1..MaxPushes, \A z \in Lo..Hi : At(z) # n
        PROVE  next_[n] = List!Null \/ \E t \in Threads : Taking(t)' /\ node'[t] = n
    <3>1. next_[n] = List!Null \/ \E t \in Threads : Taking(t) /\ node[t] = n
      BY <2>2, Zenon DEF ListInv, Joined
    <3> QED
      BY <3>1, Zenon
  <2>3. /\ \A y, z \in Lo..Hi : At(y) = At(z) => y = z
        /\ \A z \in Lo..Hi - 1 : next_[At(z)] = At(z + 1)
        /\ Lo <= Hi => next_[At(Hi)] = List!Null
    BY Zenon DEF ListInv, Joined
  <2> QED
    BY <1>1, <1>2, <2>1, <2>2, <2>3, Zenon DEF Joined
<1>4. Headed'
  BY <1>1, <1>2, Zenon DEF ListInv, Headed
<1> QED
  BY <1>3, <1>4

\* A step that leaves the list alone, and those who are in the middle of linking.
LEMMA ListKept ==
  ASSUME ListInv, UNCHANGED <<next_, tail_, fronts, backs>>,
         allocated \in Int, allocated' \in Int, allocated <= allocated',
         \A u \in Threads : /\ Taking(u)' <=> Taking(u)
                            /\ FrontLinked(u)' <=> FrontLinked(u)
                            /\ BackLinked(u)' <=> BackLinked(u)
                            /\ Taking(u) \/ FrontLinked(u) => node'[u] = node[u]
  PROVE  Joined' /\ Headed' /\ Tailed'
<1>1. Joined' /\ Headed'
  BY LinksKept, Zenon
<1>2. Lo' = Lo /\ Hi' = Hi
  BY DEF Lo, Hi
<1>3. ASSUME NEW z PROVE At(z)' = At(z)
  BY DEF At
<1>4. Tailed'
  BY <1>2, <1>3, Zenon DEF ListInv, Tailed
<1> QED
  BY <1>1, <1>4

\* A part of the list is the same after a push.
LEMMA SegKept ==
  ASSUME ListShape, NEW a \in Int, NEW b \in Int, Lo <= a, b <= Hi,
         \A z \in Lo..Hi : At(z)' = At(z)
  PROVE  Seg(a, b)' = Seg(a, b)
<1>1. ASSUME NEW i \in 1..b - a + 1 PROVE At(a + i - 1)' = At(a + i - 1)
  <2>1. a + i - 1 \in Lo..Hi
    BY ListBounds
  <2> QED
    BY <2>1
<1> QED
  BY <1>1, Zenon DEF Seg

\* What a forEach has seen, and has still to see, is not touched by the steps of others.
LEMMA VisitKept ==
  ASSUME ListInv, ListShape', NEW u \in Threads,
         pc'[u] = pc[u], call'[u] = call[u], node'[u] = node[u],
         todo'[u] = todo[u], seen'[u] = seen[u],
         Lo' <= Lo, Hi <= Hi', \A z \in Lo..Hi : At(z)' = At(z),
         Lo' = Lo \/ (Visiting(u) => node[u] # List!head_)
  PROVE  Visits(u)'
<1> SUFFICES ASSUME call'[u] = "forEach", pc'[u] = "at"
             PROVE  (\E lo \in Lo..1, hi \in 0..Hi, m \in Lo - 1..Hi :
                       lo - 1 <= m /\ Visited(u, lo, hi, m))'
  BY Zenon DEF Visits, ListInv
<1>1. PICK lo \in Lo..1, hi \in 0..Hi, m \in Lo - 1..Hi : lo - 1 <= m /\ Visited(u, lo, hi, m)
  BY DEF ListInv, Visits
<1>2. Lo \in Int /\ Hi \in Nat /\ Lo' \in Int /\ Hi' \in Nat
  BY ListBounds DEF ListInv, ListShape, Lo, Hi
<1>3. lo \in Lo'..1 /\ hi \in 0..Hi' /\ m \in Lo' - 1..Hi'
  BY <1>2
<1>4. Seg(lo, hi)' = Seg(lo, hi) /\ Seg(lo, m)' = Seg(lo, m)
  BY <1>2, SegKept DEF ListInv
<1>5. ASSUME node[u] # List!head_ PROVE At(m)' = At(m)
  <2>1. m >= lo
    BY <1>1, <1>5 DEF Visited
  <2> QED
    BY <1>2, <2>1
<1>7. Lo' = Lo \/ node[u] # List!head_
  BY DEF Visiting, List!Traversals
<1>6. Visited(u, lo, hi, m)'
  BY <1>1, <1>4, <1>5, <1>7, Zenon DEF Visited
<1> QED
  BY <1>1, <1>3, <1>6

\* The locks that a thread has are not lost to others.
LEMMA LocksKept ==
  ASSUME ListInv, NEW u \in Threads,
         pc'[u] = pc[u], call'[u] = call[u], node'[u] = node[u],
         mt_[List!head_] = u => mt_'[List!head_] = u, global_mt_ = u => global_mt_' = u,
         tail_ # List!Unset => tail_' # List!Unset, undefined => undefined'
  PROVE  LocksOf(u)'
<1>1. LocksOf(u)
  BY DEF ListInv
<1>2. List!Nodes' = List!Nodes
  BY DEF List!Nodes
<1> QED
  BY <1>1, <1>2, Zenon DEF LocksOf, Taking, FrontLinked, Visiting

(***************************************************************************)
(* A step of t that links nothing: it has only to be shown what t itself   *)
(* has or sees afterwards.                                                 *)
(***************************************************************************)
LEMMA QuietInv ==
  ASSUME ListInv, NEW t \in Threads, ListShape', ~undefined,
         UNCHANGED <<next_, tail_, fronts, backs>>,
         \A u \in Threads \ {t} :
           /\ pc'[u] = pc[u] /\ call'[u] = call[u] /\ node'[u] = node[u]
           /\ todo'[u] = todo[u] /\ seen'[u] = seen[u]
           /\ mt_[List!head_] = u => mt_'[List!head_] = u
           /\ global_mt_ = u => global_mt_' = u,
         pc[t] \notin {"taken", "linked"}, pc'[t] \notin {"taken", "linked"},
         allocated <= allocated',
         Unlinked(t)' => \/ Unlinked(t) /\ node'[t] = node[t]
                         \/ node'[t] = allocated + 1 /\ allocated' = allocated + 1,
         LocksOf(t)', Visits(t)'
  PROVE  ListInv'
<1>1. allocated \in Nat /\ allocated' \in Nat
  BY DEF ListInv, ListShape
<1>2. Lo' = Lo /\ Hi' = Hi
  BY DEF Lo, Hi
<1>3. ASSUME NEW z PROVE At(z)' = At(z)
  BY DEF At
<1>4. \A u \in Threads : /\ Taking(u)' <=> Taking(u)
                         /\ FrontLinked(u)' <=> FrontLinked(u)
                         /\ BackLinked(u)' <=> BackLinked(u)
                         /\ Taking(u) \/ FrontLinked(u) => node'[u] = node[u]
  BY DEF Taking, FrontLinked, BackLinked
<1>5. Joined' /\ Headed' /\ Tailed'
  BY <1>1, <1>4, ListKept
<1>6. ASSUME NEW u \in Threads \ {t} PROVE LocksOf(u)' /\ Visits(u)'
  <2>1. LocksOf(u)'
    BY LocksKept
  <2>2. Lo \in Int /\ Hi \in Nat
    BY ListBounds DEF ListInv
  <2>3. Visits(u)'
    BY <1>2, <1>3, <2>2, VisitKept
  <2> QED
    BY <2>1, <2>3
<1>7. ASSUME NEW u \in Threads \ {t} PROVE Unlinked(u)' <=> Unlinked(u)
  BY DEF Unlinked
<1>8. \A u \in Threads : Unlinked(u) => node[u] \in 1..allocated
  BY Zenon DEF ListInv, Owns
<1>9. allocated + 1 \notin 1..allocated /\ 1..allocated \subseteq 1..allocated'
  BY <1>1
<1>10. ASSUME NEW u \in Threads, Unlinked(u)'
       PROVE  /\ node'[u] \in 1..allocated'
              /\ \A z \in Lo..Hi : At(z) # node'[u]
  <2>1. CASE Unlinked(u) /\ node'[u] = node[u]
    BY <1>9, <2>1 DEF ListInv, Owns
  <2>2. CASE node'[u] = allocated + 1 /\ allocated' = allocated + 1
    <3>1. \A z \in Lo..Hi : At(z) \in 1..allocated
      BY Zenon DEF ListInv, Joined
    <3> QED
      BY <1>1, <1>9, <2>2, <3>1
  <2> QED
    BY <1>7, <1>10, <2>1, <2>2
<1>11. ASSUME NEW u \in Threads, NEW v \in Threads, Unlinked(u)', Unlinked(v)', node'[u] = node'[v]
       PROVE  u = v
  <2>1. CASE (Unlinked(u) /\ node'[u] = node[u]) /\ (Unlinked(v) /\ node'[v] = node[v])
    BY <1>11, <2>1 DEF ListInv, Owns
  <2>2. CASE u # t /\ v = t /\ node'[t] = allocated + 1
    <3>1. Unlinked(u) /\ node'[u] = node[u]
      BY <1>7, <1>11, <2>2
    <3> QED
      BY <1>8, <1>9, <1>11, <2>2, <3>1
  <2>3. CASE v # t /\ u = t /\ node'[t] = allocated + 1
    <3>1. Unlinked(v) /\ node'[v] = node[v]
      BY <1>7, <1>11, <2>3
    <3> QED
      BY <1>8, <1>9, <1>11, <2>3, <3>1
  <2> QED
    BY <1>7, <1>11, <2>1, <2>2, <2>3
<1>12. ASSUME NEW u \in Threads PROVE Owns(u)'
  BY <1>2, <1>3, <1>10, <1>11, Zenon DEF Owns
<1> QED
  BY <1>5, <1>6, <1>12, Zenon DEF ListInv

LEMMA SegSeq ==
  ASSUME ListShape, NEW a \in Int, NEW b \in Int, Lo <= a, b <= Hi, a <= b + 1
  PROVE  /\ Seg(a, b) \in Seq(List!Nodes) /\ Len(Seg(a, b)) = b - a + 1
         /\ \A i \in 1..b - a + 1 : Seg(a, b)[i] = At(a + i - 1)
<1> DEFINE n == b - a + 1
<1>1. n \in Nat
  OBVIOUS
<1>2. ASSUME NEW i \in 1..n PROVE At(a + i - 1) \in List!Nodes
  <2>1. a + i - 1 \in Lo..Hi
    BY ListBounds
  <2> QED
    BY <2>1, ListBounds
<1> HIDE DEF n
<1> DEFINE s == [i \in 1..n |-> At(a + i - 1)]
<1>3. s \in [1..n -> List!Nodes] /\ \A i \in 1..n : s[i] = At(a + i - 1)
  BY <1>2
<1> HIDE DEF s
<1>4. s \in Seq(List!Nodes) /\ Len(s) = n
  BY <1>1, <1>3
<1>5. Seg(a, b) = s
  BY DEF Seg, s, n
<1> QED
  BY <1>3, <1>4, <1>5, Zenon DEF n

LEMMA SegAppend ==
  ASSUME ListShape, NEW a \in Int, NEW m \in Int, Lo <= a, m < Hi, a <= m + 1
  PROVE  Append(Seg(a, m), At(m + 1)) = Seg(a, m + 1)
<1>1. Lo \in Int /\ Hi \in Nat
  BY ListBounds
<1>2. /\ Seg(a, m) \in Seq(List!Nodes) /\ Len(Seg(a, m)) = m - a + 1
      /\ \A i \in 1..m - a + 1 : Seg(a, m)[i] = At(a + i - 1)
  BY <1>1, SegSeq
<1>3. /\ Seg(a, m + 1) \in Seq(List!Nodes) /\ Len(Seg(a, m + 1)) = m - a + 2
      /\ \A i \in 1..m - a + 2 : Seg(a, m + 1)[i] = At(a + i - 1)
  <2> DEFINE b == m + 1
  <2>1. b \in Int /\ b <= Hi /\ a <= b + 1 /\ b - a + 1 = m - a + 2
    BY <1>1
  <2> HIDE DEF b
  <2>2. /\ Seg(a, b) \in Seq(List!Nodes) /\ Len(Seg(a, b)) = b - a + 1
        /\ \A i \in 1..b - a + 1 : Seg(a, b)[i] = At(a + i - 1)
    BY <2>1, SegSeq
  <2> QED
    BY <2>1, <2>2, Zenon DEF b
<1>4. m + 1 \in Lo..Hi
  BY <1>1
<1>5. At(m + 1) \in List!Nodes
  BY <1>4, ListBounds
<1> DEFINE l == Append(Seg(a, m), At(m + 1))
           r == Seg(a, m + 1)
<1>6. l \in Seq(List!Nodes) /\ Len(l) = m - a + 2
  BY <1>2, <1>5
<1>7. ASSUME NEW i \in 1..m - a + 2 PROVE l[i] = r[i]
  <2>1. CASE i = m - a + 2
    <3>1. a + i - 1 = m + 1 /\ i = Len(Seg(a, m)) + 1
      BY <1>2, <2>1
    <3>2. l[i] = At(m + 1)
      <4>1. l[Len(Seg(a, m)) + 1] = At(m + 1)
        BY <1>2, <1>5, AppendProperties, Zenon
      <4> QED
        BY <3>1, <4>1, Zenon
    <3>3. r[i] = At(a + i - 1)
      BY <1>3
    <3> QED
      BY <3>1, <3>2, <3>3
  <2>2. CASE i # m - a + 2
    <3>1. i \in 1..m - a + 1
      BY <2>2
    <3>2. l[i] = Seg(a, m)[i]
      BY <1>2, <1>5, <3>1
    <3> QED
      BY <1>2, <1>3, <3>1, <3>2, Zenon
  <2> QED
    BY <2>1, <2>2
<1> HIDE DEF l, r
<1>8. r \in Seq(List!Nodes) /\ Len(r) = m - a + 2
  BY <1>3 DEF r
<1>9. l = r
  BY <1>6, <1>7, <1>8, SeqEqual
<1> QED
  BY <1>9 DEF l, r

LEMMA SegConcat ==
  ASSUME ListShape, NEW a \in Int, NEW m \in Int, NEW b \in Int, Lo <= a, b <= Hi,
         a <= m + 1, m <= b
  PROVE  Seg(a, m) \o Seg(m + 1, b) = Seg(a, b)
<1>1. Lo \in Int /\ Hi \in Nat
  BY ListBounds
<1> DEFINE s == Seg(a, m)
           t == Seg(m + 1, b)
           r == Seg(a, b)
<1>2. /\ s \in Seq(List!Nodes) /\ Len(s) = m - a + 1
      /\ \A i \in 1..m - a + 1 : s[i] = At(a + i - 1)
  BY <1>1, SegSeq
<1>3. /\ t \in Seq(List!Nodes) /\ Len(t) = b - m
      /\ \A i \in 1..b - m : t[i] = At(m + i)
  <2> DEFINE c == m + 1
  <2>1. c \in Int /\ Lo <= c /\ c <= b + 1 /\ b - c + 1 = b - m /\ \A i \in Int : c + i - 1 = m + i
    BY <1>1
  <2> HIDE DEF c
  <2>2. /\ Seg(c, b) \in Seq(List!Nodes) /\ Len(Seg(c, b)) = b - c + 1
        /\ \A i \in 1..b - c + 1 : Seg(c, b)[i] = At(c + i - 1)
    BY <2>1, SegSeq
  <2>3. ASSUME NEW i \in 1..b - m PROVE Seg(c, b)[i] = At(m + i)
    <3>1. i \in 1..b - c + 1 /\ c + i - 1 = m + i
      BY <2>1
    <3> QED
      BY <2>2, <3>1, Zenon
  <2> QED
    BY <2>1, <2>2, <2>3 DEF c
<1>4. /\ r \in Seq(List!Nodes) /\ Len(r) = b - a + 1
      /\ \A i \in 1..b - a + 1 : r[i] = At(a + i - 1)
  BY <1>1, SegSeq
<1> HIDE DEF s, t, r
<1>5. s \o t \in Seq(List!Nodes) /\ Len(s \o t) = b - a + 1
  <2>1. s \o t \in Seq(List!Nodes) /\ Len(s \o t) = Len(s) + Len(t)
    BY <1>2, <1>3, ConcatProperties, Zenon
  <2>2. (m - a + 1) + (b - m) = b - a + 1
    OBVIOUS
  <2> QED
    BY <1>2, <1>3, <2>1, <2>2, Zenon
<1>6. ASSUME NEW i \in 1..b - a + 1 PROVE (s \o t)[i] = r[i]
  <2>1. CASE i <= m - a + 1
    <3>1. i \in 1..m - a + 1
      BY <2>1
    <3>2. (s \o t)[i] = s[i]
      BY <1>2, <1>3, <3>1
    <3> QED
      BY <1>2, <1>4, <3>1, <3>2, Zenon
  <2>2. CASE i > m - a + 1
    <3> DEFINE k == i - (m - a + 1)
    <3>1. k \in 1..b - m /\ m + k = a + i - 1
      BY <2>2
    <3>2. (s \o t)[i] = t[k]
      <4>1. \A j \in 1..Len(s) + Len(t) :
              (s \o t)[j] = IF j <= Len(s) THEN s[j] ELSE t[j - Len(s)]
        BY <1>2, <1>3, ConcatProperties, Zenon
      <4>2. i \in 1..(m - a + 1) + (b - m) /\ ~(i <= m - a + 1)
        BY <2>2
      <4> QED
        BY <1>2, <1>3, <4>1, <4>2, Zenon
    <3> HIDE DEF k
    <3>3. t[k] = At(m + k)
      BY <1>3, <3>1
    <3> QED
      BY <1>4, <3>1, <3>2, <3>3, Zenon
  <2>3. i <= m - a + 1 \/ i > m - a + 1
    OBVIOUS
  <2> QED
    BY <2>1, <2>2, <2>3, Zenon
<1>7. s \o t = r
  BY <1>4, <1>5, <1>6, SeqEqual
<1> QED
  BY <1>7 DEF s, t, r

\* The end of the list that pushBack has made since there were h values of pushBack.
LEMMA SegBacks ==
  ASSUME ListShape, NEW h \in 0..Hi
  PROVE  Seg(h + 1, Hi) = SubSeq(backs, h + 1, Len(backs))
<1>1. Lo \in Int /\ Hi \in Nat /\ Lo <= 1 /\ Hi = Len(backs) /\ backs \in Seq(List!Nodes)
  BY ListBounds DEF Hi, ListShape
<1> DEFINE c == h + 1
           n == Hi
<1>2. c \in Nat /\ c >= 1 /\ c <= n + 1 /\ n \in Nat /\ Lo <= c
  BY <1>1
<1> HIDE DEF c, n
<1>3. /\ Seg(c, n) \in Seq(List!Nodes) /\ Len(Seg(c, n)) = n - c + 1
      /\ \A i \in 1..n - c + 1 : Seg(c, n)[i] = At(c + i - 1)
  BY <1>2, SegSeq DEF n
<1>4. \A i \in c..n : backs[i] \in List!Nodes
  BY <1>1, <1>2 DEF n
<1>5. /\ SubSeq(backs, c, n) \in Seq(List!Nodes) /\ Len(SubSeq(backs, c, n)) = n - c + 1
      /\ \A i \in 1..n - c + 1 : SubSeq(backs, c, n)[i] = backs[c + i - 1]
  BY <1>2, <1>4, SubSeqProperties
<1>6. ASSUME NEW i \in 1..n - c + 1 PROVE At(c + i - 1) = backs[c + i - 1]
  BY <1>2 DEF At
<1>7. ASSUME NEW i \in 1..n - c + 1 PROVE Seg(c, n)[i] = SubSeq(backs, c, n)[i]
  BY <1>3, <1>5, <1>6, Zenon
<1>8. Seg(c, n) = SubSeq(backs, c, n)
  BY <1>3, <1>5, <1>7, SeqEqual
<1> QED
  BY <1>1, <1>8, Zenon DEF c, n

\* The whole list.
LEMMA SegAll ==
  ASSUME ListShape
  PROVE  List!Reversed(fronts) \o backs = Seg(Lo, Hi)
<1>1. /\ Lo \in Int /\ Hi \in Nat /\ Hi = Len(backs) /\ Lo = 1 - Len(fronts) /\ Lo <= 1
      /\ backs \in Seq(List!Nodes) /\ fronts \in Seq(List!Nodes) /\ Len(fronts) \in Nat
  BY ListBounds DEF Hi, Lo, ListShape
<1> DEFINE f == List!Reversed(fronts)
           n == Len(fronts)
<1>2. f \in Seq(List!Nodes) /\ Len(f) = n /\ \A i \in 1..n : f[i] = fronts[n + 1 - i]
  <2>1. DOMAIN fronts = 1..n
    BY <1>1
  <2>2. \A i \in 1..n : fronts[n + 1 - i] \in List!Nodes
    BY <1>1
  <2>3. f = [i \in 1..n |-> fronts[n + 1 - i]]
    BY <2>1, Zenon DEF List!Reversed
  <2>4. f \in [1..n -> List!Nodes]
    BY <2>2, <2>3
  <2> QED
    BY <1>1, <2>3, <2>4
<1> HIDE DEF f
<1>3. f \o backs \in Seq(List!Nodes) /\ Len(f \o backs) = n + Hi
  BY <1>1, <1>2
<1>4. /\ Seg(Lo, Hi) \in Seq(List!Nodes) /\ Len(Seg(Lo, Hi)) = Hi - Lo + 1
      /\ \A i \in 1..Hi - Lo + 1 : Seg(Lo, Hi)[i] = At(Lo + i - 1)
  <2>1. Lo <= Lo /\ Hi <= Hi /\ Lo <= Hi + 1 /\ Hi \in Int
    BY <1>1
  <2> QED
    BY <1>1, <2>1, SegSeq, Zenon
<1>5. Hi - Lo + 1 = n + Hi
  BY <1>1
<1>6. ASSUME NEW i \in 1..n + Hi PROVE (f \o backs)[i] = At(Lo + i - 1)
  <2>1. CASE i <= n
    <3>1. i \in 1..n /\ ~(Lo + i - 1 >= 1) /\ 1 - (Lo + i - 1) = n + 1 - i
      BY <1>1, <2>1
    <3>2. (f \o backs)[i] = f[i]
      BY <1>1, <1>2, <3>1
    <3>3. At(Lo + i - 1) = fronts[n + 1 - i]
      BY <3>1, Zenon DEF At
    <3> QED
      BY <1>2, <3>1, <3>2, <3>3, Zenon
  <2>2. CASE i > n
    <3>1. Lo + i - 1 = i - n /\ i - n >= 1 /\ i - n \in 1..Len(backs)
      BY <1>1, <2>2
    <3>2. (f \o backs)[i] = backs[i - n]
      <4>1. \A j \in 1..Len(f) + Len(backs) :
              (f \o backs)[j] = IF j <= Len(f) THEN f[j] ELSE backs[j - Len(f)]
        BY <1>1, <1>2, ConcatProperties, Zenon
      <4>2. ~(i <= n)
        BY <1>1, <2>2
      <4> QED
        BY <1>1, <1>2, <4>1, <4>2, Zenon
    <3> QED
      BY <3>1, <3>2, Zenon DEF At
  <2>3. i <= n \/ i > n
    BY <1>1
  <2> QED
    BY <2>1, <2>2, <2>3, Zenon
<1>7. ASSUME NEW i \in 1..n + Hi PROVE (f \o backs)[i] = Seg(Lo, Hi)[i]
  BY <1>4, <1>5, <1>6, Zenon
<1>8. f \o backs = Seg(Lo, Hi)
  BY <1>3, <1>4, <1>5, <1>7, SeqEqual
<1> QED
  BY <1>8 DEF f

\* What the other threads have is not touched by a return.
LEMMA ReturnFrees ==
  ASSUME ListInv, NEW t \in Threads, List!Return(t)
  PROVE  /\ pc' \in [Threads -> ListPlaces]
         /\ call' \in [Threads -> List!Pushes \cup List!Traversals \cup {"none"}]
         /\ node' \in [Threads -> List!Nodes \cup {List!Null}]
         /\ mt_' \in [List!Nodes -> Threads \cup {NoThread}]
         /\ DOMAIN todo' = Threads /\ seen' \in [Threads -> Seq(List!Nodes)]
         /\ pc'[t] = "idle" /\ call'[t] = "none" /\ seen'[t] = << >> /\ allocated' = allocated
         /\ \A u \in Threads \ {t} :
              /\ pc'[u] = pc[u] /\ call'[u] = call[u] /\ node'[u] = node[u]
              /\ todo'[u] = todo[u] /\ seen'[u] = seen[u]
              /\ mt_[List!head_] = u => mt_'[List!head_] = u
              /\ global_mt_ = u => global_mt_' = u
<1>1. ListShape
  BY DEF ListInv
<1>2. /\ pc' \in [Threads -> ListPlaces]
      /\ call' \in [Threads -> List!Pushes \cup List!Traversals \cup {"none"}]
      /\ node' \in [Threads -> List!Nodes \cup {List!Null}] /\ pc'[t] = "idle" /\ call'[t] = "none"
      /\ \A u \in Threads \ {t} : pc'[u] = pc[u] /\ call'[u] = call[u] /\ node'[u] = node[u]
  BY <1>1 DEF List!Return, List!Goto, ListShape, ListPlaces
<1>3. /\ DOMAIN todo' = Threads /\ seen' \in [Threads -> Seq(List!Nodes)] /\ allocated' = allocated
      /\ seen'[t] = << >> /\ \A u \in Threads \ {t} : todo'[u] = todo[u] /\ seen'[u] = seen[u]
  BY <1>1 DEF List!Return, ListShape
<1>4. mt_' \in [List!Nodes -> Threads \cup {NoThread}]
  BY <1>1 DEF List!Return, ListShape
<1>5. ASSUME NEW u \in Threads \ {t} PROVE mt_[List!head_] = u => mt_'[List!head_] = u
  <2>1. List!head_ \in List!Nodes
    BY <1>1 DEF ListShape, List!Nodes, List!head_
  <2> QED
    BY <2>1 DEF List!Return
<1>6. ASSUME NEW u \in Threads \ {t} PROVE global_mt_ = u => global_mt_' = u
  BY DEF List!Return
<1> QED
  BY <1>2, <1>3, <1>4, <1>5, <1>6, Zenon

\* A thread that is idle has nothing to keep.
LEMMA IdleHas ==
  ASSUME NEW t, pc'[t] = "idle", seen'[t] = << >>
  PROVE  LocksOf(t)' /\ Visits(t)' /\ ~Unlinked(t)'
BY DEF LocksOf, Visits, Unlinked, Taking, FrontLinked, Visiting

LEMMA ReturnInv ==
  ASSUME ListInv, ~undefined, NEW t \in Threads, List!TraverseEnd(t) \/ List!Found(t)
  PROVE  ListInv'
<1>1. List!Return(t) /\ UNCHANGED <<next_, tail_, undefined, fronts, backs>> /\ pc[t] = "at"
  BY DEF List!TraverseEnd, List!Found, List!AtNode, List!lists
<1>2. ListShape'
  BY <1>1, ReturnFrees DEF ListInv, ListShape, List!Nodes
<1>3. allocated <= allocated'
  BY <1>1, ReturnFrees DEF ListInv, ListShape
<1>4. LocksOf(t)' /\ Visits(t)' /\ ~Unlinked(t)'
  BY <1>1, ReturnFrees, IdleHas
<1> QED
  BY <1>1, <1>2, <1>3, <1>4, ReturnFrees, QuietInv

LEMMA PushCallInv ==
  ASSUME ListInv, ~undefined, NEW t \in Threads, NEW op \in List!Pushes, List!PushCall(t, op)
  PROVE  ListInv'
<1>1. /\ UNCHANGED <<next_, mt_, tail_, global_mt_, undefined, fronts, backs, todo, seen>>
      /\ pc[t] = "idle" /\ pc' = [pc EXCEPT ![t] = "begin"] /\ call' = [call EXCEPT ![t] = op]
      /\ node' = [node EXCEPT ![t] = allocated + 1] /\ allocated' = allocated + 1
      /\ allocated < MaxPushes
  BY DEF List!PushCall, List!Goto, List!lists, List!views
<1>2. /\ pc' \in [Threads -> ListPlaces]
      /\ call' \in [Threads -> List!Pushes \cup List!Traversals \cup {"none"}]
      /\ pc'[t] = "begin" /\ call'[t] = op /\ node'[t] = allocated + 1
      /\ \A u \in Threads \ {t} : pc'[u] = pc[u] /\ call'[u] = call[u] /\ node'[u] = node[u]
  BY <1>1 DEF ListInv, ListShape, ListPlaces
<1>3. /\ allocated' \in 0..MaxPushes /\ allocated <= allocated'
      /\ node' \in [Threads -> List!Nodes \cup {List!Null}]
  BY <1>1 DEF ListInv, ListShape, List!Nodes
<1>4. ListShape'
  BY <1>1, <1>2, <1>3 DEF ListInv, ListShape, List!Nodes
<1>5. LocksOf(t)' /\ Visits(t)'
  BY <1>1, <1>2 DEF ListInv, LocksOf, Visits, Taking, FrontLinked, Visiting
<1> QED
  BY <1>1, <1>2, <1>3, <1>4, <1>5, QuietInv

LEMMA TraverseCallInv ==
  ASSUME ListInv, ~undefined, NEW t \in Threads, NEW op \in List!Traversals, List!TraverseCall(t, op)
  PROVE  ListInv'
<1>1. /\ UNCHANGED <<next_, mt_, tail_, global_mt_, allocated, undefined, node, fronts, backs, todo, seen>>
      /\ pc[t] = "idle" /\ pc' = [pc EXCEPT ![t] = "begin"] /\ call' = [call EXCEPT ![t] = op]
  BY DEF List!TraverseCall, List!Goto, List!lists, List!views
<1>2. /\ pc' \in [Threads -> ListPlaces]
      /\ call' \in [Threads -> List!Pushes \cup List!Traversals \cup {"none"}]
      /\ pc'[t] = "begin" /\ call'[t] = op
      /\ \A u \in Threads \ {t} : pc'[u] = pc[u] /\ call'[u] = call[u]
      /\ allocated <= allocated'
  BY <1>1 DEF ListInv, ListShape, ListPlaces
<1>3. ListShape'
  BY <1>1, <1>2 DEF ListInv, ListShape, List!Nodes
<1>4. LocksOf(t)' /\ Visits(t)' /\ ~Unlinked(t)'
  BY <1>1, <1>2 DEF ListInv, LocksOf, Visits, Taking, FrontLinked, Visiting, Unlinked,
                    List!Pushes, List!Traversals
<1> QED
  BY <1>1, <1>2, <1>3, <1>4, QuietInv

\* A pushBack on its way to the two mutexes.
LEMMA PushBackQuietInv ==
  ASSUME ListInv, ~undefined, NEW t \in Threads,
         List!PushBackRead(t) \/ List!PushBackLock(t) \/ List!PushBackGlobalLock(t)
  PROVE  ListInv'
<1>1. /\ UNCHANGED <<next_, tail_, allocated, call, node, fronts, backs, todo, seen>>
      /\ call[t] = "pushBack"
  BY DEF List!PushBackRead, List!PushBackLock, List!PushBackGlobalLock, List!lists, List!views
<1>2. PICK p \in {"read", "locked", "global"} :
        pc' = [pc EXCEPT ![t] = p] /\ (p = "read" \/ pc[t] \in {"read", "locked"})
  BY DEF List!PushBackRead, List!PushBackLock, List!PushBackGlobalLock, List!Goto
<1>3. /\ pc' \in [Threads -> ListPlaces] /\ pc'[t] = p
      /\ \A u \in Threads \ {t} : pc'[u] = pc[u]
      /\ allocated <= allocated'
  BY <1>1, <1>2 DEF ListInv, ListShape, ListPlaces
<1>4. /\ mt_' \in [List!Nodes -> Threads \cup {NoThread}]
      /\ \A u \in Threads \ {t} : mt_[List!head_] = u => mt_'[List!head_] = u
  <2>1. List!head_ \in List!Nodes /\ mt_ \in [List!Nodes -> Threads \cup {NoThread}] /\ NoThread \notin Threads
    BY DEF ListInv, ListShape, List!Nodes, List!head_
  <2>2. CASE List!PushBackLock(t)
    BY <2>1, <2>2 DEF List!PushBackLock
  <2>3. CASE mt_' = mt_
    BY <2>1, <2>3
  <2> QED
    BY <2>2, <2>3 DEF List!PushBackRead, List!PushBackGlobalLock
<1>5. \A u \in Threads \ {t} : global_mt_ = u => global_mt_' = u
  BY DEF List!PushBackRead, List!PushBackLock, List!PushBackGlobalLock, ListInv, ListShape
<1>6. p = "global" => global_mt_' = t
  BY <1>2, <1>3 DEF List!PushBackRead, List!PushBackLock, List!PushBackGlobalLock, List!Goto, ListInv, ListShape
<1>7. tail_ # List!Unset \/ undefined'
  <2>1. CASE List!PushBackRead(t)
    BY <2>1 DEF List!PushBackRead
  <2>2. CASE ~List!PushBackRead(t)
    <3>1. pc[t] \in {"read", "locked"}
      BY <2>2 DEF List!PushBackLock, List!PushBackGlobalLock
    <3> QED
      BY <1>1, <3>1 DEF ListInv, LocksOf
  <2> QED
    BY <2>1, <2>2
<1>8. ListShape'
  BY <1>1, <1>3, <1>4 DEF ListInv, ListShape, List!Nodes
<1>9. LocksOf(t)'
  BY <1>1, <1>3, <1>6, <1>7 DEF LocksOf, Taking, FrontLinked, Visiting
<1>10. /\ pc[t] \in {"begin", "read", "locked"} /\ Unlinked(t)
  BY <1>1 DEF Unlinked, List!Pushes, List!PushBackRead, List!PushBackLock, List!PushBackGlobalLock
<1>11. Visits(t)'
  BY <1>1, <1>3, <1>10 DEF ListInv, Visits
<1> QED
  BY <1>1, <1>3, <1>4, <1>5, <1>8, <1>9, <1>10, <1>11, QuietInv

\* The removal that ends everything.
LEMMA RemoveInv ==
  ASSUME ListInv, ~undefined, NEW t \in Threads, List!Remove(t)
  PROVE  ListInv'
<1>1. /\ UNCHANGED <<next_, mt_, tail_, global_mt_, allocated, call, pc, node, fronts, backs, todo, seen>>
      /\ pc[t] = "at" /\ call[t] \in {"removeIf", "removeFirstIf"}
  BY DEF List!Remove, List!AtNode, List!lists, List!views
<1>2. ListShape' /\ allocated <= allocated'
  BY <1>1 DEF ListInv, ListShape, List!Nodes
<1>3. LocksOf(t)'
  BY <1>1, LocksKept
<1>4. Visits(t)' /\ ~Unlinked(t)'
  BY <1>1 DEF Visits, Unlinked
<1> QED
  BY <1>1, <1>2, <1>3, <1>4, QuietInv

\* forEach begins with the list as it is.
LEMMA LockHeadInv ==
  ASSUME ListInv, ~undefined, NEW t \in Threads, List!LockHead(t)
  PROVE  ListInv'
<1>1. /\ UNCHANGED <<next_, tail_, global_mt_, allocated, call, fronts, backs, seen>>
      /\ call[t] \in List!Traversals /\ pc[t] = "begin" /\ pc' = [pc EXCEPT ![t] = "at"]
      /\ mt_[List!head_] = NoThread /\ mt_' = [mt_ EXCEPT ![List!head_] = t]
      /\ node' = [node EXCEPT ![t] = List!head_]
      /\ todo' = [todo EXCEPT ![t] = IF call[t] = "forEach" THEN List!Reversed(fronts) \o backs ELSE << >>]
  BY DEF List!LockHead, List!Goto, List!lists
<1>2. ListShape /\ List!head_ \in List!Nodes
  BY DEF ListInv, ListShape, List!Nodes, List!head_
<1>3. /\ pc' \in [Threads -> ListPlaces] /\ pc'[t] = "at" /\ node' \in [Threads -> List!Nodes \cup {List!Null}]
      /\ node'[t] = List!head_ /\ \A u \in Threads \ {t} : pc'[u] = pc[u] /\ node'[u] = node[u]
      /\ DOMAIN todo' = Threads /\ \A u \in Threads \ {t} : todo'[u] = todo[u]
      /\ allocated <= allocated'
  BY <1>1, <1>2 DEF ListShape, ListPlaces
<1>4. mt_' \in [List!Nodes -> Threads \cup {NoThread}] /\ mt_'[List!head_] = t
  BY <1>1, <1>2 DEF ListShape
<1>5. ListShape'
  BY <1>1, <1>2, <1>3, <1>4 DEF ListShape, List!Nodes
<1>9. \A u \in Threads \ {t} : mt_[List!head_] = u => mt_'[List!head_] = u
  BY <1>1, <1>2 DEF ListShape
<1>6. LocksOf(t)'
  <2>1. node'[t] \in List!Nodes'
    BY <1>2, <1>3 DEF List!Nodes
  <2> QED
    BY <1>1, <1>3, <1>4, <2>1 DEF LocksOf, Taking, FrontLinked, Visiting
<1>7. ~Unlinked(t)'
  BY <1>3 DEF Unlinked
<1>8. Visits(t)'
  <2> SUFFICES ASSUME call[t] = "forEach" PROVE Visits(t)'
    BY <1>1, <1>3 DEF Visits
  <2>1. Lo' = Lo /\ Hi' = Hi /\ Lo \in Int /\ Hi \in Nat /\ Lo <= 1
    BY <1>1, <1>2, ListBounds DEF Lo, Hi
  <2>2. PICK lo \in Int, hi \in Int : lo = Lo /\ hi = Hi
    BY <2>1
  <2>3. ASSUME NEW a, NEW b PROVE Seg(a, b)' = Seg(a, b)
    BY <1>1, Zenon DEF Seg, At
  <2>4. todo'[t] = Seg(lo, hi)
    <3>1. todo'[t] = List!Reversed(fronts) \o backs
      BY <1>1, <1>2 DEF ListShape
    <3> QED
      BY <1>2, <2>2, <3>1, SegAll, Zenon
  <2>5. seen'[t] = Seg(lo, lo - 1)
    <3>1. seen'[t] = << >>
      BY <1>1 DEF ListInv, Visits
    <3>2. Seg(lo, lo - 1) \in Seq(List!Nodes) /\ Len(Seg(lo, lo - 1)) = 0
      BY <1>2, <2>1, <2>2, SegSeq
    <3> QED
      BY <3>1, <3>2, EmptySeq
  <2>6. Visited(t, lo, hi, lo - 1)'
    BY <1>3, <2>1, <2>2, <2>3, <2>4, <2>5, Zenon DEF Visited
  <2>7. lo \in Lo'..1 /\ hi \in 0..Hi' /\ lo - 1 \in Lo' - 1..Hi' /\ lo - 1 <= lo - 1
    BY <2>1, <2>2
  <2> QED
    BY <1>3, <2>6, <2>7, Zenon DEF Visits
<1> QED
  BY <1>1, <1>3, <1>4, <1>5, <1>6, <1>7, <1>8, <1>9, QuietInv

\* The node after the one that a traversal is at.
LEMMA NextIsNode ==
  ASSUME ListInv, NEW t \in Threads, List!AtNode(t), next_[node[t]] # List!Null
  PROVE  /\ node[t] \in List!Nodes /\ next_[node[t]] \in 1..MaxPushes /\ next_[node[t]] \in List!Nodes
         /\ next_[node[t]] # List!head_ /\ (node[t] = List!head_ => mt_[List!head_] = t)
<1>1. node[t] \in List!Nodes /\ (node[t] = List!head_ => mt_[List!head_] = t)
  BY Zenon DEF ListInv, LocksOf, Visiting, List!AtNode
<1>2. next_[node[t]] \in 1..MaxPushes
  BY <1>1 DEF ListInv, ListShape
<1> QED
  BY <1>1, <1>2 DEF ListInv, ListShape, List!Nodes, List!head_

\* With head_'s mutex, a thread that is not pushing finds the first node behind it.
LEMMA HeadLeads ==
  ASSUME ListInv, NEW t \in Threads, mt_[List!head_] = t, ~Taking(t)
  PROVE  next_[List!head_] = FirstNode
<1>1. \A u \in Threads : ~Taking(u)
  BY DEF ListInv, LocksOf
<1> QED
  BY <1>1 DEF ListInv, Headed

\* A forEach that moves on sees the next place of the list.
LEMMA NextIsAt ==
  ASSUME ListInv, NEW t \in Threads, List!AtNode(t), next_[node[t]] # List!Null,
         NEW lo \in Lo..1, NEW hi \in 0..Hi, NEW m \in Lo - 1..Hi, lo - 1 <= m,
         Visited(t, lo, hi, m)
  PROVE  m < Hi /\ next_[node[t]] = At(m + 1)
<1>1. Lo \in Int /\ Hi \in Nat
  BY ListBounds DEF ListInv
<1>2. CASE node[t] = List!head_
  <2>1. m = lo - 1 /\ lo = Lo
    BY <1>2 DEF Visited
  <2>2. next_[List!head_] = FirstNode
    BY <1>2, NextIsNode, HeadLeads DEF Taking, List!AtNode
  <2>3. Lo <= Hi /\ next_[node[t]] = At(Lo)
    BY <1>2, <2>2 DEF FirstNode
  <2>4. m + 1 = Lo /\ m < Hi
    BY <1>1, <2>1, <2>3
  <2> QED
    BY <2>3, <2>4
<1>3. CASE node[t] # List!head_
  <2>1. m >= lo /\ node[t] = At(m)
    BY <1>3 DEF Visited
  <2>2. m \in Lo..Hi
    BY <1>1, <2>1
  <2>3. m # Hi
    <3>1. Lo <= Hi => next_[At(Hi)] = List!Null
      BY Zenon DEF ListInv, Joined
    <3> QED
      BY <1>1, <2>1, <2>2, <3>1
  <2>4. m \in Lo..Hi - 1 /\ m < Hi
    BY <1>1, <2>2, <2>3
  <2> QED
    BY <2>1, <2>4 DEF ListInv, Joined
<1> QED
  BY <1>2, <1>3

LEMMA MoveOnInv ==
  ASSUME ListInv, ~undefined, NEW t \in Threads, List!MoveOn(t)
  PROVE  ListInv'
<1> DEFINE next == next_[node[t]]
<1>1. /\ UNCHANGED <<next_, tail_, global_mt_, allocated, call, pc, fronts, backs, todo>>
      /\ List!AtNode(t) /\ next # List!Null /\ mt_[next] = NoThread
      /\ mt_' = [mt_ EXCEPT ![next] = t, ![node[t]] = NoThread]
      /\ node' = [node EXCEPT ![t] = next]
      /\ seen' = [seen EXCEPT ![t] = IF call[t] = "forEach" THEN Append(seen[t], next) ELSE seen[t]]
  BY DEF List!MoveOn, List!lists
<1>2. /\ node[t] \in List!Nodes /\ next \in List!Nodes /\ next # List!head_
      /\ (node[t] = List!head_ => mt_[List!head_] = t)
  BY <1>1, NextIsNode
<1> HIDE DEF next
<1>3. ListShape /\ List!head_ \in List!Nodes
  BY DEF ListInv, ListShape, List!Nodes, List!head_
<1>4. /\ mt_' \in [List!Nodes -> Threads \cup {NoThread}]
      /\ \A u \in Threads \ {t} : mt_[List!head_] = u => mt_'[List!head_] = u
  <2>1. mt_ \in [List!Nodes -> Threads \cup {NoThread}]
    BY <1>3 DEF ListShape
  <2>2. mt_' \in [List!Nodes -> Threads \cup {NoThread}]
    BY <1>1, <1>2, <2>1
  <2>3. node[t] # List!head_ => mt_'[List!head_] = mt_[List!head_]
    BY <1>1, <1>2, <1>3, <2>1
  <2> QED
    BY <1>2, <2>2, <2>3
<1>5. /\ node' \in [Threads -> List!Nodes \cup {List!Null}] /\ node'[t] = next
      /\ \A u \in Threads \ {t} : node'[u] = node[u]
  BY <1>1, <1>2, <1>3 DEF ListShape
<1>6. /\ seen' \in [Threads -> Seq(List!Nodes)] /\ \A u \in Threads \ {t} : seen'[u] = seen[u]
      /\ call[t] = "forEach" => seen'[t] = Append(seen[t], next)
  BY <1>1, <1>2, <1>3 DEF ListShape
<1>7. ListShape' /\ allocated <= allocated'
  <2>1. UNCHANGED <<next_, allocated, call, pc, fronts, backs, todo, List!Nodes>>
    BY <1>1 DEF List!Nodes
  <2>2. allocated <= allocated'
    BY <1>3, <2>1 DEF ListShape
  <2>3. ListShape'
    BY <1>3, <1>4, <1>5, <1>6, <2>1, Zenon DEF ListShape
  <2> QED
    BY <2>2, <2>3
<1>8. pc[t] = "at" /\ ~Unlinked(t)' /\ LocksOf(t)'
  <2>1. node'[t] \in List!Nodes'
    BY <1>2, <1>5 DEF List!Nodes
  <2> QED
    BY <1>1, <1>2, <1>5, <2>1 DEF List!AtNode, Unlinked, LocksOf, Taking, FrontLinked, Visiting, List!Traversals
<1>9. Visits(t)'
  <2> SUFFICES ASSUME call[t] = "forEach" PROVE Visits(t)'
    BY <1>1, <1>8 DEF Visits
  <2>1. PICK lo \in Lo..1, hi \in 0..Hi, m \in Lo - 1..Hi : lo - 1 <= m /\ Visited(t, lo, hi, m)
    BY <1>8 DEF ListInv, Visits
  <2>2. m < Hi /\ next = At(m + 1)
    BY <1>1, <2>1, NextIsAt DEF next
  <2>3. Lo' = Lo /\ Hi' = Hi /\ Lo \in Int /\ Hi \in Nat /\ Lo <= 1
    BY <1>1, <1>3, ListBounds DEF Lo, Hi
  <2>4. ASSUME NEW a, NEW b PROVE Seg(a, b)' = Seg(a, b)
    BY <1>1, Zenon DEF Seg, At
  <2>5. At(m + 1)' = At(m + 1)
    BY <1>1 DEF At
  <2>6. /\ m + 1 \in Lo' - 1..Hi' /\ lo - 1 <= m + 1 /\ m + 1 >= lo /\ m \in Int /\ lo \in Int
        /\ Lo <= lo /\ lo <= m + 1 /\ lo \in Lo'..1 /\ hi \in 0..Hi'
    BY <2>1, <2>2, <2>3
  <2>7. todo[t] = Seg(lo, hi) /\ seen[t] = Seg(lo, m)
    BY <2>1, Zenon DEF Visited
  <2>8. seen'[t] = Seg(lo, m + 1)
    <3>1. Append(Seg(lo, m), At(m + 1)) = Seg(lo, m + 1)
      BY <1>3, <2>2, <2>6, SegAppend
    <3> QED
      BY <1>6, <2>2, <2>7, <3>1, Zenon
  <2>9. Visited(t, lo, hi, m + 1)'
    BY <1>1, <1>2, <1>5, <2>2, <2>4, <2>5, <2>6, <2>7, <2>8, Zenon DEF Visited
  <2> QED
    BY <1>1, <1>8, <2>6, <2>9, Zenon DEF Visits
<1>10. pc[t] \notin {"taken", "linked"}
  BY <1>8
<1> QED
  BY <1>1, <1>4, <1>5, <1>6, <1>7, <1>8, <1>9, <1>10, QuietInv

LEMMA FindOnInv ==
  ASSUME ListInv, ~undefined, NEW t \in Threads, List!FindOn(t)
  PROVE  ListInv'
<1> DEFINE next == next_[node[t]]
<1>1. /\ UNCHANGED <<next_, tail_, global_mt_, allocated, call, pc, fronts, backs, todo, seen>>
      /\ List!AtNode(t) /\ call[t] = "findFirstIf" /\ next # List!Null
      /\ mt_' = IF mt_[List!head_] = t THEN [mt_ EXCEPT ![List!head_] = NoThread] ELSE mt_
      /\ node' = [node EXCEPT ![t] = next]
  BY DEF List!FindOn, List!lists, List!views
<1>2. next \in List!Nodes /\ next # List!head_
  BY <1>1, NextIsNode
<1> HIDE DEF next
<1>3. ListShape /\ List!head_ \in List!Nodes
  BY DEF ListInv, ListShape, List!Nodes, List!head_
<1>4. /\ mt_' \in [List!Nodes -> Threads \cup {NoThread}]
      /\ \A u \in Threads \ {t} : mt_[List!head_] = u => mt_'[List!head_] = u
  BY <1>1, <1>3 DEF ListShape
<1>5. /\ node' \in [Threads -> List!Nodes \cup {List!Null}] /\ node'[t] = next
      /\ \A u \in Threads \ {t} : node'[u] = node[u]
  BY <1>1, <1>2, <1>3 DEF ListShape
<1>6. ListShape' /\ allocated <= allocated'
  BY <1>1, <1>3, <1>4, <1>5 DEF ListShape, List!Nodes
<1>7. pc[t] = "at" /\ ~Unlinked(t)' /\ LocksOf(t)' /\ Visits(t)'
  <2>1. node'[t] \in List!Nodes'
    BY <1>2, <1>5 DEF List!Nodes
  <2> QED
    BY <1>1, <1>2, <1>5, <2>1
       DEF List!AtNode, Unlinked, LocksOf, Visits, Taking, FrontLinked, Visiting, List!Traversals
<1>8. pc[t] \notin {"taken", "linked"}
  BY <1>7
<1> QED
  BY <1>1, <1>4, <1>5, <1>6, <1>7, <1>8, QuietInv

\* pushFront takes the list away from head_.
LEMMA PushFrontTakeInv ==
  ASSUME ListInv, ~undefined, NEW t \in Threads, List!PushFrontTake(t)
  PROVE  ListInv'
<1>1. /\ UNCHANGED <<tail_, global_mt_, allocated, undefined, call, node, fronts, backs, todo, seen>>
      /\ call[t] = "pushFront" /\ pc[t] = "begin" /\ pc' = [pc EXCEPT ![t] = "taken"]
      /\ mt_[List!head_] = NoThread /\ mt_' = [mt_ EXCEPT ![List!head_] = t]
      /\ next_' = [next_ EXCEPT ![node[t]] = next_[List!head_], ![List!head_] = List!Null]
  BY DEF List!PushFrontTake, List!Goto, List!lists, List!views
<1>2. ListShape /\ List!head_ \in List!Nodes /\ List!head_ = 0 /\ allocated \in Nat
  BY DEF ListInv, ListShape, List!Nodes, List!head_
<1>3. Unlinked(t)
  BY <1>1 DEF Unlinked, List!Pushes
<1>4. /\ node[t] \in 1..allocated /\ \A z \in Lo..Hi : At(z) # node[t]
  BY <1>3, Zenon DEF ListInv, Owns
<1>5. node[t] \in List!Nodes /\ node[t] # List!head_
  BY <1>2, <1>4 DEF ListShape, List!Nodes
<1>6. /\ pc' \in [Threads -> ListPlaces] /\ pc'[t] = "taken"
      /\ \A u \in Threads \ {t} : pc'[u] = pc[u]
  BY <1>1, <1>2 DEF ListShape, ListPlaces
<1>7. /\ mt_' \in [List!Nodes -> Threads \cup {NoThread}] /\ mt_'[List!head_] = t
      /\ \A u \in Threads : mt_[List!head_] # u
  BY <1>1, <1>2 DEF ListShape
<1>8. \A u \in Threads : ~Taking(u) /\ ~FrontLinked(u)
  BY <1>7, Zenon DEF ListInv, LocksOf
<1>9. next_[List!head_] = FirstNode
  BY <1>8 DEF ListInv, Headed
<1>10. /\ next_' \in [List!Nodes -> (1..MaxPushes) \cup {List!Null}]
       /\ next_'[List!head_] = List!Null /\ next_'[node[t]] = FirstNode
       /\ \A n \in List!Nodes : n # List!head_ /\ n # node[t] => next_'[n] = next_[n]
  BY <1>1, <1>2, <1>5, <1>9 DEF ListShape
<1>11. ListShape'
  <2>1. List!Nodes' = List!Nodes
    BY DEF List!Nodes
  <2> QED
    BY <1>1, <1>2, <1>6, <1>7, <1>10, <2>1, Zenon DEF ListShape
<1>12. Lo' = Lo /\ Hi' = Hi /\ FirstNode' = FirstNode
  BY <1>1 DEF Lo, Hi, FirstNode, At
<1>13. ASSUME NEW z PROVE At(z)' = At(z)
  BY <1>1 DEF At
<1>14. \A u \in Threads : /\ Taking(u)' <=> u = t
                          /\ ~FrontLinked(u)'
                          /\ BackLinked(u)' <=> BackLinked(u)
                          /\ Unlinked(u)' <=> Unlinked(u)
  BY <1>1, <1>3, <1>6, <1>8 DEF Taking, FrontLinked, BackLinked, Unlinked
<1>15. Joined'
  <2>1. ASSUME NEW z \in Lo..Hi PROVE next_'[At(z)] = next_[At(z)]
    <3>1. At(z) \in 1..allocated
      BY Zenon DEF ListInv, Joined
    <3>2. At(z) \in List!Nodes /\ At(z) # List!head_
      BY <1>2, <3>1 DEF ListShape, List!Nodes
    <3> QED
      BY <1>4, <1>10, <3>2, Zenon
  <2>2. ASSUME NEW n \in 1..MaxPushes, \A z \in Lo..Hi : At(z) # n
        PROVE  next_'[n] = List!Null \/ \E u \in Threads : Taking(u)' /\ node[u] = n
    <3>1. n \in List!Nodes /\ n # List!head_
      BY <1>2 DEF ListShape, List!Nodes
    <3>2. next_[n] = List!Null
      BY <1>8, <2>2, Zenon DEF ListInv, Joined
    <3> QED
      BY <1>10, <1>14, <3>1, <3>2, Zenon
  <2>3. /\ \A z \in Lo..Hi : At(z) \in 1..allocated
        /\ \A y, z \in Lo..Hi : At(y) = At(z) => y = z
        /\ \A z \in Lo..Hi - 1 : next_[At(z)] = At(z + 1)
        /\ Lo <= Hi => next_[At(Hi)] = List!Null
    BY Zenon DEF ListInv, Joined
  <2>4. Lo \in Int /\ Hi \in Nat
    BY <1>2, ListBounds
  <2>5. \A z \in Lo..Hi - 1 : next_'[At(z)] = At(z + 1)
    BY <2>1, <2>3, <2>4
  <2>6. Lo <= Hi => next_'[At(Hi)] = List!Null
    BY <2>1, <2>3, <2>4
  <2> QED
    BY <1>1, <1>12, <1>13, <2>2, <2>3, <2>5, <2>6, Zenon DEF Joined
<1>16. Headed'
  BY <1>1, <1>10, <1>12, <1>14, Zenon DEF Headed
<1>17. Tailed'
  <2>1. Tailed
    BY DEF ListInv
  <2> QED
    BY <1>1, <1>8, <1>12, <1>13, <1>14, <2>1, Zenon DEF Tailed
<1>18. ASSUME NEW u \in Threads PROVE Owns(u)'
  BY <1>1, <1>12, <1>13, <1>14, Zenon DEF ListInv, Owns
<1>19. LocksOf(t)' /\ Visits(t)'
  BY <1>1, <1>6, <1>7 DEF LocksOf, Visits, Taking, FrontLinked, Visiting, ListInv
<1>20. ASSUME NEW u \in Threads \ {t} PROVE LocksOf(u)' /\ Visits(u)'
  <2>1. LocksOf(u)'
    BY <1>1, <1>6, <1>7, LocksKept, Zenon
  <2>2. Lo \in Int /\ Hi \in Nat
    BY <1>2, ListBounds
  <2>3. Visits(u)'
    BY <1>1, <1>6, <1>11, <1>12, <1>13, <2>2, VisitKept
  <2> QED
    BY <2>1, <2>3
<1> QED
  BY <1>11, <1>15, <1>16, <1>17, <1>18, <1>19, <1>20, Zenon DEF ListInv

\* pushFront hangs its node, and with it the list, on head_.
LEMMA PushFrontLinkInv ==
  ASSUME ListInv, ~undefined, NEW t \in Threads, List!PushFrontLink(t)
  PROVE  ListInv'
<1>1. /\ UNCHANGED <<mt_, tail_, global_mt_, allocated, undefined, call, node, backs, todo, seen>>
      /\ call[t] = "pushFront" /\ pc[t] = "taken" /\ pc' = [pc EXCEPT ![t] = "linked"]
      /\ next_' = [next_ EXCEPT ![List!head_] = node[t]] /\ fronts' = Append(fronts, node[t])
  BY DEF List!PushFrontLink, List!Goto, List!views
<1>2. /\ ListShape /\ List!head_ \in List!Nodes /\ List!head_ = 0
      /\ allocated \in Nat /\ fronts \in Seq(List!Nodes)
  BY DEF ListInv, ListShape, List!Nodes, List!head_
<1>3. Unlinked(t) /\ Taking(t)
  BY <1>1 DEF Unlinked, List!Pushes, Taking
<1>4. /\ node[t] \in 1..allocated /\ (\A z \in Lo..Hi : At(z) # node[t])
      /\ \A u \in Threads : Unlinked(u) /\ node[u] = node[t] => u = t
  BY <1>3, Zenon DEF ListInv, Owns
<1>5. node[t] \in List!Nodes /\ node[t] # List!head_ /\ node[t] \in 1..MaxPushes
  BY <1>2, <1>4 DEF ListShape, List!Nodes
<1>6. /\ pc' \in [Threads -> ListPlaces] /\ pc'[t] = "linked"
      /\ \A u \in Threads \ {t} : pc'[u] = pc[u]
  BY <1>1, <1>2 DEF ListShape, ListPlaces
<1>7. mt_[List!head_] = t
  BY <1>3, Zenon DEF ListInv, LocksOf
<1>8. \A u \in Threads \ {t} : ~Taking(u) /\ ~FrontLinked(u)
  BY <1>7, Zenon DEF ListInv, LocksOf
<1>9. next_[node[t]] = FirstNode
  BY <1>3, Zenon DEF ListInv, Headed
<1>10. /\ next_' \in [List!Nodes -> (1..MaxPushes) \cup {List!Null}] /\ next_'[List!head_] = node[t]
       /\ \A n \in List!Nodes : n # List!head_ => next_'[n] = next_[n]
  BY <1>1, <1>2, <1>5 DEF ListShape
<1>11. /\ fronts' \in Seq(List!Nodes) /\ Len(fronts') = Len(fronts) + 1
       /\ fronts'[Len(fronts) + 1] = node[t]
       /\ \A i \in 1..Len(fronts) : fronts'[i] = fronts[i]
  BY <1>1, <1>2, <1>5
<1>12. ListShape'
  <2>1. List!Nodes' = List!Nodes
    BY DEF List!Nodes
  <2> QED
    BY <1>1, <1>2, <1>6, <1>10, <1>11, <2>1, Zenon DEF ListShape
<1>13. Lo \in Int /\ Hi \in Nat /\ Lo <= 1 /\ Len(fronts) \in Nat /\ Lo = 1 - Len(fronts)
  BY <1>2, ListBounds DEF Lo
<1>14. PICK a \in Int, b \in Nat : a = Lo /\ b = Hi
  BY <1>13
<1>15. Lo' = a - 1 /\ Hi' = b /\ a <= 1
  BY <1>1, <1>11, <1>13, <1>14 DEF Lo, Hi
<1>16. At(a - 1)' = node[t]
  <2>1. ~(a - 1 >= 1) /\ 1 - (a - 1) = Len(fronts) + 1
    BY <1>13, <1>14
  <2> QED
    BY <1>11, <2>1, Zenon DEF At
<1>17. ASSUME NEW z \in a..b PROVE At(z)' = At(z)
  <2>1. CASE z >= 1
    BY <1>1, <2>1 DEF At
  <2>2. CASE ~(z >= 1)
    <3>1. 1 - z \in 1..Len(fronts)
      BY <1>13, <1>14, <2>2
    <3> QED
      BY <1>11, <2>2, <3>1, Zenon DEF At
  <2> QED
    BY <2>1, <2>2
<1>18. a - 1..b = {a - 1} \cup a..b /\ a - 1 \notin a..b
  BY <1>15
<1>19. \A u \in Threads : /\ ~Taking(u)' /\ (FrontLinked(u)' <=> u = t)
                          /\ BackLinked(u)' <=> BackLinked(u)
                          /\ Unlinked(u)' <=> Unlinked(u) /\ u # t
  BY <1>1, <1>6, <1>8 DEF Taking, FrontLinked, BackLinked, Unlinked
<1>20. /\ \A z \in a..b : At(z) \in 1..allocated /\ At(z) # node[t]
       /\ \A y, z \in a..b : At(y) = At(z) => y = z
       /\ \A z \in a..b - 1 : next_[At(z)] = At(z + 1)
       /\ a <= b => next_[At(b)] = List!Null
  BY <1>4, <1>14, Zenon DEF ListInv, Joined
<1>21. FirstNode = IF a <= b THEN At(a) ELSE List!Null
  BY <1>14, Zenon DEF FirstNode
<1>22. Joined'
  <2>1. \A z \in a - 1..b : At(z)' \in 1..allocated
    BY <1>4, <1>16, <1>17, <1>18, <1>20, Zenon
  <2>2. ASSUME NEW y \in a - 1..b, NEW z \in a - 1..b, At(y)' = At(z)' PROVE y = z
    <3>1. CASE y \in a..b /\ z \in a..b
      <4>1. At(y)' = At(y) /\ At(z)' = At(z)
        BY <1>17, <3>1
      <4>2. At(y) = At(z)
        BY <2>2, <4>1
      <4> QED
        BY <1>20, <3>1, <4>2, Zenon
    <3>2. CASE y \in a..b /\ z = a - 1
      BY <1>16, <1>17, <1>20, <2>2, <3>2, Zenon
    <3>3. CASE y = a - 1 /\ z \in a..b
      BY <1>16, <1>17, <1>20, <2>2, <3>3, Zenon
    <3>4. (y = a - 1 \/ y \in a..b) /\ (z = a - 1 \/ z \in a..b)
      BY <1>18
    <3> QED
      BY <3>1, <3>2, <3>3, <3>4, Zenon
  <2>3. ASSUME NEW z \in a - 1..b PROVE next_'[At(z)'] = next_[At(z)']
    <3>1. At(z)' \in 1..allocated
      BY <2>1
    <3>2. At(z)' \in List!Nodes /\ At(z)' # List!head_
      BY <1>2, <3>1 DEF ListShape, List!Nodes
    <3> QED
      BY <1>10, <3>2, Zenon
  <2>4. ASSUME NEW z \in a - 1..b - 1 PROVE next_'[At(z)'] = At(z + 1)'
    <3>1. z \in a - 1..b /\ z + 1 \in a..b
      BY <1>15
    <3>2. CASE z = a - 1
      <4>1. At(z)' = node[t] /\ z + 1 = a /\ a <= b
        BY <1>16, <3>2, <3>1
      <4> QED
        BY <1>9, <1>17, <1>21, <2>3, <3>1, <4>1, Zenon
    <3>3. CASE z # a - 1
      <4>1. z \in a..b /\ z \in a..b - 1
        BY <3>1, <3>3
      <4> QED
        BY <1>17, <1>20, <2>3, <3>1, <4>1, Zenon
    <3> QED
      BY <3>2, <3>3
  <2>5. next_'[At(b)'] = List!Null
    <3>1. CASE a <= b
      <4>1. b \in a..b /\ b \in a - 1..b
        BY <3>1
      <4> QED
        BY <1>17, <1>20, <2>3, <3>1, <4>1, Zenon
    <3>2. CASE ~(a <= b)
      <4>1. b = a - 1 /\ b \in a - 1..b
        BY <1>15, <3>2
      <4> QED
        BY <1>9, <1>16, <1>21, <2>3, <3>2, <4>1, Zenon
    <3> QED
      BY <3>1, <3>2
  <2>6. ASSUME NEW n \in 1..MaxPushes, \A z \in a - 1..b : At(z)' # n PROVE next_'[n] = List!Null
    <3>1. n \in List!Nodes /\ n # List!head_
      BY <1>2 DEF ListShape, List!Nodes
    <3>2. n # node[t] /\ \A z \in a..b : At(z) # n
      BY <1>16, <1>17, <1>18, <2>6, Zenon
    <3>3. next_[n] = List!Null
      BY <1>8, <1>14, <3>2, Zenon DEF ListInv, Joined
    <3> QED
      BY <1>10, <3>1, <3>3, Zenon
  <2> QED
    BY <1>1, <1>15, <2>1, <2>2, <2>4, <2>5, <2>6, Zenon DEF Joined
<1>23. Headed'
  <2>1. a - 1 <= b /\ a - 1 <= 0
    BY <1>15
  <2>2. FirstNode' = node[t]
    <3>1. FirstNode' = At(a - 1)'
      BY <1>15, <2>1 DEF FirstNode
    <3> QED
      BY <1>16, <3>1
  <2> QED
    BY <1>1, <1>10, <1>15, <1>16, <1>19, <2>1, <2>2, Zenon DEF Headed
<1>24. Tailed'
  <2>1. CASE tail_ = List!Unset
    <3>1. b = 0 /\ a >= 0 /\ (a = 0 => \E u \in Threads : FrontLinked(u))
      BY <1>14, <2>1, Zenon DEF ListInv, Tailed
    <3>2. ~FrontLinked(t)
      BY <1>1 DEF FrontLinked
    <3>3. a = 1
      BY <1>8, <1>15, <3>1, <3>2
    <3> QED
      BY <1>1, <1>15, <1>19, <2>1, <3>1, <3>3 DEF Tailed
  <2>2. CASE tail_ # List!Unset
    <3>1. /\ a <= 0 /\ ((\A u \in Threads : ~BackLinked(u)) => tail_ = At(b))
          /\ \A u \in Threads : BackLinked(u) => b >= 1 /\ tail_ = At(b - 1)
      BY <1>14, <2>2, Zenon DEF ListInv, Tailed
    <3>2. a - 1 <= 0 /\ b \in a..b /\ (b >= 1 => b - 1 \in a..b)
      BY <3>1
    <3> QED
      BY <1>1, <1>15, <1>17, <1>19, <2>2, <3>1, <3>2, Zenon DEF Tailed
  <2> QED
    BY <2>1, <2>2
<1>25. ASSUME NEW u \in Threads PROVE Owns(u)'
  <2> SUFFICES ASSUME Unlinked(u), u # t PROVE Owns(u)'
    BY <1>19, Zenon DEF Owns
  <2>1. /\ node[u] \in 1..allocated /\ (\A z \in a..b : At(z) # node[u])
        /\ \A v \in Threads : Unlinked(v) /\ node[v] = node[u] => v = u
    BY <1>14, Zenon DEF ListInv, Owns
  <2>2. \A z \in a - 1..b : At(z)' # node[u]
    BY <1>4, <1>16, <1>17, <1>18, <2>1, Zenon
  <2> QED
    BY <1>1, <1>15, <1>19, <2>1, <2>2, Zenon DEF Owns
<1>26. LocksOf(t)' /\ Visits(t)'
  BY <1>1, <1>6, <1>7 DEF LocksOf, Visits, Taking, FrontLinked, Visiting, ListInv
<1>27. ASSUME NEW u \in Threads \ {t} PROVE LocksOf(u)' /\ Visits(u)'
  <2>1. LocksOf(u)'
    BY <1>1, <1>6, LocksKept, Zenon
  <2>2. Visiting(u) => node[u] # List!head_
    BY <1>7, Zenon DEF ListInv, LocksOf
  <2>3. Lo' <= Lo /\ Hi <= Hi' /\ \A z \in Lo..Hi : At(z)' = At(z)
    BY <1>14, <1>15, <1>17
  <2>4. Visits(u)'
    BY <1>1, <1>6, <1>12, <2>2, <2>3, VisitKept
  <2> QED
    BY <2>1, <2>4
<1> QED
  BY <1>12, <1>22, <1>23, <1>24, <1>25, <1>26, <1>27, Zenon DEF ListInv

\* The return of a push: nothing is left to be shown but what it does to tail_.
LEMMA LinkedReturnInv ==
  ASSUME ListInv, NEW t \in Threads, List!Return(t), pc[t] = "linked",
         UNCHANGED <<next_, undefined, fronts, backs>>,
         tail_ # List!Unset => tail_' # List!Unset, Tailed'
  PROVE  ListInv'
<1>1. /\ pc'[t] = "idle" /\ seen'[t] = << >> /\ allocated' = allocated
      /\ \A u \in Threads \ {t} :
           /\ pc'[u] = pc[u] /\ call'[u] = call[u] /\ node'[u] = node[u]
           /\ todo'[u] = todo[u] /\ seen'[u] = seen[u]
           /\ mt_[List!head_] = u => mt_'[List!head_] = u
           /\ global_mt_ = u => global_mt_' = u
  BY ReturnFrees
<1>2. ListShape'
  BY ReturnFrees DEF ListInv, ListShape, List!Nodes
<1>3. allocated \in Int /\ allocated' \in Int /\ allocated <= allocated'
  BY <1>1 DEF ListInv, ListShape
<1>4. \A u \in Threads : /\ Taking(u)' <=> Taking(u)
                         /\ FrontLinked(u)' => FrontLinked(u)
                         /\ Taking(u)' \/ FrontLinked(u)' => node'[u] = node[u]
                         /\ Unlinked(u)' <=> Unlinked(u)
                         /\ Unlinked(u)' => node'[u] = node[u]
  BY <1>1 DEF Taking, FrontLinked, Unlinked
<1>5. Joined' /\ Headed'
  BY <1>3, <1>4, LinksKept
<1>6. Lo' = Lo /\ Hi' = Hi /\ Lo \in Int /\ Hi \in Nat
  BY ListBounds DEF Lo, Hi, ListInv
<1>7. ASSUME NEW z PROVE At(z)' = At(z)
  BY DEF At
<1>8. ASSUME NEW u \in Threads PROVE Owns(u)'
  <2> SUFFICES ASSUME Unlinked(u)' PROVE Owns(u)'
    BY Zenon DEF Owns
  <2>1. Unlinked(u) /\ node'[u] = node[u]
    BY <1>4
  <2>2. /\ node[u] \in 1..allocated /\ (\A z \in Lo..Hi : At(z) # node[u])
        /\ \A v \in Threads : Unlinked(v) /\ node[v] = node[u] => v = u
    BY <2>1, Zenon DEF ListInv, Owns
  <2>3. \A v \in Threads : Unlinked(v)' /\ node'[v] = node'[u] => v = u
    BY <1>4, <2>1, <2>2, Zenon
  <2> QED
    BY <1>1, <1>6, <1>7, <2>1, <2>2, <2>3, Zenon DEF Owns
<1>9. LocksOf(t)' /\ Visits(t)'
  BY <1>1, IdleHas
<1>10. ASSUME NEW u \in Threads \ {t} PROVE LocksOf(u)' /\ Visits(u)'
  <2>1. LocksOf(u)'
    BY <1>1, LocksKept, Zenon
  <2>2. Visits(u)'
    BY <1>1, <1>2, <1>6, <1>7, VisitKept
  <2> QED
    BY <2>1, <2>2
<1> QED
  BY <1>2, <1>5, <1>8, <1>9, <1>10, Zenon DEF ListInv

LEMMA PushFrontReturnInv ==
  ASSUME ListInv, ~undefined, NEW t \in Threads, List!PushFrontReturn(t)
  PROVE  ListInv'
<1>1. /\ List!Return(t) /\ UNCHANGED <<next_, undefined, fronts, backs>>
      /\ call[t] = "pushFront" /\ pc[t] = "linked"
      /\ IF next_[next_[List!head_]] = List!Null
         THEN global_mt_ = NoThread /\ tail_' = next_[List!head_]
         ELSE tail_' = tail_
  BY DEF List!PushFrontReturn, List!lists
<1>2. FrontLinked(t) /\ ~Taking(t) /\ ~BackLinked(t)
  BY <1>1 DEF FrontLinked, Taking, BackLinked
<1>3. mt_[List!head_] = t
  BY <1>2, Zenon DEF ListInv, LocksOf
<1>4. next_[List!head_] = FirstNode
  BY <1>2, <1>3, HeadLeads
<1>5. Lo <= 0 /\ Lo \in Int /\ Hi \in Nat /\ allocated \in Nat /\ NoThread \notin Threads
  <2>1. Lo <= 0
    BY <1>2, Zenon DEF ListInv, Headed
  <2> QED
    BY <2>1, ListBounds DEF ListInv, ListShape
<1>6. next_[List!head_] = At(Lo) /\ Lo \in Lo..Hi /\ Hi \in Lo..Hi
  BY <1>4, <1>5 DEF FirstNode
<1>7. /\ \A z \in Lo..Hi : At(z) \in 1..allocated
      /\ \A z \in Lo..Hi - 1 : next_[At(z)] = At(z + 1)
      /\ next_[At(Hi)] = List!Null
  <2>1. Lo <= Hi
    BY <1>5
  <2> QED
    BY <2>1, Zenon DEF ListInv, Joined
<1>8. Lo' = Lo /\ Hi' = Hi
  BY <1>1 DEF Lo, Hi
<1>9. ASSUME NEW z PROVE At(z)' = At(z)
  BY <1>1 DEF At
<1>10. \A u \in Threads : BackLinked(u)' <=> BackLinked(u)
  BY <1>1, <1>2, ReturnFrees DEF BackLinked
<1>11. Tailed' /\ tail_' # List!Unset
  <2>1. CASE next_[next_[List!head_]] = List!Null
    <3>1. Lo = Hi
      <4>1. SUFFICES ASSUME Lo # Hi PROVE FALSE
        OBVIOUS
      <4>2. Lo \in Lo..Hi - 1 /\ Lo + 1 \in Lo..Hi
        BY <1>5, <4>1
      <4>3. next_[At(Lo)] \in 1..allocated
        BY <1>7, <4>2
      <4> QED
        BY <1>5, <1>6, <2>1, <4>3 DEF List!Null
    <3>2. tail_' = At(Hi) /\ tail_' \in 1..allocated
      BY <1>1, <1>6, <1>7, <2>1, <3>1
    <3>3. tail_' # List!Unset
      BY <1>5, <3>2 DEF List!Unset
    <3>4. \A u \in Threads : ~BackLinked(u)
      BY <1>1, <1>5, <2>1 DEF ListInv, LocksOf, BackLinked
    <3> QED
      BY <1>5, <1>8, <1>9, <1>10, <3>2, <3>3, <3>4, Zenon DEF Tailed
  <2>2. CASE next_[next_[List!head_]] # List!Null
    <3>1. tail_' = tail_ /\ tail_ # List!Unset
      <4>1. SUFFICES ASSUME tail_ = List!Unset PROVE FALSE
        BY <1>1, <2>2
      <4>2. Hi = 0 /\ Lo >= 0
        BY <4>1, Zenon DEF ListInv, Tailed
      <4>3. Lo = Hi
        BY <1>5, <4>2
      <4> QED
        BY <1>6, <1>7, <2>2, <4>3
    <3> QED
      BY <1>5, <1>8, <1>9, <1>10, <3>1, Zenon DEF ListInv, Tailed
  <2> QED
    BY <2>1, <2>2
<1> QED
  BY <1>1, <1>11, LinkedReturnInv

LEMMA PushBackReturnInv ==
  ASSUME ListInv, ~undefined, NEW t \in Threads, List!PushBackReturn(t)
  PROVE  ListInv'
<1>1. /\ List!Return(t) /\ UNCHANGED <<next_, undefined, fronts, backs>>
      /\ call[t] = "pushBack" /\ pc[t] = "linked" /\ tail_' = next_[tail_]
  BY DEF List!PushBackReturn, List!lists
<1>2. global_mt_ = t /\ tail_ # List!Unset
  BY <1>1 DEF ListInv, LocksOf
<1>3. \A u \in Threads \ {t} : ~BackLinked(u)
  BY <1>2 DEF ListInv, LocksOf, BackLinked
<1>4. Lo <= 0 /\ Hi >= 1 /\ tail_ = At(Hi - 1)
  <2>1. BackLinked(t)
    BY <1>1 DEF BackLinked
  <2> QED
    BY <1>2, <2>1, Zenon DEF ListInv, Tailed
<1>5. Lo \in Int /\ Hi \in Nat /\ allocated \in Nat
  BY ListBounds DEF ListInv, ListShape
<1>6. Hi - 1 \in Lo..Hi - 1 /\ Hi - 1 + 1 = Hi /\ Hi \in Lo..Hi
  BY <1>4, <1>5
<1>7. tail_' = At(Hi) /\ tail_' \in 1..allocated
  <2>1. /\ \A z \in Lo..Hi : At(z) \in 1..allocated
        /\ \A z \in Lo..Hi - 1 : next_[At(z)] = At(z + 1)
    BY Zenon DEF ListInv, Joined
  <2> QED
    BY <1>1, <1>4, <1>6, <2>1
<1>8. tail_' # List!Unset
  BY <1>5, <1>7 DEF List!Unset
<1>9. \A u \in Threads : ~BackLinked(u)'
  <2>1. pc'[t] = "idle" /\ \A u \in Threads \ {t} : pc'[u] = pc[u] /\ call'[u] = call[u]
    BY <1>1, ReturnFrees
  <2> QED
    BY <1>3, <2>1 DEF BackLinked
<1>10. Tailed'
  <2>1. Lo' = Lo /\ Hi' = Hi
    BY <1>1 DEF Lo, Hi
  <2>2. ASSUME NEW z PROVE At(z)' = At(z)
    BY <1>1 DEF At
  <2> QED
    BY <1>4, <1>7, <1>8, <1>9, <2>1, <2>2, Zenon DEF Tailed
<1> QED
  BY <1>1, <1>8, <1>10, LinkedReturnInv

\* pushBack hangs its node on the last one.
LEMMA PushBackLinkInv ==
  ASSUME ListInv, ~undefined, NEW t \in Threads, List!PushBackLink(t)
  PROVE  ListInv'
<1>1. /\ UNCHANGED <<mt_, tail_, global_mt_, allocated, undefined, call, node, fronts, todo, seen>>
      /\ call[t] = "pushBack" /\ pc[t] = "global" /\ pc' = [pc EXCEPT ![t] = "linked"]
      /\ next_' = [next_ EXCEPT ![tail_] = node[t]] /\ backs' = Append(backs, node[t])
  BY DEF List!PushBackLink, List!Goto, List!views
<1>2. /\ ListShape /\ List!head_ \in List!Nodes /\ List!head_ = 0
      /\ allocated \in Nat /\ backs \in Seq(List!Nodes)
  BY DEF ListInv, ListShape, List!Nodes, List!head_
<1>3. Unlinked(t)
  BY <1>1 DEF Unlinked, List!Pushes
<1>4. /\ node[t] \in 1..allocated /\ (\A z \in Lo..Hi : At(z) # node[t])
      /\ \A u \in Threads : Unlinked(u) /\ node[u] = node[t] => u = t
  BY <1>3, Zenon DEF ListInv, Owns
<1>5. node[t] \in List!Nodes /\ node[t] # List!head_ /\ node[t] \in 1..MaxPushes
  BY <1>2, <1>4 DEF ListShape, List!Nodes
<1>6. /\ pc' \in [Threads -> ListPlaces] /\ pc'[t] = "linked"
      /\ \A u \in Threads \ {t} : pc'[u] = pc[u]
  BY <1>1, <1>2 DEF ListShape, ListPlaces
<1>7. global_mt_ = t /\ tail_ # List!Unset
  BY <1>1 DEF ListInv, LocksOf
<1>8. \A u \in Threads : ~BackLinked(u)
  BY <1>1, <1>7 DEF ListInv, LocksOf, BackLinked
<1>9. Lo \in Int /\ Hi \in Nat /\ Lo <= 0 /\ Len(backs) \in Nat /\ Hi = Len(backs)
  <2>1. Lo <= 0
    BY <1>7, Zenon DEF ListInv, Tailed
  <2> QED
    BY <1>2, <2>1, ListBounds DEF Hi
<1>10. PICK a \in Int, b \in Nat : a = Lo /\ b = Hi
  BY <1>9
<1>11. tail_ = At(b) /\ b \in a..b /\ a \in a..b
  <2>1. tail_ = At(Hi)
    BY <1>7, <1>8, Zenon DEF ListInv, Tailed
  <2> QED
    BY <1>9, <1>10, <2>1
<1>12. /\ \A z \in a..b : At(z) \in 1..allocated /\ At(z) # node[t]
       /\ \A y, z \in a..b : At(y) = At(z) => y = z
       /\ \A z \in a..b - 1 : next_[At(z)] = At(z + 1)
       /\ \A n \in 1..MaxPushes :
            (\A z \in a..b : At(z) # n) => next_[n] = List!Null \/ \E u \in Threads : Taking(u) /\ node[u] = n
  BY <1>4, <1>10, Zenon DEF ListInv, Joined
<1>13. tail_ \in List!Nodes /\ tail_ # List!head_
  <2>1. tail_ \in 1..allocated
    BY <1>11, <1>12, Zenon
  <2> QED
    BY <1>2, <2>1 DEF ListShape, List!Nodes
<1>14. /\ next_' \in [List!Nodes -> (1..MaxPushes) \cup {List!Null}] /\ next_'[tail_] = node[t]
       /\ \A n \in List!Nodes : n # tail_ => next_'[n] = next_[n]
  BY <1>1, <1>2, <1>5, <1>13 DEF ListShape
<1>15. /\ backs' \in Seq(List!Nodes) /\ Len(backs') = b + 1 /\ backs'[b + 1] = node[t]
       /\ \A i \in 1..b : backs'[i] = backs[i]
  BY <1>1, <1>2, <1>5, <1>9, <1>10
<1>16. ListShape'
  <2>1. List!Nodes' = List!Nodes
    BY DEF List!Nodes
  <2> QED
    BY <1>1, <1>2, <1>6, <1>14, <1>15, <2>1, Zenon DEF ListShape
<1>17. Lo' = a /\ Hi' = b + 1 /\ a <= 0
  BY <1>1, <1>9, <1>10, <1>15 DEF Lo, Hi
<1>18. At(b + 1)' = node[t]
  <2>1. b + 1 >= 1
    OBVIOUS
  <2> QED
    BY <1>15, <2>1, Zenon DEF At
<1>19. ASSUME NEW z \in a..b PROVE At(z)' = At(z)
  <2>1. CASE z >= 1
    <3>1. z \in 1..b
      BY <2>1
    <3> QED
      BY <1>15, <2>1, <3>1, Zenon DEF At
  <2>2. CASE ~(z >= 1)
    BY <1>1, <2>2 DEF At
  <2> QED
    BY <2>1, <2>2
<1>20. a..b + 1 = {b + 1} \cup a..b /\ b + 1 \notin a..b
  BY <1>17
<1>21. \A u \in Threads : /\ Taking(u)' <=> Taking(u)
                          /\ FrontLinked(u)' <=> FrontLinked(u)
                          /\ BackLinked(u)' <=> u = t
                          /\ Unlinked(u)' <=> Unlinked(u) /\ u # t
                          /\ Taking(u) => Unlinked(u) /\ u # t
  BY <1>1, <1>6, <1>8 DEF Taking, FrontLinked, BackLinked, Unlinked, List!Pushes
<1>22. ASSUME NEW u \in Threads, Unlinked(u)
       PROVE  /\ node[u] \in 1..allocated /\ (\A z \in a..b : At(z) # node[u])
              /\ \A v \in Threads : Unlinked(v) /\ node[v] = node[u] => v = u
  BY <1>10, <1>22, Zenon DEF ListInv, Owns
<1>23. Joined'
  <2>1. \A z \in a..b + 1 : At(z)' \in 1..allocated
    BY <1>4, <1>12, <1>18, <1>19, <1>20, Zenon
  <2>2. ASSUME NEW y \in a..b + 1, NEW z \in a..b + 1, At(y)' = At(z)' PROVE y = z
    <3>1. CASE y \in a..b /\ z \in a..b
      <4>1. At(y)' = At(y) /\ At(z)' = At(z)
        BY <1>19, <3>1
      <4>2. At(y) = At(z)
        BY <2>2, <4>1
      <4> QED
        BY <1>12, <3>1, <4>2, Zenon
    <3>2. CASE y \in a..b /\ z = b + 1
      BY <1>12, <1>18, <1>19, <2>2, <3>2, Zenon
    <3>3. CASE y = b + 1 /\ z \in a..b
      <4>1. At(y)' = node[t] /\ At(z)' = At(z)
        BY <1>18, <1>19, <3>3
      <4>2. At(z) = node[t]
        BY <2>2, <4>1
      <4> QED
        BY <1>12, <3>3, <4>2, Zenon
    <3>4. (y = b + 1 \/ y \in a..b) /\ (z = b + 1 \/ z \in a..b)
      BY <1>20
    <3> QED
      BY <3>1, <3>2, <3>3, <3>4, Zenon
  <2>3. ASSUME NEW z \in a..b PROVE next_'[At(z)'] = At(z + 1)'
    <3>1. CASE z = b
      BY <1>11, <1>14, <1>18, <1>19, <3>1, Zenon
    <3>2. CASE z # b
      <4>1. z \in a..b - 1 /\ z + 1 \in a..b
        BY <3>2
      <4>2. At(z) \in 1..allocated /\ At(z) # tail_
        BY <1>11, <1>12, <3>2, Zenon
      <4>3. At(z) \in List!Nodes
        BY <1>2, <4>2 DEF ListShape, List!Nodes
      <4> QED
        BY <1>12, <1>14, <1>19, <4>1, <4>2, <4>3, Zenon
    <3> QED
      BY <3>1, <3>2
  <2>4. next_'[At(b + 1)'] = List!Null
    <3>1. next_[node[t]] = List!Null
      BY <1>4, <1>5, <1>12, <1>21, Zenon
    <3>2. node[t] # tail_
      BY <1>11, <1>12, Zenon
    <3> QED
      BY <1>5, <1>14, <1>18, <3>1, <3>2, Zenon
  <2>5. ASSUME NEW n \in 1..MaxPushes, \A z \in a..b + 1 : At(z)' # n
        PROVE  next_'[n] = List!Null \/ \E u \in Threads : Taking(u)' /\ node[u] = n
    <3>1. n \in List!Nodes
      BY <1>2 DEF ListShape, List!Nodes
    <3>2. \A z \in a..b : At(z) # n
      BY <1>19, <1>20, <2>5, Zenon
    <3>3. n # tail_
      BY <1>11, <3>2, Zenon
    <3>4. next_[n] = List!Null \/ \E u \in Threads : Taking(u) /\ node[u] = n
      BY <1>12, <3>2, Zenon
    <3> QED
      BY <1>14, <1>21, <3>1, <3>3, <3>4, Zenon
  <2>6. a..(b + 1) - 1 = a..b
    OBVIOUS
  <2> QED
    BY <1>1, <1>17, <2>1, <2>2, <2>3, <2>4, <2>5, <2>6, Zenon DEF Joined
<1>24. Headed'
  <2>1. FirstNode' = FirstNode
    <3>1. a <= b /\ a <= b + 1
      BY <1>17
    <3> QED
      BY <1>10, <1>11, <1>17, <1>19, <3>1, Zenon DEF FirstNode
  <2>2. next_'[List!head_] = next_[List!head_]
    BY <1>2, <1>13, <1>14, Zenon
  <2>3. ASSUME NEW u \in Threads, Taking(u) PROVE next_'[node[u]] = next_[node[u]]
    <3>1. node[u] \in 1..allocated /\ node[u] # tail_
      BY <1>11, <1>21, <1>22, <2>3, Zenon
    <3>2. node[u] \in List!Nodes
      BY <1>2, <3>1 DEF ListShape, List!Nodes
    <3> QED
      BY <1>14, <3>1, <3>2, Zenon
  <2>4. /\ (\A u \in Threads : ~Taking(u)) => next_[List!head_] = FirstNode
        /\ \A u \in Threads : /\ Taking(u) => next_[List!head_] = List!Null /\ next_[node[u]] = FirstNode
                              /\ FrontLinked(u) => a <= 0 /\ node[u] = At(a)
    BY <1>10, Zenon DEF ListInv, Headed
  <2> QED
    BY <1>1, <1>11, <1>17, <1>19, <1>21, <2>1, <2>2, <2>3, <2>4, Zenon DEF Headed
<1>25. Tailed'
  <2>1. tail_ = At(b)' /\ b + 1 >= 1 /\ (b + 1) - 1 = b
    BY <1>11, <1>19
  <2> QED
    BY <1>1, <1>7, <1>17, <1>21, <2>1, Zenon DEF Tailed
<1>26. ASSUME NEW u \in Threads PROVE Owns(u)'
  <2> SUFFICES ASSUME Unlinked(u), u # t PROVE Owns(u)'
    BY <1>21, Zenon DEF Owns
  <2>1. node[u] # node[t]
    BY <1>4, Zenon
  <2>2. \A z \in a..b + 1 : At(z)' # node[u]
    BY <1>18, <1>19, <1>20, <1>22, <2>1, Zenon
  <2> QED
    BY <1>1, <1>17, <1>21, <1>22, <2>2, Zenon DEF Owns
<1>27. LocksOf(t)' /\ Visits(t)'
  BY <1>1, <1>6, <1>7 DEF LocksOf, Visits, Taking, FrontLinked, Visiting, ListInv
<1>28. ASSUME NEW u \in Threads \ {t} PROVE LocksOf(u)' /\ Visits(u)'
  <2>1. LocksOf(u)'
    BY <1>1, <1>6, LocksKept, Zenon
  <2>2. Lo' = Lo /\ Lo' <= Lo /\ Hi <= Hi' /\ \A z \in Lo..Hi : At(z)' = At(z)
    BY <1>10, <1>17, <1>19
  <2>3. Visits(u)'
    BY <1>1, <1>6, <1>16, <2>2, VisitKept
  <2> QED
    BY <2>1, <2>3
<1> QED
  BY <1>16, <1>23, <1>24, <1>25, <1>26, <1>27, <1>28, Zenon DEF ListInv

\* The inductive invariant.
THEOREM AlwaysListInv == ASSUME List!ListAssumption PROVE List!Spec => []ListInv
<1>1. List!Init => ListInv
  BY ListInit
<1>2. ASSUME ListInv, [List!Next]_(List!vars) PROVE ListInv'
  <2>1. CASE UNCHANGED List!vars
    <3>1. UNCHANGED <<next_, mt_, tail_, global_mt_, allocated, undefined, call, pc, node,
                      fronts, backs, todo, seen, List!Nodes>>
      BY <2>1 DEF List!vars, List!Nodes
    <3>2. Lo' = Lo /\ Hi' = Hi /\ FirstNode' = FirstNode
      BY <3>1 DEF Lo, Hi, FirstNode, At
    <3>3. ASSUME NEW z PROVE At(z)' = At(z)
      BY <3>1 DEF At
    <3>5. ASSUME NEW u PROVE /\ Taking(u)' <=> Taking(u)
                             /\ FrontLinked(u)' <=> FrontLinked(u)
                             /\ BackLinked(u)' <=> BackLinked(u)
                             /\ Unlinked(u)' <=> Unlinked(u)
      BY <3>1, Zenon DEF Taking, FrontLinked, BackLinked, Unlinked
    <3>6. ListShape'
      BY <1>2, <3>1, Zenon DEF ListInv, ListShape
    <3>7. Joined' /\ Headed' /\ Tailed'
      <4>1. allocated \in Int /\ allocated <= allocated'
        BY <1>2, <3>1 DEF ListInv, ListShape
      <4> QED
        BY <1>2, <3>1, <3>5, <4>1, ListKept, Zenon
    <3>8. ASSUME NEW t \in Threads PROVE LocksOf(t)' /\ Owns(t)' /\ Visits(t)'
      <4>1. LocksOf(t)'
        BY <1>2, <3>1, LocksKept, Zenon
      <4>2. Owns(t)'
        BY <1>2, <3>1, <3>2, <3>3, <3>5, Zenon DEF ListInv, Owns
      <4>3. Lo \in Int /\ Hi \in Nat
        BY <1>2, ListBounds DEF ListInv
      <4>4. Visits(t)'
        BY <1>2, <3>1, <3>2, <3>3, <3>6, <4>3, VisitKept
      <4> QED
        BY <4>1, <4>2, <4>4
    <3> QED
      BY <3>6, <3>7, <3>8, Zenon DEF ListInv
  <2>2. CASE List!Next
    <3>1. PICK t \in Threads : \/ \E op \in List!Pushes : List!PushCall(t, op)
                               \/ \E op \in List!Traversals : List!TraverseCall(t, op)
                               \/ List!Step(t)
      BY <2>2, Zenon DEF List!Next
    <3>2. ~undefined
      BY <2>2, Zenon DEF List!Next
    <3> QED
      BY <1>2, <3>1, <3>2, Zenon, PushCallInv, TraverseCallInv, PushFrontTakeInv, PushFrontLinkInv,
         PushFrontReturnInv, PushBackQuietInv, PushBackLinkInv, PushBackReturnInv, LockHeadInv,
         ReturnInv, MoveOnInv, FindOnInv, RemoveInv DEF List!Step
  <2> QED
    BY <1>2, <2>1, <2>2
<1> QED
  BY <1>1, <1>2, PTL DEF List!Spec

LEMMA SegFirst ==
  ASSUME ListShape, NEW z \in Lo..Hi
  PROVE  <<At(z)>> \o Seg(z + 1, Hi) = Seg(z, Hi)
<1>1. Lo \in Int /\ Hi \in Nat
  BY ListBounds
<1>2. z \in Int /\ Lo <= z /\ z <= Hi /\ z <= z + 1 /\ z - z + 1 = 1 /\ z + 1 - 1 = z /\ Hi <= Hi /\ Hi \in Int
  BY <1>1
<1>3. Seg(z, z) \in Seq(List!Nodes) /\ Len(Seg(z, z)) = 1 /\ Seg(z, z)[1] = At(z)
  <2>1. /\ Seg(z, z) \in Seq(List!Nodes) /\ Len(Seg(z, z)) = z - z + 1
        /\ \A i \in 1..z - z + 1 : Seg(z, z)[i] = At(z + i - 1)
    BY <1>2, SegSeq, Zenon
  <2>2. 1 \in 1..z - z + 1
    BY <1>2
  <2> QED
    BY <1>2, <2>1, <2>2, Zenon
<1>4. At(z) \in List!Nodes
  BY ListBounds
<1>5. Seg(z, z) = <<At(z)>>
  <2> DEFINE l == Seg(z, z)
             r == <<At(z)>>
  <2>1. r \in Seq(List!Nodes) /\ Len(r) = 1 /\ r[1] = At(z)
    BY <1>4
  <2> HIDE DEF l, r
  <2>2. l \in Seq(List!Nodes) /\ Len(l) = 1 /\ l[1] = At(z)
    BY <1>3 DEF l
  <2>3. \A i \in 1..1 : l[i] = r[i]
    BY <2>1, <2>2
  <2>4. l = r
    BY <2>1, <2>2, <2>3, SeqEqual
  <2> QED
    BY <2>4 DEF l, r
<1>6. Seg(z, z) \o Seg(z + 1, Hi) = Seg(z, Hi)
  BY <1>2, SegConcat, Zenon
<1> QED
  BY <1>5, <1>6

LEMMA SegNone ==
  ASSUME ListShape
  PROVE  Seg(Hi + 1, Hi) = << >>
<1>1. Lo \in Int /\ Hi \in Nat /\ Lo <= 1
  BY ListBounds
<1>2. Hi + 1 \in Int /\ Hi \in Int /\ Lo <= Hi + 1 /\ Hi <= Hi /\ Hi + 1 <= Hi + 1 /\ Hi - (Hi + 1) + 1 = 0
  BY <1>1
<1>3. Seg(Hi + 1, Hi) \in Seq(List!Nodes) /\ Len(Seg(Hi + 1, Hi)) = 0
  BY <1>2, SegSeq, Zenon
<1> QED
  BY <1>3, EmptySeq

\* Every node leads into the list or nowhere.
LEMMA LeadsToList ==
  ASSUME ListInv, NEW n \in List!Nodes
  PROVE  next_[n] = List!Null \/ \E z \in Lo..Hi : next_[n] = At(z)
<1>1. Lo \in Int /\ Hi \in Nat
  BY ListBounds DEF ListInv
<1>2. FirstNode = List!Null \/ \E z \in Lo..Hi : FirstNode = At(z)
  <2>1. Lo <= Hi => Lo \in Lo..Hi
    BY <1>1
  <2> QED
    BY <2>1, Zenon DEF FirstNode
<1>3. CASE n = List!head_
  BY <1>2, <1>3, Zenon DEF ListInv, Headed
<1>4. CASE n # List!head_
  <2>1. n \in 1..MaxPushes
    BY <1>4 DEF ListInv, ListShape, List!Nodes, List!head_
  <2>2. CASE \A z \in Lo..Hi : At(z) # n
    <3>1. next_[n] = List!Null \/ \E t \in Threads : Taking(t) /\ node[t] = n
      BY <2>1, <2>2, Zenon DEF ListInv, Joined
    <3> QED
      BY <1>2, <3>1, Zenon DEF ListInv, Headed
  <2>3. ASSUME NEW z \in Lo..Hi, At(z) = n PROVE next_[n] = List!Null \/ \E y \in Lo..Hi : next_[n] = At(y)
    <3>1. CASE z = Hi
      <4>1. Lo <= Hi
        BY <1>1
      <4>2. next_[At(Hi)] = List!Null
        BY <4>1, Zenon DEF ListInv, Joined
      <4> QED
        BY <2>3, <3>1, <4>2
    <3>2. CASE z # Hi
      <4>1. z \in Lo..Hi - 1 /\ z + 1 \in Lo..Hi
        BY <1>1, <3>2
      <4>2. next_[At(z)] = At(z + 1)
        BY <4>1, Zenon DEF ListInv, Joined
      <4> QED
        BY <2>3, <4>1, <4>2, Zenon
    <3> QED
      BY <3>1, <3>2
  <2> QED
    BY <2>2, <2>3, Zenon
<1> QED
  BY <1>3, <1>4

\* What is behind a node that leads into the list is the rest of the list.
LEMMA BehindIs ==
  ASSUME ListInv, NEW n
  PROVE  /\ next_[n] = List!Null => List!Behind(n) = << >>
         /\ \A z \in Lo..Hi : next_[n] = At(z) => List!Behind(n) = Seg(z, Hi)
<1> DEFINE D    == List!Nodes \cup {List!Null}
           F(g) == [m \in D |-> IF m = List!Null THEN << >> ELSE <<m>> \o g[next_[m]]]
           f    == CHOOSE g : g = F(g)
<1>1. List!Behind(n) = f[next_[n]]
  BY Zenon DEF List!Behind
<1>2. Lo \in Int /\ Hi \in Nat /\ ListShape /\ allocated \in Nat
  BY ListBounds DEF ListInv, ListShape
<1>3. List!Null \notin List!Nodes
  BY <1>2 DEF ListShape, List!Nodes, List!Null
<1>4. /\ \A z \in Lo..Hi : At(z) \in List!Nodes /\ At(z) \in D /\ At(z) # List!Null
      /\ \A y, z \in Lo..Hi : At(y) = At(z) => y = z
  <2>1. \A z \in Lo..Hi : At(z) \in List!Nodes
    BY <1>2, ListBounds
  <2> QED
    BY <1>3, <2>1, Zenon DEF ListInv, Joined
<1>5. ASSUME NEW z \in Lo..Hi PROVE <<At(z)>> \o Seg(z + 1, Hi) = Seg(z, Hi)
  BY <1>2, SegFirst
<1>6. Seg(Hi + 1, Hi) = << >>
  BY <1>2, SegNone
<1>7. ASSUME NEW z \in Lo..Hi
      PROVE  IF z = Hi THEN next_[At(z)] = List!Null ELSE z + 1 \in Lo..Hi /\ next_[At(z)] = At(z + 1)
  <2>1. CASE z = Hi
    <3>1. Lo <= Hi
      BY <1>2
    <3>2. next_[At(Hi)] = List!Null
      BY <3>1, Zenon DEF ListInv, Joined
    <3> QED
      BY <2>1, <3>2
  <2>2. CASE z # Hi
    <3>1. z \in Lo..Hi - 1 /\ z + 1 \in Lo..Hi
      BY <1>2, <2>2
    <3>2. next_[At(z)] = At(z + 1)
      BY <3>1, Zenon DEF ListInv, Joined
    <3> QED
      BY <2>2, <3>1, <3>2
  <2> QED
    BY <2>1, <2>2
<1>8. \E g : g = F(g)
  <2> DEFINE Place(m) == CHOOSE z \in Lo..Hi : At(z) = m
             h(m) == IF \E z \in Lo..Hi : At(z) = m THEN Seg(Place(m), Hi) ELSE << >>
             g == [m \in D |-> IF m = List!Null \/ \E z \in Lo..Hi : At(z) = m THEN h(m)
                               ELSE <<m>> \o h(next_[m])]
  <2>1. \A z \in Lo..Hi : h(At(z)) = Seg(z, Hi)
    <3> SUFFICES ASSUME NEW z \in Lo..Hi PROVE h(At(z)) = Seg(z, Hi)
      OBVIOUS
    <3>1. Place(At(z)) = z
      BY <1>4, Zenon
    <3> QED
      BY <3>1, Zenon
  <2>2. h(List!Null) = << >>
    BY <1>4, Zenon
  <2> HIDE DEF h
  <2>3. List!Null \in D /\ g[List!Null] = << >>
    BY <2>2, Zenon
  <2>4. \A z \in Lo..Hi : g[At(z)] = Seg(z, Hi)
    BY <1>4, <2>1, Zenon
  <2>5. \A m \in List!Nodes : (\A z \in Lo..Hi : At(z) # m) => g[m] = <<m>> \o h(next_[m])
    BY <1>3, Zenon
  <2> HIDE DEF g
  <2>6. ASSUME NEW m \in D PROVE g[m] = IF m = List!Null THEN << >> ELSE <<m>> \o g[next_[m]]
    <3>1. CASE m = List!Null
      BY <2>3, <3>1, Zenon
    <3>2. ASSUME NEW z \in Lo..Hi, m = At(z) PROVE g[m] = <<m>> \o g[next_[m]]
      <4>1. g[next_[m]] = Seg(z + 1, Hi)
        <5>1. CASE z = Hi
          BY <1>6, <1>7, <2>3, <3>2, <5>1, Zenon
        <5>2. CASE z # Hi
          BY <1>7, <2>4, <3>2, <5>2, Zenon
        <5> QED
          BY <5>1, <5>2
      <4> QED
        BY <1>5, <2>4, <3>2, <4>1, Zenon
    <3>3. CASE m # List!Null /\ \A z \in Lo..Hi : At(z) # m
      <4>1. m \in List!Nodes
        BY <3>3
      <4>2. next_[m] = List!Null \/ \E z \in Lo..Hi : next_[m] = At(z)
        BY <4>1, LeadsToList
      <4>3. h(next_[m]) = g[next_[m]]
        BY <2>1, <2>2, <2>3, <2>4, <4>2, Zenon
      <4> QED
        BY <2>5, <3>3, <4>1, <4>3, Zenon
    <3> QED
      BY <1>4, <3>1, <3>2, <3>3, Zenon
  <2>7. g = F(g)
    BY <2>6, Zenon DEF g
  <2> QED
    BY <2>7, Zenon
<1>9. f = F(f)
  BY <1>8, Zenon
<1>10. \A m \in D : f[m] = IF m = List!Null THEN << >> ELSE <<m>> \o f[next_[m]]
  BY <1>9, Zenon
<1> HIDE DEF f
<1>11. f[List!Null] = << >>
  BY <1>10, Zenon
<1> DEFINE G == {z \in Lo..Hi : f[At(z)] = Seg(z, Hi)}
<1>12. ASSUME NEW z \in Lo..Hi, f[next_[At(z)]] = Seg(z + 1, Hi) PROVE z \in G
  <2>1. f[At(z)] = <<At(z)>> \o f[next_[At(z)]]
    BY <1>4, <1>10, Zenon
  <2> QED
    BY <1>5, <1>12, <2>1, Zenon
<1>13. Lo <= Hi => Hi \in G
  <2> SUFFICES ASSUME Lo <= Hi PROVE Hi \in G
    OBVIOUS
  <2>1. Hi \in Lo..Hi
    BY <1>2
  <2> QED
    BY <1>6, <1>7, <1>11, <1>12, <2>1, Zenon
<1>14. ASSUME NEW y \in Lo + 1..Hi, y \in G PROVE y - 1 \in G
  <2>1. y - 1 \in Lo..Hi /\ (y - 1) + 1 = y /\ y - 1 # Hi
    BY <1>2
  <2> DEFINE x == y - 1
  <2> HIDE DEF x
  <2>2. x \in Lo..Hi /\ x + 1 = y /\ x # Hi
    BY <2>1 DEF x
  <2>3. f[next_[At(x)]] = Seg(x + 1, Hi)
    BY <1>7, <1>14, <2>2, Zenon
  <2>4. x \in G
    BY <1>12, <2>2, <2>3, Zenon
  <2> QED
    BY <2>4 DEF x
<1> HIDE DEF G
<1>15. \A z \in Lo..Hi : z \in G
  <2>1. CASE Lo <= Hi
    BY <1>2, <1>13, <1>14, <2>1, IntervalDownwards
  <2>2. CASE ~(Lo <= Hi)
    BY <1>2, <2>2
  <2> QED
    BY <2>1, <2>2
<1> QED
  BY <1>1, <1>11, <1>15, Zenon DEF G

(***************************************************************************)
(* No push is lost, whatever the threads do and however many they are: the *)
(* list behind head_, or behind the node of the pushFront that has just    *)
(* taken it from head_, is what was pushed, in its order.                  *)
(***************************************************************************)
LEMMA InvInOrder == ASSUME ListInv PROVE List!PushedInOrder
<1>1. ListShape /\ Lo \in Int /\ Hi \in Nat /\ Lo <= 1
  BY ListBounds DEF ListInv
<1>2. List!Reversed(fronts) \o backs = Seg(Lo, Hi)
  BY <1>1, SegAll
<1>3. ASSUME NEW n, next_[n] = FirstNode PROVE List!Behind(n) = Seg(Lo, Hi)
  <2>1. CASE Lo <= Hi
    <3>1. Lo \in Lo..Hi /\ next_[n] = At(Lo)
      BY <1>1, <1>3, <2>1 DEF FirstNode
    <3> QED
      BY <3>1, BehindIs, Zenon
  <2>2. CASE ~(Lo <= Hi)
    <3>1. Lo = Hi + 1 /\ next_[n] = List!Null
      BY <1>1, <1>3, <2>2 DEF FirstNode
    <3>2. List!Behind(n) = << >>
      BY <3>1, BehindIs, Zenon
    <3> QED
      BY <1>1, <3>1, <3>2, SegNone
  <2> QED
    BY <2>1, <2>2
<1>4. CASE \A t \in Threads : ~Taking(t)
  <2>1. next_[List!head_] = FirstNode
    BY <1>4, Zenon DEF ListInv, Headed
  <2> QED
    BY <1>2, <1>3, <2>1, Zenon DEF List!PushedInOrder
<1>5. ASSUME NEW t \in Threads, Taking(t) PROVE List!PushedInOrder
  <2>1. next_[node[t]] = FirstNode /\ pc[t] = "taken"
    BY <1>5, Zenon DEF ListInv, Headed, Taking
  <2> QED
    BY <1>2, <1>3, <2>1, Zenon DEF List!PushedInOrder
<1> QED
  BY <1>4, <1>5, Zenon

THEOREM PushedInOrderHolds == ASSUME List!ListAssumption PROVE List!Spec => []List!PushedInOrder
<1>1. ListInv => List!PushedInOrder
  BY InvInOrder
<1> QED
  BY <1>1, AlwaysListInv, PTL

(***************************************************************************)
(* forEach sees what was in the list when it began, and then only what     *)
(* pushBack has added: the places lo to m that it has seen, and those from *)
(* m + 1 on that are behind it, are the places lo to hi, and those after.  *)
(***************************************************************************)
LEMMA InvComplete == ASSUME ListInv PROVE List!ForEachComplete
<1> SUFFICES ASSUME NEW t \in Threads, call[t] = "forEach", pc[t] = "at"
             PROVE  \E k \in 0..Len(backs) :
                      seen[t] \o List!Behind(node[t]) = todo[t] \o SubSeq(backs, k + 1, Len(backs))
  BY Zenon DEF List!ForEachComplete
<1>1. ListShape /\ Lo \in Int /\ Hi \in Nat /\ Lo <= 1 /\ Hi = Len(backs)
  BY ListBounds DEF ListInv, Hi
<1>2. PICK lo \in Lo..1, hi \in 0..Hi, m \in Lo - 1..Hi : lo - 1 <= m /\ Visited(t, lo, hi, m)
  BY Zenon DEF ListInv, Visits
<1>3. List!AtNode(t)
  BY DEF List!AtNode, List!Traversals
<1>4. List!Behind(node[t]) = Seg(m + 1, Hi)
  <2>1. CASE next_[node[t]] # List!Null
    <3>1. m < Hi /\ next_[node[t]] = At(m + 1)
      BY <1>2, <1>3, <2>1, NextIsAt
    <3>2. m + 1 \in Lo..Hi
      BY <1>1, <3>1
    <3> QED
      BY <3>1, <3>2, BehindIs, Zenon
  <2>2. CASE next_[node[t]] = List!Null
    <3>1. m = Hi
      <4> SUFFICES ASSUME m # Hi PROVE FALSE
        OBVIOUS
      <4>1. CASE node[t] = List!head_
        <5>1. m = lo - 1 /\ lo = Lo
          BY <1>2, <4>1 DEF Visited
        <5>2. mt_[List!head_] = t /\ ~Taking(t)
          BY <4>1 DEF ListInv, LocksOf, Visiting, List!Traversals, Taking
        <5>3. next_[List!head_] = FirstNode
          BY <5>2, HeadLeads
        <5>4. Lo \in Lo..Hi
          BY <1>1, <5>1
        <5>5. At(Lo) = List!Null
          BY <1>1, <2>2, <4>1, <5>3, <5>4 DEF FirstNode
        <5>6. At(Lo) \in List!Nodes
          BY <1>1, <5>4, ListBounds
        <5> QED
          BY <1>1, <5>5, <5>6 DEF ListShape, List!Nodes, List!Null
      <4>2. CASE node[t] # List!head_
        <5>1. m >= lo /\ node[t] = At(m)
          BY <1>2, <4>2 DEF Visited
        <5>2. m \in Lo..Hi - 1 /\ m + 1 \in Lo..Hi
          BY <1>1, <5>1
        <5>3. next_[At(m)] = At(m + 1)
          BY <5>2, Zenon DEF ListInv, Joined
        <5>4. At(m + 1) \in List!Nodes
          BY <1>1, <5>2, ListBounds
        <5> QED
          BY <1>1, <2>2, <5>1, <5>3, <5>4 DEF ListShape, List!Nodes, List!Null
      <4> QED
        BY <4>1, <4>2
    <3>2. List!Behind(node[t]) = << >>
      BY <2>2, BehindIs, Zenon
    <3> QED
      BY <1>1, <3>1, <3>2, SegNone
  <2> QED
    BY <2>1, <2>2
<1>5. todo[t] = Seg(lo, hi) /\ seen[t] = Seg(lo, m)
  BY <1>2, Zenon DEF Visited
<1>6. /\ lo \in Int /\ hi \in Int /\ m \in Int /\ Hi \in Int /\ Lo <= lo /\ Hi <= Hi
      /\ lo <= m + 1 /\ m <= Hi /\ lo <= hi + 1 /\ hi <= Hi
  BY <1>1, <1>2
<1>7. Seg(lo, m) \o Seg(m + 1, Hi) = Seg(lo, Hi) /\ Seg(lo, hi) \o Seg(hi + 1, Hi) = Seg(lo, Hi)
  BY <1>1, <1>6, SegConcat, Zenon
<1>8. Seg(hi + 1, Hi) = SubSeq(backs, hi + 1, Len(backs))
  BY <1>1, SegBacks
<1>9. hi \in 0..Len(backs)
  BY <1>1
<1> QED
  BY <1>4, <1>5, <1>7, <1>8, <1>9, Zenon

THEOREM ForEachCompleteHolds == ASSUME List!ListAssumption PROVE List!Spec => []List!ForEachComplete
<1>1. ListInv => List!ForEachComplete
  BY InvComplete
<1> QED
  BY <1>1, AlwaysListInv, PTL
=============================================================================
