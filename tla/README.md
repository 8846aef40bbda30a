# TLA+ models of the cxx project

The repository is a collection of small concurrent C++ components with a
demonstration program for each (`src/test/test.cpp`) and one server
(`src/src/main.cpp`). This directory holds TLA+ models of the components with
real control flow, the TLC runs that check them, and TLAPS proofs.

## Inventory

| Component | State | Operations | Interacts through |
|---|---|---|---|
| `CSPChannel` | deque, capacity, `stop_` (atomic), mutex, two condition variables | `send`, `recv`, `stop` | shared memory; `stop()` takes no lock |
| `ThreadPool` | task queue, `stop_`, `thread_num_` (atomics), mutex, condition variable, threads | `commit`, the workers' loop, `stop` (destructor) | shared memory; `stop()` takes no lock |
| `CSession` | receive buffer, header and body being received, send queue | `Start`, `Send`, `Close`, `HandleRead`, `HandleWrite` | asio completion handlers; calls `CServer::ClearSession` |
| `CServer`, `main` | map of sessions, acceptor, one `io_context` run by one thread | `StartAccept`, `HandleAccept`, `ClearSession` | handlers; shared ownership of sessions |
| `messaging` | one queue per machine | `Sender::send`, `Receiver::wait`, `handle<M>` chains, `CloseQueue` | messages |
| `ATM` | current state, PIN, amount | one member function per state, with its handlers | messages to bank and interface |
| `BankMachine` | balance | handlers of `verify_pin`, `withdraw`, `get_balance`, `cancel_withdrawal` | answers to the ATM |
| `InterfaceMachine` | none (prints) | handlers of the display messages, `issue_money`, `eject_card` | none |
| `SafeCircleQueue`, `SafeCircleQueNOLock` | ring, `head_`, `tail_`, `tail_up_` | `emplace`, `pop`, destructor | one mutex / atomics |
| `SafeQueue`, `SafeQueueEnhance`, `SafeStack` | queue, linked queue, stack | `push`, `wait_pop`, `try_pop` | one mutex and a condition variable; one mutex per end |
| `SafeList` | linked nodes with a mutex each, `tail_` | `pushFront`, `pushBack`, `findFirstIf`, `forEach`, `removeIf`, `removeFirstIf` | hand-over-hand locks |
| `SafeMap` | buckets with a shared mutex each | `valueFor`, `addOrUpdateFor`, `removeFor`, `getMap` | bucket locks |
| `AsioThreadPool` | io_contexts, work guards, index | `getIoContext`, `stop` | plain counter |
| `MyUtility` | last timestamp, sequence | `generateUniqueId` | static variables without a lock |
| `AsyncServer`, `FileManager` | the files below `res`; one coroutine per connection | accept, directory page, search, download, upload | coroutines on one thread; the file system |
| `Database`, `Redis`, `WebSocketServer`, gRPC | handles | one remote command each | external servers |

What is hard in this code, and what correctness means there:

* **Condition variables with a `stop()` that takes no mutex** (`CSPChannel`,
  `ThreadPool`). Values and tasks must come out once and in order, the capacity
  must hold, `notify_one` must be enough, and after `stop()` the others must end.
* **A byte stream cut at arbitrary places** (`CSession::HandleRead`), with writes,
  failures and other sessions between two reads. Messages must be recovered
  exactly, echoed once each in order with one write at a time, and sessions must
  not be leaked on any error path.
* **Messages between three machines with cancels at any moment** (ATM). Answers
  may arrive after the request was cancelled; money, cards and the meaning of a
  verified PIN must survive that as far as the code lets them.
* **Fine-grained locking and lock-free code** (`data_struct/`). The map, the queues
  and the list must behave as if every call happened at one moment, must not lose
  or duplicate what was put in, and must not have their locks wait for each other.
* **Coroutines that share the file system** (`file_transfer/`). Between two
  `co_await`s of a download, another connection may upload the same file.
* **A clock** (`MyUtility`). Ids must differ although a millisecond has many of them.

`PROJECT.json` lists every hazard at its line under "hazards".

## Modules

| Module | Models | Notes |
|---|---|---|
| `BoundedFifo` | what a bounded channel promises | abstract: values enter and leave in order, no locks |
| `CSPChannel` | `include/CSPChannel.hpp` | implements `BoundedFifo` |
| `CSPChannel_proof` | theorems about `CSPChannel`, and about `SafeCircleQueNOLock` | TLAPS |
| `SequenceLemmas` | what the proofs need of sequences and numbers | TLAPS |
| `ThreadPool` | `include/ThreadPool.hpp` | |
| `ThreadPool_proof` | theorems about `ThreadPool` | TLAPS |
| `CSession` | `asio/CSession.{h,cpp}` and the sockets (external) | actions only |
| `CServer` | `asio/CServer.{h,cpp}`, `main.cpp` | composes sessions on one `io_context`; properties |
| `MCCServer` | the peers' messages for TLC | |
| `CServer_proof` | theorems about `CServer` with its sessions | TLAPS |
| `Messaging` | `atm/Message.hpp`, `atm/Dispatcher.hpp` | queues and the dispatcher |
| `BankMachine`, `InterfaceMachine`, `ATM` | the three machines | each extends `Messaging` |
| `ATMSystem` | `testATM`: the machines and the user | composition; properties |
| `MCATM` | the PIN for TLC | |
| `ATMSystem_proof` | theorems about `ATMSystem` with its machines | TLAPS |
| `SafeCircleQueue` | the ring queue with a mutex | one step per operation; the specification of the next one |
| `SafeCircleQueNOLock` | the lock-free ring queue | one step per access to an atomic |
| `AtomicMap` | what a concurrent map promises | abstract: every call is one step |
| `SafeMap` | `data_struct/SafeMap.hpp` | implements `AtomicMap` |
| `SafeMap_proof` | theorems about `SafeMap`, and about `SafeList` | TLAPS |
| `SafeQueue` | `SafeQueue`, and with `Lifo` `SafeStack` | one step per critical section; the specification of the next one |
| `SafeQueue_proof` | theorems about `SafeQueue`, `SafeStack` and `SafeQueueEnhance` | TLAPS |
| `SafeQueueEnhance` | the linked queue with two mutexes | implements `SafeQueue` but for the wakeups |
| `SafeList` | `data_struct/SafeList.hpp` | up to the first removal |
| `FileServer` | `file_transfer/` | accept loop, requests, files |
| `MCFileServer` | the tree below `res` for TLC | |
| `FileServer_proof` | theorems about `FileServer`, and about `UniqueId` | TLAPS |
| `UniqueId` | `MyUtility::generateUniqueId` | no run: the fields are too wide for TLC |

Variables carry the names of the members they model. Variables marked "history"
record what happened for the sake of the properties; apart from the bounds, no guard reads them.
Operators marked `mutant` are altered copies of an action; no specification
uses them, and each shows that one property would notice that mistake.

**CSPChannel and ThreadPool.** A critical section is one step, except where a
statement outside the mutex can fall into it. Since `stop()` takes no mutex, the
section is split between the evaluation of the wait predicate and the sleep
(`blocking`), and in `send` also between `if(stop_)` and `push_back` (`pushing`);
the mutex is held meanwhile. `condition_variable` is external: `notify_one` wakes
any one sleeper, `notify_all` all of them, and a sleeper may wake spuriously.
Consumers run `while(channel.recv(data))` as in `testCSPChannel`. In `ThreadPool`,
`commit` is split at the read of `stop_`, the push, and the notification outside the
mutex. The task's future is not modelled beyond the start of its task.

**CSession and CServer.** `main` runs one `io_context` in one thread, so handlers do
not overlap: one round of the `while (bytes_transferred > 0)` loop is one step, and
no other handler starts while `handling` names a session; completions of socket
operations do interleave. A read completes with any nonempty prefix of the bytes
sent, which are any bytes, whole messages or not. A byte is a number of 0..255 and a header is two of them, encoded (`Frame`) and
decoded (`DataLen`) as in the code, into a signed `short`: from 0x8000 on the length is
negative and passes the test against `MAX_LENGTH`. A length below -1 makes
`new char[]` throw out of the handler and out of `run()` (`HeadThrows`, `ioc` = "thrown"); -1
makes a node of no bytes, and the next bytes are written behind it (`HeadOverruns`,
`BodyOverruns`, `ioc` = "undefined"). Both end the model. `_send_lock` is never contended and is left out. A
session's object lives as long as the map or an outstanding handler refers to it
(`Referenced`).

**ATM.** Popping a message and running its handler is one step: the queue is
locked, and a handler only touches its machine's own members and appends to other
queues. A message with no handler in the current chain is popped and dropped, as
`waitAndDispatcher` does. `CloseQueue` ends the ATM's thread; in the bank's and
the interface's it is not caught and ends the process (`terminated`). The bank sends
`withdraw_ok` before it reduces `balance_`; as only its own thread reads
`balance_`, nobody can tell that from one step. There is
one account and one amount, as in `testATM`.

**SafeCircleQueNOLock.** Every load and every `compare_exchange` is a step, in the
order of the source; the default memory order makes them sequentially consistent. The
history variable `lapped` becomes true when an exchange succeeds although the
position was claimed by others and came round again since it was loaded. Until then
the queue implements `SafeCircleQueue` (`ImplementsLocked`), for which an
element counts as present from the claim of its position. With one producer and
one consumer no thread can be lapped, so this is unconditional there (`RingOneToOne`).

**SafeMap.** A call locks its bucket and looks its entry up in one step and uses the
iterator in the next, so that an update in between would be seen. `getMap` takes one
lock a step, then copies one bucket a step. Keys are numbers and hash to themselves.
The refinement puts a snapshot at the moment of its last lock: from there on the
answer is the map as it is, which the locks keep from changing until `getMap` returns.

**SafeQueue, SafeStack, SafeQueueEnhance.** The critical sections of `SafeQueue` and
`SafeStack` are steps, with `notify_one` inside. `SafeQueueEnhance` compares `head_`
with `tail_` under one mutex while `push` writes `tail_` under the other; on a
plain pointer this is a data race. The outcome modelled is the one of a build for
x86-64 that keeps the order of the stores in `push`: the load sees the old or the new
pointer, and whoever sees the new one sees the linked node. Data and `next` of the old
tail are separate steps before it. Since nothing notifies `cv_lock_`, a sleeper
wakes only spuriously; the refinement maps it to a waiter of `SafeQueue` that does
not get the mutex, so it speaks of order and emptiness and not of wakeups.

**SafeList.** Every mutex that is taken is a step; so are the two moves of
`pushFront`, between which `head_` has no successor. `pushBack` reads `tail_`, then
locks the node it read, then `global_mt_`, and then writes to the tail of that moment,
which may be another node. `findFirstIf` frees the next node's mutex before it
reads the node and drops `head_`'s at the end of its first round, as the code does.
A removal, and a `pushBack` to a list whose `tail_` was never set, set `undefined`:
the program's behaviour is undefined from there on and the model stops.

**FileServer.** One task of the pool runs the `io_context`, so that what a coroutine
does between two `co_await`s is one step: reading the request and preparing the
response (with the whole upload), then each chunk of the response. `co_spawn`
on the strand it is called from starts the coroutine inside the call. A path is a
sequence of names, a content a sequence of chunks; what a page lists is left out. A request
whose path begins with `/search` is a search whatever follows (`IsSearch`). Beast's file body reads the file when a chunk is
due and announces the length it had when it was opened (external). The history variable `held`
has the contents the file of a download has had since then. Clients connect
again and again; any connection, and the accept, may fail.

**UniqueId.** One thread calls `generateUniqueId`, always for the same machine; the
clock stands still, goes on or is set back between any two steps (`ClockMoves`), also while the call
spins. The id is the number the shifts and ors make, written as sums and products of
the fields, which do not overlap while the clock is below `MaxClock` (2160).

## Runs

| Run | Result | What it shows | States |
|---|---|---|---|
| `csp_channel` | pass | order, capacity, enough wakeups, drain after stop, refinement of `BoundedFifo` | 21,462 |
| `csp_channel_stop` | violation | `StopEndsRecv`: the wakeup lost by `stop()` | |
| `echo_server` | pass | exact reassembly, echo in order, one write at a time, no zombie or leaked session | 103,054 |
| `atm` | pass | money, cards, authorisation and answers with cancels and quits anywhere | 154,734 |
| `atm_cancel` | violation | `NoMoneyCreated`: cancelling a denied withdrawal credits the account | |
| `thread_pool` | pass | tasks taken once and in order, enough wakeups, when `stop()` returns | 49,112 |
| `lock_free_ring` | pass | the lock-free ring implements the locked one until a thread is lapped | 525,968 |
| `lock_free_ring_lapped` | violation | `NoOldData`: a lapped pop hands out an old element | |
| `safe_map` | pass | one entry per key, atomic calls and snapshots, no deadlock | 44,076 |
| `safe_queue_enhance` | pass | no destroyed node is touched; the two-mutex queue behaves as the one-mutex queue | 287,234 |
| `safe_list` | pass | no push is lost, `forEach` misses nothing, nobody blocks for ever | 44,809 |
| `file_server` | pass | what a download is made of while its file is uploaded anew; every connection ends | 203,856 |

Bounds, and why they are enough for the cases that matter:

* `csp_channel`: two producers and two consumers, `MaxSends` = 2 calls each,
  capacities 0 and 2. Several threads sleep on the same condition variable, the
  queue fills and empties, and `stop()` falls anywhere. 0 is the special case of the
  code. The theorems cover the other sizes.
* `thread_pool`: two workers and two clients with `MaxCommits` = 2, so that there
  are more tasks than workers and both workers can sleep.
* `echo_server`: two sessions; `MAX_LENGTH` = 4 (2048 in the code). One peer sends
  bodies of one, no and two bytes, nine bytes in all, or one body of exactly `MAX_LENGTH`
  bytes, which with its header does not fit the buffer: reads end in headers, in
  bodies and between messages, and one read may hold the end of a message, a whole
  one and a part of the next. The other peer sends a message and then a header that
  is one too long, or a header of -1 or of -32768. `MAX_SENDQUE` = 1 (1000), so
  that three messages exceed the queue.
* `atm`: a PIN of two digits out of two (four out of ten), a balance that covers
  exactly one withdrawal (199 and 50), so that grants and denials both occur;
  `MaxCards` = 2, so that a stale answer can meet a second session; `MaxTypedAhead`
  and `MaxUnseen` bound how far the user runs ahead of the ATM and the interface.
  The bank's queue is bounded by what the ATM sends.
* `lock_free_ring`: `Cap` = 2, so that two claims can be outstanding and have to be
  published in order; two producers with `MaxEmplaces` = 2 go once round the three
  positions; two consumers, who call `pop` until `MaxPopped` have succeeded.
* `safe_map`: two buckets, one with two keys, and `MaxCalls` = 3 calls in
  three threads: two snapshots and an update, or three updates of one key, overlap in
  every way. The bucket count (19 in the code) matters only in being more than one.
* `safe_queue_enhance`: three threads and `MaxPushes` = 3, any number of pops: two
  pushers and a popper, or two poppers and a pusher, meet at a queue with nothing but
  the dummy node, where both ends are the same node.
* `safe_list`: three threads, `MaxCalls` = 4, `MaxPushes` = 3: a list of one node, a
  `pushBack` that has read the tail, another that moves it, and a traversal.
* `file_server`: two clients, files of up to two chunks, an upload that is shorter
  and one that is as long, and `MaxVersions` = 3: two uploads may fall before, between and after the
  chunks of a download. The tree is the repository's `res`, with and without a directory
  `search`, through which alone the search is reached.

Deadlock is not checked: all these systems may legitimately stop (every client has
finished, the process has terminated).

Three of the ATM's properties (`OneAnswer`, `Authorised`, `MoneyConserved`) hold only until a request is cancelled while its
answer is under way (`cancelledInFlight`). That is no convenience: after such a
cancel the answer stays in the queue and the code lets a later session take it. Without the
condition TLC refutes each of them; for money this is the run `atm_cancel`, for
`Authorised` a behaviour of 25 states in which the bank's answer to a cancelled
`verify_pin` comes after the next card's wrong PIN (finding 3).
`PayoutsDebited`, `CardsReturned` and `AnswerComes` hold without that condition.
In the same way `StopReturns` excepts a worker that was overlooked by
`notify_all`: that worker is the lost wakeup of `csp_channel_stop`, which
`ThreadPool` shares.

### Fairness

Threads are scheduled fairly; a thread that keeps asking for a mutex gets it in the
end (strong fairness on the steps that lock). This is what the properties need of an
operating system; the C++ standard promises less. Nobody has to call `send`, `stop` or
`commit`, to press a key or to connect; spurious wakeups and failures never have to
happen. In the echo server every ready handler runs, writes complete or fail, and
operations of a closed socket complete with an error, as asio guarantees; this ends
when the `io_context` does.
The ATM's threads need only weak fairness: each is the only reader of its queue. So do the
producers of the lock-free ring, which take no mutex. For `SafeMap` and `SafeList`
weak fairness is enough because the number of calls is bounded: a mutex
that is always freed again is free for good in the end. With an endless stream of
readers, a `shared_mutex` that prefers readers may keep `getMap` and updates out. In the file
server the thread of the `io_context` runs what is ready, and a client that has
connected sends its request and takes the response, or its connection fails; the code
sets no timeout, so a client that does neither keeps its coroutine.

### Findings

1. `CSPChannel::stop` can lose a wakeup: `csp_channel_stop` (shared by `ThreadPool`).
2. Cancelling a denied withdrawal creates money: `atm_cancel`.
3. The answer to a PIN whose check was cancelled authorises the next card.
4. A header with its first bit set ends the echo server.
5. `BankMachine::run` and `InterfaceMachine::run` do not catch `CloseQueue`.
6. A `pop` of the lock-free ring that is lapped returns old data: `lock_free_ring_lapped`.
7. The destructors of both ring queues do not end on a queue that is not empty.
8. `SafeQueueEnhance::push` never notifies.
9. Removing a node from a `SafeList` deletes the rest of the list as well and unlocks the
   mutex of a deleted node.
10. `SafeList::pushBack` uses `tail_` before anything has set it.
11. `handle_upload` reports success when nothing could be stored.
12. An upload between two chunks of a download makes a complete response of two versions.
13. The links of a directory page asked for without a final slash, and of a page of
    search results, are dead.

Those without a run are read off the code; 3 to 5 and 9 to 12 are part of the models. A
header of negative length (4) ends the model's `io_context`; the torn download (12) is why
`DownloadInVersions` speaks of several versions: with one version in their place TLC
finds, in ten states, a file of two chunks with one of each.

## Proofs

`CSPChannel_proof` proves, for any finite disjoint sets of producers and consumers,
any set of capacities and any `MaxSends` (`ThreadsAssumption`, `BoundsAssumption`):

* `TypeCorrect`, `FifoDeliveryHolds`, `CapacityHolds`, `EndIsFinalHolds`,
  `WakeupsSufficeHolds`: the safety properties of the run `csp_channel`;
* `ChannelImplementsFifo`: the channel implements `BoundedFifo`.

The properties are not inductive by themselves. `IInv` adds what the mutex gives:
it is held exactly by the thread between its predicate and its sleep or push
(`MutexHeld`); what that thread found, room or emptiness, is still true
(`FoundStillHolds`), because only holders of the mutex change the queue; and a
stream whose end was announced is closed, empty and has no push under way
(`EndedStaysEnded`). `Callers` rules out states that no caller reaches. The proof
has one lemma per action. `WakeupsSuffice` is proved on top of `IInv`: every push
adds one value and wakes one sleeper if there is one, so that counting values against
awake threads is preserved; the step that puts a thread to sleep does so only
with an empty (for a producer: full) queue, which `FoundStillHolds` keeps
true. The refinement maps a value into the buffer at the moment its `send` passes
`if(stop_)`, because `stop()` may fall between that test and `push_back`.

The second part of `CSPChannel_proof` is about `SafeCircleQueNOLock`, for any disjoint
sets of threads, any capacity of at least 1 and any numbers of calls (`RingAssumption`):

* `RingPoppedInOrder` and `RingImplementsLocked`: the safety properties of
  `lock_free_ring`, which hold until a thread is lapped;
* `RingOneToOne`: with one producer and one consumer nobody ever is, and the ring
  implements the queue with a mutex without reservation.

The values are counted in the order of their claims; `Taken` of them are popped, `Claims`
are claimed. The existence of a number `u` between the two, the number of published
values, is what makes the invariant inductive (`Ordered(u)`): no variable holds it, since
`tail_up_` is only a position. Positions are written as `Spot(h, k)`, the position `k` places after
`h`, with one conditional subtraction in place of `%`, which leaves linear
arithmetic to the provers; `SpotFacts` is the link to the code's `%`. `Producing` says that a
producer whose tail is up to date (its `seen` is `Claims`) may claim only while there is room, and that
one that has claimed has its own place at or behind `u`, nobody else's;
`Consuming` says that a consumer whose head is up to date copies only what is
published, and that what it has copied is the next value. Nothing is said of a thread that is
not up to date: its exchange fails, or sets `lapped`. For the refinement, `ConstructedIs`
shows that the producer of an element that counts as present without being constructed is
unique.

`SafeQueue_proof` proves, for any finite set of threads and any values:

* `PoppedInOrderHolds`: `SafeQueue` hands out what was pushed, once and in order;
* `WakeupsSufficeHolds`: `notify_one` is enough, for the queue and for the stack.

Together with their types, both are inductive: every operation is one critical section,
`notify_one` included, so that no state between a push and its wakeup needs describing.

It also proves, for `SafeQueueEnhance` with any threads and values and any number of
pushes (`EnhanceAssumption`):

* `EndsAliveHolds`: `tail_` is always reached from `head_` over live, filled nodes;
* `EnhanceImplementsSafeQueue`: the two-mutex queue implements `SafeQueue`, but for the
  wakeups; so its pops are in order, too.

The invariant has a chain `c` of all nodes ever published (`Linked(c)`): the popped ones are
destroyed, those up to the dummy are linked and hold the values not yet popped, and no push under way
owns one of them. Both properties follow the pointers by a recursive function; the proof
gives the value of that function at each node of the chain and shows that it satisfies the recursion,
which determines it because the nodes come closer to the dummy. A pop that has seen a node behind
`head_` keeps seeing one until it is done, as it has the mutex of that end
(`Underway`); pushes only make the chain longer.

`FileServer_proof` proves, for any clients, directories, files and requests and any
number of uploads, with contents that are sequences of strings (`FileAssumption`):

* `DownloadInVersionsHolds`: the invariant of `file_server`.

`Inv` says, for each connection, that nothing was sent before the request was read
(`Fresh`), that no more is sent than was announced (`Measured`), and (`Copied`) that the chunks can be
assigned to the versions the file has had, in their order, that the last of these is what the file
holds, and that the announced length is that of the first. A chunk that is sent
is assigned to the last version, which keeps the assignment in order; an upload adds
a version behind those that are assigned. More cannot be had: a complete download need not be one of the versions (finding 12).

Its last part is about `UniqueId`. It proves, for all data centers and machines and every movement of the clock:

* `IdsIncreaseHolds`: as long as the clock is not set back, every id is greater than
  all before it.

The inductive invariant `IInv` (`IdsInductive`) relates the last id to the static variables: it has the
stored time and sequence number (`LastIdStored`), except while the call spins, when
`sequence_` has wrapped to 0 and the last id is the 4096th of its millisecond. The
lemma `IdGrows` is the arithmetic of the fields.

`ThreadPool_proof` proves, for any finite disjoint sets of workers and clients and any
`MaxCommits` (`PoolAssumption`):

* `TypeCorrect`, with `thread_num_` between 0 and the number of workers;
* `TakenInOrderHolds` and `WakeupsSufficeHolds`: the safety properties of `thread_pool`;
* `StopStrandsHolds`: after `notify_all` in `stop()` nobody sleeps but workers that had
  found `stop_` unset and were not yet asleep. So the lost wakeup of finding 1 is the only
  way in which `stop()` leaves a worker behind, which is what `StopReturns` excepts.

That `thread_num_` never becomes negative follows from what it counts (`FreeCounted`). The
wakeups need that the mutex is held between the predicate and the sleep, and that the queue
is still empty then (`Asleeping`); the notification is outside the mutex, so a client
that has still to notify counts as a wakeup. `StopStrands` follows from `Stranded`, which
speaks of workers about to sleep as well.

`SafeMap_proof` proves, for any threads, values and number of buckets and any keys that
are numbers (`MapAssumption`):

* `TypeCorrect` and `OneEntryPerKeyHolds`;
* `Refinement`: the map implements `AtomicMap`.

`Inv` adds what the bucket locks give. `Locked` says which locks a thread has at each
point of its call (for `getMap`: those of the buckets before `item`, then all) and that
writers are alone. Hence the iterator is still what `findEntryFor` would find
(`ItemValid`), and what `getMap` has copied so far is what the map holds (`CopyExact`);
the snapshot therefore equals the map at every moment since its last lock, the one at which the
refinement puts it. `OneEntryPerKey` is what makes the first entry of a key its only one,
so that a removal removes the key.

Its second part is about `SafeList`, for any threads and any numbers of calls and pushes
(`ListAssumption`), up to the first removal:

* `PushedInOrderHolds` and `ForEachCompleteHolds`: the safety properties of `safe_list`.

The values are given places that a push never moves: those of `pushBack` are at 1, 2, ...,
those of `pushFront` at 0, -1, ... (`Lo`, `Hi`, `At`). `ListInv` says that `next_` links the
places in their order (`Joined`), where `head_` and `tail_` point, also between the two
steps of a push (`Headed`, `Tailed`), which mutexes protect that (`LocksOf`), and that a push that has not linked its
node is alone with it (`Owns`). `pushBack` may hold the mutex of a node that
is not the last any more; the proof shows that `global_mt_`, which it takes next, is the
one that counts. A traversal has visited the places from the `Lo` of its beginning to
where it is (`Visited`).

`CServer_proof` proves, for any sessions, buffer and queue sizes (`LengthAssumption`: with
a header, a body of `MAX_LENGTH` bytes fits a `short`) and any bytes that the peers may send, in
whole messages or not (`ScriptAssumption`):

* `TypeCorrect`, `ReassemblyHolds`, `EchoInOrderHolds`, `OneWriteAtATimeHolds`,
  `NoZombieHolds`: the safety properties of `echo_server`.

The invariant is `Shape /\ EachRight`. `Shape` bounds the buffer and the body under way by
`MAX_LENGTH` and a partial header to less than two bytes. For each session, `Receiving` says that the
messages handed over, framed again, the message under way, the buffer and the unread
stream together are what the peer sent (`Whole`), and that nothing is in the buffer when a
read may fill it. A header that was cut is put together from two reads; that framing the
body again gives the header back needs that a length read by `DataLen` is encoded by
`Header` to the same two bytes, also where it is -1. No frame is the beginning of
another (`FirstFrame`), so `Whole` determines the messages. `Sending` ties the write to
the front of the queue, `Alive` is `NoZombie`, and `Fresh` describes a session that is not
accepted yet. The rounds that end the `io_context` leave the sessions as they are.

`ATMSystem_proof` proves, for every PIN of every length (`PinAssumption`), any balance and
amount (`BalanceAssumption`), any number of cards and queues of any length
(`CardsAssumption`; `MaxTypedAhead` and `MaxUnseen` are arbitrary):

* `TypeCorrect`, which includes that no machine is sent a message none of its states handles;
* `CardsReturnedHolds` and `PayoutsDebitedHolds`, in all behaviours;
* `OneAnswerHolds`, `AuthorisedHolds`, `MoneyConservedHolds`, until a cancel overtakes an answer.

`Inv` has these and three parts of its own. `Shape` says which messages can be in each
queue. `Questions` is finer than `OneAnswer`: the one answer to come is to the question
of the present state, since counting all answers alike would allow a `balance` in place of a
`withdraw_ok`. `Asked` follows the PIN through the queues: what the bank is asked about is
`pin_`, and a `pin_verified` in the queue means that it is correct. The messages under way are counted
with `Tally`, the number of places of a queue with a message of a type. Each handler is described once (the lemmas
`...Does`) by what it takes from its queue and what the others get; everything about sums follows from
that description, without looking at the handler again.

`SequenceLemmas` has the facts about sequences that these proofs share. The library's
induction theorems are of no use to the provers here, as they have an operator as a parameter;
`NaturalsBySteps` states induction for a set of numbers instead, derived from the
well-foundedness of `<`, and is what the lemmas about `Wire` (the frames of a sequence of
messages) rest on.

Every invariant and every refinement that a passing run checks is stated by a theorem. Only
model-checked is all liveness (`SendReturns`, `EverythingDelivered`, `EchoReturns`,
`ClearedIsReleased`, `AnswerComes`, `EveryTaskStarts`, `StopReturns`, `EmplaceReturns`, `CallsReturn`,
`EveryConnectionEnds`), which is out of the prover's reach, and with it that no locks wait for each other
for ever.

## Not modelled

* `AsioThreadPool`: its base class `Singleton`, which decides how it is created and
  who shares it, is not in the repository; its only caller, `testAsioTP`, is one thread.
* `Database`, `Redis`: one command to an external server per method. The WebSocket
  server's sessions are only declared, and its accept loop creates nothing.
* gRPC: generated code and a service of one line.
* Of the modelled parts: what happens after undefined behaviour in `SafeList` and in
  `CSession`; weaker memory orders than x86-64's
  for the data race in `SafeQueueEnhance`; lifetimes of coroutine captures in the file
  server; destructors, which run alone; the results of tasks in `ThreadPool`.

## Plan

What has control of its own is modelled, and the safety of what is modelled is proved. What
would extend this:

1. A repair of the code is a change of one action: `stop()` under the mutex (finding 1)
   would let `StopEndsRecv` and an unconditional `StopReturns` pass; a counter beside the
   position in the exchanges of the ring (finding 6) would make `lapped` impossible.
2. `SafeList` after a removal, once `removeIf` releases the node before it resets its owner.
3. `AsioThreadPool` and the chat server, when their missing parts are in the repository.
