------------------------------ MODULE UniqueId ------------------------------
(***************************************************************************)
(* MyUtility::generateUniqueId (chat/MyUtility.hpp): ids made of the time  *)
(* in milliseconds, the data center, the machine and a sequence number     *)
(* that counts the ids of one millisecond.  One thread calls it: its two   *)
(* static variables have no lock.  system_clock may stand still between    *)
(* two calls, move on by any amount, or be set back.                       *)
(***************************************************************************)
EXTENDS Integers

CONSTANTS dataCenterId, machineId

epoch           == 18628 * 24 * 3600 * 1000   \* 2021-01-01: 18628 days after 1970
maxDataCenterId == 31
maxMachineId    == 31
sequenceMask    == 4095

\* Bound: until 2160 the 64 bits of the id hold the shifted time.
MaxClock == epoch + 1024 * 1024 * 1024 * 4096 - 1
Clock    == epoch..MaxClock

SequenceNumbers == 0..sequenceMask

VARIABLES
  clock,            \* system_clock, in milliseconds
  lastTimestamp_,
  sequence_,
  pc,               \* "spinning" inside `while (timestamp <= lastTimestamp_)`
  lastId,           \* the id returned last; -1 before the first
  history           \* "setBack" once the clock was set back

vars == <<clock, lastTimestamp_, sequence_, pc, lastId, history>>

\* Shifts by 22, 17 and 12 bits, and the or of fields that do not overlap.
Id(timestamp, sequence) ==
  (((timestamp - epoch) * 32 + dataCenterId) * 32 + machineId) * 4096 + sequence

Init ==
  /\ clock \in Clock
  /\ lastTimestamp_ = 0
  /\ sequence_ = 0
  /\ pc = "idle"
  /\ lastId = -1
  /\ history = "steady"

\* The call goes past `throw std::invalid_argument`.
ValidIds == dataCenterId \in 0..maxDataCenterId /\ machineId \in 0..maxMachineId

Returns(timestamp, sequence) ==
  /\ lastTimestamp_' = timestamp
  /\ sequence_' = sequence
  /\ lastId' = Id(timestamp, sequence)
  /\ pc' = "idle"
  /\ UNCHANGED <<clock, history>>

NextInSequence == (sequence_ + 1) % (sequenceMask + 1)

SameMillisecond ==
  /\ ValidIds /\ pc = "idle"
  /\ clock = lastTimestamp_
  /\ NextInSequence # 0
  /\ Returns(clock, NextInSequence)

\* The sequence is used up: the call waits for the clock.
SequenceOverflows ==
  /\ ValidIds /\ pc = "idle"
  /\ clock = lastTimestamp_
  /\ NextInSequence = 0
  /\ sequence_' = 0
  /\ pc' = "spinning"
  /\ UNCHANGED <<clock, lastTimestamp_, lastId, history>>

NextMillisecondCame ==
  /\ pc = "spinning"
  /\ clock > lastTimestamp_
  /\ Returns(clock, sequence_)

NewMillisecond ==
  /\ ValidIds /\ pc = "idle"
  /\ clock # lastTimestamp_
  /\ Returns(clock, 0)

ClockMoves ==
  /\ clock' \in Clock
  /\ history' = IF clock' < clock THEN "setBack" ELSE history
  /\ UNCHANGED <<lastTimestamp_, sequence_, pc, lastId>>

Next ==
  \/ SameMillisecond \/ SequenceOverflows \/ NextMillisecondCame \/ NewMillisecond
  \/ ClockMoves

Spec == Init /\ [][Next]_vars

-----------------------------------------------------------------------------
(***************************************************************************)
(* Every id is greater than all before it, also when 4096 ids were made in *)
(* one millisecond, as long as the clock is not set back.                  *)
(***************************************************************************)
IdsIncrease == [][lastId < lastId' \/ history = "setBack"]_lastId

(***************************************************************************)
(* What the next id is compared with: before the first call there is none; *)
(* a call that waits has made all 4096 ids of its millisecond; otherwise   *)
(* the last id has the time and the sequence number that were stored.      *)
(***************************************************************************)
TypeOK ==
  /\ clock \in Clock
  /\ lastTimestamp_ \in {0} \cup Clock
  /\ sequence_ \in SequenceNumbers
  /\ pc \in {"idle", "spinning"}
  /\ lastId \in Int
  /\ history \in {"steady", "setBack"}

LastIdStored ==
  \/ lastTimestamp_ = 0 /\ lastId = -1 /\ pc = "idle"
  \/ /\ lastTimestamp_ \in Clock
     /\ ValidIds
     /\ \/ pc = "idle" /\ lastId = Id(lastTimestamp_, sequence_)
        \/ pc = "spinning" /\ sequence_ = 0 /\ lastId = Id(lastTimestamp_, sequenceMask)

ClockAhead == history = "steady" => lastTimestamp_ <= clock

IInv == TypeOK /\ LastIdStored /\ ClockAhead
=============================================================================
