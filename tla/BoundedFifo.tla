---------------------------- MODULE BoundedFifo ----------------------------
(***************************************************************************)
(* What a bounded channel promises its users, without threads, locks or    *)
(* condition variables: values leave in the order in which they entered,   *)
(* there are never more than room of them inside, nothing enters a closed  *)
(* channel, and a reader is told that the stream has ended only when the   *)
(* channel is closed and drained.                                          *)
(***************************************************************************)
EXTENDS Integers, Sequences

CONSTANT Values

VARIABLES
  buffer,   \* the values inside, oldest first
  room,     \* how many values fit
  closed,   \* nothing more will be accepted
  eof       \* some reader has been told that the stream has ended

fifoVars == <<buffer, room, closed, eof>>

FifoInit ==
  /\ buffer = << >>
  /\ room \in Nat \ {0}
  /\ closed = FALSE
  /\ eof = FALSE

Put(v) ==
  /\ ~closed
  /\ Len(buffer) < room
  /\ buffer' = Append(buffer, v)
  /\ UNCHANGED <<room, closed, eof>>

Take ==
  /\ buffer # << >>
  /\ buffer' = Tail(buffer)
  /\ UNCHANGED <<room, closed, eof>>

Close ==
  /\ closed' = TRUE
  /\ UNCHANGED <<buffer, room, eof>>

End ==
  /\ closed
  /\ buffer = << >>
  /\ eof' = TRUE
  /\ UNCHANGED <<buffer, room, closed>>

FifoNext ==
  \/ \E v \in Values : Put(v)
  \/ Take
  \/ Close
  \/ End

FifoSpec == FifoInit /\ [][FifoNext]_fifoVars
=============================================================================
