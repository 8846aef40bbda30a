----------------------------- MODULE Messaging ------------------------------
(***************************************************************************)
(* namespace messaging (atm/Message.hpp, atm/Dispatcher.hpp): every        *)
(* machine of the ATM owns a queue and a thread that waits on it.  The     *)
(* queue is guarded by one mutex, pushed to by anybody who holds a Sender  *)
(* and popped by the thread that owns it, so a push and a pop are single   *)
(* steps here, together with the handler that the popped message selects.  *)
(***************************************************************************)
EXTENDS Integers, Sequences, FiniteSets

Machines == {"atm", "bank", "interface"}

VARIABLES
  queue,       \* the Queue of each machine's Receiver
  thread,      \* "running", or "ended" once run() has returned
  terminated   \* std::terminate has ended the process

msgVars == <<queue, thread, terminated>>

(***************************************************************************)
(* The messages (atm/WithdrawMsg.hpp), with the members that some handler  *)
(* uses.  The account is the same in all of them, and every atm_queue is   *)
(* the queue of the one ATM.                                               *)
(***************************************************************************)
Msg(type) == [type |-> type]

withdraw(amount)          == [type |-> "withdraw", amount |-> amount]
cancel_withdrawal(amount) == [type |-> "cancel_withdrawal", amount |-> amount]
verify_pin(pin)           == [type |-> "verify_pin", pin |-> pin]
get_balance               == Msg("get_balance")
balance(amount)           == [type |-> "balance", amount |-> amount]
issue_money(amount)       == [type |-> "issue_money", amount |-> amount]
display_balance(amount)   == [type |-> "display_balance", amount |-> amount]
digit_pressed(digit)      == [type |-> "digit_pressed", digit |-> digit]
withdraw_pressed(amount)  == [type |-> "withdraw_pressed", amount |-> amount]

\* waitAndPop: there is a message for the thread of machine m, and it takes the first.
Receives(m) ==
  /\ ~terminated
  /\ thread[m] = "running"
  /\ queue[m] # << >>

First(m)  == Head(queue[m])
Popped(m) == [queue EXCEPT ![m] = Tail(@)]

\* Sender::send
Send(queues, m, msg) == [queues EXCEPT ![m] = Append(@, msg)]

(***************************************************************************)
(* Dispatcher::dispatcher: CloseQueue throws.  ATM::run catches and        *)
(* returns; the run() of the other machines does not, and an exception     *)
(* that leaves a thread's function ends the process.                       *)
(***************************************************************************)
CloseQueue(m) ==
  /\ Receives(m)
  /\ First(m).type = "CloseQueue"
  /\ queue' = Popped(m)
  /\ IF m = "atm"
     THEN thread' = [thread EXCEPT ![m] = "ended"] /\ UNCHANGED terminated
     ELSE terminated' = TRUE /\ UNCHANGED thread

\* waitAndDispatcher: a message without a handler in the chain is popped and dropped.
Dropped(m, handled) ==
  /\ Receives(m)
  /\ First(m).type \notin handled \cup {"CloseQueue"}
  /\ queue' = Popped(m)
  /\ UNCHANGED <<thread, terminated>>

Handles(m, type) ==
  /\ Receives(m)
  /\ First(m).type = type
  /\ UNCHANGED <<thread, terminated>>

Count(m, type) == Cardinality({i \in DOMAIN queue[m] : queue[m][i].type = type})
=============================================================================
