-------------------------- MODULE InterfaceMachine --------------------------
(***************************************************************************)
(* InterfaceMachine (atm/InterfaceMachine.hpp): carries out what the ATM   *)
(* tells it to: hands out money, ejects the card, shows a text.            *)
(***************************************************************************)
EXTENDS Messaging

VARIABLES
  issued,     \* history: the money handed out
  ejected     \* history: how many cards were ejected

interfaceVars == <<issued, ejected>>

Displays ==
  {"display_insufficient_funds", "display_enter_card", "display_enter_pin", "display_balance",
   "display_withdrawal_options", "display_withdrawal_cancelled",
   "display_pin_incorrect_message", "display_pin_correct_message"}

IssueMoney ==
  /\ Handles("interface", "issue_money")
  /\ queue' = Popped("interface")
  /\ issued' = issued + First("interface").amount
  /\ UNCHANGED ejected

EjectCard ==
  /\ Handles("interface", "eject_card")
  /\ queue' = Popped("interface")
  /\ ejected' = ejected + 1
  /\ UNCHANGED issued

Display ==
  /\ \E text \in Displays : Handles("interface", text)
  /\ queue' = Popped("interface")
  /\ UNCHANGED interfaceVars

InterfaceRun ==
  \/ IssueMoney
  \/ EjectCard
  \/ Display
  \/ CloseQueue("interface") /\ UNCHANGED interfaceVars
=============================================================================
