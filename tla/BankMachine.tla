---------------------------- MODULE BankMachine -----------------------------
(***************************************************************************)
(* BankMachine (atm/BankMachine.hpp): answers the requests of the ATM one  *)
(* at a time.  There is one account, which the messages name in vain, and  *)
(* nobody sends the withdrawal_processed for which it has a handler.       *)
(***************************************************************************)
EXTENDS Messaging

CONSTANT CorrectPin    \* "0000"

VARIABLES
  balance_,   \* uint balance_
  debited     \* history: the sum of the withdrawals granted

bankVars == <<balance_, debited>>

\* mutant: the two answers are swapped
VerifyPinSwapped ==
  /\ Handles("bank", "verify_pin")
  /\ queue' = Send(Popped("bank"), "atm",
                   Msg(IF First("bank").pin = CorrectPin THEN "pin_incorrect" ELSE "pin_verified"))
  /\ UNCHANGED bankVars

VerifyPin ==
  /\ Handles("bank", "verify_pin")
  /\ queue' = Send(Popped("bank"), "atm",
                   Msg(IF First("bank").pin = CorrectPin THEN "pin_verified" ELSE "pin_incorrect"))
  /\ UNCHANGED bankVars

\* mutant: withdraw_ok without `balance_-=msg.amount`
WithdrawGrantedFree ==
  /\ Handles("bank", "withdraw")
  /\ balance_ >= First("bank").amount
  /\ queue' = Send(Popped("bank"), "atm", Msg("withdraw_ok"))
  /\ debited' = debited + First("bank").amount
  /\ UNCHANGED balance_

\* The answer is sent before balance_ is reduced; only the bank's thread reads balance_, so
\* that nobody can tell this from one step.
WithdrawGranted ==
  /\ Handles("bank", "withdraw")
  /\ balance_ >= First("bank").amount
  /\ queue' = Send(Popped("bank"), "atm", Msg("withdraw_ok"))
  /\ balance_' = balance_ - First("bank").amount
  /\ debited' = debited + First("bank").amount

WithdrawDenied ==
  /\ Handles("bank", "withdraw")
  /\ balance_ < First("bank").amount
  /\ queue' = Send(Popped("bank"), "atm", Msg("withdraw_denied"))
  /\ UNCHANGED bankVars

\* mutant: get_balance is not answered
GetBalanceSilent ==
  /\ Handles("bank", "get_balance")
  /\ queue' = Popped("bank")
  /\ UNCHANGED bankVars

GetBalance ==
  /\ Handles("bank", "get_balance")
  /\ queue' = Send(Popped("bank"), "atm", balance(balance_))
  /\ UNCHANGED bankVars

CancelWithdrawal ==
  /\ Handles("bank", "cancel_withdrawal")
  /\ queue' = Popped("bank")
  /\ balance_' = balance_ + First("bank").amount
  /\ UNCHANGED debited

BankRun ==
  \/ VerifyPin
  \/ WithdrawGranted
  \/ WithdrawDenied
  \/ GetBalance
  \/ CancelWithdrawal
  \/ CloseQueue("bank") /\ UNCHANGED bankVars
=============================================================================
