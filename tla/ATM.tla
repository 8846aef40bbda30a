-------------------------------- MODULE ATM ---------------------------------
(***************************************************************************)
(* ATM (atm/ATM.hpp): a state machine whose state is a member function.    *)
(* run() calls state_() for ever; a state first sends its prompt, if it    *)
(* has one, then waits for a message that it handles.                      *)
(***************************************************************************)
EXTENDS Messaging

CONSTANT PinLength    \* 4

ASSUME PinAssumption == PinLength \in Nat \ {0}

VARIABLES
  state_,               \* std::function state_: the name of the state
  prompted,             \* the state has sent its prompt and is in wait()
  pin_,                 \* the digits pressed
  withdrawal_amount_,   \* of the latest withdraw_pressed
  inserted,             \* history: how many cards were taken
  cancelledInFlight     \* history: a cancel came while the bank's answer was under way

atmVars == <<state_, prompted, pin_, withdrawal_amount_, inserted, cancelledInFlight>>

States == {"waitForCard", "gettingPin", "verifyingPin", "waitForAction",
           "processingWithdrawal", "processBalance", "doneProcessing"}

\* The states that send a prompt before they wait.
Prompting == {"waitForCard", "waitForAction", "doneProcessing"}

\* The states in which an answer of the bank is to come.
Awaiting == {"verifyingPin", "processingWithdrawal", "processBalance"}

AtmHandled(state) ==
  CASE state = "waitForCard"          -> {"card_inserted"}
    [] state = "gettingPin"           -> {"digit_pressed", "clear_last_pressed", "cancel_pressed"}
    [] state = "verifyingPin"         -> {"pin_verified", "pin_incorrect", "cancel_pressed"}
    [] state = "waitForAction"        -> {"withdraw_pressed", "balance_pressed", "cancel_pressed"}
    [] state = "processingWithdrawal" -> {"withdraw_ok", "withdraw_denied", "cancel_pressed"}
    [] state = "processBalance"       -> {"balance", "cancel_pressed"}
    [] OTHER                          -> {}

Becomes(state) ==
  /\ state_' = state
  /\ prompted' = (state \notin Prompting)

\* What a state does before it waits.
EnterState ==
  /\ ~terminated
  /\ thread["atm"] = "running"
  /\ ~prompted
  /\ \/ /\ state_ = "waitForCard"
        /\ queue' = Send(queue, "interface", Msg("display_enter_card"))
        /\ prompted' = TRUE
        /\ UNCHANGED state_
     \/ /\ state_ = "waitForAction"
        /\ queue' = Send(queue, "interface", Msg("display_withdrawal_options"))
        /\ prompted' = TRUE
        /\ UNCHANGED state_
     \/ /\ state_ = "doneProcessing"
        /\ queue' = Send(queue, "interface", Msg("eject_card"))
        /\ Becomes("waitForCard")
  /\ UNCHANGED <<thread, terminated, pin_, withdrawal_amount_, inserted, cancelledInFlight>>

InState(state, type) ==
  /\ state_ = state
  /\ prompted
  /\ Handles("atm", type)

CardInserted ==
  /\ InState("waitForCard", "card_inserted")
  /\ pin_' = << >>
  /\ queue' = Send(Popped("atm"), "interface", Msg("display_enter_pin"))
  /\ Becomes("gettingPin")
  /\ inserted' = inserted + 1
  /\ UNCHANGED <<withdrawal_amount_, cancelledInFlight>>

\* mutant: the PIN is sent one digit too late
DigitPressedLate ==
  /\ InState("gettingPin", "digit_pressed")
  /\ pin_' = Append(pin_, First("atm").digit)
  /\ IF Len(pin_) = PinLength
     THEN /\ queue' = Send(Popped("atm"), "bank", verify_pin(pin_'))
          /\ Becomes("verifyingPin")
     ELSE queue' = Popped("atm") /\ UNCHANGED <<state_, prompted>>
  /\ UNCHANGED <<withdrawal_amount_, inserted, cancelledInFlight>>

DigitPressed ==
  /\ InState("gettingPin", "digit_pressed")
  /\ pin_' = Append(pin_, First("atm").digit)
  /\ IF Len(pin_') = PinLength
     THEN /\ queue' = Send(Popped("atm"), "bank", verify_pin(pin_'))
          /\ Becomes("verifyingPin")
     ELSE queue' = Popped("atm") /\ UNCHANGED <<state_, prompted>>
  /\ UNCHANGED <<withdrawal_amount_, inserted, cancelledInFlight>>

ClearLastPressed ==
  /\ InState("gettingPin", "clear_last_pressed")
  /\ pin_' = IF pin_ = << >> THEN pin_ ELSE SubSeq(pin_, 1, Len(pin_) - 1)
  /\ queue' = Popped("atm")
  /\ UNCHANGED <<state_, prompted, withdrawal_amount_, inserted, cancelledInFlight>>

PinVerified ==
  /\ InState("verifyingPin", "pin_verified")
  /\ queue' = Send(Popped("atm"), "interface", Msg("display_pin_correct_message"))
  /\ Becomes("waitForAction")
  /\ UNCHANGED <<pin_, withdrawal_amount_, inserted, cancelledInFlight>>

PinIncorrect ==
  /\ InState("verifyingPin", "pin_incorrect")
  /\ queue' = Send(Popped("atm"), "interface", Msg("display_pin_incorrect_message"))
  /\ pin_' = << >>
  /\ Becomes("gettingPin")
  /\ UNCHANGED <<withdrawal_amount_, inserted, cancelledInFlight>>

WithdrawPressed ==
  /\ InState("waitForAction", "withdraw_pressed")
  /\ withdrawal_amount_' = First("atm").amount
  /\ queue' = Send(Popped("atm"), "bank", withdraw(First("atm").amount))
  /\ Becomes("processingWithdrawal")
  /\ UNCHANGED <<pin_, inserted, cancelledInFlight>>

\* mutant: does not go to processBalance
BalancePressedNoWait ==
  /\ InState("waitForAction", "balance_pressed")
  /\ queue' = Send(Popped("atm"), "bank", get_balance)
  /\ Becomes("waitForAction")
  /\ UNCHANGED <<pin_, withdrawal_amount_, inserted, cancelledInFlight>>

BalancePressed ==
  /\ InState("waitForAction", "balance_pressed")
  /\ queue' = Send(Popped("atm"), "bank", get_balance)
  /\ Becomes("processBalance")
  /\ UNCHANGED <<pin_, withdrawal_amount_, inserted, cancelledInFlight>>

WithdrawOk ==
  /\ InState("processingWithdrawal", "withdraw_ok")
  /\ queue' = Send(Popped("atm"), "interface", issue_money(withdrawal_amount_))
  /\ Becomes("doneProcessing")
  /\ UNCHANGED <<pin_, withdrawal_amount_, inserted, cancelledInFlight>>

\* mutant: the handler of withdraw_ok for withdraw_denied too
WithdrawRefusedPaid ==
  /\ InState("processingWithdrawal", "withdraw_denied")
  /\ queue' = Send(Popped("atm"), "interface", issue_money(withdrawal_amount_))
  /\ Becomes("doneProcessing")
  /\ UNCHANGED <<pin_, withdrawal_amount_, inserted, cancelledInFlight>>

WithdrawRefused ==
  /\ InState("processingWithdrawal", "withdraw_denied")
  /\ queue' = Send(Popped("atm"), "interface", Msg("display_insufficient_funds"))
  /\ Becomes("doneProcessing")
  /\ UNCHANGED <<pin_, withdrawal_amount_, inserted, cancelledInFlight>>

ShowBalance ==
  /\ InState("processBalance", "balance")
  /\ queue' = Send(Popped("atm"), "interface", display_balance(First("atm").amount))
  /\ Becomes("waitForAction")
  /\ UNCHANGED <<pin_, withdrawal_amount_, inserted, cancelledInFlight>>

\* mutant: straight to waitForCard, the card stays in the machine
CancelPressedKeepsCard ==
  /\ \E state \in States \ {"waitForCard", "doneProcessing"} : InState(state, "cancel_pressed")
  /\ queue' = Popped("atm")
  /\ Becomes("waitForCard")
  /\ cancelledInFlight' = (cancelledInFlight \/ state_ \in Awaiting)
  /\ UNCHANGED <<pin_, withdrawal_amount_, inserted>>

\* cancel_pressed; only a withdrawal is cancelled at the bank too.
CancelPressed ==
  /\ \E state \in States \ {"waitForCard", "doneProcessing"} : InState(state, "cancel_pressed")
  /\ queue' = IF state_ = "processingWithdrawal"
              THEN Send(Send(Popped("atm"), "bank", cancel_withdrawal(withdrawal_amount_)), "interface",
                        Msg("display_withdrawal_cancelled"))
              ELSE Popped("atm")
  /\ Becomes("doneProcessing")
  /\ cancelledInFlight' = (cancelledInFlight \/ state_ \in Awaiting)
  /\ UNCHANGED <<pin_, withdrawal_amount_, inserted>>

AtmDrops == prompted /\ Dropped("atm", AtmHandled(state_)) /\ UNCHANGED atmVars

AtmRun ==
  \/ EnterState
  \/ CardInserted
  \/ DigitPressed
  \/ ClearLastPressed
  \/ PinVerified
  \/ PinIncorrect
  \/ WithdrawPressed
  \/ BalancePressed
  \/ WithdrawOk
  \/ WithdrawRefused
  \/ ShowBalance
  \/ CancelPressed
  \/ AtmDrops
  \/ prompted /\ CloseQueue("atm") /\ UNCHANGED atmVars
=============================================================================
