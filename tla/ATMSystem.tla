----------------------------- MODULE ATMSystem ------------------------------
(***************************************************************************)
(* testATM (test/test.cpp): the ATM, the bank and the interface, each in a *)
(* thread of its own, and the main thread, which turns the keys a user     *)
(* presses into messages to the ATM until `q`, then closes the queues of   *)
(* bank, interface and ATM in this order.                                  *)
(***************************************************************************)
EXTENDS ATM, BankMachine, InterfaceMachine

CONSTANTS
  InitialBalance,   \* 199
  Amount,           \* of a withdrawal, 50
  Digits,           \* the digits on the keyboard
  MaxCards,         \* bound: how often the user inserts a card
  MaxTypedAhead,    \* bound: a key is pressed while fewer messages wait for the ATM ...
  MaxUnseen         \* bound: ... and fewer wait for the interface

ASSUME BalanceAssumption == InitialBalance \in Nat /\ Amount \in Nat
ASSUME CardsAssumption   == MaxCards \in Nat

VARIABLES
  cards,    \* how often the user has inserted a card
  quit      \* the queues closed so far after `q`

vars == <<msgVars, bankVars, interfaceVars, atmVars, cards, quit>>

Init ==
  /\ queue = [m \in Machines |-> << >>]
  /\ thread = [m \in Machines |-> "running"]
  /\ terminated = FALSE
  /\ balance_ = InitialBalance
  /\ debited = 0
  /\ issued = 0
  /\ ejected = 0
  /\ state_ = "waitForCard"
  /\ prompted = FALSE
  /\ pin_ = << >>
  /\ withdrawal_amount_ = 0
  /\ inserted = 0
  /\ cancelledInFlight = FALSE
  /\ cards = 0
  /\ quit = 0

\* Nobody in testATM sends clear_last_pressed, which the ATM handles all the same.
Keys ==
  {digit_pressed(d) : d \in Digits}
    \cup {Msg("clear_last_pressed"), Msg("balance_pressed"), Msg("cancel_pressed"),
          withdraw_pressed(Amount), Msg("card_inserted")}

PressKey(key) ==
  /\ ~terminated
  /\ quit = 0
  /\ Len(queue["atm"]) < MaxTypedAhead
  /\ Len(queue["interface"]) < MaxUnseen
  /\ key.type = "card_inserted" => cards < MaxCards
  /\ cards' = IF key.type = "card_inserted" THEN cards + 1 ELSE cards
  /\ queue' = Send(queue, "atm", key)
  /\ UNCHANGED <<thread, terminated, bankVars, interfaceVars, atmVars, quit>>

Quit ==
  /\ ~terminated
  /\ quit < 3
  /\ queue' = Send(queue, <<"bank", "interface", "atm">>[quit + 1], Msg("CloseQueue"))
  /\ quit' = quit + 1
  /\ UNCHANGED <<thread, terminated, bankVars, interfaceVars, atmVars, cards>>

AtmThread       == AtmRun /\ UNCHANGED <<bankVars, interfaceVars, cards, quit>>
BankThread      == BankRun /\ UNCHANGED <<interfaceVars, atmVars, cards, quit>>
InterfaceThread == InterfaceRun /\ UNCHANGED <<bankVars, atmVars, cards, quit>>

Next ==
  \/ \E key \in Keys : PressKey(key)
  \/ Quit
  \/ AtmThread
  \/ BankThread
  \/ InterfaceThread

(* The scheduler runs the three threads; the user has to press nothing. *)
Fairness == WF_vars(AtmThread) /\ WF_vars(BankThread) /\ WF_vars(InterfaceThread)

Spec     == Init /\ [][Next]_vars
FairSpec == Spec /\ Fairness

-----------------------------------------------------------------------------
(* Properties *)

Pins == [1..PinLength -> Digits]

\* What a machine may find in its queue.
Understands(m, msg) ==
  \/ msg = Msg("CloseQueue")
  \/ CASE m = "bank" -> \/ msg.type = "verify_pin" /\ msg \in {verify_pin(pin) : pin \in Pins}
                        \/ msg \in {withdraw(Amount), cancel_withdrawal(Amount), get_balance}
       [] m = "atm"  -> \/ msg \in Keys
                        \/ msg.type \in {"pin_verified", "pin_incorrect", "withdraw_ok", "withdraw_denied"}
                        \/ msg.type = "balance" /\ msg.amount \in Nat
       [] OTHER      -> \/ msg = issue_money(Amount) \/ msg = Msg("eject_card")
                        \/ msg.type \in Displays

(***************************************************************************)
(* The types of the members; and no machine is ever sent a message that no *)
(* state of it has a handler for, or one that still lacks its amount.      *)
(***************************************************************************)
TypeOK ==
  /\ DOMAIN queue = Machines
  /\ \A m \in Machines : \A i \in DOMAIN queue[m] : Understands(m, queue[m][i])
  /\ thread \in [Machines -> {"running", "ended"}]
  /\ terminated \in BOOLEAN
  /\ {balance_, debited, issued, ejected, inserted} \subseteq Nat
  /\ state_ \in States
  /\ prompted \in BOOLEAN
  /\ pin_ \in Seq(Digits) /\ Len(pin_) <= PinLength
  /\ withdrawal_amount_ \in {0, Amount}
  /\ cancelledInFlight \in BOOLEAN
  /\ cards \in 0..MaxCards
  /\ quit \in 0..3

(***************************************************************************)
(* As long as no request to the bank was cancelled while its answer was    *)
(* under way, there is exactly one answer to come in the states that wait  *)
(* for one, and none in the others: no answer is dropped and no state sees *)
(* the answer to another's question.                                       *)
(***************************************************************************)
UnderWay ==
  Count("bank", "verify_pin") + Count("bank", "withdraw") + Count("bank", "get_balance")
    + Count("atm", "pin_verified") + Count("atm", "pin_incorrect") + Count("atm", "withdraw_ok")
    + Count("atm", "withdraw_denied") + Count("atm", "balance")

OneAnswer == ~cancelledInFlight => UnderWay = IF state_ \in Awaiting THEN 1 ELSE 0

(***************************************************************************)
(* Under the same condition the user who can withdraw money or see the     *)
(* balance has entered the right PIN with the card that is in the machine. *)
(***************************************************************************)
Authorised ==
  ~cancelledInFlight /\ state_ \in {"waitForAction", "processingWithdrawal", "processBalance"}
    => pin_ = CorrectPin

(***************************************************************************)
(* The ATM pays out nothing that the bank has not debited, however cancels *)
(* and late answers interleave: each payout uses up one withdraw_ok.       *)
(***************************************************************************)
PayoutsUnderWay == Amount * (Count("interface", "issue_money") + Count("atm", "withdraw_ok"))

PayoutsDebited == issued + PayoutsUnderWay <= debited

(***************************************************************************)
(* Without such a cancel no money is lost or created.                      *)
(***************************************************************************)
MoneyConserved ==
  ~cancelledInFlight => balance_ + issued + PayoutsUnderWay = InitialBalance

(***************************************************************************)
(* Every card that was taken is ejected once, or is in the machine.        *)
(***************************************************************************)
CardsReturned ==
  inserted = ejected + Count("interface", "eject_card") + (IF state_ = "waitForCard" THEN 0 ELSE 1)

(***************************************************************************)
(* The ATM does not wait for the bank for ever, also after cancels, unless *)
(* the user quits.                                                         *)
(***************************************************************************)
AnswerComes ==
  \A state \in Awaiting : state_ = state ~> state_ # state \/ quit > 0

(***************************************************************************)
(* What cancelling a withdrawal is for (cancel_withdrawal in               *)
(* WithdrawMsg.hpp, "Withdrawal cancelled" in InterfaceMachine.hpp): it    *)
(* undoes the withdrawal, so there is never more money than at first.      *)
(***************************************************************************)
NoMoneyCreated == balance_ + issued <= InitialBalance
=============================================================================
