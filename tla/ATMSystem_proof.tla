--------------------------- MODULE ATMSystem_proof ---------------------------
(***************************************************************************)
(* The safety of the ATM, for every PIN, every amount, every number of     *)
(* cards and queues of any length.  The argument is a tally: for each kind *)
(* of message, how many wait in the queue of the machine that handles it.  *)
(* A step of the system takes at most one message out of each queue and    *)
(* puts at most one in, so that each tally moves by at most one and the    *)
(* invariants are sums of tallies, balances and states.                    *)
(***************************************************************************)
EXTENDS ATMSystem, FiniteSetTheorems, SequenceLemmas

-----------------------------------------------------------------------------
(* The inductive invariant *)

\* What is sent to each machine.
AtmInbox ==
  Keys \cup {Msg("CloseQueue"), Msg("pin_verified"), Msg("pin_incorrect"),
             Msg("withdraw_ok"), Msg("withdraw_denied")}
       \cup {balance(n) : n \in Nat}

BankInbox ==
  {verify_pin(pin) : pin \in Pins}
    \cup {withdraw(Amount), cancel_withdrawal(Amount), get_balance, Msg("CloseQueue")}

InterfaceInbox ==
  {display_balance(n) : n \in Nat} \cup {Msg(text) : text \in Displays \ {"display_balance"}}
    \cup {issue_money(Amount), Msg("eject_card"), Msg("CloseQueue")}

Inbox(m) == IF m = "atm" THEN AtmInbox ELSE IF m = "bank" THEN BankInbox ELSE InterfaceInbox

\* q is a function of the machines.
PerMachine(q) == q = [m \in Machines |-> q[m]]

QueueShape == PerMachine(queue) /\ \A m \in Machines : queue[m] \in Seq(Inbox(m))

\* Sums and counters have their types ...
NumberShape ==
  /\ balance_ \in Nat /\ debited \in Nat /\ issued \in Nat /\ ejected \in Nat /\ inserted \in Nat
  /\ cards \in 0..MaxCards
  /\ quit \in 0..3

\* ... and so have the states of the threads.
ControlShape ==
  /\ thread \in [Machines -> {"running", "ended"}]
  /\ terminated \in BOOLEAN
  /\ state_ \in States
  /\ prompted \in BOOLEAN
  /\ cancelledInFlight \in BOOLEAN

\* The PIN is sent as soon as it has all its digits, so a state that takes digits has fewer.
PinShape ==
  /\ pin_ \in Seq(Digits)
  /\ Len(pin_) <= PinLength
  /\ state_ = "gettingPin" => Len(pin_) < PinLength

\* A withdrawal under way has its amount.
AmountShape ==
  /\ withdrawal_amount_ \in {0, Amount}
  /\ state_ = "processingWithdrawal" => withdrawal_amount_ = Amount

Shape == QueueShape /\ NumberShape /\ ControlShape /\ PinShape /\ AmountShape

\* One more if the condition holds.
One(condition) == IF condition THEN 1 ELSE 0

\* Each of the bank's answers is to come in the state that waits for it, and in no other.
Questions ==
  /\ Count("bank", "verify_pin") + Count("atm", "pin_verified") + Count("atm", "pin_incorrect")
       = One(state_ = "verifyingPin")
  /\ Count("bank", "withdraw") + Count("atm", "withdraw_ok") + Count("atm", "withdraw_denied")
       = One(state_ = "processingWithdrawal")
  /\ Count("bank", "get_balance") + Count("atm", "balance") = One(state_ = "processBalance")
  /\ Count("bank", "cancel_withdrawal") = 0

\* The PIN that the bank is asked about is the one that was entered, and pin_verified is the
\* answer to it.
Asked ==
  state_ = "verifyingPin" =>
    /\ \A i \in 1..Len(queue["bank"]) :
         queue["bank"][i].type = "verify_pin" => queue["bank"][i].pin = pin_
    /\ Count("atm", "pin_verified") # 0 => pin_ = CorrectPin

Inv ==
  /\ Shape
  /\ CardsReturned
  /\ PayoutsDebited
  /\ ~cancelledInFlight => Questions /\ Asked
  /\ Authorised
  /\ MoneyConserved

-----------------------------------------------------------------------------
(* Tallies: Count of one queue *)

Places(q, type) == {i \in DOMAIN q : q[i].type = type}
Tally(q, type)  == Cardinality(Places(q, type))

\* Count is the tally of the machine's queue.
LEMMA CountIs ==
  ASSUME NEW m, NEW type
  PROVE  Count(m, type) = Tally(queue[m], type)
BY Zenon DEF Count, Tally, Places

\* The same in the next state.
LEMMA CountIsNext ==
  ASSUME NEW m, NEW type
  PROVE  Count(m, type)' = Tally(queue'[m], type)
BY Zenon DEF Count, Tally, Places

\* The places of a queue are finitely many, and so there is a tally.
LEMMA TallyNat ==
  ASSUME NEW S, NEW q \in Seq(S), NEW type
  PROVE  IsFiniteSet(Places(q, type)) /\ Tally(q, type) \in Nat
<1>1. Len(q) \in Nat /\ DOMAIN q = 1..Len(q)
  OBVIOUS
<1>2. IsFiniteSet(1..Len(q))
  BY <1>1, FS_Interval
<1>3. Places(q, type) \subseteq 1..Len(q)
  BY <1>1 DEF Places
<1>4. IsFiniteSet(Places(q, type))
  BY <1>2, <1>3, FS_Subset
<1> QED
  BY <1>4, FS_CardinalityType DEF Tally

\* Nothing is in an empty queue.
LEMMA TallyEmpty ==
  ASSUME NEW type
  PROVE  Tally(<< >>, type) = 0
<1>1. Places(<< >>, type) = {}
  BY DEF Places
<1> QED
  BY <1>1, FS_EmptySet DEF Tally

\* A message at the back counts for its own type only.
LEMMA TallyAppend ==
  ASSUME NEW S, NEW q \in Seq(S), NEW x \in S, NEW type
  PROVE  Tally(Append(q, x), type) = Tally(q, type) + One(x.type = type)
<1> DEFINE n == Len(q) + 1
<1>1. /\ n \in Nat /\ n \notin 1..Len(q) /\ 1..n = 1..Len(q) \cup {n}
      /\ DOMAIN q = 1..Len(q) /\ DOMAIN Append(q, x) = 1..n
  OBVIOUS
<1>2. Append(q, x)[n] = x /\ \A i \in 1..Len(q) : Append(q, x)[i] = q[i]
  BY AppendProperties
<1>3. IsFiniteSet(Places(q, type)) /\ Tally(q, type) \in Nat
  BY TallyNat
<1>4. n \notin Places(q, type)
  BY <1>1 DEF Places
<1>5. CASE x.type = type
  <2>1. Places(Append(q, x), type) = Places(q, type) \cup {n}
    BY <1>1, <1>2, <1>5, Zenon DEF Places
  <2> QED
    BY <1>3, <1>4, <1>5, <2>1, FS_AddElement, ZenonT(40) DEF Tally, One
<1>6. CASE x.type # type
  <2>1. Places(Append(q, x), type) = Places(q, type)
    BY <1>1, <1>2, <1>6, Zenon DEF Places
  <2> QED
    BY <1>3, <1>6, <2>1 DEF Tally, One
<1> QED
  BY <1>5, <1>6

\* The message at the front counts for its own type only.
LEMMA TallyTail ==
  ASSUME NEW S, NEW q \in Seq(S), q # << >>, NEW type
  PROVE  Tally(q, type) = Tally(Tail(q), type) + One(Head(q).type = type)
<1> DEFINE P == Places(q, type)
           R == Places(Tail(q), type)
           f == [i \in R |-> i + 1]
<1>1. /\ Tail(q) \in Seq(S) /\ Len(Tail(q)) = Len(q) - 1 /\ Len(q) \in Nat \ {0}
      /\ DOMAIN q = 1..Len(q) /\ DOMAIN Tail(q) = 1..(Len(q) - 1)
      /\ \A i \in 1..(Len(q) - 1) : Tail(q)[i] = q[i + 1]
      /\ Head(q) = q[1]
  BY HeadTailProperties
<1>2. /\ IsFiniteSet(P) /\ Tally(q, type) \in Nat
      /\ IsFiniteSet(R) /\ Tally(Tail(q), type) \in Nat
  BY <1>1, TallyNat
<1>3. R = {i \in 1..(Len(q) - 1) : q[i + 1].type = type}
  BY <1>1 DEF Places
<1>4. P = {i \in 1..Len(q) : q[i].type = type}
  BY <1>1 DEF Places
<1> HIDE DEF P, R
<1>5. f \in Bijection(R, P \ {1})
  <2>1. f \in [R -> P \ {1}]
    <3>1. ASSUME NEW i \in R PROVE i + 1 \in P \ {1}
      BY <1>1, <1>3, <1>4
    <3> QED
      BY <3>1
  <2>2. ASSUME NEW i \in R, NEW j \in R, f[i] = f[j] PROVE i = j
    <3>1. i + 1 = j + 1
      BY <2>2
    <3>2. i \in Int /\ j \in Int
      BY <1>1, <1>3
    <3> QED
      BY <3>1, <3>2
  <2>3. ASSUME NEW k \in P \ {1} PROVE \E i \in R : f[i] = k
    <3>1. k - 1 \in R /\ (k - 1) + 1 = k
      BY <1>1, <1>3, <1>4
    <3> QED
      BY <3>1
  <2> QED
    BY <2>1, <2>2, <2>3 DEF Bijection, Injection, Surjection, IsInjective
<1>6. Cardinality(P \ {1}) = Cardinality(R)
  BY <1>2, <1>5, FS_Bijection DEF ExistsBijection
<1>7. 1 \in P <=> Head(q).type = type
  BY <1>1, <1>4
<1>8. Cardinality(P \ {1}) = IF 1 \in P THEN Cardinality(P) - 1 ELSE Cardinality(P)
  BY <1>2, FS_RemoveElement
<1>9. Tally(q, type) = Cardinality(P) /\ Tally(Tail(q), type) = Cardinality(R)
  BY Zenon DEF Tally, P, R
<1> QED
  BY <1>2, <1>6, <1>7, <1>8, <1>9 DEF One

-----------------------------------------------------------------------------
(* What a step does to a queue *)

Keeps(m) ==
  /\ queue'[m] = queue[m]
  /\ \A t : Tally(queue'[m], t) = Tally(queue[m], t)

\* The message at the front of m's queue, of this type, leaves it.
Takes(m, type) ==
  /\ queue[m] # << >> /\ queue'[m] = Tail(queue[m]) /\ Head(queue[m]).type = type
  /\ \A t : Tally(queue[m], t) = Tally(queue'[m], t) + One(type = t)

\* The message is put into m's queue.
Gets(m, msg) ==
  /\ queue'[m] = Append(queue[m], msg)
  /\ \A t : Tally(queue'[m], t) = Tally(queue[m], t) + One(msg.type = t)

\* Sender::send changes the queue of the receiver and no other.
LEMMA SendIs ==
  ASSUME NEW q, PerMachine(q), NEW m \in Machines, NEW msg
  PROVE  /\ PerMachine(Send(q, m, msg))
         /\ Send(q, m, msg)[m] = Append(q[m], msg)
         /\ \A n \in Machines : n # m => Send(q, m, msg)[n] = q[n]
BY DEF PerMachine, Send

\* waitAndPop changes the queue of the thread that calls it and no other.
LEMMA PoppedIs ==
  ASSUME PerMachine(queue), NEW m \in Machines
  PROVE  /\ PerMachine(Popped(m))
         /\ Popped(m)[m] = Tail(queue[m])
         /\ \A n \in Machines : n # m => Popped(m)[n] = queue[n]
BY DEF PerMachine, Popped

\* There are tallies of every machine's queue.
LEMMA TalliesNat ==
  ASSUME QueueShape, NEW m \in Machines, NEW t
  PROVE  Tally(queue[m], t) \in Nat
BY TallyNat, Zenon DEF QueueShape

\* The same in the next state.
LEMMA TalliesNatNext ==
  ASSUME QueueShape', NEW m \in Machines, NEW t
  PROVE  Tally(queue'[m], t) \in Nat
BY TallyNat, Zenon DEF QueueShape

\* A queue that stays as it is.
LEMMA Keeping ==
  ASSUME NEW m, queue'[m] = queue[m]
  PROVE  Keeps(m)
BY Zenon DEF Keeps

\* A queue from which the first message is taken.
LEMMA Taking ==
  ASSUME QueueShape, NEW m \in Machines, NEW type, queue[m] # << >>, Head(queue[m]).type = type,
         queue'[m] = Tail(queue[m])
  PROVE  Takes(m, type) /\ queue'[m] \in Seq(Inbox(m))
<1>1. queue[m] \in Seq(Inbox(m))
  BY Zenon DEF QueueShape
<1>2. queue'[m] \in Seq(Inbox(m))
  BY <1>1, HeadTailProperties, Zenon
<1>3. ASSUME NEW t PROVE Tally(queue[m], t) = Tally(queue'[m], t) + One(type = t)
  <2>1. Tally(queue[m], t) = Tally(Tail(queue[m]), t) + One(Head(queue[m]).type = t)
    BY <1>1, TallyTail
  <2>2. One(Head(queue[m]).type = t) = One(type = t)
    BY Zenon DEF One
  <2> QED
    BY <2>1, <2>2, Zenon
<1> QED
  BY <1>2, <1>3, Zenon DEF Takes

\* A queue to which a message is sent.
LEMMA Getting ==
  ASSUME QueueShape, NEW m \in Machines, NEW msg \in Inbox(m),
         queue'[m] = Append(queue[m], msg)
  PROVE  Gets(m, msg) /\ queue'[m] \in Seq(Inbox(m))
<1>1. queue[m] \in Seq(Inbox(m))
  BY Zenon DEF QueueShape
<1>2. queue'[m] \in Seq(Inbox(m))
  BY <1>1, AppendProperties
<1>3. ASSUME NEW t PROVE Tally(queue'[m], t) = Tally(queue[m], t) + One(msg.type = t)
  <2>1. Tally(Append(queue[m], msg), t) = Tally(queue[m], t) + One(msg.type = t)
    BY <1>1, TallyAppend
  <2> QED
    BY <2>1, Zenon
<1> QED
  BY <1>2, <1>3, Zenon DEF Gets

\* A step that takes a message and sends none.
LEMMA OnlyTakes ==
  ASSUME QueueShape, NEW m \in Machines, NEW type, Receives(m), First(m).type = type,
         queue' = Popped(m)
  PROVE  /\ QueueShape' /\ Takes(m, type)
         /\ \A n \in Machines : n # m => Keeps(n)
<1>1. /\ PerMachine(queue') /\ queue'[m] = Tail(queue[m])
      /\ \A n \in Machines : n # m => queue'[n] = queue[n]
  BY PoppedIs, Zenon DEF QueueShape
<1>2. Takes(m, type) /\ queue'[m] \in Seq(Inbox(m))
  BY <1>1, Taking, Zenon DEF Receives, First
<1>3. \A n \in Machines : n # m => Keeps(n)
  BY <1>1, Keeping, Zenon
<1> QED
  BY <1>1, <1>2, <1>3, Zenon DEF QueueShape

\* A step that sends a message and takes none.
LEMMA OnlySends ==
  ASSUME QueueShape, NEW m \in Machines, NEW msg \in Inbox(m), queue' = Send(queue, m, msg)
  PROVE  /\ QueueShape' /\ Gets(m, msg)
         /\ \A n \in Machines : n # m => Keeps(n)
<1>1. /\ PerMachine(queue') /\ queue'[m] = Append(queue[m], msg)
      /\ \A n \in Machines : n # m => queue'[n] = queue[n]
  BY SendIs DEF QueueShape
<1>2. Gets(m, msg) /\ queue'[m] \in Seq(Inbox(m))
  BY <1>1, Getting, Zenon
<1>3. \A n \in Machines : n # m => Keeps(n)
  BY <1>1, Keeping, Zenon
<1> QED
  BY <1>1, <1>2, <1>3, Zenon DEF QueueShape

\* A handler that takes a message from its own queue and sends one to another machine.
LEMMA TakesAndSends ==
  ASSUME QueueShape, NEW m \in Machines, NEW type, Receives(m), First(m).type = type,
         NEW n \in Machines, n # m, NEW msg \in Inbox(n), queue' = Send(Popped(m), n, msg)
  PROVE  /\ QueueShape' /\ Takes(m, type) /\ Gets(n, msg)
         /\ \A o \in Machines : o # m /\ o # n => Keeps(o)
<1>1. /\ PerMachine(Popped(m)) /\ Popped(m)[m] = Tail(queue[m])
      /\ \A o \in Machines : o # m => Popped(m)[o] = queue[o]
  BY PoppedIs, Zenon DEF QueueShape
<1>2. /\ PerMachine(queue') /\ queue'[n] = Append(Popped(m)[n], msg)
      /\ \A o \in Machines : o # n => queue'[o] = Popped(m)[o]
  <2> DEFINE p == Popped(m)
  <2>1. PerMachine(p) /\ queue' = Send(p, n, msg)
    BY <1>1, Zenon
  <2> HIDE DEF p
  <2>2. /\ PerMachine(Send(p, n, msg)) /\ Send(p, n, msg)[n] = Append(p[n], msg)
        /\ \A o \in Machines : o # n => Send(p, n, msg)[o] = p[o]
    BY <2>1, SendIs
  <2>3. /\ PerMachine(queue') /\ queue'[n] = Append(p[n], msg)
        /\ \A o \in Machines : o # n => queue'[o] = p[o]
    BY <2>1, <2>2, Zenon
  <2> QED
    BY <2>3, Zenon DEF p
<1>3. Takes(m, type) /\ queue'[m] \in Seq(Inbox(m))
  BY <1>1, <1>2, Taking, Zenon DEF Receives, First
<1>4. Gets(n, msg) /\ queue'[n] \in Seq(Inbox(n))
  <2>1. queue'[n] = Append(queue[n], msg)
    BY <1>1, <1>2, Zenon
  <2> QED
    BY <2>1, Getting, Zenon
<1>5. \A o \in Machines : o # m /\ o # n => Keeps(o) /\ queue'[o] = queue[o]
  BY <1>1, <1>2, Keeping, Zenon
<1> QED
  BY <1>2, <1>3, <1>4, <1>5, Zenon DEF QueueShape

-----------------------------------------------------------------------------
(* The messages *)

\* What the machines send is what they are said to send.
LEMMA InboxHas ==
  /\ \A text \in Displays \ {"display_balance"} : Msg(text) \in Inbox("interface")
  /\ \A n \in Nat : display_balance(n) \in Inbox("interface")
  /\ issue_money(Amount) \in Inbox("interface") /\ Msg("eject_card") \in Inbox("interface")
  /\ \A pin \in Pins : verify_pin(pin) \in Inbox("bank")
  /\ withdraw(Amount) \in Inbox("bank") /\ cancel_withdrawal(Amount) \in Inbox("bank")
  /\ get_balance \in Inbox("bank")
  /\ \A type \in {"pin_verified", "pin_incorrect", "withdraw_ok", "withdraw_denied"} :
       Msg(type) \in Inbox("atm")
  /\ \A n \in Nat : balance(n) \in Inbox("atm")
  /\ \A key \in Keys : key \in Inbox("atm")
  /\ \A m \in Machines : Msg("CloseQueue") \in Inbox(m)
BY Zenon DEF Inbox, AtmInbox, BankInbox, InterfaceInbox, Machines

\* What the handlers read from a message.
LEMMA InboxIs ==
  /\ \A x \in Inbox("bank") : /\ x.type \in {"withdraw", "cancel_withdrawal"} => x.amount = Amount
                              /\ x.type = "verify_pin" => x.pin \in Pins
  /\ \A x \in Inbox("atm") : /\ x.type = "digit_pressed" => x.digit \in Digits
                             /\ x.type = "withdraw_pressed" => x.amount = Amount
                             /\ x.type = "balance" => x.amount \in Nat
  /\ \A x \in Inbox("interface") : x.type = "issue_money" => x.amount = Amount
<1>1. ASSUME NEW x \in BankInbox
      PROVE  /\ x.type \in {"withdraw", "cancel_withdrawal"} => x.amount = Amount
             /\ x.type = "verify_pin" => x.pin \in Pins
  BY SMT DEF BankInbox, verify_pin, withdraw, cancel_withdrawal, get_balance, Msg
<1>2. ASSUME NEW x \in AtmInbox
      PROVE  /\ x.type = "digit_pressed" => x.digit \in Digits
             /\ x.type = "withdraw_pressed" => x.amount = Amount
             /\ x.type = "balance" => x.amount \in Nat
  BY SMT DEF AtmInbox, Keys, digit_pressed, withdraw_pressed, balance, Msg
<1>3. ASSUME NEW x \in InterfaceInbox
      PROVE  x.type = "issue_money" => x.amount = Amount
  BY SMT DEF InterfaceInbox, display_balance, issue_money, Msg, Displays
<1> QED
  BY <1>1, <1>2, <1>3, Zenon DEF Inbox

\* Keys are no answers of the bank.
LEMMA KeyTypes ==
  ASSUME NEW key \in Keys
  PROVE  key.type \in {"digit_pressed", "clear_last_pressed", "balance_pressed", "cancel_pressed",
                       "withdraw_pressed", "card_inserted"}
BY SMT DEF Keys, digit_pressed, withdraw_pressed, Msg

\* The message that a machine takes is one that is sent to it.
LEMMA FirstIn ==
  ASSUME QueueShape, NEW m \in Machines, Receives(m)
  PROVE  First(m) \in Inbox(m)
<1>1. queue[m] \in Seq(Inbox(m)) /\ queue[m] # << >>
  BY Zenon DEF QueueShape, Receives
<1> QED
  BY <1>1, HeadTailProperties, Zenon DEF First

\* The three machines.
LEMMA MachinesAre ==
  /\ "atm" \in Machines /\ "bank" \in Machines /\ "interface" \in Machines
  /\ "atm" # "bank" /\ "atm" # "interface" /\ "bank" # "interface"
BY DEF Machines

-----------------------------------------------------------------------------
(* What each action does to the queues *)

\* CardInserted asks for the PIN.
LEMMA CardInsertedDoes ==
  ASSUME Shape, CardInserted
  PROVE  /\ QueueShape' /\ Takes("atm", "card_inserted") /\ Keeps("bank")
         /\ Gets("interface", Msg("display_enter_pin"))
<1>1. /\ Receives("atm") /\ First("atm").type = "card_inserted"
      /\ queue' = Send(Popped("atm"), "interface", Msg("display_enter_pin"))
  BY DEF CardInserted, InState, Handles
<1>2. Msg("display_enter_pin") \in Inbox("interface")
  BY InboxHas, Zenon DEF Displays
<1> QED
  BY <1>1, <1>2, TakesAndSends, MachinesAre, Zenon DEF Shape

\* PinVerified says so.
LEMMA PinVerifiedDoes ==
  ASSUME Shape, PinVerified
  PROVE  /\ QueueShape' /\ Takes("atm", "pin_verified") /\ Keeps("bank")
         /\ Gets("interface", Msg("display_pin_correct_message"))
<1>1. /\ Receives("atm") /\ First("atm").type = "pin_verified"
      /\ queue' = Send(Popped("atm"), "interface", Msg("display_pin_correct_message"))
  BY DEF PinVerified, InState, Handles
<1>2. Msg("display_pin_correct_message") \in Inbox("interface")
  BY InboxHas, Zenon DEF Displays
<1> QED
  BY <1>1, <1>2, TakesAndSends, MachinesAre, Zenon DEF Shape

\* PinIncorrect says so.
LEMMA PinIncorrectDoes ==
  ASSUME Shape, PinIncorrect
  PROVE  /\ QueueShape' /\ Takes("atm", "pin_incorrect") /\ Keeps("bank")
         /\ Gets("interface", Msg("display_pin_incorrect_message"))
<1>1. /\ Receives("atm") /\ First("atm").type = "pin_incorrect"
      /\ queue' = Send(Popped("atm"), "interface", Msg("display_pin_incorrect_message"))
  BY DEF PinIncorrect, InState, Handles
<1>2. Msg("display_pin_incorrect_message") \in Inbox("interface")
  BY InboxHas, Zenon DEF Displays
<1> QED
  BY <1>1, <1>2, TakesAndSends, MachinesAre, Zenon DEF Shape

\* WithdrawPressed asks the bank for the amount.
LEMMA WithdrawPressedDoes ==
  ASSUME Shape, WithdrawPressed
  PROVE  /\ QueueShape' /\ Takes("atm", "withdraw_pressed") /\ Keeps("interface")
         /\ Gets("bank", withdraw(Amount))
<1>1. /\ Receives("atm") /\ First("atm").type = "withdraw_pressed"
      /\ queue' = Send(Popped("atm"), "bank", withdraw(Amount))
  <2>1. /\ Receives("atm") /\ First("atm").type = "withdraw_pressed"
        /\ queue' = Send(Popped("atm"), "bank", withdraw(First("atm").amount))
    BY DEF WithdrawPressed, InState, Handles
  <2>2. First("atm").amount = Amount
    BY <2>1, FirstIn, InboxIs, MachinesAre, Zenon DEF Shape
  <2> QED
    BY <2>1, <2>2, Zenon
<1>2. withdraw(Amount) \in Inbox("bank")
  BY InboxHas, Zenon
<1> QED
  BY <1>1, <1>2, TakesAndSends, MachinesAre, Zenon DEF Shape

\* BalancePressed asks the bank.
LEMMA BalancePressedDoes ==
  ASSUME Shape, BalancePressed
  PROVE  /\ QueueShape' /\ Takes("atm", "balance_pressed") /\ Keeps("interface")
         /\ Gets("bank", get_balance)
<1>1. /\ Receives("atm") /\ First("atm").type = "balance_pressed"
      /\ queue' = Send(Popped("atm"), "bank", get_balance)
  BY DEF BalancePressed, InState, Handles
<1>2. get_balance \in Inbox("bank")
  BY InboxHas, Zenon
<1> QED
  BY <1>1, <1>2, TakesAndSends, MachinesAre, Zenon DEF Shape

\* WithdrawOk has the amount handed out.
LEMMA WithdrawOkDoes ==
  ASSUME Shape, WithdrawOk
  PROVE  /\ QueueShape' /\ Takes("atm", "withdraw_ok") /\ Keeps("bank")
         /\ Gets("interface", issue_money(Amount))
<1>1. /\ Receives("atm") /\ First("atm").type = "withdraw_ok"
      /\ queue' = Send(Popped("atm"), "interface", issue_money(Amount))
  <2>1. /\ Receives("atm") /\ First("atm").type = "withdraw_ok"
        /\ queue' = Send(Popped("atm"), "interface", issue_money(withdrawal_amount_))
        /\ state_ = "processingWithdrawal"
    BY DEF WithdrawOk, InState, Handles
  <2>2. withdrawal_amount_ = Amount
    BY <2>1, Zenon DEF Shape, AmountShape
  <2> QED
    BY <2>1, <2>2, Zenon
<1>2. issue_money(Amount) \in Inbox("interface")
  BY InboxHas, Zenon
<1> QED
  BY <1>1, <1>2, TakesAndSends, MachinesAre, Zenon DEF Shape

\* WithdrawRefused says so.
LEMMA WithdrawRefusedDoes ==
  ASSUME Shape, WithdrawRefused
  PROVE  /\ QueueShape' /\ Takes("atm", "withdraw_denied") /\ Keeps("bank")
         /\ Gets("interface", Msg("display_insufficient_funds"))
<1>1. /\ Receives("atm") /\ First("atm").type = "withdraw_denied"
      /\ queue' = Send(Popped("atm"), "interface", Msg("display_insufficient_funds"))
  BY DEF WithdrawRefused, InState, Handles
<1>2. Msg("display_insufficient_funds") \in Inbox("interface")
  BY InboxHas, Zenon DEF Displays
<1> QED
  BY <1>1, <1>2, TakesAndSends, MachinesAre, Zenon DEF Shape

\* ShowBalance shows what the bank answered.
LEMMA ShowBalanceDoes ==
  ASSUME Shape, ShowBalance
  PROVE  /\ QueueShape' /\ Takes("atm", "balance") /\ Keeps("bank")
         /\ Gets("interface", display_balance(First("atm").amount))
<1>1. /\ Receives("atm") /\ First("atm").type = "balance"
      /\ queue' = Send(Popped("atm"), "interface", display_balance(First("atm").amount))
  BY DEF ShowBalance, InState, Handles
<1>2. display_balance(First("atm").amount) \in Inbox("interface")
  <2>1. First("atm").amount \in Nat
    BY <1>1, FirstIn, InboxIs, MachinesAre, Zenon DEF Shape
  <2> QED
    BY <2>1, InboxHas, Zenon
<1> QED
  BY <1>1, <1>2, TakesAndSends, MachinesAre DEF Shape

\* DigitPressed asks the bank about the PIN once it has all its digits.
LEMMA DigitPressedDoes ==
  ASSUME Shape, DigitPressed
  PROVE  /\ QueueShape' /\ Takes("atm", "digit_pressed") /\ Keeps("interface")
         /\ pin_' \in Seq(Digits) /\ Len(pin_') <= PinLength
         /\ \/ /\ state_' = "verifyingPin" /\ prompted' = TRUE
               /\ Gets("bank", verify_pin(pin_'))
            \/ /\ state_' = state_ /\ prompted' = prompted
               /\ Len(pin_') < PinLength /\ Keeps("bank")
<1>1. /\ Receives("atm") /\ First("atm").type = "digit_pressed" /\ state_ = "gettingPin"
      /\ pin_' = Append(pin_, First("atm").digit)
      /\ \/ /\ Len(pin_') = PinLength
            /\ queue' = Send(Popped("atm"), "bank", verify_pin(pin_'))
            /\ state_' = "verifyingPin" /\ prompted' = TRUE
         \/ /\ Len(pin_') # PinLength
            /\ queue' = Popped("atm") /\ UNCHANGED <<state_, prompted>>
  BY DEF DigitPressed, InState, Handles, Becomes, Prompting
<1>2. First("atm").digit \in Digits
  BY <1>1, FirstIn, InboxIs, MachinesAre, Zenon DEF Shape
<1>3. pin_ \in Seq(Digits) /\ Len(pin_) < PinLength
  BY <1>1, Zenon DEF Shape, PinShape
<1>4. pin_' \in Seq(Digits) /\ Len(pin_') = Len(pin_) + 1
  BY <1>1, <1>2, <1>3, AppendProperties
<1>5. Len(pin_') <= PinLength
  BY <1>3, <1>4, PinAssumption
<1>6. CASE Len(pin_') = PinLength
  <2>1. verify_pin(pin_') \in Inbox("bank")
    <3>1. pin_' \in Pins
      BY <1>4, <1>6, LenProperties DEF Pins
    <3> QED
      BY <3>1, InboxHas, Zenon
  <2>2. /\ QueueShape' /\ Takes("atm", "digit_pressed") /\ Keeps("interface")
        /\ Gets("bank", verify_pin(pin_'))
    BY <1>1, <1>6, <2>1, TakesAndSends, MachinesAre, Zenon DEF Shape
  <2> QED
    BY <1>1, <1>4, <1>5, <1>6, <2>2, Zenon
<1>7. CASE Len(pin_') # PinLength
  <2>1. QueueShape' /\ Takes("atm", "digit_pressed") /\ Keeps("interface") /\ Keeps("bank")
    BY <1>1, <1>7, OnlyTakes, MachinesAre, Zenon DEF Shape
  <2>2. Len(pin_') < PinLength
    BY <1>4, <1>5, <1>7, PinAssumption
  <2> QED
    BY <1>1, <1>4, <1>5, <1>7, <2>1, <2>2, Zenon
<1> QED
  BY <1>6, <1>7

\* ClearLastPressed tells nobody.
LEMMA ClearLastPressedDoes ==
  ASSUME Shape, ClearLastPressed
  PROVE  QueueShape' /\ Takes("atm", "clear_last_pressed") /\ Keeps("bank") /\ Keeps("interface")
<1>1. Receives("atm") /\ First("atm").type = "clear_last_pressed" /\ queue' = Popped("atm")
  BY DEF ClearLastPressed, InState, Handles
<1> QED
  BY <1>1, OnlyTakes, MachinesAre, Zenon DEF Shape

\* CancelPressed cancels a withdrawal at the bank, and nothing else.
LEMMA CancelPressedDoes ==
  ASSUME Shape, CancelPressed
  PROVE  /\ QueueShape' /\ Takes("atm", "cancel_pressed")
         /\ \/ /\ state_ # "processingWithdrawal" /\ Keeps("bank") /\ Keeps("interface")
            \/ /\ state_ = "processingWithdrawal" /\ Gets("bank", cancel_withdrawal(Amount))
               /\ Gets("interface", Msg("display_withdrawal_cancelled"))
<1>1. Receives("atm") /\ First("atm").type = "cancel_pressed"
  BY DEF CancelPressed, InState, Handles
<1>2. CASE state_ # "processingWithdrawal"
  <2>1. queue' = Popped("atm")
    BY <1>2 DEF CancelPressed
  <2> QED
    BY <1>1, <1>2, <2>1, OnlyTakes, MachinesAre, Zenon DEF Shape
<1>3. CASE state_ = "processingWithdrawal"
  <2> DEFINE p == Popped("atm")
             s == Send(p, "bank", cancel_withdrawal(Amount))
             text == Msg("display_withdrawal_cancelled")
  <2>1. queue' = Send(s, "interface", text)
    <3>1. queue' = Send(Send(p, "bank", cancel_withdrawal(withdrawal_amount_)), "interface", text)
      BY <1>3 DEF CancelPressed
    <3>2. withdrawal_amount_ = Amount
      BY <1>3, Zenon DEF Shape, AmountShape
    <3> QED
      BY <3>1, <3>2, Zenon
  <2>2. /\ PerMachine(p) /\ p["atm"] = Tail(queue["atm"])
        /\ p["bank"] = queue["bank"] /\ p["interface"] = queue["interface"]
    BY PoppedIs, MachinesAre, Zenon DEF Shape, QueueShape
  <2> HIDE DEF p
  <2>3. /\ PerMachine(s) /\ s["bank"] = Append(p["bank"], cancel_withdrawal(Amount))
        /\ s["atm"] = p["atm"] /\ s["interface"] = p["interface"]
    BY <2>2, SendIs, MachinesAre, SMT
  <2> HIDE DEF s
  <2>4. /\ PerMachine(queue') /\ queue'["interface"] = Append(s["interface"], text)
        /\ queue'["atm"] = s["atm"] /\ queue'["bank"] = s["bank"]
    BY <2>1, <2>3, SendIs, MachinesAre, SMT
  <2>5. Takes("atm", "cancel_pressed") /\ queue'["atm"] \in Seq(Inbox("atm"))
    BY <1>1, <2>2, <2>3, <2>4, Taking, MachinesAre, Zenon DEF Shape, Receives, First
  <2>6. Gets("bank", cancel_withdrawal(Amount)) /\ queue'["bank"] \in Seq(Inbox("bank"))
    BY <2>2, <2>3, <2>4, Getting, InboxHas, MachinesAre, Zenon DEF Shape
  <2>7. text \in Inbox("interface")
    BY InboxHas, Zenon DEF Displays
  <2>8. Gets("interface", text) /\ queue'["interface"] \in Seq(Inbox("interface"))
    BY <2>2, <2>3, <2>4, <2>7, Getting, MachinesAre, Zenon DEF Shape
  <2>9. QueueShape'
    BY <2>4, <2>5, <2>6, <2>8, Zenon DEF QueueShape, Machines
  <2> QED
    BY <1>3, <2>5, <2>6, <2>8, <2>9, Zenon
<1> QED
  BY <1>2, <1>3

\* AtmDrops takes a message that its state has no handler for.
LEMMA AtmDropsDoes ==
  ASSUME Shape, AtmDrops
  PROVE  \E type : /\ QueueShape' /\ Takes("atm", type) /\ Keeps("bank") /\ Keeps("interface")
                   /\ type \notin AtmHandled(state_)
<1>1. /\ Receives("atm") /\ First("atm").type \notin AtmHandled(state_)
      /\ queue' = Popped("atm")
  BY DEF AtmDrops, Dropped
<1>2. /\ QueueShape' /\ Takes("atm", First("atm").type) /\ Keeps("bank") /\ Keeps("interface")
  BY <1>1, OnlyTakes, MachinesAre, Zenon DEF Shape
<1> QED
  BY <1>1, <1>2, Zenon

\* Each state sends its prompt to the interface.
LEMMA EnterStateDoes ==
  ASSUME Shape, EnterState
  PROVE  /\ QueueShape' /\ Keeps("atm") /\ Keeps("bank")
         /\ \/ /\ state_ \in {"waitForCard", "waitForAction"} /\ state_' = state_
               /\ \E type \in Displays : Gets("interface", Msg(type))
            \/ /\ state_ = "doneProcessing" /\ state_' = "waitForCard"
               /\ Gets("interface", Msg("eject_card"))
<1>1. \/ /\ state_ \in {"waitForCard", "waitForAction"} /\ state_' = state_
         /\ \E type \in Displays \ {"display_balance"} : queue' = Send(queue, "interface", Msg(type))
      \/ /\ state_ = "doneProcessing" /\ state_' = "waitForCard"
         /\ queue' = Send(queue, "interface", Msg("eject_card"))
  BY Zenon DEF EnterState, Becomes, Displays
<1>2. CASE /\ state_ \in {"waitForCard", "waitForAction"} /\ state_' = state_
           /\ \E type \in Displays \ {"display_balance"} : queue' = Send(queue, "interface", Msg(type))
  <2>1. PICK type \in Displays \ {"display_balance"} : queue' = Send(queue, "interface", Msg(type))
    BY <1>2
  <2>2. QueueShape' /\ Keeps("atm") /\ Keeps("bank") /\ Gets("interface", Msg(type))
    BY <2>1, OnlySends, InboxHas, MachinesAre, Zenon DEF Shape
  <2> QED
    BY <1>2, <2>2, Zenon
<1>3. CASE /\ state_ = "doneProcessing" /\ state_' = "waitForCard"
           /\ queue' = Send(queue, "interface", Msg("eject_card"))
  <2>1. QueueShape' /\ Keeps("atm") /\ Keeps("bank") /\ Gets("interface", Msg("eject_card"))
    BY <1>3, OnlySends, InboxHas, MachinesAre, Zenon DEF Shape
  <2> QED
    BY <1>3, <2>1, Zenon
<1> QED
  BY <1>1, <1>2, <1>3

\* WithdrawGranted answers.
LEMMA WithdrawGrantedDoes ==
  ASSUME Shape, WithdrawGranted
  PROVE  /\ QueueShape' /\ Takes("bank", "withdraw") /\ Keeps("interface")
         /\ Gets("atm", Msg("withdraw_ok"))
<1>1. /\ Receives("bank") /\ First("bank").type = "withdraw"
      /\ queue' = Send(Popped("bank"), "atm", Msg("withdraw_ok"))
  BY DEF WithdrawGranted, Handles
<1>2. Msg("withdraw_ok") \in Inbox("atm")
  BY InboxHas, Zenon
<1> QED
  BY <1>1, <1>2, TakesAndSends, MachinesAre, Zenon DEF Shape

\* WithdrawDenied answers.
LEMMA WithdrawDeniedDoes ==
  ASSUME Shape, WithdrawDenied
  PROVE  /\ QueueShape' /\ Takes("bank", "withdraw") /\ Keeps("interface")
         /\ Gets("atm", Msg("withdraw_denied"))
<1>1. /\ Receives("bank") /\ First("bank").type = "withdraw"
      /\ queue' = Send(Popped("bank"), "atm", Msg("withdraw_denied"))
  BY DEF WithdrawDenied, Handles
<1>2. Msg("withdraw_denied") \in Inbox("atm")
  BY InboxHas, Zenon
<1> QED
  BY <1>1, <1>2, TakesAndSends, MachinesAre, Zenon DEF Shape

\* GetBalance answers with the balance.
LEMMA GetBalanceDoes ==
  ASSUME Shape, GetBalance
  PROVE  /\ QueueShape' /\ Takes("bank", "get_balance") /\ Keeps("interface")
         /\ Gets("atm", balance(balance_))
<1>1. /\ Receives("bank") /\ First("bank").type = "get_balance"
      /\ queue' = Send(Popped("bank"), "atm", balance(balance_))
  BY DEF GetBalance, Handles
<1>2. balance(balance_) \in Inbox("atm")
  BY InboxHas, Zenon DEF Shape, NumberShape
<1> QED
  BY <1>1, <1>2, TakesAndSends, MachinesAre, Zenon DEF Shape

\* VerifyPin answers whether the PIN in the message is the right one.
LEMMA VerifyPinDoes ==
  ASSUME Shape, VerifyPin
  PROVE  /\ QueueShape' /\ Takes("bank", "verify_pin") /\ Keeps("interface")
         /\ \/ First("bank").pin = CorrectPin /\ Gets("atm", Msg("pin_verified"))
            \/ Gets("atm", Msg("pin_incorrect"))
<1>1. /\ Receives("bank") /\ First("bank").type = "verify_pin"
      /\ \/ /\ First("bank").pin = CorrectPin
            /\ queue' = Send(Popped("bank"), "atm", Msg("pin_verified"))
         \/ queue' = Send(Popped("bank"), "atm", Msg("pin_incorrect"))
  BY Zenon DEF VerifyPin, Handles
<1>2. CASE /\ First("bank").pin = CorrectPin
           /\ queue' = Send(Popped("bank"), "atm", Msg("pin_verified"))
  BY <1>1, <1>2, InboxHas, TakesAndSends, MachinesAre, Zenon DEF Shape
<1>3. CASE queue' = Send(Popped("bank"), "atm", Msg("pin_incorrect"))
  BY <1>1, <1>3, InboxHas, TakesAndSends, MachinesAre, Zenon DEF Shape
<1> QED
  BY <1>1, <1>2, <1>3, Zenon

\* CancelWithdrawal is not answered.
LEMMA CancelWithdrawalDoes ==
  ASSUME Shape, CancelWithdrawal
  PROVE  QueueShape' /\ Takes("bank", "cancel_withdrawal") /\ Keeps("atm") /\ Keeps("interface")
<1>1. Receives("bank") /\ First("bank").type = "cancel_withdrawal" /\ queue' = Popped("bank")
  BY DEF CancelWithdrawal, Handles
<1> QED
  BY <1>1, OnlyTakes, MachinesAre, Zenon DEF Shape

\* IssueMoney takes its message.
LEMMA IssueMoneyDoes ==
  ASSUME Shape, IssueMoney
  PROVE  QueueShape' /\ Takes("interface", "issue_money") /\ Keeps("atm") /\ Keeps("bank")
<1>1. Receives("interface") /\ First("interface").type = "issue_money" /\ queue' = Popped("interface")
  BY DEF IssueMoney, Handles
<1> QED
  BY <1>1, OnlyTakes, MachinesAre, Zenon DEF Shape

\* EjectCard takes its message.
LEMMA EjectCardDoes ==
  ASSUME Shape, EjectCard
  PROVE  QueueShape' /\ Takes("interface", "eject_card") /\ Keeps("atm") /\ Keeps("bank")
<1>1. Receives("interface") /\ First("interface").type = "eject_card" /\ queue' = Popped("interface")
  BY DEF EjectCard, Handles
<1> QED
  BY <1>1, OnlyTakes, MachinesAre, Zenon DEF Shape

\* Display takes its message.
LEMMA DisplayDoes ==
  ASSUME Shape, Display
  PROVE  /\ QueueShape' /\ Keeps("atm") /\ Keeps("bank")
         /\ \E type \in Displays : Takes("interface", type)
<1>1. PICK type \in Displays : Receives("interface") /\ First("interface").type = type
  BY DEF Display, Handles
<1>2. queue' = Popped("interface")
  BY DEF Display
<1>3. QueueShape' /\ Keeps("atm") /\ Keeps("bank") /\ Takes("interface", type)
  BY <1>1, <1>2, OnlyTakes, MachinesAre, Zenon DEF Shape
<1> QED
  BY <1>3, Zenon

\* CloseQueue takes the last message of a machine.
LEMMA CloseQueueDoes ==
  ASSUME Shape, NEW m \in Machines, CloseQueue(m)
  PROVE  QueueShape' /\ Takes(m, "CloseQueue") /\ \A n \in Machines : n # m => Keeps(n)
<1>1. Receives(m) /\ First(m).type = "CloseQueue" /\ queue' = Popped(m)
  BY DEF CloseQueue
<1> QED
  BY <1>1, OnlyTakes, Zenon DEF Shape

\* A key is a message to the ATM.
LEMMA PressKeyDoes ==
  ASSUME Shape, NEW key \in Keys, PressKey(key)
  PROVE  QueueShape' /\ Gets("atm", key) /\ Keeps("bank") /\ Keeps("interface")
<1>1. queue' = Send(queue, "atm", key)
  BY DEF PressKey
<1> QED
  BY <1>1, OnlySends, InboxHas, MachinesAre, Zenon DEF Shape

\* Quit closes one of the queues.
LEMMA QuitDoes ==
  ASSUME Shape, Quit
  PROVE  \E m \in Machines : /\ QueueShape' /\ Gets(m, Msg("CloseQueue"))
                             /\ \A n \in Machines : n # m => Keeps(n)
<1> DEFINE m == <<"bank", "interface", "atm">>[quit + 1]
<1>1. m \in Machines /\ queue' = Send(queue, m, Msg("CloseQueue"))
  <2>1. quit \in 0..2
    BY DEF Quit, Shape, NumberShape
  <2> QED
    BY <2>1 DEF Quit, Machines
<1> HIDE DEF m
<1>2. /\ QueueShape' /\ Gets(m, Msg("CloseQueue")) /\ \A n \in Machines : n # m => Keeps(n)
  BY <1>1, OnlySends, InboxHas, Zenon DEF Shape
<1> QED
  BY <1>1, <1>2, Zenon

-----------------------------------------------------------------------------
(* Types *)

\* Sums and counters keep their types.
LEMMA NumberStep ==
  ASSUME Shape, Next
  PROVE  NumberShape'
<1>0. NumberShape /\ MaxCards \in Nat /\ Amount \in Nat
  BY BalanceAssumption, CardsAssumption DEF Shape
<1> USE <1>0 DEF NumberShape, bankVars, interfaceVars, atmVars
<1>1. ASSUME NEW key \in Keys, PressKey(key) PROVE NumberShape'
  BY <1>1 DEF PressKey
<1>2. CASE Quit
  BY <1>2 DEF Quit
<1>3. CASE AtmThread
  <2>1. UNCHANGED <<balance_, debited, issued, ejected, cards, quit>>
    BY <1>3 DEF AtmThread
  <2>2. inserted' = inserted \/ inserted' = inserted + 1
    BY <1>3, Zenon DEF AtmThread, AtmRun, EnterState, CardInserted, DigitPressed, ClearLastPressed,
       PinVerified, PinIncorrect, WithdrawPressed, BalancePressed, WithdrawOk, WithdrawRefused,
       ShowBalance, CancelPressed, AtmDrops
  <2> QED
    BY <2>1, <2>2
<1>4. CASE BankThread
  <2>1. UNCHANGED <<issued, ejected, inserted, cards, quit>>
    BY <1>4 DEF BankThread
  <2>2. CASE UNCHANGED bankVars
    BY <2>1, <2>2
  <2>3. CASE WithdrawGranted
    <3>1. First("bank").amount = Amount
      BY <2>3, FirstIn, InboxIs, MachinesAre, Zenon DEF WithdrawGranted, Handles, Shape
    <3> QED
      BY <2>1, <2>3, <3>1 DEF WithdrawGranted
  <2>4. CASE CancelWithdrawal
    <3>1. First("bank").amount = Amount
      BY <2>4, FirstIn, InboxIs, MachinesAre, Zenon DEF CancelWithdrawal, Handles, Shape
    <3> QED
      BY <2>1, <2>4, <3>1 DEF CancelWithdrawal
  <2> QED
    BY <1>4, <2>2, <2>3, <2>4, Zenon DEF BankThread, BankRun, VerifyPin, WithdrawDenied, GetBalance
<1>5. CASE InterfaceThread
  <2>1. UNCHANGED <<balance_, debited, inserted, cards, quit>>
    BY <1>5 DEF InterfaceThread
  <2>2. CASE UNCHANGED interfaceVars
    BY <2>1, <2>2
  <2>3. CASE IssueMoney
    <3>1. First("interface").amount = Amount
      BY <2>3, FirstIn, InboxIs, MachinesAre, Zenon DEF IssueMoney, Handles, Shape
    <3> QED
      BY <2>1, <2>3, <3>1 DEF IssueMoney
  <2>4. CASE EjectCard
    BY <2>1, <2>4 DEF EjectCard
  <2> QED
    BY <1>5, <2>2, <2>3, <2>4, Zenon DEF InterfaceThread, InterfaceRun, Display
<1> QED
  BY <1>1, <1>2, <1>3, <1>4, <1>5, Zenon DEF Next

\* The states of the threads and the queues keep their types.
LEMMA ControlStep ==
  ASSUME Shape, Next
  PROVE  ControlShape' /\ QueueShape'
<1>0. ControlShape
  BY Zenon DEF Shape
<1>1. ASSUME NEW key \in Keys, PressKey(key) PROVE ControlShape' /\ QueueShape'
  BY <1>0, <1>1, PressKeyDoes, Zenon DEF PressKey, ControlShape, atmVars
<1>2. CASE Quit
  BY <1>0, <1>2, QuitDoes, Zenon DEF Quit, ControlShape, atmVars
<1>3. ASSUME NEW m \in Machines, CloseQueue(m), UNCHANGED <<state_, prompted, cancelledInFlight>>
      PROVE  ControlShape' /\ QueueShape'
  <2>1. QueueShape'
    BY <1>3, CloseQueueDoes, Zenon
  <2>2. thread' \in [Machines -> {"running", "ended"}] /\ terminated' \in BOOLEAN
    BY <1>0, <1>3 DEF CloseQueue, ControlShape
  <2> QED
    BY <1>0, <1>3, <2>1, <2>2, Zenon DEF ControlShape
<1>4. CASE AtmThread
  <2>1. CASE AtmDrops
    <3>1. UNCHANGED <<thread, terminated, state_, prompted, cancelledInFlight>>
      BY <2>1 DEF AtmDrops, Dropped, atmVars
    <3> QED
      BY <1>0, <2>1, <3>1, AtmDropsDoes, Zenon DEF ControlShape
  <2>2. CASE prompted /\ CloseQueue("atm") /\ UNCHANGED atmVars
    BY <1>3, <2>2, MachinesAre, Zenon DEF atmVars
  <2>3. CASE \/ EnterState \/ CardInserted \/ DigitPressed \/ ClearLastPressed \/ PinVerified
             \/ PinIncorrect \/ WithdrawPressed \/ BalancePressed \/ WithdrawOk \/ WithdrawRefused
             \/ ShowBalance \/ CancelPressed
    <3>1. QueueShape'
      BY <2>3, EnterStateDoes, CardInsertedDoes, DigitPressedDoes, ClearLastPressedDoes,
         PinVerifiedDoes, PinIncorrectDoes, WithdrawPressedDoes, BalancePressedDoes, WithdrawOkDoes,
         WithdrawRefusedDoes, ShowBalanceDoes, CancelPressedDoes, Zenon
    <3>2. UNCHANGED <<thread, terminated>>
      BY <2>3, Zenon DEF EnterState, CardInserted, DigitPressed, ClearLastPressed,
         PinVerified, PinIncorrect, WithdrawPressed, BalancePressed, WithdrawOk, WithdrawRefused,
         ShowBalance, CancelPressed, InState, Handles
    <3>3. cancelledInFlight' \in BOOLEAN
      BY <1>0, <2>3, Zenon DEF ControlShape, EnterState, CardInserted, DigitPressed,
         ClearLastPressed, PinVerified, PinIncorrect, WithdrawPressed, BalancePressed, WithdrawOk,
         WithdrawRefused, ShowBalance, CancelPressed
    <3>4. \A state \in States : Becomes(state) => state_' \in States /\ prompted' \in BOOLEAN
      BY Zenon DEF Becomes
    <3>5. {"waitForCard", "gettingPin", "verifyingPin", "waitForAction", "processingWithdrawal",
           "processBalance", "doneProcessing"} \subseteq States
      BY Zenon DEF States
    <3>6. state_' \in States /\ prompted' \in BOOLEAN
      BY <1>0, <2>3, <3>4, <3>5, Zenon DEF ControlShape, EnterState, CardInserted, DigitPressed,
         ClearLastPressed, PinVerified, PinIncorrect, WithdrawPressed, BalancePressed, WithdrawOk,
         WithdrawRefused, ShowBalance, CancelPressed
    <3> QED
      BY <1>0, <3>1, <3>2, <3>3, <3>6, Zenon DEF ControlShape
  <2> QED
    BY <1>4, <2>1, <2>2, <2>3, Zenon DEF AtmThread, AtmRun
<1>5. CASE BankThread
  <2>1. UNCHANGED <<state_, prompted, cancelledInFlight>>
    BY <1>5 DEF BankThread, atmVars
  <2>2. CASE \/ VerifyPin \/ WithdrawGranted \/ WithdrawDenied \/ GetBalance \/ CancelWithdrawal
    <3>1. QueueShape'
      BY <2>2, VerifyPinDoes, WithdrawGrantedDoes, WithdrawDeniedDoes, GetBalanceDoes,
         CancelWithdrawalDoes, Zenon
    <3>2. UNCHANGED <<thread, terminated>>
      BY <2>2, Zenon DEF VerifyPin, WithdrawGranted, WithdrawDenied, GetBalance, CancelWithdrawal,
         Handles
    <3> QED
      BY <1>0, <2>1, <3>1, <3>2, Zenon DEF ControlShape
  <2> QED
    BY <1>3, <1>5, <2>1, <2>2, MachinesAre, Zenon DEF BankThread, BankRun
<1>6. CASE InterfaceThread
  <2>1. UNCHANGED <<state_, prompted, cancelledInFlight>>
    BY <1>6 DEF InterfaceThread, atmVars
  <2>2. CASE IssueMoney \/ EjectCard \/ Display
    <3>1. QueueShape'
      BY <2>2, IssueMoneyDoes, EjectCardDoes, DisplayDoes, Zenon
    <3>2. UNCHANGED <<thread, terminated>>
      BY <2>2, Zenon DEF IssueMoney, EjectCard, Display, Handles
    <3> QED
      BY <1>0, <2>1, <3>1, <3>2, Zenon DEF ControlShape
  <2> QED
    BY <1>3, <1>6, <2>1, <2>2, MachinesAre, Zenon DEF InterfaceThread, InterfaceRun
<1> QED
  BY <1>1, <1>2, <1>4, <1>5, <1>6, Zenon DEF Next

\* A sequence without its last element.
LEMMA LastOff ==
  ASSUME NEW S, NEW s \in Seq(S), s # << >>
  PROVE  /\ SubSeq(s, 1, Len(s) - 1) \in Seq(S)
         /\ Len(SubSeq(s, 1, Len(s) - 1)) = Len(s) - 1
<1> DEFINE n == Len(s) - 1
<1>1. n \in Nat /\ \A i \in 1..n : s[i] \in S
  <2>1. Tail(s) \in Seq(S) /\ Len(Tail(s)) = n
    BY HeadTailProperties
  <2>2. n \in Nat
    BY <2>1
  <2> QED
    BY <2>2
<1> HIDE DEF n
<1>2. (IF 1 <= n THEN n - 1 + 1 ELSE 0) = n
  BY <1>1
<1>3. SubSeq(s, 1, n) \in Seq(S) /\ Len(SubSeq(s, 1, n)) = n
  BY <1>1, <1>2, SubSeqProperties
<1> QED
  BY <1>3, Zenon DEF n

\* The PIN has never more digits than it should, and fewer while digits are taken.
LEMMA PinStep ==
  ASSUME Shape, Next
  PROVE  PinShape'
<1>0. PinShape /\ PinLength \in Nat \ {0}
  BY PinAssumption, Zenon DEF Shape
<1>1. CASE UNCHANGED <<pin_, state_>>
  BY <1>0, <1>1, Zenon DEF PinShape
<1>2. CASE pin_' = pin_ /\ state_' # "gettingPin"
  BY <1>0, <1>2, Zenon DEF PinShape
<1>3. CASE pin_' = << >>
  BY <1>0, <1>3 DEF PinShape
<1>4. CASE DigitPressed
  <2>1. state_ = "gettingPin" /\ "verifyingPin" # "gettingPin"
    BY <1>4 DEF DigitPressed, InState
  <2> QED
    BY <1>0, <1>4, <2>1, DigitPressedDoes, Zenon DEF PinShape
<1>5. CASE ClearLastPressed
  <2>1. /\ state_ = "gettingPin" /\ state_' = state_
        /\ pin_' = IF pin_ = << >> THEN pin_ ELSE SubSeq(pin_, 1, Len(pin_) - 1)
    BY <1>5, Zenon DEF ClearLastPressed, InState
  <2>2. CASE pin_ = << >>
    BY <1>1, <2>1, <2>2, Zenon
  <2>3. CASE pin_ # << >>
    <3>1. /\ SubSeq(pin_, 1, Len(pin_) - 1) \in Seq(Digits)
          /\ Len(SubSeq(pin_, 1, Len(pin_) - 1)) = Len(pin_) - 1
      BY <1>0, <2>3, LastOff DEF PinShape
    <3>2. /\ pin_' \in Seq(Digits) /\ Len(pin_') = Len(pin_) - 1
          /\ Len(pin_) \in Nat /\ Len(pin_) < PinLength
      BY <1>0, <2>1, <2>3, <3>1 DEF PinShape
    <3>3. Len(pin_') < PinLength /\ Len(pin_') <= PinLength
      BY <1>0, <3>2
    <3> QED
      BY <3>2, <3>3, Zenon DEF PinShape
  <2> QED
    BY <2>2, <2>3
<1>6. \A state \in States \ {"gettingPin"} : Becomes(state) => state_' # "gettingPin"
  BY Zenon DEF Becomes
<1>7. {"waitForCard", "verifyingPin", "waitForAction", "processingWithdrawal",
       "processBalance", "doneProcessing"} \subseteq States \ {"gettingPin"}
  BY DEF States
<1>8. CASE AtmThread
  BY <1>1, <1>2, <1>3, <1>4, <1>5, <1>6, <1>7, <1>8, Zenon DEF AtmThread, AtmRun, EnterState,
     CardInserted, PinVerified, PinIncorrect, WithdrawPressed, BalancePressed, WithdrawOk,
     WithdrawRefused, ShowBalance, CancelPressed, AtmDrops, atmVars
<1>9. CASE ~AtmThread
  BY <1>1, <1>9, Zenon DEF Next, PressKey, Quit, BankThread, InterfaceThread, atmVars
<1> QED
  BY <1>8, <1>9

\* A withdrawal keeps its amount.
LEMMA AmountStep ==
  ASSUME Shape, Next
  PROVE  AmountShape'
<1>0. AmountShape
  BY Zenon DEF Shape
<1>1. CASE UNCHANGED <<withdrawal_amount_, state_>>
  BY <1>0, <1>1, Zenon DEF AmountShape
<1>2. CASE withdrawal_amount_' = withdrawal_amount_ /\ state_' # "processingWithdrawal"
  BY <1>0, <1>2, Zenon DEF AmountShape
<1>3. CASE WithdrawPressed
  <2>1. First("atm").amount = Amount /\ withdrawal_amount_' = First("atm").amount
    BY <1>3, FirstIn, InboxIs, MachinesAre, Zenon DEF WithdrawPressed, InState, Handles, Shape
  <2> QED
    BY <2>1 DEF AmountShape
<1>4. CASE DigitPressed
  <2>1. /\ withdrawal_amount_' = withdrawal_amount_
        /\ state_' = "verifyingPin" \/ state_' = state_
    BY <1>4, Zenon DEF DigitPressed, Becomes
  <2> QED
    BY <1>1, <1>2, <2>1
<1>5. \A state \in States \ {"processingWithdrawal"} :
        Becomes(state) => state_' # "processingWithdrawal"
  BY Zenon DEF Becomes
<1>6. {"waitForCard", "gettingPin", "waitForAction", "processBalance", "doneProcessing"}
        \subseteq States \ {"processingWithdrawal"}
  BY DEF States
<1>7. CASE AtmThread
  BY <1>1, <1>2, <1>3, <1>4, <1>5, <1>6, <1>7, Zenon DEF AtmThread, AtmRun, EnterState,
     CardInserted, ClearLastPressed, PinVerified, PinIncorrect, BalancePressed, WithdrawOk,
     WithdrawRefused, ShowBalance, CancelPressed, AtmDrops, atmVars
<1>8. CASE ~AtmThread
  BY <1>1, <1>8, Zenon DEF Next, PressKey, Quit, BankThread, InterfaceThread, atmVars
<1> QED
  BY <1>7, <1>8

\* Every step keeps the types.
LEMMA ShapeStep ==
  ASSUME Shape, Next
  PROVE  Shape'
BY NumberStep, ControlStep, PinStep, AmountStep, Zenon DEF Shape

-----------------------------------------------------------------------------
(* Sums of tallies *)

\* Questions about the PIN and their answers.
PinSum ==
  Tally(queue["bank"], "verify_pin") + Tally(queue["atm"], "pin_verified")
    + Tally(queue["atm"], "pin_incorrect")

\* Withdrawals asked for, and their answers.
MoneySum ==
  Tally(queue["bank"], "withdraw") + Tally(queue["atm"], "withdraw_ok")
    + Tally(queue["atm"], "withdraw_denied")

\* Questions about the balance and their answers.
BalanceSum == Tally(queue["bank"], "get_balance") + Tally(queue["atm"], "balance")

\* Withdrawals to be cancelled at the bank.
CancelSum == Tally(queue["bank"], "cancel_withdrawal")

\* Withdrawals that the bank has granted and that are not yet handed out.
PayoutSum == Tally(queue["interface"], "issue_money") + Tally(queue["atm"], "withdraw_ok")

\* Cards to be ejected.
EjectSum == Tally(queue["interface"], "eject_card")

\* The sums are natural numbers.
LEMMA SumsNat ==
  ASSUME QueueShape
  PROVE  /\ PinSum \in Nat /\ MoneySum \in Nat /\ BalanceSum \in Nat
         /\ CancelSum \in Nat /\ PayoutSum \in Nat /\ EjectSum \in Nat
<1>1. \A m \in Machines : \A t : Tally(queue[m], t) \in Nat
  BY TalliesNat
<1> QED
  BY <1>1, MachinesAre DEF PinSum, MoneySum, BalanceSum, CancelSum, PayoutSum, EjectSum

\* The same in the next state.
LEMMA SumsNatNext ==
  ASSUME QueueShape'
  PROVE  /\ PinSum' \in Nat /\ MoneySum' \in Nat /\ BalanceSum' \in Nat
         /\ CancelSum' \in Nat /\ PayoutSum' \in Nat /\ EjectSum' \in Nat
<1>1. \A m \in Machines : \A t : Tally(queue'[m], t) \in Nat
  BY TalliesNatNext
<1> QED
  BY <1>1, MachinesAre DEF PinSum, MoneySum, BalanceSum, CancelSum, PayoutSum, EjectSum

\* There are tallies before and after a step.
LEMMA TalliesBoth ==
  ASSUME QueueShape, QueueShape'
  PROVE  \A m \in Machines : \A t : Tally(queue[m], t) \in Nat /\ Tally(queue'[m], t) \in Nat
BY TalliesNat, TalliesNatNext, Zenon

\* Every message carries its type.
LEMMA MsgTypes ==
  /\ \A type : Msg(type).type = type
  /\ \A n : /\ issue_money(n).type = "issue_money" /\ display_balance(n).type = "display_balance"
            /\ withdraw(n).type = "withdraw" /\ cancel_withdrawal(n).type = "cancel_withdrawal"
            /\ verify_pin(n).type = "verify_pin" /\ balance(n).type = "balance"
  /\ get_balance.type = "get_balance"
BY DEF Msg, issue_money, display_balance, withdraw, cancel_withdrawal, verify_pin, balance, get_balance


\* How much the tallies of each machine move in a step.
AtmMoves(verified, incorrect, ok, denied, bal) ==
  /\ Tally(queue'["atm"], "pin_verified") = Tally(queue["atm"], "pin_verified") + verified
  /\ Tally(queue'["atm"], "pin_incorrect") = Tally(queue["atm"], "pin_incorrect") + incorrect
  /\ Tally(queue'["atm"], "withdraw_ok") = Tally(queue["atm"], "withdraw_ok") + ok
  /\ Tally(queue'["atm"], "withdraw_denied") = Tally(queue["atm"], "withdraw_denied") + denied
  /\ Tally(queue'["atm"], "balance") = Tally(queue["atm"], "balance") + bal

BankMoves(pin, money, bal, cancel) ==
  /\ Tally(queue'["bank"], "verify_pin") = Tally(queue["bank"], "verify_pin") + pin
  /\ Tally(queue'["bank"], "withdraw") = Tally(queue["bank"], "withdraw") + money
  /\ Tally(queue'["bank"], "get_balance") = Tally(queue["bank"], "get_balance") + bal
  /\ Tally(queue'["bank"], "cancel_withdrawal") = Tally(queue["bank"], "cancel_withdrawal") + cancel

InterfaceMoves(money, card) ==
  /\ Tally(queue'["interface"], "issue_money") = Tally(queue["interface"], "issue_money") + money
  /\ Tally(queue'["interface"], "eject_card") = Tally(queue["interface"], "eject_card") + card

\* A queue that stays as it is.
LEMMA KeepMoves ==
  ASSUME QueueShape, QueueShape'
  PROVE  /\ Keeps("atm") => AtmMoves(0, 0, 0, 0, 0)
         /\ Keeps("bank") => BankMoves(0, 0, 0, 0)
         /\ Keeps("interface") => InterfaceMoves(0, 0)
<1>1. \A m \in Machines : \A t : Tally(queue[m], t) \in Nat
  BY TalliesBoth, Zenon
<1>2. ASSUME Keeps("atm") PROVE AtmMoves(0, 0, 0, 0, 0)
  BY <1>1, <1>2, MachinesAre DEF Keeps, AtmMoves
<1>3. ASSUME Keeps("bank") PROVE BankMoves(0, 0, 0, 0)
  BY <1>1, <1>3, MachinesAre DEF Keeps, BankMoves
<1>4. ASSUME Keeps("interface") PROVE InterfaceMoves(0, 0)
  BY <1>1, <1>4, MachinesAre DEF Keeps, InterfaceMoves
<1> QED
  BY <1>2, <1>3, <1>4

\* A tally of another type stays as it is when a message leaves ...
LEMMA TakesOther ==
  ASSUME QueueShape, QueueShape', NEW m \in Machines, NEW type, Takes(m, type), NEW t, t # type
  PROVE  Tally(queue'[m], t) = Tally(queue[m], t) + 0
<1>1. Tally(queue[m], t) \in Nat /\ Tally(queue'[m], t) \in Nat
  BY TalliesBoth, Zenon
<1>2. Tally(queue[m], t) = Tally(queue'[m], t) + One(type = t)
  BY Zenon DEF Takes
<1>3. One(type = t) = 0
  BY Zenon DEF One
<1> QED
  BY <1>1, <1>2, <1>3

\* ... and its own goes down.
LEMMA TakesOwn ==
  ASSUME QueueShape, QueueShape', NEW m \in Machines, NEW type, Takes(m, type)
  PROVE  Tally(queue'[m], type) = Tally(queue[m], type) + (-1)
<1>1. Tally(queue[m], type) \in Nat /\ Tally(queue'[m], type) \in Nat
  BY TalliesBoth, Zenon
<1>2. Tally(queue[m], type) = Tally(queue'[m], type) + One(type = type)
  BY Zenon DEF Takes
<1>3. One(type = type) = 1
  BY Zenon DEF One
<1> QED
  BY <1>1, <1>2, <1>3

\* A tally of another type stays as it is when a message comes ...
LEMMA GetsOther ==
  ASSUME NEW m, NEW msg, Gets(m, msg), NEW type, msg.type = type, NEW t, t # type
  PROVE  Tally(queue'[m], t) = Tally(queue[m], t) + 0
<1>1. Tally(queue'[m], t) = Tally(queue[m], t) + One(msg.type = t)
  BY Zenon DEF Gets
<1>2. One(msg.type = t) = 0
  BY Zenon DEF One
<1> QED
  BY <1>1, <1>2, Zenon

\* ... and its own goes up.
LEMMA GetsOwn ==
  ASSUME NEW m, NEW msg, Gets(m, msg), NEW type, msg.type = type
  PROVE  Tally(queue'[m], type) = Tally(queue[m], type) + 1
<1>1. Tally(queue'[m], type) = Tally(queue[m], type) + One(msg.type = type)
  BY Zenon DEF Gets
<1>2. One(msg.type = type) = 1
  BY Zenon DEF One
<1> QED
  BY <1>1, <1>2, Zenon

\* The sums move as their tallies do.
LEMMA SumsMove ==
  ASSUME QueueShape, QueueShape',
         NEW verified \in Int, NEW incorrect \in Int, NEW ok \in Int, NEW denied \in Int,
         NEW bal \in Int, NEW pin \in Int, NEW money \in Int, NEW asked \in Int, NEW cancel \in Int,
         NEW payout \in Int, NEW card \in Int,
         AtmMoves(verified, incorrect, ok, denied, bal), BankMoves(pin, money, asked, cancel),
         InterfaceMoves(payout, card)
  PROVE  /\ PinSum' = PinSum + (pin + verified + incorrect)
         /\ MoneySum' = MoneySum + (money + ok + denied)
         /\ BalanceSum' = BalanceSum + (asked + bal)
         /\ CancelSum' = CancelSum + cancel
         /\ PayoutSum' = PayoutSum + (payout + ok)
         /\ EjectSum' = EjectSum + card
<1>1. \A m \in Machines : \A t : Tally(queue[m], t) \in Nat
  BY TalliesBoth, Zenon
<1>2. PinSum' = PinSum + (pin + verified + incorrect)
  BY <1>1, MachinesAre DEF AtmMoves, BankMoves, PinSum
<1>3. MoneySum' = MoneySum + (money + ok + denied)
  BY <1>1, MachinesAre DEF AtmMoves, BankMoves, MoneySum
<1>4. BalanceSum' = BalanceSum + (asked + bal)
  BY <1>1, MachinesAre DEF AtmMoves, BankMoves, BalanceSum
<1>5. CancelSum' = CancelSum + cancel
  BY DEF BankMoves, CancelSum
<1>6. PayoutSum' = PayoutSum + (payout + ok)
  BY <1>1, MachinesAre DEF AtmMoves, InterfaceMoves, PayoutSum
<1>7. EjectSum' = EjectSum + card
  BY DEF InterfaceMoves, EjectSum
<1> QED
  BY <1>2, <1>3, <1>4, <1>5, <1>6, <1>7

\* How the tallies of the ATM's queue move when a message leaves it.
LEMMA AtmTakes ==
  ASSUME QueueShape, QueueShape', NEW type, Takes("atm", type)
  PROVE  /\ type \notin {"pin_verified", "pin_incorrect", "withdraw_ok", "withdraw_denied", "balance"}
              => AtmMoves(0, 0, 0, 0, 0)
         /\ type = "pin_verified" => AtmMoves(-1, 0, 0, 0, 0)
         /\ type = "pin_incorrect" => AtmMoves(0, -1, 0, 0, 0)
         /\ type = "withdraw_ok" => AtmMoves(0, 0, -1, 0, 0)
         /\ type = "withdraw_denied" => AtmMoves(0, 0, 0, -1, 0)
         /\ type = "balance" => AtmMoves(0, 0, 0, 0, -1)
<1>1. \A t : t # type => Tally(queue'["atm"], t) = Tally(queue["atm"], t) + 0
  BY TakesOther, MachinesAre
<1>2. Tally(queue'["atm"], type) = Tally(queue["atm"], type) + (-1)
  BY TakesOwn, MachinesAre, Zenon
<1>3. ASSUME type \notin {"pin_verified", "pin_incorrect", "withdraw_ok", "withdraw_denied", "balance"}
      PROVE  AtmMoves(0, 0, 0, 0, 0)
  BY <1>1, <1>2, <1>3 DEF AtmMoves
<1>4. ASSUME type = "pin_verified" PROVE AtmMoves(-1, 0, 0, 0, 0)
  BY <1>1, <1>2, <1>4 DEF AtmMoves
<1>5. ASSUME type = "pin_incorrect" PROVE AtmMoves(0, -1, 0, 0, 0)
  BY <1>1, <1>2, <1>5 DEF AtmMoves
<1>6. ASSUME type = "withdraw_ok" PROVE AtmMoves(0, 0, -1, 0, 0)
  BY <1>1, <1>2, <1>6 DEF AtmMoves
<1>7. ASSUME type = "withdraw_denied" PROVE AtmMoves(0, 0, 0, -1, 0)
  BY <1>1, <1>2, <1>7 DEF AtmMoves
<1>8. ASSUME type = "balance" PROVE AtmMoves(0, 0, 0, 0, -1)
  BY <1>1, <1>2, <1>8 DEF AtmMoves
<1> QED
  BY <1>3, <1>4, <1>5, <1>6, <1>7, <1>8

\* How the tallies of the ATM's queue move when a message comes.
LEMMA AtmGets ==
  ASSUME NEW msg, Gets("atm", msg), NEW type, msg.type = type
  PROVE  /\ type \notin {"pin_verified", "pin_incorrect", "withdraw_ok", "withdraw_denied", "balance"}
              => AtmMoves(0, 0, 0, 0, 0)
         /\ type = "pin_verified" => AtmMoves(1, 0, 0, 0, 0)
         /\ type = "pin_incorrect" => AtmMoves(0, 1, 0, 0, 0)
         /\ type = "withdraw_ok" => AtmMoves(0, 0, 1, 0, 0)
         /\ type = "withdraw_denied" => AtmMoves(0, 0, 0, 1, 0)
         /\ type = "balance" => AtmMoves(0, 0, 0, 0, 1)
<1>1. \A t : t # type => Tally(queue'["atm"], t) = Tally(queue["atm"], t) + 0
  BY GetsOther
<1>2. Tally(queue'["atm"], type) = Tally(queue["atm"], type) + 1
  BY GetsOwn, Zenon
<1>3. ASSUME type \notin {"pin_verified", "pin_incorrect", "withdraw_ok", "withdraw_denied", "balance"}
      PROVE  AtmMoves(0, 0, 0, 0, 0)
  BY <1>1, <1>2, <1>3 DEF AtmMoves
<1>4. ASSUME type = "pin_verified" PROVE AtmMoves(1, 0, 0, 0, 0)
  BY <1>1, <1>2, <1>4 DEF AtmMoves
<1>5. ASSUME type = "pin_incorrect" PROVE AtmMoves(0, 1, 0, 0, 0)
  BY <1>1, <1>2, <1>5 DEF AtmMoves
<1>6. ASSUME type = "withdraw_ok" PROVE AtmMoves(0, 0, 1, 0, 0)
  BY <1>1, <1>2, <1>6 DEF AtmMoves
<1>7. ASSUME type = "withdraw_denied" PROVE AtmMoves(0, 0, 0, 1, 0)
  BY <1>1, <1>2, <1>7 DEF AtmMoves
<1>8. ASSUME type = "balance" PROVE AtmMoves(0, 0, 0, 0, 1)
  BY <1>1, <1>2, <1>8 DEF AtmMoves
<1> QED
  BY <1>3, <1>4, <1>5, <1>6, <1>7, <1>8

\* How the tallies of the bank's queue move when a message leaves it.
LEMMA BankTakes ==
  ASSUME QueueShape, QueueShape', NEW type, Takes("bank", type)
  PROVE  /\ type \notin {"verify_pin", "withdraw", "get_balance", "cancel_withdrawal"}
              => BankMoves(0, 0, 0, 0)
         /\ type = "verify_pin" => BankMoves(-1, 0, 0, 0)
         /\ type = "withdraw" => BankMoves(0, -1, 0, 0)
         /\ type = "get_balance" => BankMoves(0, 0, -1, 0)
         /\ type = "cancel_withdrawal" => BankMoves(0, 0, 0, -1)
<1>1. \A t : t # type => Tally(queue'["bank"], t) = Tally(queue["bank"], t) + 0
  BY TakesOther, MachinesAre
<1>2. Tally(queue'["bank"], type) = Tally(queue["bank"], type) + (-1)
  BY TakesOwn, MachinesAre, Zenon
<1>3. ASSUME type \notin {"verify_pin", "withdraw", "get_balance", "cancel_withdrawal"}
      PROVE  BankMoves(0, 0, 0, 0)
  BY <1>1, <1>2, <1>3 DEF BankMoves
<1>4. ASSUME type = "verify_pin" PROVE BankMoves(-1, 0, 0, 0)
  BY <1>1, <1>2, <1>4 DEF BankMoves
<1>5. ASSUME type = "withdraw" PROVE BankMoves(0, -1, 0, 0)
  BY <1>1, <1>2, <1>5 DEF BankMoves
<1>6. ASSUME type = "get_balance" PROVE BankMoves(0, 0, -1, 0)
  BY <1>1, <1>2, <1>6 DEF BankMoves
<1>7. ASSUME type = "cancel_withdrawal" PROVE BankMoves(0, 0, 0, -1)
  BY <1>1, <1>2, <1>7 DEF BankMoves
<1> QED
  BY <1>3, <1>4, <1>5, <1>6, <1>7

\* How the tallies of the bank's queue move when a message comes.
LEMMA BankGets ==
  ASSUME NEW msg, Gets("bank", msg), NEW type, msg.type = type
  PROVE  /\ type \notin {"verify_pin", "withdraw", "get_balance", "cancel_withdrawal"}
              => BankMoves(0, 0, 0, 0)
         /\ type = "verify_pin" => BankMoves(1, 0, 0, 0)
         /\ type = "withdraw" => BankMoves(0, 1, 0, 0)
         /\ type = "get_balance" => BankMoves(0, 0, 1, 0)
         /\ type = "cancel_withdrawal" => BankMoves(0, 0, 0, 1)
<1>1. \A t : t # type => Tally(queue'["bank"], t) = Tally(queue["bank"], t) + 0
  BY GetsOther
<1>2. Tally(queue'["bank"], type) = Tally(queue["bank"], type) + 1
  BY GetsOwn, Zenon
<1>3. ASSUME type \notin {"verify_pin", "withdraw", "get_balance", "cancel_withdrawal"}
      PROVE  BankMoves(0, 0, 0, 0)
  BY <1>1, <1>2, <1>3 DEF BankMoves
<1>4. ASSUME type = "verify_pin" PROVE BankMoves(1, 0, 0, 0)
  BY <1>1, <1>2, <1>4 DEF BankMoves
<1>5. ASSUME type = "withdraw" PROVE BankMoves(0, 1, 0, 0)
  BY <1>1, <1>2, <1>5 DEF BankMoves
<1>6. ASSUME type = "get_balance" PROVE BankMoves(0, 0, 1, 0)
  BY <1>1, <1>2, <1>6 DEF BankMoves
<1>7. ASSUME type = "cancel_withdrawal" PROVE BankMoves(0, 0, 0, 1)
  BY <1>1, <1>2, <1>7 DEF BankMoves
<1> QED
  BY <1>3, <1>4, <1>5, <1>6, <1>7

\* How the tallies of the interface's queue move when a message leaves it.
LEMMA InterfaceTakes ==
  ASSUME QueueShape, QueueShape', NEW type, Takes("interface", type)
  PROVE  /\ type \notin {"issue_money", "eject_card"}
              => InterfaceMoves(0, 0)
         /\ type = "issue_money" => InterfaceMoves(-1, 0)
         /\ type = "eject_card" => InterfaceMoves(0, -1)
<1>1. \A t : t # type => Tally(queue'["interface"], t) = Tally(queue["interface"], t) + 0
  BY TakesOther, MachinesAre
<1>2. Tally(queue'["interface"], type) = Tally(queue["interface"], type) + (-1)
  BY TakesOwn, MachinesAre, Zenon
<1>3. ASSUME type \notin {"issue_money", "eject_card"}
      PROVE  InterfaceMoves(0, 0)
  BY <1>1, <1>2, <1>3 DEF InterfaceMoves
<1>4. ASSUME type = "issue_money" PROVE InterfaceMoves(-1, 0)
  BY <1>1, <1>2, <1>4 DEF InterfaceMoves
<1>5. ASSUME type = "eject_card" PROVE InterfaceMoves(0, -1)
  BY <1>1, <1>2, <1>5 DEF InterfaceMoves
<1> QED
  BY <1>3, <1>4, <1>5

\* How the tallies of the interface's queue move when a message comes.
LEMMA InterfaceGets ==
  ASSUME NEW msg, Gets("interface", msg), NEW type, msg.type = type
  PROVE  /\ type \notin {"issue_money", "eject_card"}
              => InterfaceMoves(0, 0)
         /\ type = "issue_money" => InterfaceMoves(1, 0)
         /\ type = "eject_card" => InterfaceMoves(0, 1)
<1>1. \A t : t # type => Tally(queue'["interface"], t) = Tally(queue["interface"], t) + 0
  BY GetsOther
<1>2. Tally(queue'["interface"], type) = Tally(queue["interface"], type) + 1
  BY GetsOwn, Zenon
<1>3. ASSUME type \notin {"issue_money", "eject_card"}
      PROVE  InterfaceMoves(0, 0)
  BY <1>1, <1>2, <1>3 DEF InterfaceMoves
<1>4. ASSUME type = "issue_money" PROVE InterfaceMoves(1, 0)
  BY <1>1, <1>2, <1>4 DEF InterfaceMoves
<1>5. ASSUME type = "eject_card" PROVE InterfaceMoves(0, 1)
  BY <1>1, <1>2, <1>5 DEF InterfaceMoves
<1> QED
  BY <1>3, <1>4, <1>5

\* CardInserted leaves the sums alone.
LEMMA CardInsertedSums ==
  ASSUME Shape, CardInserted
  PROVE  UNCHANGED <<PinSum, MoneySum, BalanceSum, CancelSum, PayoutSum, EjectSum>>
<1>1. QueueShape'
  BY CardInsertedDoes, Zenon
<1>2. AtmMoves(0, 0, 0, 0, 0)
  BY <1>1, CardInsertedDoes, AtmTakes DEF Shape
<1>3. BankMoves(0, 0, 0, 0)
  BY <1>1, CardInsertedDoes, KeepMoves, Zenon DEF Shape
<1>4. InterfaceMoves(0, 0)
  BY CardInsertedDoes, InterfaceGets, MsgTypes, Zenon
<1>5. /\ PinSum' = PinSum + (0 + 0 + 0)
      /\ MoneySum' = MoneySum + (0 + 0 + 0)
      /\ BalanceSum' = BalanceSum + (0 + 0)
      /\ CancelSum' = CancelSum + 0
      /\ PayoutSum' = PayoutSum + (0 + 0)
      /\ EjectSum' = EjectSum + 0
  BY <1>1, <1>2, <1>3, <1>4, SumsMove DEF Shape
<1> QED
  BY <1>1, <1>5, SumsNat, SumsNatNext DEF Shape

\* ClearLastPressed leaves the sums alone.
LEMMA ClearLastPressedSums ==
  ASSUME Shape, ClearLastPressed
  PROVE  UNCHANGED <<PinSum, MoneySum, BalanceSum, CancelSum, PayoutSum, EjectSum>>
<1>1. QueueShape'
  BY ClearLastPressedDoes, Zenon
<1>2. AtmMoves(0, 0, 0, 0, 0)
  BY <1>1, ClearLastPressedDoes, AtmTakes DEF Shape
<1>3. BankMoves(0, 0, 0, 0)
  BY <1>1, ClearLastPressedDoes, KeepMoves, Zenon DEF Shape
<1>4. InterfaceMoves(0, 0)
  BY <1>1, ClearLastPressedDoes, KeepMoves, Zenon DEF Shape
<1>5. /\ PinSum' = PinSum + (0 + 0 + 0)
      /\ MoneySum' = MoneySum + (0 + 0 + 0)
      /\ BalanceSum' = BalanceSum + (0 + 0)
      /\ CancelSum' = CancelSum + 0
      /\ PayoutSum' = PayoutSum + (0 + 0)
      /\ EjectSum' = EjectSum + 0
  BY <1>1, <1>2, <1>3, <1>4, SumsMove DEF Shape
<1> QED
  BY <1>1, <1>5, SumsNat, SumsNatNext DEF Shape

\* PinVerified uses up an answer.
LEMMA PinVerifiedSums ==
  ASSUME Shape, PinVerified
  PROVE  /\ UNCHANGED <<MoneySum, BalanceSum, CancelSum, PayoutSum, EjectSum>>
         /\ PinSum = PinSum' + 1
<1>1. QueueShape'
  BY PinVerifiedDoes, Zenon
<1>2. AtmMoves(-1, 0, 0, 0, 0)
  BY <1>1, PinVerifiedDoes, AtmTakes DEF Shape
<1>3. BankMoves(0, 0, 0, 0)
  BY <1>1, PinVerifiedDoes, KeepMoves, Zenon DEF Shape
<1>4. InterfaceMoves(0, 0)
  BY PinVerifiedDoes, InterfaceGets, MsgTypes, Zenon
<1>5. /\ PinSum' = PinSum + (0 + (-1) + 0)
      /\ MoneySum' = MoneySum + (0 + 0 + 0)
      /\ BalanceSum' = BalanceSum + (0 + 0)
      /\ CancelSum' = CancelSum + 0
      /\ PayoutSum' = PayoutSum + (0 + 0)
      /\ EjectSum' = EjectSum + 0
  BY <1>1, <1>2, <1>3, <1>4, SumsMove DEF Shape
<1> QED
  BY <1>1, <1>5, SumsNat, SumsNatNext DEF Shape

\* PinIncorrect uses up an answer.
LEMMA PinIncorrectSums ==
  ASSUME Shape, PinIncorrect
  PROVE  /\ UNCHANGED <<MoneySum, BalanceSum, CancelSum, PayoutSum, EjectSum>>
         /\ PinSum = PinSum' + 1
<1>1. QueueShape'
  BY PinIncorrectDoes, Zenon
<1>2. AtmMoves(0, -1, 0, 0, 0)
  BY <1>1, PinIncorrectDoes, AtmTakes DEF Shape
<1>3. BankMoves(0, 0, 0, 0)
  BY <1>1, PinIncorrectDoes, KeepMoves, Zenon DEF Shape
<1>4. InterfaceMoves(0, 0)
  BY PinIncorrectDoes, InterfaceGets, MsgTypes, Zenon
<1>5. /\ PinSum' = PinSum + (0 + 0 + (-1))
      /\ MoneySum' = MoneySum + (0 + 0 + 0)
      /\ BalanceSum' = BalanceSum + (0 + 0)
      /\ CancelSum' = CancelSum + 0
      /\ PayoutSum' = PayoutSum + (0 + 0)
      /\ EjectSum' = EjectSum + 0
  BY <1>1, <1>2, <1>3, <1>4, SumsMove DEF Shape
<1> QED
  BY <1>1, <1>5, SumsNat, SumsNatNext DEF Shape

\* WithdrawPressed asks for a withdrawal.
LEMMA WithdrawPressedSums ==
  ASSUME Shape, WithdrawPressed
  PROVE  /\ UNCHANGED <<PinSum, BalanceSum, CancelSum, PayoutSum, EjectSum>>
         /\ MoneySum' = MoneySum + 1
<1>1. QueueShape'
  BY WithdrawPressedDoes, Zenon
<1>2. AtmMoves(0, 0, 0, 0, 0)
  BY <1>1, WithdrawPressedDoes, AtmTakes DEF Shape
<1>3. BankMoves(0, 1, 0, 0)
  BY WithdrawPressedDoes, BankGets, MsgTypes, Zenon
<1>4. InterfaceMoves(0, 0)
  BY <1>1, WithdrawPressedDoes, KeepMoves, Zenon DEF Shape
<1>5. /\ PinSum' = PinSum + (0 + 0 + 0)
      /\ MoneySum' = MoneySum + (1 + 0 + 0)
      /\ BalanceSum' = BalanceSum + (0 + 0)
      /\ CancelSum' = CancelSum + 0
      /\ PayoutSum' = PayoutSum + (0 + 0)
      /\ EjectSum' = EjectSum + 0
  BY <1>1, <1>2, <1>3, <1>4, SumsMove DEF Shape
<1> QED
  BY <1>1, <1>5, SumsNat, SumsNatNext DEF Shape

\* BalancePressed asks about the balance.
LEMMA BalancePressedSums ==
  ASSUME Shape, BalancePressed
  PROVE  /\ UNCHANGED <<PinSum, MoneySum, CancelSum, PayoutSum, EjectSum>>
         /\ BalanceSum' = BalanceSum + 1
<1>1. QueueShape'
  BY BalancePressedDoes, Zenon
<1>2. AtmMoves(0, 0, 0, 0, 0)
  BY <1>1, BalancePressedDoes, AtmTakes DEF Shape
<1>3. BankMoves(0, 0, 1, 0)
  BY BalancePressedDoes, BankGets, MsgTypes, Zenon
<1>4. InterfaceMoves(0, 0)
  BY <1>1, BalancePressedDoes, KeepMoves, Zenon DEF Shape
<1>5. /\ PinSum' = PinSum + (0 + 0 + 0)
      /\ MoneySum' = MoneySum + (0 + 0 + 0)
      /\ BalanceSum' = BalanceSum + (1 + 0)
      /\ CancelSum' = CancelSum + 0
      /\ PayoutSum' = PayoutSum + (0 + 0)
      /\ EjectSum' = EjectSum + 0
  BY <1>1, <1>2, <1>3, <1>4, SumsMove DEF Shape
<1> QED
  BY <1>1, <1>5, SumsNat, SumsNatNext DEF Shape

\* WithdrawOk uses up an answer; the payout goes on.
LEMMA WithdrawOkSums ==
  ASSUME Shape, WithdrawOk
  PROVE  /\ UNCHANGED <<PinSum, BalanceSum, CancelSum, PayoutSum, EjectSum>>
         /\ MoneySum = MoneySum' + 1
<1>1. QueueShape'
  BY WithdrawOkDoes, Zenon
<1>2. AtmMoves(0, 0, -1, 0, 0)
  BY <1>1, WithdrawOkDoes, AtmTakes DEF Shape
<1>3. BankMoves(0, 0, 0, 0)
  BY <1>1, WithdrawOkDoes, KeepMoves, Zenon DEF Shape
<1>4. InterfaceMoves(1, 0)
  BY WithdrawOkDoes, InterfaceGets, MsgTypes, Zenon
<1>5. /\ PinSum' = PinSum + (0 + 0 + 0)
      /\ MoneySum' = MoneySum + (0 + (-1) + 0)
      /\ BalanceSum' = BalanceSum + (0 + 0)
      /\ CancelSum' = CancelSum + 0
      /\ PayoutSum' = PayoutSum + (1 + (-1))
      /\ EjectSum' = EjectSum + 0
  BY <1>1, <1>2, <1>3, <1>4, SumsMove DEF Shape
<1> QED
  BY <1>1, <1>5, SumsNat, SumsNatNext DEF Shape

\* WithdrawRefused uses up an answer.
LEMMA WithdrawRefusedSums ==
  ASSUME Shape, WithdrawRefused
  PROVE  /\ UNCHANGED <<PinSum, BalanceSum, CancelSum, PayoutSum, EjectSum>>
         /\ MoneySum = MoneySum' + 1
<1>1. QueueShape'
  BY WithdrawRefusedDoes, Zenon
<1>2. AtmMoves(0, 0, 0, -1, 0)
  BY <1>1, WithdrawRefusedDoes, AtmTakes DEF Shape
<1>3. BankMoves(0, 0, 0, 0)
  BY <1>1, WithdrawRefusedDoes, KeepMoves, Zenon DEF Shape
<1>4. InterfaceMoves(0, 0)
  BY WithdrawRefusedDoes, InterfaceGets, MsgTypes, Zenon
<1>5. /\ PinSum' = PinSum + (0 + 0 + 0)
      /\ MoneySum' = MoneySum + (0 + 0 + (-1))
      /\ BalanceSum' = BalanceSum + (0 + 0)
      /\ CancelSum' = CancelSum + 0
      /\ PayoutSum' = PayoutSum + (0 + 0)
      /\ EjectSum' = EjectSum + 0
  BY <1>1, <1>2, <1>3, <1>4, SumsMove DEF Shape
<1> QED
  BY <1>1, <1>5, SumsNat, SumsNatNext DEF Shape

\* ShowBalance uses up an answer.
LEMMA ShowBalanceSums ==
  ASSUME Shape, ShowBalance
  PROVE  /\ UNCHANGED <<PinSum, MoneySum, CancelSum, PayoutSum, EjectSum>>
         /\ BalanceSum = BalanceSum' + 1
<1>1. QueueShape'
  BY ShowBalanceDoes, Zenon
<1>2. AtmMoves(0, 0, 0, 0, -1)
  BY <1>1, ShowBalanceDoes, AtmTakes DEF Shape
<1>3. BankMoves(0, 0, 0, 0)
  BY <1>1, ShowBalanceDoes, KeepMoves, Zenon DEF Shape
<1>4. InterfaceMoves(0, 0)
  BY ShowBalanceDoes, InterfaceGets, MsgTypes, Zenon
<1>5. /\ PinSum' = PinSum + (0 + 0 + 0)
      /\ MoneySum' = MoneySum + (0 + 0 + 0)
      /\ BalanceSum' = BalanceSum + (0 + (-1))
      /\ CancelSum' = CancelSum + 0
      /\ PayoutSum' = PayoutSum + (0 + 0)
      /\ EjectSum' = EjectSum + 0
  BY <1>1, <1>2, <1>3, <1>4, SumsMove DEF Shape
<1> QED
  BY <1>1, <1>5, SumsNat, SumsNatNext DEF Shape

\* WithdrawGranted turns a question into its answer, which is a payout.
LEMMA WithdrawGrantedSums ==
  ASSUME Shape, WithdrawGranted
  PROVE  /\ UNCHANGED <<PinSum, MoneySum, BalanceSum, CancelSum, EjectSum>>
         /\ PayoutSum' = PayoutSum + 1
<1>1. QueueShape'
  BY WithdrawGrantedDoes, Zenon
<1>2. AtmMoves(0, 0, 1, 0, 0)
  BY WithdrawGrantedDoes, AtmGets, MsgTypes, Zenon
<1>3. BankMoves(0, -1, 0, 0)
  BY <1>1, WithdrawGrantedDoes, BankTakes DEF Shape
<1>4. InterfaceMoves(0, 0)
  BY <1>1, WithdrawGrantedDoes, KeepMoves, Zenon DEF Shape
<1>5. /\ PinSum' = PinSum + (0 + 0 + 0)
      /\ MoneySum' = MoneySum + ((-1) + 1 + 0)
      /\ BalanceSum' = BalanceSum + (0 + 0)
      /\ CancelSum' = CancelSum + 0
      /\ PayoutSum' = PayoutSum + (0 + 1)
      /\ EjectSum' = EjectSum + 0
  BY <1>1, <1>2, <1>3, <1>4, SumsMove DEF Shape
<1> QED
  BY <1>1, <1>5, SumsNat, SumsNatNext DEF Shape

\* WithdrawDenied turns a question into its answer.
LEMMA WithdrawDeniedSums ==
  ASSUME Shape, WithdrawDenied
  PROVE  UNCHANGED <<PinSum, MoneySum, BalanceSum, CancelSum, PayoutSum, EjectSum>>
<1>1. QueueShape'
  BY WithdrawDeniedDoes, Zenon
<1>2. AtmMoves(0, 0, 0, 1, 0)
  BY WithdrawDeniedDoes, AtmGets, MsgTypes, Zenon
<1>3. BankMoves(0, -1, 0, 0)
  BY <1>1, WithdrawDeniedDoes, BankTakes DEF Shape
<1>4. InterfaceMoves(0, 0)
  BY <1>1, WithdrawDeniedDoes, KeepMoves, Zenon DEF Shape
<1>5. /\ PinSum' = PinSum + (0 + 0 + 0)
      /\ MoneySum' = MoneySum + ((-1) + 0 + 1)
      /\ BalanceSum' = BalanceSum + (0 + 0)
      /\ CancelSum' = CancelSum + 0
      /\ PayoutSum' = PayoutSum + (0 + 0)
      /\ EjectSum' = EjectSum + 0
  BY <1>1, <1>2, <1>3, <1>4, SumsMove DEF Shape
<1> QED
  BY <1>1, <1>5, SumsNat, SumsNatNext DEF Shape

\* GetBalance turns a question into its answer.
LEMMA GetBalanceSums ==
  ASSUME Shape, GetBalance
  PROVE  UNCHANGED <<PinSum, MoneySum, BalanceSum, CancelSum, PayoutSum, EjectSum>>
<1>1. QueueShape'
  BY GetBalanceDoes, Zenon
<1>2. AtmMoves(0, 0, 0, 0, 1)
  BY GetBalanceDoes, AtmGets, MsgTypes, Zenon
<1>3. BankMoves(0, 0, -1, 0)
  BY <1>1, GetBalanceDoes, BankTakes DEF Shape
<1>4. InterfaceMoves(0, 0)
  BY <1>1, GetBalanceDoes, KeepMoves, Zenon DEF Shape
<1>5. /\ PinSum' = PinSum + (0 + 0 + 0)
      /\ MoneySum' = MoneySum + (0 + 0 + 0)
      /\ BalanceSum' = BalanceSum + ((-1) + 1)
      /\ CancelSum' = CancelSum + 0
      /\ PayoutSum' = PayoutSum + (0 + 0)
      /\ EjectSum' = EjectSum + 0
  BY <1>1, <1>2, <1>3, <1>4, SumsMove DEF Shape
<1> QED
  BY <1>1, <1>5, SumsNat, SumsNatNext DEF Shape

\* CancelWithdrawal uses up its message.
LEMMA CancelWithdrawalSums ==
  ASSUME Shape, CancelWithdrawal
  PROVE  /\ UNCHANGED <<PinSum, MoneySum, BalanceSum, PayoutSum, EjectSum>>
         /\ CancelSum = CancelSum' + 1
<1>1. QueueShape'
  BY CancelWithdrawalDoes, Zenon
<1>2. AtmMoves(0, 0, 0, 0, 0)
  BY <1>1, CancelWithdrawalDoes, KeepMoves, Zenon DEF Shape
<1>3. BankMoves(0, 0, 0, -1)
  BY <1>1, CancelWithdrawalDoes, BankTakes DEF Shape
<1>4. InterfaceMoves(0, 0)
  BY <1>1, CancelWithdrawalDoes, KeepMoves, Zenon DEF Shape
<1>5. /\ PinSum' = PinSum + (0 + 0 + 0)
      /\ MoneySum' = MoneySum + (0 + 0 + 0)
      /\ BalanceSum' = BalanceSum + (0 + 0)
      /\ CancelSum' = CancelSum + (-1)
      /\ PayoutSum' = PayoutSum + (0 + 0)
      /\ EjectSum' = EjectSum + 0
  BY <1>1, <1>2, <1>3, <1>4, SumsMove DEF Shape
<1> QED
  BY <1>1, <1>5, SumsNat, SumsNatNext DEF Shape

\* IssueMoney uses up a payout.
LEMMA IssueMoneySums ==
  ASSUME Shape, IssueMoney
  PROVE  /\ UNCHANGED <<PinSum, MoneySum, BalanceSum, CancelSum, EjectSum>>
         /\ PayoutSum = PayoutSum' + 1
<1>1. QueueShape'
  BY IssueMoneyDoes, Zenon
<1>2. AtmMoves(0, 0, 0, 0, 0)
  BY <1>1, IssueMoneyDoes, KeepMoves, Zenon DEF Shape
<1>3. BankMoves(0, 0, 0, 0)
  BY <1>1, IssueMoneyDoes, KeepMoves, Zenon DEF Shape
<1>4. InterfaceMoves(-1, 0)
  BY <1>1, IssueMoneyDoes, InterfaceTakes DEF Shape
<1>5. /\ PinSum' = PinSum + (0 + 0 + 0)
      /\ MoneySum' = MoneySum + (0 + 0 + 0)
      /\ BalanceSum' = BalanceSum + (0 + 0)
      /\ CancelSum' = CancelSum + 0
      /\ PayoutSum' = PayoutSum + ((-1) + 0)
      /\ EjectSum' = EjectSum + 0
  BY <1>1, <1>2, <1>3, <1>4, SumsMove DEF Shape
<1> QED
  BY <1>1, <1>5, SumsNat, SumsNatNext DEF Shape

\* EjectCard uses up its message.
LEMMA EjectCardSums ==
  ASSUME Shape, EjectCard
  PROVE  /\ UNCHANGED <<PinSum, MoneySum, BalanceSum, CancelSum, PayoutSum>>
         /\ EjectSum = EjectSum' + 1
<1>1. QueueShape'
  BY EjectCardDoes, Zenon
<1>2. AtmMoves(0, 0, 0, 0, 0)
  BY <1>1, EjectCardDoes, KeepMoves, Zenon DEF Shape
<1>3. BankMoves(0, 0, 0, 0)
  BY <1>1, EjectCardDoes, KeepMoves, Zenon DEF Shape
<1>4. InterfaceMoves(0, -1)
  BY <1>1, EjectCardDoes, InterfaceTakes DEF Shape
<1>5. /\ PinSum' = PinSum + (0 + 0 + 0)
      /\ MoneySum' = MoneySum + (0 + 0 + 0)
      /\ BalanceSum' = BalanceSum + (0 + 0)
      /\ CancelSum' = CancelSum + 0
      /\ PayoutSum' = PayoutSum + (0 + 0)
      /\ EjectSum' = EjectSum + (-1)
  BY <1>1, <1>2, <1>3, <1>4, SumsMove DEF Shape
<1> QED
  BY <1>1, <1>5, SumsNat, SumsNatNext DEF Shape

\* When no tally moves, no sum does.
LEMMA NothingMoves ==
  ASSUME QueueShape, QueueShape', AtmMoves(0, 0, 0, 0, 0), BankMoves(0, 0, 0, 0), InterfaceMoves(0, 0)
  PROVE  UNCHANGED <<PinSum, MoneySum, BalanceSum, CancelSum, PayoutSum, EjectSum>>
<1>1. /\ PinSum' = PinSum + (0 + 0 + 0)
      /\ MoneySum' = MoneySum + (0 + 0 + 0)
      /\ BalanceSum' = BalanceSum + (0 + 0)
      /\ CancelSum' = CancelSum + 0
      /\ PayoutSum' = PayoutSum + (0 + 0)
      /\ EjectSum' = EjectSum + 0
  BY SumsMove
<1> QED
  BY <1>1, SumsNat, SumsNatNext

\* A key is neither a question nor an answer.
LEMMA PressKeySums ==
  ASSUME Shape, NEW key \in Keys, PressKey(key)
  PROVE  UNCHANGED <<PinSum, MoneySum, BalanceSum, CancelSum, PayoutSum, EjectSum>>
<1>1. QueueShape' /\ Gets("atm", key) /\ Keeps("bank") /\ Keeps("interface")
  BY PressKeyDoes, Zenon
<1>2. key.type \notin {"pin_verified", "pin_incorrect", "withdraw_ok", "withdraw_denied", "balance"}
  BY KeyTypes
<1>3. AtmMoves(0, 0, 0, 0, 0)
  BY <1>1, <1>2, AtmGets, Zenon
<1>4. BankMoves(0, 0, 0, 0) /\ InterfaceMoves(0, 0)
  BY <1>1, KeepMoves, Zenon DEF Shape
<1> QED
  BY <1>1, <1>3, <1>4, NothingMoves, Zenon DEF Shape

\* CloseQueue is no question and no answer, when it comes ...
LEMMA QuitSums ==
  ASSUME Shape, Quit
  PROVE  UNCHANGED <<PinSum, MoneySum, BalanceSum, CancelSum, PayoutSum, EjectSum>>
<1>1. PICK m \in Machines : /\ QueueShape' /\ Gets(m, Msg("CloseQueue"))
                            /\ \A n \in Machines : n # m => Keeps(n)
  BY QuitDoes
<1>2. Msg("CloseQueue").type = "CloseQueue"
  BY MsgTypes
<1>3. AtmMoves(0, 0, 0, 0, 0)
  BY <1>1, <1>2, AtmGets, KeepMoves, MachinesAre DEF Shape
<1>4. BankMoves(0, 0, 0, 0)
  BY <1>1, <1>2, BankGets, KeepMoves, MachinesAre DEF Shape
<1>5. InterfaceMoves(0, 0)
  BY <1>1, <1>2, InterfaceGets, KeepMoves, MachinesAre DEF Shape
<1> QED
  BY <1>1, <1>3, <1>4, <1>5, NothingMoves, Zenon DEF Shape

\* ... and when it is taken.
LEMMA CloseQueueSums ==
  ASSUME Shape, NEW m \in Machines, CloseQueue(m)
  PROVE  UNCHANGED <<PinSum, MoneySum, BalanceSum, CancelSum, PayoutSum, EjectSum>>
<1>1. QueueShape' /\ Takes(m, "CloseQueue") /\ \A n \in Machines : n # m => Keeps(n)
  BY CloseQueueDoes
<1>3. AtmMoves(0, 0, 0, 0, 0)
  BY <1>1, AtmTakes, KeepMoves, MachinesAre DEF Shape
<1>4. BankMoves(0, 0, 0, 0)
  BY <1>1, BankTakes, KeepMoves, MachinesAre DEF Shape
<1>5. InterfaceMoves(0, 0)
  BY <1>1, InterfaceTakes, KeepMoves, MachinesAre DEF Shape
<1> QED
  BY <1>1, <1>3, <1>4, <1>5, NothingMoves, Zenon DEF Shape

\* Display leaves the sums alone.
LEMMA DisplaySums ==
  ASSUME Shape, Display
  PROVE  UNCHANGED <<PinSum, MoneySum, BalanceSum, CancelSum, PayoutSum, EjectSum>>
<1>1. PICK type \in Displays : QueueShape' /\ Keeps("atm") /\ Keeps("bank") /\ Takes("interface", type)
  BY DisplayDoes
<1>2. type \notin {"issue_money", "eject_card"}
  BY DEF Displays
<1>3. AtmMoves(0, 0, 0, 0, 0) /\ BankMoves(0, 0, 0, 0)
  BY <1>1, KeepMoves, Zenon DEF Shape
<1>4. InterfaceMoves(0, 0)
  BY <1>1, <1>2, InterfaceTakes, Zenon DEF Shape
<1> QED
  BY <1>1, <1>3, <1>4, NothingMoves, Zenon DEF Shape

\* EnterState ejects the card of a user who is done.
LEMMA EnterStateSums ==
  ASSUME Shape, EnterState
  PROVE  /\ UNCHANGED <<PinSum, MoneySum, BalanceSum, CancelSum, PayoutSum>>
         /\ \/ /\ state_ \in {"waitForCard", "waitForAction"} /\ state_' = state_
               /\ EjectSum' = EjectSum
            \/ /\ state_ = "doneProcessing" /\ state_' = "waitForCard"
               /\ EjectSum' = EjectSum + 1
<1>1. QueueShape' /\ Keeps("atm") /\ Keeps("bank")
  BY EnterStateDoes, Zenon
<1>2. AtmMoves(0, 0, 0, 0, 0) /\ BankMoves(0, 0, 0, 0)
  BY <1>1, KeepMoves, Zenon DEF Shape
<1>3. CASE /\ state_ \in {"waitForCard", "waitForAction"} /\ state_' = state_
           /\ \E type \in Displays : Gets("interface", Msg(type))
  <2>1. PICK type \in Displays : Gets("interface", Msg(type))
    BY <1>3
  <2>2. Msg(type).type = type /\ type \notin {"issue_money", "eject_card"}
    BY MsgTypes DEF Displays
  <2>3. InterfaceMoves(0, 0)
    BY <2>1, <2>2, InterfaceGets, Zenon
  <2> QED
    BY <1>1, <1>2, <1>3, <2>3, NothingMoves, Zenon DEF Shape
<1>4. CASE /\ state_ = "doneProcessing" /\ state_' = "waitForCard"
           /\ Gets("interface", Msg("eject_card"))
  <2>1. InterfaceMoves(0, 1)
    BY <1>4, InterfaceGets, MsgTypes, Zenon
  <2>2. /\ PinSum' = PinSum + (0 + 0 + 0)
        /\ MoneySum' = MoneySum + (0 + 0 + 0)
        /\ BalanceSum' = BalanceSum + (0 + 0)
        /\ CancelSum' = CancelSum + 0
        /\ PayoutSum' = PayoutSum + (0 + 0)
        /\ EjectSum' = EjectSum + 1
    BY <1>1, <1>2, <2>1, SumsMove DEF Shape
  <2> QED
    BY <1>1, <1>4, <2>2, SumsNat, SumsNatNext DEF Shape
<1> QED
  BY <1>3, <1>4, EnterStateDoes, Zenon

\* DigitPressed asks about the PIN when it goes to verifyingPin.
LEMMA DigitPressedSums ==
  ASSUME Shape, DigitPressed
  PROVE  /\ UNCHANGED <<MoneySum, BalanceSum, CancelSum, PayoutSum, EjectSum>>
         /\ state_ = "gettingPin"
         /\ \/ /\ state_' = "verifyingPin" /\ PinSum' = PinSum + 1
               /\ Gets("bank", verify_pin(pin_')) /\ Takes("atm", "digit_pressed")
            \/ state_' = state_ /\ PinSum' = PinSum
<1>1. QueueShape' /\ Takes("atm", "digit_pressed") /\ Keeps("interface")
  BY DigitPressedDoes, Zenon
<1>2. AtmMoves(0, 0, 0, 0, 0)
  BY <1>1, AtmTakes DEF Shape
<1>3. InterfaceMoves(0, 0)
  BY <1>1, KeepMoves, Zenon DEF Shape
<1>4. state_ = "gettingPin"
  BY DEF DigitPressed, InState
<1>5. CASE state_' = state_ /\ Keeps("bank")
  <2>1. BankMoves(0, 0, 0, 0)
    BY <1>1, <1>5, KeepMoves, Zenon DEF Shape
  <2> QED
    BY <1>1, <1>2, <1>3, <1>4, <1>5, <2>1, NothingMoves, Zenon DEF Shape
<1>6. CASE state_' = "verifyingPin" /\ Gets("bank", verify_pin(pin_'))
  <2>1. BankMoves(1, 0, 0, 0)
    BY <1>6, BankGets, MsgTypes, Zenon
  <2>2. /\ PinSum' = PinSum + (1 + 0 + 0)
        /\ MoneySum' = MoneySum + (0 + 0 + 0)
        /\ BalanceSum' = BalanceSum + (0 + 0)
        /\ CancelSum' = CancelSum + 0
        /\ PayoutSum' = PayoutSum + (0 + 0)
        /\ EjectSum' = EjectSum + 0
    BY <1>1, <1>2, <1>3, <2>1, SumsMove DEF Shape
  <2>3. /\ UNCHANGED <<MoneySum, BalanceSum, CancelSum, PayoutSum, EjectSum>>
        /\ PinSum' = PinSum + 1
    BY <1>1, <2>2, SumsNat, SumsNatNext DEF Shape
  <2> QED
    BY <1>1, <1>4, <1>6, <2>3, Zenon
<1> QED
  BY <1>5, <1>6, DigitPressedDoes, Zenon

\* CancelPressed cancels a withdrawal only.
LEMMA CancelPressedSums ==
  ASSUME Shape, CancelPressed
  PROVE  /\ UNCHANGED <<PinSum, MoneySum, BalanceSum, PayoutSum, EjectSum>>
         /\ state_ # "processingWithdrawal" => CancelSum' = CancelSum
<1>1. QueueShape' /\ Takes("atm", "cancel_pressed")
  BY CancelPressedDoes, Zenon
<1>2. AtmMoves(0, 0, 0, 0, 0)
  BY <1>1, AtmTakes DEF Shape
<1>3. CASE state_ # "processingWithdrawal" /\ Keeps("bank") /\ Keeps("interface")
  <2>1. BankMoves(0, 0, 0, 0) /\ InterfaceMoves(0, 0)
    BY <1>1, <1>3, KeepMoves, Zenon DEF Shape
  <2> QED
    BY <1>1, <1>2, <2>1, NothingMoves, Zenon DEF Shape
<1>4. CASE /\ state_ = "processingWithdrawal" /\ Gets("bank", cancel_withdrawal(Amount))
           /\ Gets("interface", Msg("display_withdrawal_cancelled"))
  <2>1. BankMoves(0, 0, 0, 1)
    BY <1>4, BankGets, MsgTypes, Zenon
  <2>2. InterfaceMoves(0, 0)
    BY <1>4, InterfaceGets, MsgTypes, Zenon
  <2>3. /\ PinSum' = PinSum + (0 + 0 + 0)
        /\ MoneySum' = MoneySum + (0 + 0 + 0)
        /\ BalanceSum' = BalanceSum + (0 + 0)
        /\ CancelSum' = CancelSum + 1
        /\ PayoutSum' = PayoutSum + (0 + 0)
        /\ EjectSum' = EjectSum + 0
    BY <1>1, <1>2, <2>1, <2>2, SumsMove DEF Shape
  <2> QED
    BY <1>1, <1>4, <2>3, SumsNat, SumsNatNext DEF Shape
<1> QED
  BY <1>3, <1>4, CancelPressedDoes, Zenon

\* VerifyPin turns a question into its answer.
LEMMA VerifyPinSums ==
  ASSUME Shape, VerifyPin
  PROVE  UNCHANGED <<PinSum, MoneySum, BalanceSum, CancelSum, PayoutSum, EjectSum>>
<1>1. QueueShape' /\ Takes("bank", "verify_pin") /\ Keeps("interface")
  BY VerifyPinDoes, Zenon
<1>2. BankMoves(-1, 0, 0, 0)
  BY <1>1, BankTakes DEF Shape
<1>3. InterfaceMoves(0, 0)
  BY <1>1, KeepMoves, Zenon DEF Shape
<1>4. AtmMoves(1, 0, 0, 0, 0) \/ AtmMoves(0, 1, 0, 0, 0)
  BY VerifyPinDoes, AtmGets, MsgTypes, Zenon
<1>5. /\ PinSum' = PinSum + (-1 + 1 + 0) \/ PinSum' = PinSum + (-1 + 0 + 1)
      /\ MoneySum' = MoneySum + (0 + 0 + 0)
      /\ BalanceSum' = BalanceSum + (0 + 0)
      /\ CancelSum' = CancelSum + 0
      /\ PayoutSum' = PayoutSum + (0 + 0)
      /\ EjectSum' = EjectSum + 0
  BY <1>1, <1>2, <1>3, <1>4, SumsMove DEF Shape
<1> QED
  BY <1>1, <1>5, SumsNat, SumsNatNext DEF Shape

\* What AtmDrops throws away is an answer to no question of the state that it is in.
LEMMA AtmDropsSums ==
  ASSUME Shape, AtmDrops
  PROVE  /\ UNCHANGED <<CancelSum, EjectSum>>
         /\ PinSum' <= PinSum /\ MoneySum' <= MoneySum /\ BalanceSum' <= BalanceSum
         /\ PayoutSum' <= PayoutSum
         /\ state_ = "verifyingPin" => PinSum' = PinSum
         /\ state_ = "processingWithdrawal" => MoneySum' = MoneySum /\ PayoutSum' = PayoutSum
         /\ state_ = "processBalance" => BalanceSum' = BalanceSum
         /\ MoneySum = 0 => PayoutSum' = PayoutSum
<1>1. PICK type : /\ QueueShape' /\ Takes("atm", type) /\ Keeps("bank") /\ Keeps("interface")
                  /\ type \notin AtmHandled(state_)
  BY AtmDropsDoes
<1>2. BankMoves(0, 0, 0, 0) /\ InterfaceMoves(0, 0)
  BY <1>1, KeepMoves, Zenon DEF Shape
<1>3. /\ state_ = "verifyingPin" => type \notin {"pin_verified", "pin_incorrect"}
      /\ state_ = "processingWithdrawal" => type \notin {"withdraw_ok", "withdraw_denied"}
      /\ state_ = "processBalance" => type # "balance"
  BY <1>1 DEF AtmHandled
<1>4. /\ PinSum \in Nat /\ MoneySum \in Nat /\ BalanceSum \in Nat
      /\ CancelSum \in Nat /\ PayoutSum \in Nat /\ EjectSum \in Nat
      /\ PinSum' \in Nat /\ MoneySum' \in Nat /\ BalanceSum' \in Nat
      /\ CancelSum' \in Nat /\ PayoutSum' \in Nat /\ EjectSum' \in Nat
  BY <1>1, SumsNat, SumsNatNext DEF Shape
<1>5. CASE type \notin {"pin_verified", "pin_incorrect", "withdraw_ok", "withdraw_denied", "balance"}
  <2>1. AtmMoves(0, 0, 0, 0, 0)
    BY <1>1, <1>5, AtmTakes, Zenon DEF Shape
  <2>2. UNCHANGED <<PinSum, MoneySum, BalanceSum, CancelSum, PayoutSum, EjectSum>>
    BY <1>1, <1>2, <2>1, NothingMoves, Zenon DEF Shape
  <2> QED
    BY <1>4, <2>2
<1>6. CASE type \in {"pin_verified", "pin_incorrect"}
  <2>1. AtmMoves(-1, 0, 0, 0, 0) \/ AtmMoves(0, -1, 0, 0, 0)
    BY <1>1, <1>6, AtmTakes, Zenon DEF Shape
  <2>2. /\ PinSum' = PinSum + (0 + (-1) + 0) \/ PinSum' = PinSum + (0 + 0 + (-1))
        /\ MoneySum' = MoneySum + (0 + 0 + 0)
        /\ BalanceSum' = BalanceSum + (0 + 0)
        /\ CancelSum' = CancelSum + 0
        /\ PayoutSum' = PayoutSum + (0 + 0)
        /\ EjectSum' = EjectSum + 0
    BY <1>1, <1>2, <2>1, SumsMove DEF Shape
  <2> QED
    BY <1>3, <1>4, <1>6, <2>2
<1>7. CASE type = "withdraw_ok"
  <2>1. AtmMoves(0, 0, -1, 0, 0)
    BY <1>1, <1>7, AtmTakes, Zenon DEF Shape
  <2>2. /\ PinSum' = PinSum + (0 + 0 + 0)
        /\ MoneySum' = MoneySum + (0 + (-1) + 0)
        /\ BalanceSum' = BalanceSum + (0 + 0)
        /\ CancelSum' = CancelSum + 0
        /\ PayoutSum' = PayoutSum + (0 + (-1))
        /\ EjectSum' = EjectSum + 0
    BY <1>1, <1>2, <2>1, SumsMove DEF Shape
  <2> QED
    BY <1>3, <1>4, <1>7, <2>2
<1>8. CASE type = "withdraw_denied"
  <2>1. AtmMoves(0, 0, 0, -1, 0)
    BY <1>1, <1>8, AtmTakes, Zenon DEF Shape
  <2>2. /\ PinSum' = PinSum + (0 + 0 + 0)
        /\ MoneySum' = MoneySum + (0 + 0 + (-1))
        /\ BalanceSum' = BalanceSum + (0 + 0)
        /\ CancelSum' = CancelSum + 0
        /\ PayoutSum' = PayoutSum + (0 + 0)
        /\ EjectSum' = EjectSum + 0
    BY <1>1, <1>2, <2>1, SumsMove DEF Shape
  <2> QED
    BY <1>3, <1>4, <1>8, <2>2
<1>9. CASE type = "balance"
  <2>1. AtmMoves(0, 0, 0, 0, -1)
    BY <1>1, <1>9, AtmTakes, Zenon DEF Shape
  <2>2. /\ PinSum' = PinSum + (0 + 0 + 0)
        /\ MoneySum' = MoneySum + (0 + 0 + 0)
        /\ BalanceSum' = BalanceSum + (0 + (-1))
        /\ CancelSum' = CancelSum + 0
        /\ PayoutSum' = PayoutSum + (0 + 0)
        /\ EjectSum' = EjectSum + 0
    BY <1>1, <1>2, <2>1, SumsMove DEF Shape
  <2> QED
    BY <1>3, <1>4, <1>9, <2>2
<1> QED
  BY <1>5, <1>6, <1>7, <1>8, <1>9, Zenon

-----------------------------------------------------------------------------
(* Cards, payouts and questions *)

\* The places that an ATM action leaves and enters.
LEMMA StateSteps ==
  /\ CardInserted => /\ state_ = "waitForCard" /\ state_' = "gettingPin" /\ inserted' = inserted + 1
                     /\ cancelledInFlight' = cancelledInFlight
  /\ ClearLastPressed => UNCHANGED <<state_, inserted, cancelledInFlight>>
  /\ PinVerified => /\ state_ = "verifyingPin" /\ state_' = "waitForAction"
                    /\ UNCHANGED <<inserted, cancelledInFlight>>
  /\ PinIncorrect => /\ state_ = "verifyingPin" /\ state_' = "gettingPin"
                     /\ UNCHANGED <<inserted, cancelledInFlight>>
  /\ WithdrawPressed => /\ state_ = "waitForAction" /\ state_' = "processingWithdrawal"
                        /\ UNCHANGED <<inserted, cancelledInFlight>>
  /\ BalancePressed => /\ state_ = "waitForAction" /\ state_' = "processBalance"
                       /\ UNCHANGED <<inserted, cancelledInFlight>>
  /\ WithdrawOk => /\ state_ = "processingWithdrawal" /\ state_' = "doneProcessing"
                   /\ UNCHANGED <<inserted, cancelledInFlight>>
  /\ WithdrawRefused => /\ state_ = "processingWithdrawal" /\ state_' = "doneProcessing"
                        /\ UNCHANGED <<inserted, cancelledInFlight>>
  /\ ShowBalance => /\ state_ = "processBalance" /\ state_' = "waitForAction"
                    /\ UNCHANGED <<inserted, cancelledInFlight>>
  /\ CancelPressed => /\ state_ # "waitForCard" /\ state_ # "doneProcessing"
                      /\ state_' = "doneProcessing" /\ inserted' = inserted
                      /\ cancelledInFlight' = (cancelledInFlight \/ state_ \in Awaiting)
  /\ AtmDrops => UNCHANGED <<state_, inserted, cancelledInFlight>>
  /\ EnterState => UNCHANGED <<inserted, cancelledInFlight>>
  /\ DigitPressed => UNCHANGED <<inserted, cancelledInFlight>>
<1>1. CancelPressed => /\ state_ # "waitForCard" /\ state_ # "doneProcessing"
                       /\ state_' = "doneProcessing" /\ inserted' = inserted
                       /\ cancelledInFlight' = (cancelledInFlight \/ state_ \in Awaiting)
  BY Zenon DEF CancelPressed, InState, Becomes
<1> QED
  BY <1>1, Zenon DEF CardInserted, ClearLastPressed, PinVerified, PinIncorrect, WithdrawPressed,
     BalancePressed, WithdrawOk, WithdrawRefused, ShowBalance, AtmDrops, EnterState,
     DigitPressed, InState, Becomes, atmVars

\* Every card that was taken is ejected once or is in the machine, after a step too.
LEMMA CardsStep ==
  ASSUME Shape, Next, CardsReturned
  PROVE  CardsReturned'
<1>0. /\ inserted \in Nat /\ ejected \in Nat /\ EjectSum \in Nat
  BY SumsNat, Zenon DEF Shape, NumberShape
<1>1. inserted = ejected + EjectSum + One(state_ # "waitForCard")
  BY Zenon DEF CardsReturned, Count, EjectSum, Tally, Places, One
<1>2. SUFFICES inserted' = ejected' + EjectSum' + One(state_' # "waitForCard")
  BY Zenon DEF CardsReturned, Count, EjectSum, Tally, Places, One
<1>3. CASE /\ UNCHANGED <<inserted, ejected, EjectSum>>
           /\ state_ = "waitForCard" <=> state_' = "waitForCard"
  BY <1>1, <1>3, Zenon DEF One
<1>4. ASSUME NEW key \in Keys, PressKey(key)
      PROVE  inserted' = ejected' + EjectSum' + One(state_' # "waitForCard")
  <2>1. UNCHANGED <<inserted, ejected, state_>>
    BY <1>4 DEF PressKey, interfaceVars, atmVars
  <2> QED
    BY <1>3, <1>4, <2>1, PressKeySums, Zenon
<1>5. CASE Quit
  <2>1. UNCHANGED <<inserted, ejected, state_>>
    BY <1>5 DEF Quit, interfaceVars, atmVars
  <2> QED
    BY <1>3, <1>5, <2>1, QuitSums, Zenon
<1>6. CASE AtmThread
  <2>0. ejected' = ejected
    BY <1>6 DEF AtmThread, interfaceVars
  <2>1. CASE EnterState
    <3>1. inserted' = inserted
      BY <2>1, StateSteps, Zenon
    <3>2. CASE /\ state_ \in {"waitForCard", "waitForAction"} /\ state_' = state_
               /\ EjectSum' = EjectSum
      BY <1>3, <2>0, <3>1, <3>2, Zenon
    <3>3. CASE /\ state_ = "doneProcessing" /\ state_' = "waitForCard"
               /\ EjectSum' = EjectSum + 1
      BY <1>0, <1>1, <2>0, <3>1, <3>3 DEF One
    <3> QED
      BY <2>1, <3>2, <3>3, EnterStateSums, Zenon
  <2>2. CASE CardInserted
    <3>1. EjectSum' = EjectSum
      BY <2>2, CardInsertedSums, Zenon
    <3>2. state_ = "waitForCard" /\ state_' = "gettingPin" /\ inserted' = inserted + 1
      BY <2>2, StateSteps, Zenon
    <3> QED
      BY <1>0, <1>1, <2>0, <3>1, <3>2 DEF One
  <2>3. CASE DigitPressed
    BY <1>3, <2>0, <2>3, DigitPressedSums, StateSteps, Zenon
  <2>4. CASE ClearLastPressed
    BY <1>3, <2>0, <2>4, ClearLastPressedSums, StateSteps, Zenon
  <2>5. CASE PinVerified
    BY <1>3, <2>0, <2>5, PinVerifiedSums, StateSteps, Zenon
  <2>6. CASE PinIncorrect
    BY <1>3, <2>0, <2>6, PinIncorrectSums, StateSteps, Zenon
  <2>7. CASE WithdrawPressed
    BY <1>3, <2>0, <2>7, WithdrawPressedSums, StateSteps, Zenon
  <2>8. CASE BalancePressed
    BY <1>3, <2>0, <2>8, BalancePressedSums, StateSteps, Zenon
  <2>9. CASE WithdrawOk
    BY <1>3, <2>0, <2>9, WithdrawOkSums, StateSteps, Zenon
  <2>10. CASE WithdrawRefused
    BY <1>3, <2>0, <2>10, WithdrawRefusedSums, StateSteps, Zenon
  <2>11. CASE ShowBalance
    BY <1>3, <2>0, <2>11, ShowBalanceSums, StateSteps, Zenon
  <2>12. CASE CancelPressed
    BY <1>3, <2>0, <2>12, CancelPressedSums, StateSteps, Zenon
  <2>13. CASE AtmDrops
    BY <1>3, <2>0, <2>13, AtmDropsSums, StateSteps, Zenon
  <2>14. CASE prompted /\ CloseQueue("atm") /\ UNCHANGED atmVars
    BY <1>3, <2>0, <2>14, CloseQueueSums, MachinesAre, Zenon DEF atmVars
  <2> QED
    BY <1>6, <2>1, <2>2, <2>3, <2>4, <2>5, <2>6, <2>7, <2>8, <2>9, <2>10, <2>11, <2>12, <2>13, <2>14,
       Zenon DEF AtmThread, AtmRun
<1>7. CASE BankThread
  <2>1. UNCHANGED <<inserted, ejected, state_>>
    BY <1>7 DEF BankThread, interfaceVars, atmVars
  <2>2. EjectSum' = EjectSum
    BY <1>7, VerifyPinSums, WithdrawGrantedSums, WithdrawDeniedSums, GetBalanceSums,
       CancelWithdrawalSums, CloseQueueSums, MachinesAre, Zenon DEF BankThread, BankRun
  <2> QED
    BY <1>3, <2>1, <2>2, Zenon
<1>8. CASE InterfaceThread
  <2>1. UNCHANGED <<inserted, state_>>
    BY <1>8 DEF InterfaceThread, atmVars
  <2>2. CASE EjectCard
    <3>1. EjectSum = EjectSum' + 1 /\ ejected' = ejected + 1 /\ EjectSum' \in Nat
      BY <2>2, EjectCardSums, EjectCardDoes, SumsNatNext, Zenon DEF EjectCard
    <3> QED
      BY <1>0, <1>1, <2>1, <3>1 DEF One
  <2>3. CASE IssueMoney
    BY <1>3, <2>1, <2>3, IssueMoneySums, Zenon DEF IssueMoney
  <2>4. CASE Display
    BY <1>3, <2>1, <2>4, DisplaySums, Zenon DEF Display, interfaceVars
  <2>5. CASE CloseQueue("interface") /\ UNCHANGED interfaceVars
    BY <1>3, <2>1, <2>5, CloseQueueSums, MachinesAre, Zenon DEF interfaceVars
  <2> QED
    BY <1>8, <2>2, <2>3, <2>4, <2>5, Zenon DEF InterfaceThread, InterfaceRun
<1> QED
  BY <1>4, <1>5, <1>6, <1>7, <1>8, Zenon DEF Next

\* How money moves: the bank grants, the interface hands out, a cancel is credited, and an
\* answer is thrown away.
LEMMA MoneyMoves ==
  ASSUME Shape, Next
  PROVE  \/ UNCHANGED <<balance_, issued, debited, PayoutSum>>
         \/ AtmDrops /\ UNCHANGED <<balance_, issued, debited>>
         \/ /\ balance_ >= Amount /\ balance_' = balance_ - Amount /\ debited' = debited + Amount
            /\ PayoutSum' = PayoutSum + 1 /\ issued' = issued
         \/ /\ CancelSum = CancelSum' + 1 /\ balance_' = balance_ + Amount
            /\ UNCHANGED <<issued, debited, PayoutSum>>
         \/ /\ issued' = issued + Amount /\ PayoutSum = PayoutSum' + 1
            /\ UNCHANGED <<balance_, debited>>
<1>1. ASSUME NEW key \in Keys, PressKey(key) PROVE UNCHANGED <<balance_, issued, debited, PayoutSum>>
  BY <1>1, PressKeySums, Zenon DEF PressKey, bankVars, interfaceVars
<1>2. CASE Quit
  BY <1>2, QuitSums, Zenon DEF Quit, bankVars, interfaceVars
<1>3. CASE AtmThread
  <2>1. UNCHANGED <<balance_, issued, debited>>
    BY <1>3, Zenon DEF AtmThread, bankVars, interfaceVars
  <2>2. AtmDrops \/ PayoutSum' = PayoutSum
    BY <1>3, EnterStateSums, CardInsertedSums, DigitPressedSums, ClearLastPressedSums,
       PinVerifiedSums, PinIncorrectSums, WithdrawPressedSums, BalancePressedSums, WithdrawOkSums,
       WithdrawRefusedSums, ShowBalanceSums, CancelPressedSums, CloseQueueSums, MachinesAre,
       Zenon DEF AtmThread, AtmRun
  <2> QED
    BY <2>1, <2>2, Zenon
<1>4. CASE BankThread
  <2>1. issued' = issued
    BY <1>4 DEF BankThread, interfaceVars
  <2>2. CASE WithdrawGranted
    <3>1. First("bank").amount = Amount
      BY <2>2, FirstIn, InboxIs, MachinesAre, Zenon DEF WithdrawGranted, Handles, Shape
    <3>2. PayoutSum' = PayoutSum + 1
      BY <2>2, WithdrawGrantedSums, Zenon
    <3> QED
      BY <2>1, <2>2, <3>1, <3>2, Zenon DEF WithdrawGranted
  <2>3. CASE CancelWithdrawal
    <3>1. First("bank").amount = Amount
      BY <2>3, FirstIn, InboxIs, MachinesAre, Zenon DEF CancelWithdrawal, Handles, Shape
    <3>2. CancelSum = CancelSum' + 1 /\ PayoutSum' = PayoutSum
      BY <2>3, CancelWithdrawalSums, Zenon
    <3> QED
      BY <2>1, <2>3, <3>1, <3>2, Zenon DEF CancelWithdrawal
  <2>4. CASE VerifyPin
    BY <2>1, <2>4, VerifyPinSums, Zenon DEF VerifyPin, bankVars
  <2>5. CASE WithdrawDenied
    BY <2>1, <2>5, WithdrawDeniedSums, Zenon DEF WithdrawDenied, bankVars
  <2>6. CASE GetBalance
    BY <2>1, <2>6, GetBalanceSums, Zenon DEF GetBalance, bankVars
  <2>7. CASE CloseQueue("bank") /\ UNCHANGED bankVars
    BY <2>1, <2>7, CloseQueueSums, MachinesAre, Zenon DEF bankVars
  <2> QED
    BY <1>4, <2>2, <2>3, <2>4, <2>5, <2>6, <2>7, Zenon DEF BankThread, BankRun
<1>5. CASE InterfaceThread
  <2>1. UNCHANGED <<balance_, debited>>
    BY <1>5 DEF InterfaceThread, bankVars
  <2>2. CASE IssueMoney
    <3>1. First("interface").amount = Amount
      BY <2>2, FirstIn, InboxIs, MachinesAre, Zenon DEF IssueMoney, Handles, Shape
    <3>2. PayoutSum = PayoutSum' + 1
      BY <2>2, IssueMoneySums, Zenon
    <3> QED
      BY <2>1, <2>2, <3>1, <3>2, Zenon DEF IssueMoney
  <2>3. CASE EjectCard
    BY <2>1, <2>3, EjectCardSums, Zenon DEF EjectCard
  <2>4. CASE Display
    BY <2>1, <2>4, DisplaySums, Zenon DEF Display, interfaceVars
  <2>5. CASE CloseQueue("interface") /\ UNCHANGED interfaceVars
    BY <2>1, <2>5, CloseQueueSums, MachinesAre, Zenon DEF interfaceVars
  <2> QED
    BY <1>5, <2>2, <2>3, <2>4, <2>5, Zenon DEF InterfaceThread, InterfaceRun
<1> QED
  BY <1>1, <1>2, <1>3, <1>4, <1>5, Zenon DEF Next

\* The money that PayoutSum stands for.
Owed == Amount * PayoutSum

\* PayoutsUnderWay is that money.
LEMMA OwedIs ==
  PayoutsUnderWay = Owed
BY Zenon DEF PayoutsUnderWay, Owed, PayoutSum, Count, Tally, Places

\* The same in the next state.
LEMMA OwedIsNext ==
  PayoutsUnderWay' = Owed'
BY Zenon DEF PayoutsUnderWay, Owed, PayoutSum, Count, Tally, Places

\* A payout more or less.
LEMMA OneMore ==
  ASSUME NEW a \in Nat, NEW n \in Nat, NEW k \in Nat
  PROVE  /\ a * n \in Nat
         /\ a * (n + 1) = a * n + a
         /\ k <= n => a * k <= a * n
<1>1. a * n \in Nat /\ a * (n + 1) = a * n + a /\ a * k \in Nat
  OBVIOUS
<1>2. ASSUME k <= n PROVE a * k <= a * n
  <2>1. PICK d \in Nat : n = k + d
    <3>1. n - k \in Nat /\ n = k + (n - k)
      BY <1>2
    <3> QED
      BY <3>1
  <2>2. a * n = a * k + a * d /\ a * d \in Nat
    BY <2>1
  <2> QED
    BY <1>1, <2>2
<1> QED
  BY <1>1, <1>2

\* Owed is a number and moves with PayoutSum.
LEMMA OwedMoves ==
  ASSUME QueueShape, QueueShape'
  PROVE  /\ Owed \in Nat /\ Owed' \in Nat
         /\ PayoutSum' = PayoutSum => Owed' = Owed
         /\ PayoutSum' <= PayoutSum => Owed' <= Owed
         /\ PayoutSum' = PayoutSum + 1 => Owed' = Owed + Amount
         /\ PayoutSum = PayoutSum' + 1 => Owed = Owed' + Amount
<1>1. Amount \in Nat /\ PayoutSum \in Nat /\ PayoutSum' \in Nat
  BY SumsNat, SumsNatNext, BalanceAssumption, Zenon
<1>2. Owed = Amount * PayoutSum /\ Owed' = Amount * PayoutSum'
  BY Zenon DEF Owed
<1>3. Owed \in Nat /\ Owed' \in Nat
  BY <1>1, <1>2, OneMore, Zenon
<1>4. PayoutSum' = PayoutSum => Owed' = Owed
  BY <1>2, Zenon
<1>5. PayoutSum' <= PayoutSum => Owed' <= Owed
  BY <1>1, <1>2, OneMore, Zenon
<1>6. PayoutSum' = PayoutSum + 1 => Owed' = Owed + Amount
  BY <1>1, <1>2, OneMore, Zenon
<1>7. PayoutSum = PayoutSum' + 1 => Owed = Owed' + Amount
  BY <1>1, <1>2, OneMore, Zenon
<1> QED
  BY <1>3, <1>4, <1>5, <1>6, <1>7, Zenon

\* Handing out a payout that is owed, or forgetting one, stays within what was debited.
LEMMA WithinDebit ==
  ASSUME NEW i \in Nat, NEW o \in Nat, NEW d \in Nat, NEW a \in Nat, NEW o2 \in Nat, i + o <= d
  PROVE  /\ o2 <= o => i + o2 <= d
         /\ o = o2 + a => (i + a) + o2 <= d
OBVIOUS

\* Nothing is paid out that the bank has not debited, after a step too.
LEMMA PayoutsStep ==
  ASSUME Shape, Next, PayoutsDebited
  PROVE  PayoutsDebited'
<1>1. issued + Owed <= debited
  BY OwedIs, Zenon DEF PayoutsDebited
<1>2. SUFFICES issued' + Owed' <= debited'
  BY OwedIsNext, Zenon DEF PayoutsDebited
<1>0. /\ issued \in Nat /\ debited \in Nat /\ Amount \in Nat
      /\ Owed \in Nat /\ Owed' \in Nat
  BY ControlStep, OwedMoves, BalanceAssumption, Zenon DEF Shape, NumberShape
<1>3. /\ PayoutSum' = PayoutSum => Owed' = Owed
      /\ PayoutSum' <= PayoutSum => Owed' <= Owed
      /\ PayoutSum' = PayoutSum + 1 => Owed' = Owed + Amount
      /\ PayoutSum = PayoutSum' + 1 => Owed = Owed' + Amount
  BY ControlStep, OwedMoves, Zenon DEF Shape
<1>4. AtmDrops => PayoutSum' <= PayoutSum
  BY AtmDropsSums, Zenon
<1>5. CASE UNCHANGED <<balance_, issued, debited, PayoutSum>>
  BY <1>1, <1>3, <1>5, Zenon
<1>6. CASE AtmDrops /\ UNCHANGED <<balance_, issued, debited>>
  <2>1. Owed' <= Owed /\ issued' = issued /\ debited' = debited
    BY <1>3, <1>4, <1>6, Zenon
  <2>2. issued + Owed' <= debited
    BY <1>0, <1>1, <2>1, WithinDebit, Zenon
  <2> QED
    BY <2>1, <2>2, Zenon
<1>7. CASE debited' = debited + Amount /\ PayoutSum' = PayoutSum + 1 /\ issued' = issued
  <2>1. Owed' = Owed + Amount
    BY <1>3, <1>7, Zenon
  <2> QED
    BY <1>0, <1>1, <1>7, <2>1
<1>8. CASE issued' = issued + Amount /\ PayoutSum = PayoutSum' + 1 /\ debited' = debited
  <2>1. Owed = Owed' + Amount /\ issued' = issued + Amount /\ debited' = debited
    BY <1>3, <1>8, Zenon
  <2>2. (issued + Amount) + Owed' <= debited
    BY <1>0, <1>1, <2>1, WithinDebit, Zenon
  <2> QED
    BY <2>1, <2>2, Zenon
<1>9. CASE UNCHANGED <<issued, debited, PayoutSum>>
  BY <1>1, <1>3, <1>9, Zenon
<1> QED
  BY <1>5, <1>6, <1>7, <1>8, <1>9, MoneyMoves, Zenon

\* The sums that a state asks for.
Fits(pin, money, bal, cancel, state) ==
  /\ pin = One(state = "verifyingPin")
  /\ money = One(state = "processingWithdrawal")
  /\ bal = One(state = "processBalance")
  /\ cancel = 0

\* Questions in terms of the sums.
LEMMA QuestionsIs ==
  Questions <=> Fits(PinSum, MoneySum, BalanceSum, CancelSum, state_)
BY Zenon DEF Questions, Fits, PinSum, MoneySum, BalanceSum, CancelSum, Count, Tally, Places

\* The same in the next state.
LEMMA QuestionsIsNext ==
  Questions' <=> Fits(PinSum', MoneySum', BalanceSum', CancelSum', state_')
BY Zenon DEF Questions, Fits, PinSum, MoneySum, BalanceSum, CancelSum, Count, Tally, Places

\* What asking, answering and giving up do to the sums.
LEMMA FitsMoves ==
  ASSUME NEW p \in Nat, NEW m \in Nat, NEW b \in Nat, NEW c \in Nat, NEW s, Fits(p, m, b, c, s),
         NEW p2 \in Nat, NEW m2 \in Nat, NEW b2 \in Nat
  PROVE  /\ s \notin Awaiting => \A t : t \notin Awaiting => Fits(p, m, b, c, t)
         /\ s \notin Awaiting /\ p2 = p + 1 => Fits(p2, m, b, c, "verifyingPin")
         /\ s \notin Awaiting /\ m2 = m + 1 => Fits(p, m2, b, c, "processingWithdrawal")
         /\ s \notin Awaiting /\ b2 = b + 1 => Fits(p, m, b2, c, "processBalance")
         /\ s = "verifyingPin" /\ p = p2 + 1 => \A t : t \notin Awaiting => Fits(p2, m, b, c, t)
         /\ s = "processingWithdrawal" /\ m = m2 + 1 => \A t : t \notin Awaiting => Fits(p, m2, b, c, t)
         /\ s = "processBalance" /\ b = b2 + 1 => \A t : t \notin Awaiting => Fits(p, m, b2, c, t)
         /\ p2 <= p /\ m2 <= m /\ b2 <= b /\ (s = "verifyingPin" => p2 = p)
            /\ (s = "processingWithdrawal" => m2 = m) /\ (s = "processBalance" => b2 = b)
              => Fits(p2, m2, b2, c, s)
<1>1. /\ s = "verifyingPin" => p = 1 /\ m = 0 /\ b = 0
      /\ s = "processingWithdrawal" => p = 0 /\ m = 1 /\ b = 0
      /\ s = "processBalance" => p = 0 /\ m = 0 /\ b = 1
      /\ s \notin Awaiting => p = 0 /\ m = 0 /\ b = 0
      /\ c = 0
  BY DEF Fits, One, Awaiting
<1>2. \A t : t \notin Awaiting => Fits(0, 0, 0, 0, t)
  BY DEF Fits, One, Awaiting
<1>3. /\ Fits(1, 0, 0, 0, "verifyingPin") /\ Fits(0, 1, 0, 0, "processingWithdrawal")
      /\ Fits(0, 0, 1, 0, "processBalance")
  BY DEF Fits, One
<1>4. ASSUME s \notin Awaiting, p2 = p + 1 PROVE Fits(p2, m, b, c, "verifyingPin")
  <2>1. p2 = 1
    BY <1>1, <1>4
  <2> QED
    BY <1>1, <1>3, <1>4, <2>1, Zenon
<1>5. ASSUME s \notin Awaiting, m2 = m + 1 PROVE Fits(p, m2, b, c, "processingWithdrawal")
  <2>1. m2 = 1
    BY <1>1, <1>5
  <2> QED
    BY <1>1, <1>3, <1>5, <2>1, Zenon
<1>6. ASSUME s \notin Awaiting, b2 = b + 1 PROVE Fits(p, m, b2, c, "processBalance")
  <2>1. b2 = 1
    BY <1>1, <1>6
  <2> QED
    BY <1>1, <1>3, <1>6, <2>1, Zenon
<1>7. ASSUME s = "verifyingPin", p = p2 + 1, NEW t, t \notin Awaiting PROVE Fits(p2, m, b, c, t)
  <2>1. p2 = 0
    BY <1>1, <1>7
  <2> QED
    BY <1>1, <1>2, <1>7, <2>1, Zenon
<1>8. ASSUME s = "processingWithdrawal", m = m2 + 1, NEW t, t \notin Awaiting
      PROVE  Fits(p, m2, b, c, t)
  <2>1. m2 = 0
    BY <1>1, <1>8
  <2> QED
    BY <1>1, <1>2, <1>8, <2>1, Zenon
<1>9. ASSUME s = "processBalance", b = b2 + 1, NEW t, t \notin Awaiting PROVE Fits(p, m, b2, c, t)
  <2>1. b2 = 0
    BY <1>1, <1>9
  <2> QED
    BY <1>1, <1>2, <1>9, <2>1, Zenon
<1>10. ASSUME p2 <= p, m2 <= m, b2 <= b, s = "verifyingPin" => p2 = p,
              s = "processingWithdrawal" => m2 = m, s = "processBalance" => b2 = b
       PROVE  Fits(p2, m2, b2, c, s)
  <2>1. /\ s # "verifyingPin" => p = 0
        /\ s # "processingWithdrawal" => m = 0
        /\ s # "processBalance" => b = 0
    BY DEF Fits, One
  <2>2. p2 = p /\ m2 = m /\ b2 = b
    BY <1>10, <2>1
  <2> QED
    BY <2>2, Zenon
<1>11. ASSUME s \notin Awaiting, NEW t, t \notin Awaiting PROVE Fits(p, m, b, c, t)
  BY <1>1, <1>2, <1>11, Zenon
<1> QED
  BY <1>4, <1>5, <1>6, <1>7, <1>8, <1>9, <1>10, <1>11, Zenon

\* A cancel that overtakes an answer is never forgotten.
LEMMA CancelsRemembered ==
  ASSUME Shape, Next, ~cancelledInFlight'
  PROVE  ~cancelledInFlight
<1>1. CASE AtmThread
  BY <1>1, StateSteps, Zenon DEF AtmThread, AtmRun, atmVars
<1>2. CASE ~AtmThread
  BY <1>2, Zenon DEF Next, PressKey, Quit, BankThread, InterfaceThread, atmVars
<1> QED
  BY <1>1, <1>2

\* Which states wait for an answer.
LEMMA AwaitingAre ==
  /\ "waitForCard" \notin Awaiting /\ "gettingPin" \notin Awaiting /\ "waitForAction" \notin Awaiting
  /\ "doneProcessing" \notin Awaiting /\ "verifyingPin" \in Awaiting
  /\ "processingWithdrawal" \in Awaiting /\ "processBalance" \in Awaiting
BY DEF Awaiting

\* There is nothing to take from none.
LEMMA NoneLess ==
  ASSUME NEW n \in Nat
  PROVE  n + 1 # 0
OBVIOUS

\* What is handed out was owed.
LEMMA Regrouped ==
  ASSUME NEW a \in Nat, NEW b \in Nat, NEW c \in Nat, NEW d \in Nat
  PROVE  a + b + (c + d) = a + (b + d) + c
OBVIOUS

\* There is one answer to come for the state that waits for it, after a step too.
LEMMA QuestionsStep ==
  ASSUME Shape, Next, ~cancelledInFlight', Questions
  PROVE  Questions'
<1>0. /\ PinSum \in Nat /\ MoneySum \in Nat /\ BalanceSum \in Nat /\ CancelSum \in Nat
      /\ PinSum' \in Nat /\ MoneySum' \in Nat /\ BalanceSum' \in Nat /\ CancelSum' \in Nat
  BY ControlStep, SumsNat, SumsNatNext, Zenon DEF Shape
<1>1. Fits(PinSum, MoneySum, BalanceSum, CancelSum, state_)
  BY QuestionsIs, Zenon
<1>2. SUFFICES Fits(PinSum', MoneySum', BalanceSum', CancelSum', state_')
  BY QuestionsIsNext, Zenon
<1>3. CASE UNCHANGED <<PinSum, MoneySum, BalanceSum, CancelSum, state_>>
  BY <1>1, <1>3, Zenon
<1>4. CASE /\ UNCHANGED <<PinSum, MoneySum, BalanceSum, CancelSum>>
           /\ state_ \notin Awaiting /\ state_' \notin Awaiting
  <2>1. Fits(PinSum, MoneySum, BalanceSum, CancelSum, state_')
    BY <1>0, <1>1, <1>4, FitsMoves
  <2> QED
    BY <1>4, <2>1, Zenon
<1>5. ASSUME NEW key \in Keys, PressKey(key)
      PROVE  Fits(PinSum', MoneySum', BalanceSum', CancelSum', state_')
  BY <1>3, <1>5, PressKeySums, Zenon DEF PressKey, atmVars
<1>6. CASE Quit
  BY <1>3, <1>6, QuitSums, Zenon DEF Quit, atmVars
<1>7. CASE AtmThread
  <2>1. CASE EnterState
    <3>1. UNCHANGED <<PinSum, MoneySum, BalanceSum, CancelSum>>
      BY <2>1, EnterStateSums, Zenon
    <3>2. state_ \in {"waitForCard", "waitForAction", "doneProcessing"}
          /\ state_' \in {"waitForCard", "waitForAction", "doneProcessing"}
      BY <2>1, EnterStateSums
    <3> QED
      BY <1>4, <3>1, <3>2, AwaitingAre, Zenon
  <2>2. CASE CardInserted
    BY <1>4, <2>2, CardInsertedSums, StateSteps, AwaitingAre, Zenon
  <2>3. CASE DigitPressed
    <3>1. UNCHANGED <<MoneySum, BalanceSum, CancelSum>> /\ state_ \notin Awaiting
      BY <2>3, DigitPressedSums, AwaitingAre, Zenon
    <3>2. CASE state_' = state_ /\ PinSum' = PinSum
      BY <1>3, <3>1, <3>2, Zenon
    <3>3. CASE state_' = "verifyingPin" /\ PinSum' = PinSum + 1
      <4>1. Fits(PinSum', MoneySum, BalanceSum, CancelSum, "verifyingPin")
        BY <1>0, <1>1, <3>1, <3>3, FitsMoves
      <4> QED
        BY <3>1, <3>3, <4>1, Zenon
    <3> QED
      BY <2>3, <3>2, <3>3, DigitPressedSums, Zenon
  <2>4. CASE ClearLastPressed
    BY <1>3, <2>4, ClearLastPressedSums, StateSteps, Zenon
  <2>5. CASE PinVerified \/ PinIncorrect
    <3>1. /\ UNCHANGED <<MoneySum, BalanceSum, CancelSum>> /\ PinSum = PinSum' + 1
          /\ state_ = "verifyingPin" /\ state_' \notin Awaiting
      BY <2>5, PinVerifiedSums, PinIncorrectSums, StateSteps, AwaitingAre, Zenon
    <3>2. Fits(PinSum', MoneySum, BalanceSum, CancelSum, state_')
      BY <1>0, <1>1, <3>1, FitsMoves
    <3> QED
      BY <3>1, <3>2, Zenon
  <2>6. CASE WithdrawPressed
    <3>1. /\ UNCHANGED <<PinSum, BalanceSum, CancelSum>> /\ MoneySum' = MoneySum + 1
          /\ state_ \notin Awaiting /\ state_' = "processingWithdrawal"
      BY <2>6, WithdrawPressedSums, StateSteps, AwaitingAre, Zenon
    <3>2. Fits(PinSum, MoneySum', BalanceSum, CancelSum, "processingWithdrawal")
      BY <1>0, <1>1, <3>1, FitsMoves
    <3> QED
      BY <3>1, <3>2, Zenon
  <2>7. CASE BalancePressed
    <3>1. /\ UNCHANGED <<PinSum, MoneySum, CancelSum>> /\ BalanceSum' = BalanceSum + 1
          /\ state_ \notin Awaiting /\ state_' = "processBalance"
      BY <2>7, BalancePressedSums, StateSteps, AwaitingAre, Zenon
    <3>2. Fits(PinSum, MoneySum, BalanceSum', CancelSum, "processBalance")
      BY <1>0, <1>1, <3>1, FitsMoves
    <3> QED
      BY <3>1, <3>2, Zenon
  <2>8. CASE WithdrawOk \/ WithdrawRefused
    <3>1. /\ UNCHANGED <<PinSum, BalanceSum, CancelSum>> /\ MoneySum = MoneySum' + 1
          /\ state_ = "processingWithdrawal" /\ state_' \notin Awaiting
      BY <2>8, WithdrawOkSums, WithdrawRefusedSums, StateSteps, AwaitingAre, Zenon
    <3>2. Fits(PinSum, MoneySum', BalanceSum, CancelSum, state_')
      BY <1>0, <1>1, <3>1, FitsMoves
    <3> QED
      BY <3>1, <3>2, Zenon
  <2>9. CASE ShowBalance
    <3>1. /\ UNCHANGED <<PinSum, MoneySum, CancelSum>> /\ BalanceSum = BalanceSum' + 1
          /\ state_ = "processBalance" /\ state_' \notin Awaiting
      BY <2>9, ShowBalanceSums, StateSteps, AwaitingAre, Zenon
    <3>2. Fits(PinSum, MoneySum, BalanceSum', CancelSum, state_')
      BY <1>0, <1>1, <3>1, FitsMoves
    <3> QED
      BY <3>1, <3>2, Zenon
  <2>10. CASE CancelPressed
    <3>1. state_ \notin Awaiting /\ state_' = "doneProcessing"
      BY <2>10, StateSteps, Zenon
    <3>2. state_ # "processingWithdrawal"
      BY <3>1, AwaitingAre, Zenon
    <3> QED
      BY <1>4, <2>10, <3>1, <3>2, CancelPressedSums, AwaitingAre, Zenon
  <2>11. CASE AtmDrops
    <3>1. /\ CancelSum' = CancelSum /\ state_' = state_
          /\ PinSum' <= PinSum /\ MoneySum' <= MoneySum /\ BalanceSum' <= BalanceSum
          /\ state_ = "verifyingPin" => PinSum' = PinSum
          /\ state_ = "processingWithdrawal" => MoneySum' = MoneySum
          /\ state_ = "processBalance" => BalanceSum' = BalanceSum
      BY <2>11, AtmDropsSums, StateSteps, Zenon
    <3>2. Fits(PinSum', MoneySum', BalanceSum', CancelSum, state_)
      BY <1>0, <1>1, <3>1, FitsMoves
    <3> QED
      BY <3>1, <3>2, Zenon
  <2>12. CASE prompted /\ CloseQueue("atm") /\ UNCHANGED atmVars
    BY <1>3, <2>12, CloseQueueSums, MachinesAre, Zenon DEF atmVars
  <2> QED
    BY <1>7, <2>1, <2>2, <2>3, <2>4, <2>5, <2>6, <2>7, <2>8, <2>9, <2>10, <2>11, <2>12,
       Zenon DEF AtmThread, AtmRun
<1>8. CASE BankThread
  <2>1. state_' = state_
    BY <1>8 DEF BankThread, atmVars
  <2>2. CASE CancelWithdrawal
    <3>1. CancelSum = CancelSum' + 1 /\ CancelSum = 0
      BY <1>1, <2>2, CancelWithdrawalSums, Zenon DEF Fits
    <3> QED
      BY <1>0, <3>1, NoneLess, Zenon
  <2>3. CASE VerifyPin \/ WithdrawGranted \/ WithdrawDenied \/ GetBalance \/ CloseQueue("bank")
    BY <1>3, <2>1, <2>3, VerifyPinSums, WithdrawGrantedSums, WithdrawDeniedSums, GetBalanceSums,
       CloseQueueSums, MachinesAre, Zenon
  <2> QED
    BY <1>8, <2>2, <2>3, Zenon DEF BankThread, BankRun
<1>9. CASE InterfaceThread
  BY <1>3, <1>9, IssueMoneySums, EjectCardSums, DisplaySums, CloseQueueSums, MachinesAre,
     Zenon DEF InterfaceThread, InterfaceRun, atmVars
<1> QED
  BY <1>5, <1>6, <1>7, <1>8, <1>9, Zenon DEF Next

\* No money is lost or created, after a step too.
LEMMA MoneyStep ==
  ASSUME Shape, Next, ~cancelledInFlight', Questions, MoneyConserved
  PROVE  MoneyConserved'
<1>0. /\ issued \in Nat /\ balance_ \in Nat /\ Amount \in Nat /\ InitialBalance \in Nat
      /\ Owed \in Nat /\ Owed' \in Nat
  BY ControlStep, OwedMoves, BalanceAssumption, Zenon DEF Shape, NumberShape
<1>1. balance_ + issued + Owed = InitialBalance
  BY CancelsRemembered, OwedIs, Zenon DEF MoneyConserved
<1>2. SUFFICES balance_' + issued' + Owed' = InitialBalance
  BY OwedIsNext, Zenon DEF MoneyConserved
<1>3. /\ PayoutSum' = PayoutSum => Owed' = Owed
      /\ PayoutSum' = PayoutSum + 1 => Owed' = Owed + Amount
      /\ PayoutSum = PayoutSum' + 1 => Owed = Owed' + Amount
  BY ControlStep, OwedMoves, Zenon DEF Shape
<1>4. CASE UNCHANGED <<balance_, issued, PayoutSum>>
  BY <1>1, <1>3, <1>4, Zenon
<1>5. CASE AtmDrops /\ UNCHANGED <<balance_, issued, debited>>
  <2>1. state_ = "processingWithdrawal" \/ MoneySum = 0
    BY QuestionsIs, Zenon DEF Fits, One
  <2>2. PayoutSum' = PayoutSum
    BY <1>5, <2>1, AtmDropsSums, Zenon
  <2> QED
    BY <1>4, <1>5, <2>2, Zenon
<1>6. CASE /\ balance_ >= Amount /\ balance_' = balance_ - Amount
           /\ PayoutSum' = PayoutSum + 1 /\ issued' = issued
  <2>1. Owed' = Owed + Amount /\ balance_' = balance_ - Amount /\ issued' = issued
    BY <1>3, <1>6, Zenon
  <2>2. (balance_ - Amount) + issued + (Owed + Amount) = InitialBalance
    BY <1>0, <1>1
  <2> QED
    BY <2>1, <2>2, Zenon
<1>7. CASE CancelSum = CancelSum' + 1
  <2>1. CancelSum = 0 /\ CancelSum' \in Nat
    BY ControlStep, QuestionsIs, SumsNatNext, Zenon DEF Fits
  <2> QED
    BY <1>7, <2>1, NoneLess, Zenon
<1>8. CASE issued' = issued + Amount /\ PayoutSum = PayoutSum' + 1 /\ balance_' = balance_
  <2>1. Owed = Owed' + Amount /\ balance_' = balance_ /\ issued' = issued + Amount
    BY <1>3, <1>8, Zenon
  <2>2. balance_ + issued + (Owed' + Amount) = InitialBalance
    BY <1>1, <2>1, Zenon
  <2>3. balance_ + (issued + Amount) + Owed' = InitialBalance
    <3>1. balance_ + issued + (Owed' + Amount) = balance_ + (issued + Amount) + Owed'
      BY <1>0, Regrouped
    <3> QED
      BY <2>2, <3>1, Zenon
  <2> QED
    BY <2>1, <2>3, Zenon
<1> QED
  BY <1>4, <1>5, <1>6, <1>7, <1>8, MoneyMoves, Zenon

-----------------------------------------------------------------------------
(* The PIN *)

\* All questions in the queue are about this PIN.
AllAbout(q, pin) == \A i \in 1..Len(q) : q[i].type = "verify_pin" => q[i].pin = pin

\* Verified answers under way.
Verified == Tally(queue["atm"], "pin_verified")

\* Asked in terms of the tally.
LEMMA AskedIs ==
  Asked <=> (state_ = "verifyingPin" =>
               AllAbout(queue["bank"], pin_) /\ (Verified # 0 => pin_ = CorrectPin))
BY Zenon DEF Asked, AllAbout, Verified, Count, Tally, Places

\* The same in the next state.
LEMMA AskedIsNext ==
  Asked' <=> (state_' = "verifyingPin" =>
                AllAbout(queue'["bank"], pin_') /\ (Verified' # 0 => pin_' = CorrectPin))
BY Zenon DEF Asked, AllAbout, Verified, Count, Tally, Places

\* Taking a question, adding one about the same PIN, and a queue without questions.
LEMMA AboutMoves ==
  ASSUME NEW S, NEW q \in Seq(S), NEW pin
  PROVE  /\ q # << >> /\ AllAbout(q, pin) =>
              AllAbout(Tail(q), pin) /\ (Head(q).type = "verify_pin" => Head(q).pin = pin)
         /\ \A x \in S : AllAbout(q, pin) /\ (x.type = "verify_pin" => x.pin = pin)
              => AllAbout(Append(q, x), pin)
         /\ Tally(q, "verify_pin") = 0 => AllAbout(q, pin)
<1>1. ASSUME q # << >>, AllAbout(q, pin)
      PROVE  AllAbout(Tail(q), pin) /\ (Head(q).type = "verify_pin" => Head(q).pin = pin)
  <2>1. /\ Len(Tail(q)) = Len(q) - 1 /\ Len(q) \in Nat /\ 1 \in 1..Len(q) /\ Head(q) = q[1]
        /\ \A i \in 1..Len(Tail(q)) : Tail(q)[i] = q[i + 1]
    BY <1>1, HeadTailProperties
  <2>2. \A i \in 1..Len(Tail(q)) : i + 1 \in 1..Len(q)
    BY <2>1
  <2> QED
    BY <1>1, <2>1, <2>2 DEF AllAbout
<1>2. ASSUME NEW x \in S, AllAbout(q, pin), x.type = "verify_pin" => x.pin = pin
      PROVE  AllAbout(Append(q, x), pin)
  <2>1. /\ Len(Append(q, x)) = Len(q) + 1 /\ Append(q, x)[Len(q) + 1] = x
        /\ \A i \in 1..Len(q) : Append(q, x)[i] = q[i]
    BY AppendProperties
  <2>2. \A i \in 1..Len(Append(q, x)) : i \in 1..Len(q) \/ i = Len(q) + 1
    BY <2>1
  <2> QED
    BY <1>2, <2>1, <2>2, Zenon DEF AllAbout
<1>3. ASSUME Tally(q, "verify_pin") = 0 PROVE AllAbout(q, pin)
  <2>1. IsFiniteSet(Places(q, "verify_pin"))
    BY TallyNat
  <2>2. Places(q, "verify_pin") = {}
    BY <1>3, <2>1, FS_EmptySet, Zenon DEF Tally
  <2>3. DOMAIN q = 1..Len(q)
    OBVIOUS
  <2> QED
    BY <2>2, <2>3, Zenon DEF AllAbout, Places
<1> QED
  BY <1>1, <1>2, <1>3, Zenon

\* A step that keeps the PIN keeps the questions about it, unless it asks one.
LEMMA AboutKept ==
  ASSUME QueueShape, AllAbout(queue["bank"], pin_), pin_' = pin_,
         \/ Keeps("bank")
         \/ \E type : Takes("bank", type)
         \/ Gets("bank", Msg("CloseQueue"))
  PROVE  AllAbout(queue'["bank"], pin_')
<1>1. queue["bank"] \in Seq(Inbox("bank"))
  BY MachinesAre, Zenon DEF QueueShape
<1>2. CASE Keeps("bank")
  BY <1>2, Zenon DEF Keeps
<1>3. ASSUME NEW type, Takes("bank", type) PROVE AllAbout(queue'["bank"], pin_')
  <2>1. queue["bank"] # << >> /\ queue'["bank"] = Tail(queue["bank"])
    BY <1>3, Zenon DEF Takes
  <2>2. AllAbout(Tail(queue["bank"]), pin_)
    BY <1>1, <2>1, AboutMoves, Zenon
  <2> QED
    BY <2>1, <2>2, Zenon
<1>4. CASE Gets("bank", Msg("CloseQueue"))
  <2>1. queue'["bank"] = Append(queue["bank"], Msg("CloseQueue"))
    BY <1>4, Zenon DEF Gets
  <2>2. /\ Msg("CloseQueue") \in Inbox("bank")
        /\ Msg("CloseQueue").type # "verify_pin"
    BY InboxHas, MachinesAre, MsgTypes, Zenon
  <2>3. AllAbout(Append(queue["bank"], Msg("CloseQueue")), pin_)
    BY <1>1, <2>2, AboutMoves, Zenon
  <2> QED
    BY <2>1, <2>3, Zenon
<1> QED
  BY <1>2, <1>3, <1>4, Zenon

\* Verified answers do not come from nowhere.
LEMMA VerifiedKept ==
  ASSUME QueueShape, QueueShape',
         \/ Keeps("atm")
         \/ \E type : Takes("atm", type)
         \/ \E msg : Gets("atm", msg) /\ msg.type # "pin_verified",
         Verified' # 0
  PROVE  Verified # 0
<1>1. Verified \in Nat /\ Verified' \in Nat
  BY TalliesBoth, MachinesAre, Zenon DEF Verified
<1>2. CASE Keeps("atm")
  BY <1>2, Zenon DEF Keeps, Verified
<1>3. ASSUME NEW type, Takes("atm", type) PROVE Verified # 0
  <2>1. Verified = Verified' + One(type = "pin_verified")
    BY <1>3, Zenon DEF Takes, Verified
  <2>2. One(type = "pin_verified") \in {0, 1}
    BY Zenon DEF One
  <2> QED
    BY <1>1, <2>1, <2>2
<1>4. ASSUME NEW msg, Gets("atm", msg), msg.type # "pin_verified" PROVE Verified # 0
  <2>1. Verified' = Verified + One(msg.type = "pin_verified")
    BY <1>4, Zenon DEF Gets, Verified
  <2>2. One(msg.type = "pin_verified") = 0
    BY <1>4, Zenon DEF One
  <2> QED
    BY <1>1, <2>1, <2>2
<1> QED
  BY <1>2, <1>3, <1>4, Zenon

\* The bank is asked about the PIN that was entered, and answers about it, after a step too.
LEMMA AskedStep ==
  ASSUME Shape, Next, ~cancelledInFlight', Questions, Asked
  PROVE  Asked'
<1>0. QueueShape /\ QueueShape'
  BY ControlStep, Zenon DEF Shape
<1>1. SUFFICES ASSUME state_' = "verifyingPin"
               PROVE  AllAbout(queue'["bank"], pin_') /\ (Verified' # 0 => pin_' = CorrectPin)
  BY AskedIsNext, Zenon
<1> DEFINE Goal == AllAbout(queue'["bank"], pin_') /\ (Verified' # 0 => pin_' = CorrectPin)
<1>2. ASSUME state_ = "verifyingPin", pin_' = pin_,
             \/ Keeps("bank")
             \/ \E type : Takes("bank", type)
             \/ Gets("bank", Msg("CloseQueue")),
             \/ Keeps("atm")
             \/ \E type : Takes("atm", type)
             \/ \E msg : Gets("atm", msg) /\ msg.type # "pin_verified"
      PROVE  Goal
  <2>1. AllAbout(queue["bank"], pin_) /\ (Verified # 0 => pin_ = CorrectPin)
    BY <1>2, AskedIs, Zenon
  <2>2. AllAbout(queue'["bank"], pin_')
    BY <1>0, <1>2, <2>1, AboutKept, Zenon
  <2>3. Verified' # 0 => Verified # 0
    BY <1>0, <1>2, VerifiedKept, Zenon
  <2> QED
    BY <1>2, <2>1, <2>2, <2>3, Zenon
<1>3. ASSUME NEW key \in Keys, PressKey(key) PROVE Goal
  <2>1. state_' = state_ /\ pin_' = pin_
    BY <1>3 DEF PressKey, atmVars
  <2>2. key.type # "pin_verified"
    BY KeyTypes
  <2> QED
    BY <1>1, <1>2, <1>3, <2>1, <2>2, PressKeyDoes, Zenon
<1>4. CASE Quit
  <2>1. state_' = state_ /\ pin_' = pin_
    BY <1>4 DEF Quit, atmVars
  <2>2. Msg("CloseQueue").type # "pin_verified"
    BY MsgTypes
  <2>3. PICK m \in Machines : /\ Gets(m, Msg("CloseQueue"))
                              /\ \A n \in Machines : n # m => Keeps(n)
    BY <1>4, QuitDoes
  <2> QED
    BY <1>1, <1>2, <2>1, <2>2, <2>3, MachinesAre, Zenon
<1>5. CASE AtmThread
  <2>1. CASE DigitPressed
    <3>1. /\ state_ = "gettingPin" /\ Gets("bank", verify_pin(pin_'))
          /\ Takes("atm", "digit_pressed")
      BY <1>1, <2>1, DigitPressedSums, Zenon
    <3>2. PinSum = 0
      BY <3>1, QuestionsIs DEF Fits, One
    <3>3. Tally(queue["bank"], "verify_pin") = 0 /\ Verified = 0
      <4>1. /\ Tally(queue["bank"], "verify_pin") \in Nat /\ Verified \in Nat
            /\ Tally(queue["atm"], "pin_incorrect") \in Nat
        BY <1>0, TalliesBoth, MachinesAre, Zenon DEF Verified
      <4>2. Tally(queue["bank"], "verify_pin") + Verified + Tally(queue["atm"], "pin_incorrect") = 0
        BY <3>2, Zenon DEF PinSum, Verified
      <4> QED
        BY <4>1, <4>2
    <3>4. Verified' = 0
      BY <1>0, <3>1, <3>3, VerifiedKept, Zenon
    <3>5. queue["bank"] \in Seq(Inbox("bank"))
      BY <1>0, MachinesAre, Zenon DEF QueueShape
    <3>6. AllAbout(queue["bank"], pin_')
      BY <3>3, <3>5, AboutMoves, Zenon
    <3>7. verify_pin(pin_') \in Inbox("bank") /\ verify_pin(pin_').pin = pin_'
      <4>1. queue'["bank"] \in Seq(Inbox("bank"))
        BY <1>0, MachinesAre, Zenon DEF QueueShape
      <4>2. queue'["bank"] = Append(queue["bank"], verify_pin(pin_'))
        BY <3>1, Zenon DEF Gets
      <4>3. verify_pin(pin_') \in Inbox("bank")
        BY <3>5, <4>1, <4>2
      <4>4. verify_pin(pin_').pin = pin_'
        BY DEF verify_pin
      <4> QED
        BY <4>3, <4>4
    <3>8. AllAbout(Append(queue["bank"], verify_pin(pin_')), pin_')
      BY <3>5, <3>6, <3>7, AboutMoves, Zenon
    <3> QED
      BY <3>1, <3>4, <3>8, Zenon DEF Gets
  <2>2. CASE AtmDrops
    <3>1. state_' = state_ /\ pin_' = pin_
      BY <2>2 DEF AtmDrops, atmVars
    <3> QED
      BY <1>1, <1>2, <2>2, <3>1, AtmDropsDoes, Zenon
  <2>3. CASE prompted /\ CloseQueue("atm") /\ UNCHANGED atmVars
    <3>1. state_' = state_ /\ pin_' = pin_
      BY <2>3 DEF atmVars
    <3> QED
      BY <1>1, <1>2, <2>3, <3>1, CloseQueueDoes, MachinesAre, Zenon
  <2>4. CASE EnterState
    <3>1. state_' \in {"waitForCard", "waitForAction"}
      BY <2>4, EnterStateSums
    <3> QED
      BY <1>1, <3>1
  <2>5. CASE ClearLastPressed
    BY <1>1, <2>5, Zenon DEF ClearLastPressed, InState
  <2> QED
    BY <1>1, <1>5, <2>1, <2>2, <2>3, <2>4, <2>5, StateSteps, Zenon DEF AtmThread, AtmRun
<1>6. CASE BankThread
  <2>1. state_' = state_ /\ pin_' = pin_
    BY <1>6 DEF BankThread, atmVars
  <2>2. CASE VerifyPin
    <3>1. CASE Gets("atm", Msg("pin_incorrect"))
      BY <1>1, <1>2, <2>1, <2>2, <3>1, VerifyPinDoes, MsgTypes, Zenon
    <3>2. CASE First("bank").pin = CorrectPin
      <4>1. AllAbout(queue["bank"], pin_) /\ Takes("bank", "verify_pin")
        BY <1>1, <2>1, <2>2, AskedIs, VerifyPinDoes, Zenon
      <4>2. queue["bank"] \in Seq(Inbox("bank"))
        BY <1>0, MachinesAre, Zenon DEF QueueShape
      <4>3. Head(queue["bank"]).pin = pin_
        BY <4>1, <4>2, AboutMoves, Zenon DEF Takes
      <4>4. pin_' = CorrectPin
        BY <2>1, <3>2, <4>3, Zenon DEF First
      <4>5. AllAbout(queue'["bank"], pin_')
        BY <1>0, <2>1, <4>1, AboutKept, Zenon
      <4> QED
        BY <4>4, <4>5, Zenon
    <3> QED
      BY <2>2, <3>1, <3>2, VerifyPinDoes, Zenon
  <2>3. CASE WithdrawGranted
    BY <1>1, <1>2, <2>1, <2>3, WithdrawGrantedDoes, MsgTypes, Zenon
  <2>4. CASE WithdrawDenied
    BY <1>1, <1>2, <2>1, <2>4, WithdrawDeniedDoes, MsgTypes, Zenon
  <2>5. CASE GetBalance
    BY <1>1, <1>2, <2>1, <2>5, GetBalanceDoes, MsgTypes, Zenon
  <2>6. CASE CancelWithdrawal
    BY <1>1, <1>2, <2>1, <2>6, CancelWithdrawalDoes, Zenon
  <2>7. CASE CloseQueue("bank")
    BY <1>1, <1>2, <2>1, <2>7, CloseQueueDoes, MachinesAre, Zenon
  <2> QED
    BY <1>6, <2>2, <2>3, <2>4, <2>5, <2>6, <2>7, Zenon DEF BankThread, BankRun
<1>7. CASE InterfaceThread
  <2>1. state_' = state_ /\ pin_' = pin_
    BY <1>7 DEF InterfaceThread, atmVars
  <2>2. Keeps("atm") /\ Keeps("bank")
    BY <1>7, IssueMoneyDoes, EjectCardDoes, DisplayDoes, CloseQueueDoes, MachinesAre,
       Zenon DEF InterfaceThread, InterfaceRun
  <2> QED
    BY <1>1, <1>2, <2>1, <2>2, Zenon
<1> QED
  BY <1>3, <1>4, <1>5, <1>6, <1>7, Zenon DEF Next

\* Whoever gets at the account has entered the right PIN, after a step too.
LEMMA AuthorisedStep ==
  ASSUME Shape, Next, ~cancelledInFlight', Asked, Authorised
  PROVE  Authorised'
<1> DEFINE Inside == {"waitForAction", "processingWithdrawal", "processBalance"}
<1>0. ~cancelledInFlight
  BY CancelsRemembered, Zenon
<1>1. SUFFICES ASSUME state_' \in Inside PROVE pin_' = CorrectPin
  BY Zenon DEF Authorised
<1>2. CASE state_ \in Inside /\ pin_' = pin_
  BY <1>0, <1>2, Zenon DEF Authorised
<1>3. CASE PinVerified
  <2>1. state_ = "verifyingPin" /\ pin_' = pin_
    BY <1>3 DEF PinVerified, InState
  <2>2. Takes("atm", "pin_verified") /\ QueueShape'
    BY <1>3, PinVerifiedDoes, Zenon
  <2>3. Verified \in Nat /\ Verified' \in Nat
    BY <2>2, TalliesBoth, MachinesAre, Zenon DEF Verified, Shape
  <2>4. Verified = Verified' + One("pin_verified" = "pin_verified")
    BY <2>2, Zenon DEF Takes, Verified
  <2>5. One("pin_verified" = "pin_verified") = 1
    BY Zenon DEF One
  <2>6. Verified # 0
    BY <2>3, <2>4, <2>5, NoneLess, Zenon
  <2> QED
    BY <2>1, <2>6, AskedIs, Zenon
<1>4. CASE AtmThread
  <2>1. CASE EnterState
    <3>1. state_ = "waitForAction"
      BY <1>1, <2>1, EnterStateSums DEF Inside
    <3> QED
      BY <1>2, <2>1, <3>1, Zenon DEF EnterState
  <2>2. CASE CardInserted \/ PinIncorrect
    BY <1>1, <2>2, StateSteps, Zenon
  <2>3. CASE DigitPressed \/ ClearLastPressed
    <3>1. state_' \in {"gettingPin", "verifyingPin"}
      BY <2>3, DigitPressedSums, Zenon DEF ClearLastPressed, InState
    <3> QED
      BY <1>1, <3>1
  <2>4. CASE WithdrawPressed
    BY <1>2, <2>4, Zenon DEF WithdrawPressed, InState
  <2>5. CASE BalancePressed
    BY <1>2, <2>5, Zenon DEF BalancePressed, InState
  <2>6. CASE ShowBalance
    BY <1>2, <2>6, Zenon DEF ShowBalance, InState
  <2>7. CASE WithdrawOk \/ WithdrawRefused \/ CancelPressed
    BY <1>1, <2>7, StateSteps, Zenon
  <2>8. CASE UNCHANGED atmVars
    BY <1>1, <1>2, <2>8, Zenon DEF atmVars
  <2> QED
    BY <1>3, <1>4, <2>1, <2>2, <2>3, <2>4, <2>5, <2>6, <2>7, <2>8, Zenon DEF AtmThread, AtmRun, AtmDrops
<1>5. CASE ~AtmThread
  BY <1>1, <1>2, <1>5, Zenon DEF Next, PressKey, Quit, BankThread, InterfaceThread, atmVars
<1> QED
  BY <1>4, <1>5

-----------------------------------------------------------------------------
(* The theorems *)

\* The invariant holds at first.
LEMMA InitInv ==
  ASSUME Init
  PROVE  Inv
<1>1. \A m \in Machines : queue[m] = << >>
  BY Zenon DEF Init
<1>2. QueueShape
  <2>1. PerMachine(queue)
    BY DEF Init, PerMachine
  <2>2. ASSUME NEW m \in Machines PROVE queue[m] \in Seq(Inbox(m))
    <3>1. << >> \in Seq(Inbox(m))
      OBVIOUS
    <3> QED
      BY <1>1, <3>1, Zenon
  <2> QED
    BY <2>1, <2>2, Zenon DEF QueueShape
<1>3. Shape
  <2>1. NumberShape
    BY BalanceAssumption, CardsAssumption DEF Init, NumberShape
  <2>2. ControlShape
    BY Zenon DEF Init, ControlShape, States
  <2>3. PinShape
    BY PinAssumption DEF Init, PinShape
  <2>4. AmountShape
    BY DEF Init, AmountShape
  <2> QED
    BY <1>2, <2>1, <2>2, <2>3, <2>4, Zenon DEF Shape
<1>4. \A m \in Machines : \A t : Tally(queue[m], t) = 0
  BY <1>1, TallyEmpty, Zenon
<1>5. /\ PinSum = 0 /\ MoneySum = 0 /\ BalanceSum = 0 /\ CancelSum = 0 /\ PayoutSum = 0
      /\ EjectSum = 0
  BY <1>4, MachinesAre DEF PinSum, MoneySum, BalanceSum, CancelSum, PayoutSum, EjectSum
<1>6. Owed = 0
  <2>1. Owed = Amount * 0
    BY <1>5, Zenon DEF Owed
  <2> QED
    BY <2>1, BalanceAssumption
<1>7. CardsReturned
  <2>1. inserted = ejected + EjectSum + One(state_ # "waitForCard")
    BY <1>5 DEF Init, One
  <2> QED
    BY <2>1, Zenon DEF CardsReturned, Count, EjectSum, Tally, Places, One
<1>8. PayoutsDebited
  <2>1. issued + Owed <= debited
    BY <1>6 DEF Init
  <2> QED
    BY <2>1, OwedIs, Zenon DEF PayoutsDebited
<1>9. Questions
  <2>1. Fits(0, 0, 0, 0, "waitForCard")
    BY DEF Fits, One
  <2>2. state_ = "waitForCard"
    BY DEF Init
  <2> QED
    BY <1>5, <2>1, <2>2, QuestionsIs, Zenon
<1>10. Asked /\ Authorised
  BY DEF Init, Asked, Authorised
<1>11. MoneyConserved
  <2>1. balance_ + issued + Owed = InitialBalance
    BY <1>6, BalanceAssumption DEF Init
  <2> QED
    BY <2>1, OwedIs, Zenon DEF MoneyConserved
<1> QED
  BY <1>3, <1>7, <1>8, <1>9, <1>10, <1>11, Zenon DEF Inv

\* Every step keeps the invariant.
LEMMA NextInv ==
  ASSUME Inv, [Next]_vars
  PROVE  Inv'
<1>1. CASE Next
  <2>1. Shape /\ CardsReturned /\ PayoutsDebited /\ Authorised /\ MoneyConserved
    BY Zenon DEF Inv
  <2>2. Shape' /\ CardsReturned' /\ PayoutsDebited'
    BY <1>1, <2>1, ShapeStep, CardsStep, PayoutsStep, Zenon
  <2>3. CASE cancelledInFlight'
    BY <2>2, <2>3, Zenon DEF Inv, Authorised, MoneyConserved
  <2>4. CASE ~cancelledInFlight'
    <3>1. Questions /\ Asked
      BY <1>1, <2>1, <2>4, CancelsRemembered, Zenon DEF Inv
    <3>2. Questions' /\ Asked' /\ Authorised' /\ MoneyConserved'
      BY <1>1, <2>1, <2>4, <3>1, QuestionsStep, AskedStep, AuthorisedStep, MoneyStep, Zenon
    <3> QED
      BY <2>2, <3>2, Zenon DEF Inv
  <2> QED
    BY <2>3, <2>4
<1>2. CASE UNCHANGED vars
  <2>1. /\ UNCHANGED <<queue, thread, terminated>>
        /\ UNCHANGED <<balance_, debited, issued, ejected>>
        /\ UNCHANGED <<state_, prompted, pin_, withdrawal_amount_, inserted, cancelledInFlight>>
        /\ UNCHANGED <<cards, quit>>
    BY <1>2 DEF vars, msgVars, bankVars, interfaceVars, atmVars
  <2>2. Shape'
    BY <2>1, Zenon DEF Inv, Shape, QueueShape, NumberShape, ControlShape, PinShape, AmountShape
  <2>3. CardsReturned' /\ PayoutsDebited' /\ Authorised' /\ MoneyConserved'
    BY <2>1, Zenon DEF Inv, CardsReturned, PayoutsDebited, Authorised, MoneyConserved,
       PayoutsUnderWay, Count
  <2>4. ~cancelledInFlight' => Questions' /\ Asked'
    BY <2>1, Zenon DEF Inv, Questions, Asked, Count
  <2> QED
    BY <2>2, <2>3, <2>4, Zenon DEF Inv
<1> QED
  BY <1>1, <1>2

\* Inv is an invariant of the system.
LEMMA AlwaysInv ==
  Spec => []Inv
BY InitInv, NextInv, PTL DEF Spec

\* What a machine is sent is what it understands.
LEMMA InboxUnderstood ==
  ASSUME NEW m \in Machines, NEW msg \in Inbox(m)
  PROVE  Understands(m, msg)
<1>1. CASE m = "atm"
  <2>1. msg \in AtmInbox
    BY <1>1, Zenon DEF Inbox
  <2>2. \/ msg \in Keys \/ msg = Msg("CloseQueue")
        \/ msg.type \in {"pin_verified", "pin_incorrect", "withdraw_ok", "withdraw_denied"}
        \/ msg.type = "balance" /\ msg.amount \in Nat
    BY <2>1, SMT DEF AtmInbox, Msg, balance
  <2> QED
    BY <1>1, <2>2 DEF Understands
<1>2. CASE m = "bank"
  <2>1. msg \in BankInbox
    BY <1>2, Zenon DEF Inbox
  <2>2. \/ msg = Msg("CloseQueue")
        \/ msg.type = "verify_pin" /\ msg \in {verify_pin(pin) : pin \in Pins}
        \/ msg \in {withdraw(Amount), cancel_withdrawal(Amount), get_balance}
    BY <2>1, MsgTypes, Zenon DEF BankInbox
  <2> QED
    BY <1>2, <2>2 DEF Understands
<1>3. CASE m = "interface"
  <2>1. msg \in InterfaceInbox
    BY <1>3, Zenon DEF Inbox
  <2>2. \/ msg = Msg("CloseQueue") \/ msg = issue_money(Amount) \/ msg = Msg("eject_card")
        \/ msg.type \in Displays
    BY <2>1, SMT DEF InterfaceInbox, Displays, display_balance, Msg
  <2> QED
    BY <1>3, <2>2 DEF Understands
<1> QED
  BY <1>1, <1>2, <1>3 DEF Machines

(***************************************************************************)
(* The members of the three machines keep their types, no machine is ever  *)
(* sent a message that no state of it has a handler for, and a PIN never   *)
(* grows beyond its length, for every PIN length and any amounts.          *)
(***************************************************************************)
THEOREM TypeCorrect ==
  Spec => []TypeOK
<1>1. Inv => TypeOK
  <2> SUFFICES ASSUME Inv PROVE TypeOK
    OBVIOUS
  <2>1. QueueShape /\ NumberShape /\ ControlShape /\ PinShape /\ AmountShape
    BY Zenon DEF Inv, Shape
  <2>2. DOMAIN queue = Machines
    BY <2>1 DEF QueueShape, PerMachine
  <2>3. ASSUME NEW m \in Machines, NEW i \in DOMAIN queue[m] PROVE Understands(m, queue[m][i])
    <3>1. queue[m] \in Seq(Inbox(m))
      BY <2>1, Zenon DEF QueueShape
    <3>2. queue[m][i] \in Inbox(m)
      BY <3>1
    <3> QED
      BY <3>2, InboxUnderstood, Zenon
  <2>4. {balance_, debited, issued, ejected, inserted} \subseteq Nat
    BY <2>1, Zenon DEF NumberShape
  <2> QED
    BY <2>1, <2>2, <2>3, <2>4, Zenon DEF TypeOK, NumberShape, ControlShape, PinShape, AmountShape
<1> QED
  BY <1>1, AlwaysInv, PTL

(***************************************************************************)
(* As long as no cancel_pressed has overtaken an answer of the bank, there *)
(* is exactly one answer to come in the states that wait for one and none  *)
(* in the others: ATM and bank never get out of step, however many keys    *)
(* wait in the ATM's queue.                                                *)
(***************************************************************************)
THEOREM OneAnswerHolds ==
  Spec => []OneAnswer
<1>1. Inv => OneAnswer
  <2> SUFFICES ASSUME Inv, ~cancelledInFlight
               PROVE  UnderWay = IF state_ \in Awaiting THEN 1 ELSE 0
    BY Zenon DEF OneAnswer
  <2>1. QueueShape /\ Fits(PinSum, MoneySum, BalanceSum, CancelSum, state_)
    BY QuestionsIs, Zenon DEF Inv, Shape
  <2>2. UnderWay = PinSum + MoneySum + BalanceSum
    <3>1. \A m \in Machines : \A t : Count(m, t) = Tally(queue[m], t) /\ Tally(queue[m], t) \in Nat
      BY <2>1, CountIs, TalliesNat, Zenon
    <3> QED
      BY <3>1, MachinesAre DEF UnderWay, PinSum, MoneySum, BalanceSum
  <2>3. PinSum + MoneySum + BalanceSum = One(state_ \in Awaiting)
    BY <2>1 DEF Fits, One, Awaiting
  <2> QED
    BY <2>2, <2>3, Zenon DEF One
<1> QED
  BY <1>1, AlwaysInv, PTL

(***************************************************************************)
(* Under the same condition, whoever can withdraw money or see the balance *)
(* has entered the right PIN, whatever the PIN and its length.             *)
(***************************************************************************)
THEOREM AuthorisedHolds ==
  Spec => []Authorised
<1>1. Inv => Authorised
  BY Zenon DEF Inv
<1> QED
  BY <1>1, AlwaysInv, PTL

(***************************************************************************)
(* The ATM never pays out what the bank has not debited, also when cancels *)
(* and late answers cross: a withdraw_ok is used up by at most one payout. *)
(***************************************************************************)
THEOREM PayoutsDebitedHolds ==
  Spec => []PayoutsDebited
<1>1. Inv => PayoutsDebited
  BY Zenon DEF Inv
<1> QED
  BY <1>1, AlwaysInv, PTL

(***************************************************************************)
(* Without a cancel that overtakes an answer no money is lost or created:  *)
(* what the bank has, what was handed out and what is under way add up.    *)
(***************************************************************************)
THEOREM MoneyConservedHolds ==
  Spec => []MoneyConserved
<1>1. Inv => MoneyConserved
  BY Zenon DEF Inv
<1> QED
  BY <1>1, AlwaysInv, PTL

(***************************************************************************)
(* Every card that was taken is ejected once, or is in the machine, in all *)
(* behaviours, those with cancels at any moment included.                  *)
(***************************************************************************)
THEOREM CardsReturnedHolds ==
  Spec => []CardsReturned
<1>1. Inv => CardsReturned
  BY Zenon DEF Inv
<1> QED
  BY <1>1, AlwaysInv, PTL
=============================================================================
