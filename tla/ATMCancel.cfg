CONSTANTS
  CorrectPin <- MCPin
  PinLength = 2
  InitialBalance = 1
  Amount = 1
  Digits = {0, 1}
  MaxCards = 2
  MaxTypedAhead = 1
  MaxUnseen = 1

SPECIFICATION Spec
INVARIANT NoMoneyCreated
CHECK_DEADLOCK FALSE
