CONSTANTS
  CorrectPin <- MCPin
  PinLength = 2
  InitialBalance = 1
  Amount = 1
  Digits = {0, 1}
  MaxCards = 2
  MaxTypedAhead = 1
  MaxUnseen = 1

SPECIFICATION FairSpec
INVARIANTS TypeOK OneAnswer Authorised PayoutsDebited MoneyConserved CardsReturned
PROPERTIES AnswerComes
CHECK_DEADLOCK FALSE
