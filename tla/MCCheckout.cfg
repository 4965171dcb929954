SPECIFICATION FairSpec
CONSTANTS
  Phone = {5, 6}
  DisplayConn = 4
  Number = 1
  Cup = Cup
  Gift = Gift
  Tag <- MCTag
  Price <- MCPrice
  DbMayFail = TRUE
  MaxActs = 3
  MaxTyped = 1
  MaxSaid = 2
INVARIANTS
  BilledOnce
  ConfirmedToAsker
PROPERTIES
  ImplementsBillBook
  PaymentAnswered
CHECK_DEADLOCK FALSE
