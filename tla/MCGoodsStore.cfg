SPECIFICATION StoreSpec
CONSTANTS
  Char <- Characters
  MaxDepth = 5
  IntLimit = 20000
  Fold <- LowerCase
  Row <- Rows3
  Tag <- Tags3
  Question <- Questions
  TimeWidth = 2
  MaxRows = 3
INVARIANTS
  PriceShown
  FindsWhatIsAsked
  FreedOnce
