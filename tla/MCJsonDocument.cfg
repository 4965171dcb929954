SPECIFICATION DocSpec
CONSTANTS
  Char <- Characters
  MaxDepth = 5
  Key <- TwoKeys
  Text <- Tricky
  Number <- Numbers
  MaxKids = 2
  MaxInner = 1
INVARIANTS
  ReadsBack
  BufferFits
  ActsAsContent
