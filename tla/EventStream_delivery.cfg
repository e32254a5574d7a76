CONSTANTS
  a = a
  b = b
  c = c
  d = d
  e = e
  Feed <- TwoFeeds
  Parts <- TwoTickers
  Batch <- Batches
  MaxLen = 2
  NoItem = NoItem
  MaxFaults = 2
  MaxFlips = 2
SPECIFICATION FairSpec
INVARIANTS TypeOK AnalyzedOnce PendingInHand NothingLost
PROPERTIES NewsIsTaken ImplementsDelivery
