CONSTANTS
  Consumers = {"news", "filing"}
  Scans = {"trend"}
  Calendar <- LongWeekend
  LastTick = 18
SPECIFICATION Spec
INVARIANTS TypeOK BaselineOfTheDay ClosedMarketStopsTrading BreachStopsTwoDays
