CONSTANTS
  Prices <- SomePrices
  Levels <- SomeLevels
  Equities <- SomeEquities
  PriceFloor = 2500
SPECIFICATION Spec
INVARIANTS TypeOK BracketsEntry WithinBands RiskBounded ExposureBounded
