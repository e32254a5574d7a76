CONSTANTS
  spy = spy
  aapl = aapl
  msft = msft
  googl = googl
  Etfs = {spy}
  Stocks = {aapl, msft, googl}
  SectorOf <- TwoSectors
  Price <- ListPrice
  Stops = {10, 20}
  Levels = {80}
  Equity = 1000
  Allocation <- DefaultAllocation
  LLMSides = {"buy", "sell"}
  MaxOrders = 3
SPECIFICATION Spec
SYMMETRY Symmetric
INVARIANTS TypeOK TickerCapped SectorCapped
