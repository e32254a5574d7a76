CONSTANTS
  aapl = aapl
  ko = ko
  Tickers = {aapl, ko}
  Chain <- DefaultChain
  Limited = {"gemini"}
  PerMinute <- One
  PerDay <- Two
  Checked = {"ollama"}
  MinuteTicks = 1
  DayTicks = 3
  Drafts <- SomeDrafts
  MaxDrafts = 2
  MaxAnalyses = 2
SPECIFICATION FairSpec
INVARIANTS TypeOK BudgetKept QuestionBounded HighStakesReviewed
PROPERTY AnalysisEnds
