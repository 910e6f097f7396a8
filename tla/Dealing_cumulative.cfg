SPECIFICATION Spec
CONSTANTS
  Stocks = {"a", "b"}
  Unit = 10
  Scale = 10
  Markets <- MCMarkets
  Decisions <- MCDecisions
  Impacts = {0, 1}
  Configs <- MCConfigs
  Portfolios <- MCPortfolios
  None = None
  BarsPerDay = 2
  MaxBars = 3
INVARIANTS
  FirstOrderDealt
CHECK_DEADLOCK FALSE
