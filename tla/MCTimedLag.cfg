SPECIFICATION AsOfSpec
CONSTANTS
  Aggregation = 2
  Lags <- MCLags
  Times <- MCTimes
  MinTime <- MCMinTime
  Values = {1, 2}
  NaN = NaN
  Missing = Missing
INVARIANTS
  ForgottenAreSuperseded
  VisibleIsAsOf
