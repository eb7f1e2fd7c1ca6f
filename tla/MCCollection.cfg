SPECIFICATION Spec
CONSTANTS
  Event <- MCEvent
  Source = {"lure"}
  SourceOf <- MCSourceOf
  OccurredAt <- MCOccurredAt
  KeyOf <- MCKeyOf
  Unusable = {3}
  Undated = {3}
  Poison = {}
  RunnerOf <- MCRunnerOf
  PageSize = 1
  MaxPages = 3
  Safety = 1
  Lookback = 2
  MaxTime = 4
  MaxDelay = 2
  MaxFaults = 2
INVARIANTS
  TypeOK
  NoGap
PROPERTIES
  SuccessAdvances
