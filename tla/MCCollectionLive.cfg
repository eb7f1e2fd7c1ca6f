SPECIFICATION Spec
CONSTANTS
  Event <- MCEvent
  Source = {"lure", "web"}
  SourceOf <- MCSourceOfTwo
  OccurredAt <- MCOccurredAtTwo
  KeyOf <- MCKeyOf
  Unusable = {}
  Undated = {}
  Poison = {4}
  RunnerOf <- MCRunnerOfTwo
  PageSize = 1
  MaxPages = 2
  Safety = 1
  Lookback = 4
  MaxTime = 4
  MaxDelay = 0
  MaxFaults = 0
PROPERTIES
  EventuallyStored
