SPECIFICATION Spec
CONSTANTS
  Event <- MCEvent
  OccurredAt <- MCOccurredAt
  Ip = {"ip1"}
  Days = {1, 9}
  Calendar = 6
  MaxTime = 2
  MaxFaults = 1
INVARIANTS
  TypeOK
PROPERTIES
  SuccessLeavesNothingExpired
  DeletesExpiredOnly
  PassReportsEveryPolicy
  ExpiredGoes
