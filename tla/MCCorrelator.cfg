SPECIFICATION TablesSpec
CONSTANTS
  Attack <- MCAttack
  Ip = {"ip1", "ip2", "ip3"}
  Source = {"s1", "s2", "s3"}
  IpOf <- MCIpOf
  SourceOf <- MCSourceOf
  OccurredAt <- MCOccurredAt
  BatchSize = 2
  MaxFaults = 1
  AddressOf <- MCAddressOf
  DayOf <- MCDayOf
  SeenBy = {{"s1", "s2"}, {"s2", "s3"}, {"s1", "s2", "s3"}}
  SeenAt = {2, 3}
  PageSize = 1
  NoLimit = NoLimit
  Filter <- MCFilter
  None = None
INVARIANTS
  TypeOK
  RegistryIsAggregate
  CountedOnce
  NoOrphanInProcessing
  NoPhantomHits
  AlertCoversItsSources
  SettledAlertIsExact
  WalkOmitsNothing
  StatisticsAddUp
  TopologyIsGraph
PROPERTIES
  CompletionPublishesAlert
  ImplementsLedger
