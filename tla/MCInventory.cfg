SPECIFICATION Spec
CONSTANTS
  Config = {c1, c2}
  Source = {s1}
  Part = {p1, p2}
  Catalog <- MCCatalogShared
  ExternalId <- MCExternalId
  Unreachable = {}
  None = None
  MaxFaults = 1
INVARIANTS
  TypeOK
PROPERTIES
  ServedIsComplete
  CleanInventoryKeeps
  OwnerKept
SYMMETRY MCSymmetry
