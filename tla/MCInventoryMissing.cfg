SPECIFICATION Spec
CONSTANTS
  Config = {c1}
  Source = {s1}
  Part = {p1, p2}
  Catalog <- MCCatalogShared
  ExternalId <- MCExternalId
  Unreachable = {}
  None = None
  MaxFaults = 1
PROPERTIES
  OnlyMissingDeactivated
SYMMETRY MCSymmetry
