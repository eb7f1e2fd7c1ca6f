SPECIFICATION Spec
CONSTANTS
  Config = {c1}
  Source = {s1}
  Part = {p1}
  Catalog <- MCCatalogShared
  ExternalId <- MCExternalId
  Unreachable = {}
  None = None
  MaxFaults = 0
PROPERTIES
  RequestKept
SYMMETRY MCSymmetry
