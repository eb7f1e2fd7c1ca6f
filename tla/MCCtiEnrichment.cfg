SPECIFICATION EnrichmentSpec
CONSTANTS
  Provider = {p1}
  Keyless = {}
  Key = {k1}
  None = None
  Thread = {t1}
  Document <- MCDocument
  Depth = 0
  Reader = {x1}
INVARIANTS
  ErrorsAreNormalised
