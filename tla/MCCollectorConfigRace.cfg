SPECIFICATION Spec
CONSTANTS
  Config = {c1}
  Key = {k1, k2}
  Mail = {m1}
  None = None
  Thread = {t1, t2}
  Collector = "ogo"
INVARIANTS
  ActiveWasAccepted
SYMMETRY MCSymmetry
