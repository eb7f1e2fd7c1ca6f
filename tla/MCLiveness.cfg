SPECIFICATION LivenessSpec
CONSTANTS
  None = None
PROPERTIES
  EveryAttackSettles
  EventuallyServed
  ConflictKeepsRequest
