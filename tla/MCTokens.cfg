CONSTANTS
  Consumers = {c1, c2}
  HasToken = {c1}
  Operations = {TRUE, FALSE}
  InitialProducers = 0
  MaxProducers = 2
  EXPLICIT_CONSUMER_CONSUMPTION_QUOTA_BEFORE_ROTATE = 2
  MaxBulk = 2
  OffsetValues = 4
  MaxItems = 1
SPECIFICATION Spec
SYMMETRY Symmetry
INVARIANTS
  TypeOK
  EverybodyIsAsked
  CountIsNotZero
