CONSTANTS
  Consumers = {c1}
  HasToken = {c1}
  Operations = {TRUE, FALSE}
  InitialProducers = 2
  MaxProducers = 2
  EXPLICIT_CONSUMER_CONSUMPTION_QUOTA_BEFORE_ROTATE = 2
  MaxBulk = 2
  OffsetValues = 4
  MaxItems = 2
SPECIFICATION FairSpec
PROPERTIES
  EverybodyIsServed
