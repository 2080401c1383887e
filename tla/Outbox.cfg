CONSTANTS
  p1 = p1
  p2 = p2
  Events <- MCEvents
  Schema <- MCSchema
  SchemaOrder <- MCSchemaOrder
  Publishers = {p1, p2}
  ReadLimit = 2
  MaxRetries = 2
  WakeupBuffer = 1
  MaxFaults = 1
SPECIFICATION Spec
INVARIANTS
  TypeOK
  NoNeedlessDuplicates
PROPERTIES
  ImplementsEventDelivery
