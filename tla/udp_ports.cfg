SPECIFICATION Spec
CONSTANTS
  MaxUdp = 3
  Port = {13, 80}
  Handler = {h1, h2}
  NoHandler = NoHandler
INVARIANTS
  TypeOK
  PortUnique
PROPERTY
  ServiceSpec
CHECK_DEADLOCK FALSE
