SPECIFICATION Spec
CONSTANTS
  Pcs = {p1}
  Streams = {s1, s2}
  Sources = {v1}
  Users = {u1}
  Factories = {f1, f2}
  Null = Null
  MaxReferences = 6
CHECK_DEADLOCK FALSE
INVARIANTS
  FactoryInv
  ReleasesCovered
  AddressesHeld
