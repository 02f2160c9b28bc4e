SPECIFICATION Spec
CONSTANTS
  Values = {1, 2}
  Worlds <- MCWorlds
CHECK_DEADLOCK FALSE
INVARIANTS ObjectsTypeOK LinearOrders PropertiesUncovered
PROPERTIES ActsAsPython ClassesComeToBe
