CONSTANTS
  NIL = NIL
  Methods <- AllMethods
SPECIFICATION Spec
INVARIANTS BufferExact ValuesArrive
CHECK_DEADLOCK FALSE
