CONSTANTS
  Keys = {1, 2, 3, 4, 5}
  INumbers = {1, 2}
SPECIFICATION Spec
INVARIANTS Represents SearchFindsLast FreedOnce
PROPERTIES ReinsertKeepsShape
