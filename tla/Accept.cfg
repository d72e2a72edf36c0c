CONSTANTS
  MAX_CLIENTS = 3
  Main = Main
  None = None
SPECIFICATION Spec
INVARIANTS TypeOK LateOnly
PROPERTIES Stops
