CONSTANTS
  a = a
  b = b
  Threads = {t1, t2, t3}
  NoThread = NoThread
  Names = {a, b}
  Missing = Missing
  Scripts <- ShortScripts
  MAX_COMMANDS = 4
SPECIFICATION Spec
PROPERTIES Termination
CHECK_DEADLOCK FALSE
