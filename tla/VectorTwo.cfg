CONSTANTS
  a = a
  b = b
  Threads = {t1, t2}
  NoThread = NoThread
  Names = {a, b}
  Missing = Missing
  Scripts <- MCScripts
  MAX_COMMANDS = 4
SPECIFICATION Spec
INVARIANTS TakenInOrder CreatesFollowFile FinalTree
PROPERTIES Termination
