SPECIFICATION LogFairSpec
CONSTANTS
  l1 = l1
  l2 = l2
  Loggers = {l1, l2}
  m_pool = {w1, w2}
  MaxNum = 1
  MaxLines = 2
  LevelOf <- MCLevelOf
  LoggerLevel = 1
  Appends <- MCAppends
  Letters = {"m", "n", "p", "d", "c", "t", "f", "l", "T", "F", "Y", "H", "M", "S"}
  Patterns <- MCPatterns
INVARIANTS
  FormatsRead
  LinesWrittenOnce
  NoWorkerSleepsOnWork
PROPERTIES
  AcceptedLinesWritten
  ShutdownEnds
\* The program stops when it has logged MaxLines, and may hang at exit.
CHECK_DEADLOCK FALSE
