\* The instance of the safety run with one service thread.
CONSTANTS
  Client = client
  Runner = runner
  ServiceThreads = {s1}
  Nobody = nobody
  MaxReporters = 1
SPECIFICATION Spec
INVARIANT LegacyRunAnswers
CHECK_DEADLOCK FALSE
