\* Two background threads make blocking and asynchronous calls too.
SPECIFICATION Spec
CONSTANTS
  Main = main
  Threads = {t1, t2}
  Requests = {r1}
  BlockingJobs = {b1, b2}
  OpenJob = open
  CloseJob = close
  FinalizeJob = finalize
  NoJob = null
  ShutdownMsg = shutdownMsg
  MayFail = {open, b1}
INVARIANTS NoLostWakeup OnePlace BlockedJobIsHeld AnswersAreResults
PROPERTIES ServiceOrder
