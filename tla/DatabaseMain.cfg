\* Only the dispatch thread uses the database.
SPECIFICATION FairSpec
CONSTANTS
  Main = main
  Threads = {}
  Requests = {r1, r2}
  BlockingJobs = {}
  OpenJob = open
  CloseJob = close
  FinalizeJob = finalize
  NoJob = null
  ShutdownMsg = shutdownMsg
  MayFail = {open, r1}
INVARIANTS FinalizedIsDrained QuitLeavesNothing
PROPERTIES ServicePromise ShutdownEnds
