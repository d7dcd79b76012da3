\* A blocking call of the reader races with finalize().
SPECIFICATION MRFairSpec
CONSTANTS
  Main = main
  Threads = {rt}
  Requests <- MCRequests
  BlockingJobs = {pop, filename}
  OpenJob = open
  CloseJob = close
  FinalizeJob = finalize
  NoJob = null
  ShutdownMsg = shutdownMsg
  MayFail = {}
  i1 = i1
  i2 = i2
  Images = {i1}
  NoImage = noImage
  PopJob = pop
  FileJob = filename
  Unreadable = {}
  Thumbless = {}
  FrameCloses = TRUE
PROPERTIES PendingGetDispatched
CHECK_DEADLOCK FALSE
