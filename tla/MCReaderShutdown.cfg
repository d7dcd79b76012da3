\* The frame may be closed at any moment of an import.
SPECIFICATION MRSpec
CONSTANTS
  Main = main
  Threads = {rt}
  Requests <- MCRequests
  BlockingJobs = {pop, filename}
  OpenJob = open
  CloseJob = close
  FinalizeJob = finalize
  NoJob = null
  ShutdownMsg = shutdownMsg
  MayFail = {open, pop}
  i1 = i1
  i2 = i2
  Images = {i1, i2}
  NoImage = noImage
  PopJob = pop
  FileJob = filename
  Unreadable = {i2}
  Thumbless = {i1}
  FrameCloses = TRUE
INVARIANTS DatabaseUnusedAtExit
PROPERTIES StoppedReaderLeavesNoJob
CHECK_DEADLOCK FALSE
