\* Two images are imported and the frame stays open.
SPECIFICATION MRFairSpec
CONSTANTS
  Main = main
  Threads = {rt}
  Requests <- MCRequests
  BlockingJobs = {pop, filename}
  OpenJob = open
  CloseJob = close
  FinalizeJob = finalize
  NoJob = null
  ShutdownMsg = shutdownMsg
  MayFail = {open}
  i1 = i1
  i2 = i2
  Images = {i1, i2}
  NoImage = noImage
  PopJob = pop
  FileJob = filename
  Unreadable = {}
  Thumbless = {i2}
  FrameCloses = FALSE
INVARIANTS PoppedImageHasFile
PROPERTIES EveryImageIsStored
