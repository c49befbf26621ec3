SPECIFICATION Spec
CONSTANTS
  Sizes <- MCSizeThree
  Counts <- MCCounts
  Segment = 800
  Pad = 8
  Patient = TRUE
INVARIANT DownloadInPlace
CHECK_DEADLOCK FALSE
