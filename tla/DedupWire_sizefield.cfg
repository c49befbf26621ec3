SPECIFICATION Spec
CONSTANTS
  Sizes <- MCSizeByte
  Counts <- MCCounts
  Segment = 800
  Pad = 8
  Patient = TRUE
INVARIANT UploadWhole
CHECK_DEADLOCK FALSE
