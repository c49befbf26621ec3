SPECIFICATION FairSpec
CONSTANTS
  Sizes <- MCSizes
  Counts <- MCCounts
  Segment = 800
  Pad = 8
  Patient = TRUE
INVARIANTS
  TypeOK
  NoStall
  Aligned
  Faithful
  UploadWhole
PROPERTY Answered
CHECK_DEADLOCK FALSE
