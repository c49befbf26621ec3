SPECIFICATION DraftFairSpec
CONSTANTS
  t1 = t1
  t2 = t2
  f = f
  g = g
  a = a
  b = b
  ha = ha
  hb = hb
  Thread = {t1, t2}
  Name = {f, g}
  Content = {a, b}
  Hash = {ha, hb}
  Md5 <- MCMd5
  NoThread = NoThread
  NoName = NoName
  NoHash = NoHash
  NoFile = NoFile
  Torn = Torn
  NoSnapshot = NoSnapshot
  Faults = {"sigterm", "hangup", "nospace"}
  MaxBoots = 2
  Quiet = TRUE
  MaxBusy = 1
INVARIANTS
  DraftTypeOK
  DraftLocked
  CopiesNamed
  DraftRestores
PROPERTIES
  DraftDirectorySpec
  ReleasedOrSpinning
CHECK_DEADLOCK FALSE
