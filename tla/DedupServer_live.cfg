SPECIFICATION FairSpec
CONSTANTS
  t1 = t1
  t2 = t2
  f = f
  g = g
  k = k
  a = a
  b = b
  ha = ha
  hb = hb
  Thread = {t1, t2}
  Name = {f}
  Content = {a, b}
  Hash = {ha, hb}
  Md5 <- MCMd5
  NoThread = NoThread
  NoName = NoName
  NoHash = NoHash
  NoFile = NoFile
  Torn = Torn
  NoSnapshot = NoSnapshot
  Faults = {"hangup", "nospace"}
  MaxBoots = 1
PROPERTY LockReleased
CHECK_DEADLOCK FALSE
