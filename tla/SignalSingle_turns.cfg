SPECIFICATION FairSpec
CONSTANTS
  a = a
  b = b
  Peer = {a, b}
  Lines <- MCLines
  Pair = 3
  Rest = 27
  Slot = 30
  Short = 6
  Pause = 60
  Over = 1
  Delay = 1
  MaxLines <- MCMaxLines
  Turns = TRUE
INVARIANTS TypeOK Faithful OneTalks Settled
PROPERTY LineArrives
CHECK_DEADLOCK FALSE
