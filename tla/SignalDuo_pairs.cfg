SPECIFICATION FairSpec
CONSTANTS
  a = a
  b = b
  Peer = {a, b}
  Lines <- MCLines
  MaxLines <- MCMaxLines
  Turns = TRUE
INVARIANTS TypeOK QueuesLinked Faithful InStep Settled
PROPERTY LineArrives
CHECK_DEADLOCK FALSE
