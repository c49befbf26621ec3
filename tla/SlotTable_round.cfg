SPECIFICATION FairSpec
CONSTANTS
  Slots = 3
  Fd = {3, 4, 5}
  MaxAccepts = 5
  Prompt = TRUE
INVARIANTS TypeOK OwnSocket AnswersOwn
PROPERTY AcceptsAgain
CHECK_DEADLOCK FALSE
