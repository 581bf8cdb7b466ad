CONSTANTS
  MaxSends = 4
  MaxOutput = 1
  Patient = TRUE
SPECIFICATION FairSpec
CONSTRAINT Whole
INVARIANT MessagesApart NothingDropped AllShown WireInv
PROPERTY ImplementsDialogue EndArrives
CHECK_DEADLOCK FALSE
