CONSTANTS
  Threads = {k1, k2}
  UI = ui
  Fds = {1, 2}
  Cap = 1
  MaxCommands = 1
  Garbage <- SomeGarbage
  Faults = {"refuse", "reset", "thread"}
  PromptEnd = TRUE
  None = None
SPECIFICATION FairSpec
INVARIANT TypeOK ReceiverServes EndPasses NumbersBack HistoryInBounds
PROPERTY ImplementsLink WindowFollows
