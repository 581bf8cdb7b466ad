CONSTANTS
  Threads = {k1}
  UI = ui
  Fds = {1}
  Cap = 1
  MaxCommands = 1
  Garbage <- SomeGarbage
  Faults = {}
  PromptEnd = TRUE
  None = None
SPECIFICATION FairSpec
PROPERTY Responsive
