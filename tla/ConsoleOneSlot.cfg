CONSTANTS
  s1 = s1  s2 = s2  c1 = c1  c2 = c2  j1 = j1  j2 = j2
  Slots = {s1}
  Conns = {c1, c2}
  Jobs = {j1, j2}
  Inputs = {}
  Messages = {"run", "cancel", "close"}
  Fds = {1, 2, 3, 4, 5, 6, 7, 8}
  Cap = 1
  Faults = {"thread", "fork"}
  Garbage = {FALSE}
  ShellForks = TRUE
  PromptStart = TRUE
  NoSlot = NoSlot  NoJob = NoJob  Stale = Stale
SYMMETRY Alike
SPECIFICATION Spec
INVARIANT TypeOK ConsoleExclusive CancelStands WaitNeverBlocks
PROPERTY ImplementsBoard ImplementsAdmission
