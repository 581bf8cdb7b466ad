CONSTANTS
  s1 = s1  s2 = s2  c1 = c1  c2 = c2  j1 = j1  j2 = j2
  Slots = {s1, s2}
  Conns = {c1, c2}
  Jobs = {j1, j2}
  Inputs = {}
  Messages = {"run"}
  Fds = {1, 2, 3, 4, 5, 6, 7, 8, 9, 10}
  Cap = 0
  Faults = {}
  Garbage = {FALSE}
  ShellForks = FALSE
  PromptStart = TRUE
  NoSlot = NoSlot  NoJob = NoJob  Stale = Stale
SYMMETRY Alike
SPECIFICATION Spec

PROPERTY KillsOwn
