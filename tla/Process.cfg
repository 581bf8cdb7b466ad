CONSTANTS
  PortCount = 4  PortSpan = 5  DefaultPort = 2
  DefaultClients = 1  MostClients = 2
  PortArguments = {3, 4, 6}  ClientArguments = {0}
  Memory <- SomeMemory
  Numbers = {0, 1, 2, 3}
  StandardInput = {"file", "closed"}
  Slots = {s1, s2}
  Names = {"a"}
  Directories <- Tree  Home <- UserHome
  Commands = {"run"}  NoCommand = NoCommand
SPECIFICATION FairSpec
CONSTRAINT OneBoot
INVARIANT TypeOK ReadyForSlots PortKnown
PROPERTY TakesAvailable RunsAsPrompted
