CONSTANTS
  MaxClients = 1
  Conns = {c1, c2}
  Fds = {1, 2}
  Faults = {"accept", "reset", "thread"}
  Nobody = Nobody
SPECIFICATION FairSpec
INVARIANT TypeOK ServedOnce FdsAccounted
PROPERTY ImplementsAdmission HangUpEnds WaitingAdmitted
