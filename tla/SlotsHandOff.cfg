CONSTANTS
  MaxClients = 1
  Conns = {c1, c2, c3}
  Fds = {1, 2, 3}
  Faults = {"accept", "reset"}
  Nobody = Nobody
SYMMETRY Alike
SPECIFICATION Spec
INVARIANT OwnSlot
