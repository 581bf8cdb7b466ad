CONSTANTS
  Windows = {w1}
  Ids = {p1, p2}
  Faults = {"open", "write", "kill"}
  Blank = Blank
  Edited = Edited
SYMMETRY Alike
SPECIFICATION Spec
INVARIANT TypeOK OneDefault FieldsFollow Kept
PROPERTY Restores
