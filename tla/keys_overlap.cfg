SPECIFICATION Spec
CONSTANTS
  KeyIds = {k1, k2, k3}
  Requests = {r1, r2}
  NoKey = NoKey
  MaxRows = 4
SYMMETRY Alike
INVARIANTS
  TypeOK
  OnlyNewestEnabled
PROPERTIES
  OnlyReadRowsChange
  EnableLeavesOneKey
