SPECIFICATION Spec
CONSTANTS
  KeyIds = {k1, k2, k3}
  Requests = {r1}
  NoKey = NoKey
  MaxRows = 4
INVARIANTS
  SingleActiveKey
