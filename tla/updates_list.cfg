SPECIFICATION FairListSpec
CONSTANTS
  c1 = c1
  c2 = c2
  NoCursor = NoCursor
  Updates = {1, 2, 3}
  Limit = 1
  Calls = {c1, c2}
INVARIANTS
  ListTypeOK
  ListInOrder
  NothingSkipped
PROPERTIES
  LoadingListEnds
