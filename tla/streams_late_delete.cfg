SPECIFICATION Spec
CONSTANTS
  r1 = r1
  r2 = r2
  u1 = u1
  u2 = u2
  u3 = u3
  u4 = u4
  u5 = u5
  ios = ios
  android = android
  Updates = {u1, u2, u3, u4, u5}
  Streams = {ios}
  StreamOf <- OneStream
  NoUpdate = NoUpdate
  Requests = {r1, r2}
  MinRank = 3
  MaxKeep = 3
  MaxTime = 5
PROPERTIES
  DeletedPublishedLagsBehind
