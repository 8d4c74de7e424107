SPECIFICATION FairDeviceSpec
CONSTANTS
  r1 = r1
  r2 = r2
  u1 = u1
  u2 = u2
  u3 = u3
  d1 = d1
  d2 = d2
  v1 = v1
  ios = ios
  android = android
  NoUpdate = NoUpdate
  StreamOf <- OneStream
  VersionOf <- OneVersion
  Versions = {v1}
  Devices = {d1, d2}
  StreamOfDevice <- AllIos
  Streams = {ios}
  Updates = {u1, u2}
  Requests = {r1, r2}
  Expecting = {d1}
  AcceptOf <- Accepts
  MinRank = 1
  MaxKeep = 1
  MaxTime = 2
  MaxKeyChanges = 1
  MaxFailures = 1
INVARIANTS
  DeviceTypeOK
  AnswersFit
PROPERTIES
  DevicesOnlyAdvance
  RefusedForAReason
  DevicesConverge
