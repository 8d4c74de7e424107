SPECIFICATION TrafficSpec
CONSTANTS
  a1 = a1
  a2 = a2
  t1 = t1
  q1 = q1
  q2 = q2
  e1 = e1
  e2 = e2
  d1 = d1
  m1 = m1
  m2 = m2
  k1 = k1
  k2 = k2
  k3 = k3
  None = None
  NoManifest = NoManifest
  Apps = {a1, a2}
  Tokens = {t1}
  AppOf <- TokenApps
  Requests = {q1, q2}
  Events = {e1, e2}
  EventApp <- EventApps
  Attempts = {k1, k2, k3}
  EventOf <- OldEventLast
  Devices = {d1}
  DeviceOf <- OneDevice
  Succeeded = {e1, e2}
  Manifests = {m1, m2}
  Reported <- AllReportM1
  SentManifest <- NewField
  SentUpdate <- OldField
  MaxLost = 1
SYMMETRY AlikeSlots
INVARIANTS
  EventTypeOK
  CountedOnce
  StatsCountDevices
PROPERTIES
  AppColumns
  RevocationHolds
  DeletionHolds
CHECK_DEADLOCK FALSE
