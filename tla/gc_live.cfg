SPECIFICATION FairSpec
CONSTANTS
  a1 = a1
  a2 = a2
  m1 = m1
  m2 = m2
  Assets = {a1, a2}
  Manifests = {m1, m2}
  Content <- SharedContent
  Updates = {u1, u2}
  Publishers = {p1}
  Rollbacks = {b1}
  NoManifest = NoManifest
  FreshUuid = FreshUuid
INVARIANTS
  LiveUpdatesKeepObjects
PROPERTIES
  UnusedRowsReclaimed
