SPECIFICATION FairSpec
CONSTANTS
  a1 = a1
  a2 = a2
  m1 = m1
  m2 = m2
  Assets = {a1, a2}
  Manifests = {m1, m2}
  Content <- SharedContent
  Updates = {u1}
  Publishers = {p1}
  Rollbacks = {}
  NoManifest = NoManifest
  FreshUuid = FreshUuid
PROPERTIES
  OrphanRowsReclaimed
