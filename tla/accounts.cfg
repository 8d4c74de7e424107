SPECIFICATION FairAccountSpec
CONSTANTS
  admin = admin
  Admin = Admin
  p1 = p1
  p2 = p2
  q1 = q1
  q2 = q2
  NoRow = NoRow
  Names = {admin, Admin}
  Lower <- ToLower
  Passwords = {p1, p2}
  InitialName = Admin
  InitialPassword = p1
  Requests = {q1, q2}
INVARIANTS
  AccountTypeOK
PROPERTIES
  AccountColumns
  LockoutHolds
  DisabledUsersRunOut
CHECK_DEADLOCK FALSE
