SPECIFICATION FairSpec
CONSTANTS
  u1 = u1
  u2 = u2
  Updates = {u1, u2}
  Elsewhere = Elsewhere
  None = None
  MaxScopes = 3
  MaxPolls = 2
  MaxTime = 1
INVARIANTS
  TypeOK
  ShownIsCurrent
  PollsWhatIsShown
PROPERTIES
  LiveDataAdvances
  LoadingEnds
