SPECIFICATION FairSpec
CONSTANTS
  First = d1
  Second = d2
  Disks <- MCDisks
  None = None
  Polls = {p1}
  Users = {u1, u2}
  Bounds <- MCBounds
INVARIANTS
  TypeOK
  ButtonsFollowCalls
  NeverShownOverEarly
PROPERTIES
  PageCatchesUp
