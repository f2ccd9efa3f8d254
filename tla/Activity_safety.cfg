SPECIFICATION Spec
CONSTANTS
  u1 = u1
  u2 = u2
  y1 = y1
  Users <- MCUsers
  YearOf <- MCYearOf
  Subscribers <- MCUsers
  Creator = creator
  Admins = {admin}
  Groups = {g1}
  Home = g1
  Broadcasters = {b1, b2}
  Capacities = {1}
  Deadlines = {1}
  Unlimited = Unlimited
  None = None
  DailyLimit = 0
  MaxTime = 1
  MaxHeld = 1
  MaxQueue = 0
  MaxEdits = 2
  MaxCrashes = 1
SYMMETRY Symmetry
CHECK_DEADLOCK FALSE
INVARIANTS PlacesAreKept FairQueue DiskCatchesUp PromotedHear
