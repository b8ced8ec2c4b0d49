\* Two customers, one order, two pages with two updates each on their way.
SPECIFICATION FairSpec
CONSTANTS
  livree = livree
  u1 = u1
  u2 = u2
  o1 = o1
  o2 = o2
  a1 = a1
  a2 = a2
  Users = {u1, u2}
  OrderIds = {o1}
  Admins = {a1, a2}
  MaxUpdates = 2
  Statuses = {EnCours, livree}
  EnCours = EnCours
  NoUser = NoUser
  NoOrder = NoOrder
INVARIANTS
  TypeOK
  LastWriterSees
  NoOrderMissed
PROPERTIES
  PicksAreNotLost
  PickedIsShown
\* Forms and pages are opened once: the model stops in the end.
CHECK_DEADLOCK FALSE
