\* The text of the customer's page, which the code refutes.
SPECIFICATION Spec
CONSTANTS
  livree = livree
  u1 = u1
  u2 = u2
  o1 = o1
  o2 = o2
  a1 = a1
  a2 = a2
  Users = {u1, u2}
  OrderIds = {o1, o2}
  Admins = {a1, a2}
  MaxUpdates = 1
  Statuses = {EnCours, livree}
  EnCours = EnCours
  NoUser = NoUser
  NoOrder = NoOrder
INVARIANTS
  CustomerSeesOrders
\* Forms and pages are opened once: the model stops in the end.
CHECK_DEADLOCK FALSE
