\* One customer: what is on the screen after an order.
SPECIFICATION Spec
CONSTANTS
  Accounts = {ann}
  Admins = {}
  Nobody = Nobody
  Unheard = Unheard
  MaxDepth = 2
  MaxQueue = 2
  MaxCalls = 1
INVARIANTS
  AlwaysAPage
