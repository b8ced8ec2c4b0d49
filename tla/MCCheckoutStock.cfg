\* The comment on the stocks, which the code refutes.
SPECIFICATION Spec
CONSTANTS
  l1 = l1
  l2 = l2
  p1 = p1
  p2 = p2
  a1 = a1
  a2 = a2
  LineIds = {l1, l2}
  apple = apple
  pizza = pizza
  here = here
  there = there
  Products = {apple}
  Menus = {pizza}
  Price <- MCPrice
  MaxQty = 1
  MaxEdits = 0
  Devices = {d1}
  Pages = {p1}
  DeviceOf <- SameDevice
  Attempts = {a1}
  Cities = {here}
  CourseFee <- MCCourseFee
  RestaurantFee <- MCRestaurantFee
  InitialStock <- MCStock
  AutoId = AutoId
  NoLine = NoLine
  NoCity = NoCity
  NoAttempt = NoAttempt
  NoPage = NoPage
  NoOrder = NoOrder
INVARIANTS
  StockTaken
\* The pages, attempts and ids of the instance are used up in the end.
CHECK_DEADLOCK FALSE
