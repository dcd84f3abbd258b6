SPECIFICATION MCSpec
CONSTANTS
  Plans = {1}
  Prices = {1, 2}
  Terms = {1, 2}
  Amounts = {1, 2}
  Edits <- Dearer
  Intervals = {"", "month"}
  Deletions = {"plan", "price", "product"}
  Requests = {p1, p2}
  Customers = {c1}
  MaxOrders = 1
  Objects <- FileNames
  KindOf <- Files
  Main = "setup"
  Required <- Windows
  Packers = {p1, p2}
SYMMETRY Symmetry
INVARIANTS
  RowsStayInOrder
  PublishedIsSound
PROPERTY OffersAreAsEntered
CHECK_DEADLOCK FALSE
