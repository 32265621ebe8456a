SPECIFICATION Spec
CONSTANTS
  ann = ann
  visitor = visitor
  l1 = l1
  l2 = l2
  Users = {ann}
  Guests = {visitor}
  Lines = {l1, l2}
  Requests = {r1, r2, r3}
  Calls <- HandoverCalls
  StockLevels = {2}
  MaxCartItems = 1
  MaxSaveAttempts = 2
  NoCart = NoCart
SYMMETRY RequestSymmetry
PROPERTIES
  GuestItemsFollow
