SPECIFICATION ArraySpec
CONSTANTS
  Lines = {l1, l2, l3, l4}
  MaxCartItems = 3
  MaxQuantity = 2
INVARIANTS
  LoopMergesAsSpecified
