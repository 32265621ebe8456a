SPECIFICATION Spec
CONSTANTS
  Carts <- SmallCarts
  Discounts <- SmallDiscounts
  Coupons <- SmallCoupons
  NoCoupon = NoCoupon
  MaxAutomatic = 2
INVARIANTS
  TypeOK
  CheapestUnitsAreDiscounted
  FixedAmountIsHonoured
  StackableCouponNeverHurts
  OnlyTiesDependOnOrder
  OverdrawnOnlyByStacking
  ExcludedItemsUntouched
CHECK_DEADLOCK FALSE
