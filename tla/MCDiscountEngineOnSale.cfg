SPECIFICATION Spec
CONSTANTS
  Carts <- SmallCarts
  Discounts <- SmallDiscounts
  Coupons <- SmallCoupons
  NoCoupon = NoCoupon
  MaxAutomatic = 2
INVARIANTS
  OnSaleItemsExcluded
CHECK_DEADLOCK FALSE
