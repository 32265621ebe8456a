-------------------------- MODULE MCDiscountEngine --------------------------
(***************************************************************************)
(* Small carts and discounts for DiscountEngine, in cents.                 *)
(***************************************************************************)
EXTENDS DiscountEngine

Line(quantity, original, effective, labels) ==
  [quantity |-> quantity, original |-> original, effective |-> effective, labels |-> labels]

CartOf(items) == [items |-> items, userSegment |-> "regular"]

\* One or two units, full price and sale price, prices in and out of order,
\* and an item that costs nothing.
SmallCarts ==
  {CartOf(<<Line(2, 3, 3, {"tea"})>>),
   CartOf(<<Line(3, 5, 5, {"tea"}), Line(1, 4, 2, {"tea"})>>),
   CartOf(<<Line(1, 8, 4, {"tea"}), Line(2, 4, 4, {"tea"})>>),
   CartOf(<<Line(1, 7, 7, {"tea"}), Line(2, 3, 3, {"tea", "cup"})>>),
   CartOf(<<Line(2, 0, 0, {"cup"}), Line(1, 3, 2, {"tea"})>>),
   CartOf(<<Line(2, 6, 6, {"cup"}), Line(1, 6, 5, {"tea"}), Line(1, 1, 1, {"tea"})>>)}

Discount(type, value, conditions, stackable, excludeOnSale, priority) ==
  [type |-> type, value |-> value, conditions |-> conditions, stackable |-> stackable,
   excludeOnSale |-> excludeOnSale, priority |-> priority]

AnyCart == [type |-> "subtotal", operator |-> "greater_than", value |-> 1, scope |-> "cart"]
Tea == [type |-> "item", value |-> "tea"]
Cup == [type |-> "item", value |-> "cup"]
ManyTeas == [type |-> "quantity", operator |-> "at_least", value |-> 2, scope |-> "matched_items"]
SmallCart == [type |-> "subtotal", operator |-> "at_most", value |-> 15, scope |-> "cart"]
Regulars == [type |-> "user_segment", value |-> "regular"]

SmallDiscounts ==
  {Discount("percentage", 50, {AnyCart}, TRUE, FALSE, 0),
   Discount("percentage", 50, {AnyCart}, FALSE, TRUE, 1),
   Discount("percentage", 70, {Tea, SmallCart}, FALSE, TRUE, 1),
   Discount("percentage", 100, {Tea, ManyTeas}, FALSE, FALSE, 0),
   Discount("fixed_amount", 5, {Regulars}, TRUE, FALSE, 0),
   Discount("fixed_amount", 9, {Tea}, TRUE, FALSE, 0),
   Discount("fixed_amount", 2, {Cup}, FALSE, FALSE, 1),
   Discount("fixed_amount", 40, {AnyCart}, FALSE, FALSE, 1),
   Discount("buy_x_get_y", [buy |-> 1, get |-> 1, percent |-> 100], {Tea}, FALSE, FALSE, 1),
   Discount("buy_x_get_y", [buy |-> 2, get |-> 1, percent |-> 50], {Tea}, TRUE, FALSE, 0),
   Discount("free_shipping", 0, {AnyCart}, TRUE, FALSE, 0)}

Use(active, inDate, left) == [active |-> active, inDate |-> inDate, left |-> left]

Usable == Use(TRUE, TRUE, 1)

\* Usable ones for every discount, and coupons that miss one thing each.
SmallCoupons ==
  {[use |-> Usable, discount |-> d, discountUse |-> Use(TRUE, TRUE, -1)] : d \in SmallDiscounts}
    \cup {[use |-> u, discount |-> d, discountUse |-> v] :
            d \in {Discount("percentage", 50, {AnyCart}, TRUE, FALSE, 0)},
            u \in {Use(FALSE, TRUE, 1), Use(TRUE, FALSE, 1), Use(TRUE, TRUE, 0), Usable},
            v \in {Use(FALSE, TRUE, -1), Use(TRUE, FALSE, -1), Use(TRUE, TRUE, 0)}}

=============================================================================
