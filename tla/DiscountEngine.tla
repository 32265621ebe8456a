-------------------------- MODULE DiscountEngine --------------------------
(***************************************************************************)
(* DiscountEngine.evaluate after its reads: which of the candidate         *)
(* discounts match a cart, which of them apply, and the prices they lead   *)
(* to.  The candidates are the automatic discounts and, last, the one of a *)
(* coupon that can be used.  Money is in cents.  The code's prices are     *)
(* real numbers until round2; here a calculation says how much it takes    *)
(* off a whole line, as a numerator over its scale, so nothing is rounded  *)
(* before the code does.  A scale of zero is a division by zero, which     *)
(* gives NaN.  Floating point error is left out.                           *)
(***************************************************************************)
EXTENDS Integers, Sequences, FiniteSetsExt

CONSTANTS
  Carts,           \* cart contexts a caller may pass: [items, userSegment]
  Discounts,       \* discounts that pass DiscountEntity.validate
  Coupons,         \* coupons a code may name: [use, discount, discountUse]
  NoCoupon,        \* no code, or one that names no coupon
  MaxAutomatic     \* bound: longest list of automatic discounts

VARIABLES
  cart,            \* the cart context of the request
  automatic,       \* the automatic discounts, in the order they were found in
  coupon,          \* what the code of the request names
  answer           \* what evaluate returns

vars == <<cart, automatic, coupon, answer>>

NoAnswer == [prices |-> << >>]

Init ==
  /\ cart \in Carts
  /\ automatic \in UNION {[1 .. n -> Discounts] : n \in 0 .. MaxAutomatic}
  /\ coupon \in Coupons \cup {NoCoupon}
  /\ answer = NoAnswer

-----------------------------------------------------------------------------
\* What a discount can be.

Operators == [subtotal |-> {"at_least", "at_most", "greater_than", "less_than"},
              quantity |-> {"equals", "at_least", "at_most", "greater_than", "less_than"}]

\* Which items a sum covers
Scopes == {"cart", "matched_items"}

\* The value objects of conditions on an item, whose product, variant, category
\* and tag are labels alike, on the customer, and on sums over the items.
IsItemCondition(k) == k.type = "item"

IsSegmentCondition(k) == k.type = "user_segment"

IsSubtotalCondition(k) ==
  k.type = "subtotal" /\ k.operator \in Operators.subtotal /\ k.value > 0 /\ k.scope \in Scopes

\* No cart has less than one unit.
IsQuantityCondition(k) ==
  /\ k.type = "quantity" /\ k.operator \in Operators.quantity /\ k.scope \in Scopes
  /\ k.value > IF k.operator = "less_than" THEN 1 ELSE 0

IsCondition(k) ==
  IsItemCondition(k) \/ IsSegmentCondition(k) \/ IsSubtotalCondition(k) \/ IsQuantityCondition(k)

ItemConditions(d) == {k \in d.conditions : k.type = "item"}

IsValue(d) ==
  CASE d.type = "percentage" -> d.value \in 0 .. 100
    [] d.type = "fixed_amount" -> d.value \in Nat
    [] d.type = "free_shipping" -> d.value = 0 /\ ItemConditions(d) = {}
    [] d.type = "buy_x_get_y" -> /\ {d.value.buy, d.value.get} \subseteq Nat \ {0}
                                 /\ d.value.percent \in 0 .. 100
                                 /\ ItemConditions(d) # {}

\* validate of DiscountEntity; that a single product is to be marked down
\* instead is left out, since labels do not say what they label.
IsDiscount(d) ==
  /\ d.type \in {"percentage", "fixed_amount", "free_shipping", "buy_x_get_y"}
  /\ IsValue(d)
  /\ d.conditions # {}
  /\ \A k \in d.conditions :
       /\ IsCondition(k)
       /\ k.type \in {"subtotal", "quantity"} /\ k.scope = "matched_items" => ItemConditions(d) # {}
  /\ d.priority \in 0 .. 3

\* A line of a cart has at least one unit.  A price may be zero, and a sale
\* price is never above the original one (applyMarkdown).
IsItem(item) ==
  /\ item.quantity \in Nat \ {0}
  /\ item.original \in Nat
  /\ item.effective \in 0 .. item.original

ASSUME CartsAssumption ==
  \A c \in Carts : c.items \in Seq(Range(c.items)) /\ \A i \in DOMAIN c.items : IsItem(c.items[i])

ASSUME DiscountsAssumption ==
  /\ \A d \in Discounts : IsDiscount(d)
  /\ \A c \in Coupons : c.discount \in Discounts

-----------------------------------------------------------------------------
\* Coupons.  use says of a coupon or a discount whether it is active, whether
\* today is within its dates, and how often it may still be used; a negative
\* number stands for no limit.

IsActive(use) == use.active /\ use.inDate /\ use.left # 0

\* A coupon that cannot be used is ignored without a word.
ResolveCouponDiscount ==
  IF coupon # NoCoupon /\ IsActive(coupon.use) /\ IsActive(coupon.discountUse)
  THEN <<coupon.discount>> ELSE << >>

Candidates == automatic \o ResolveCouponDiscount

-----------------------------------------------------------------------------
\* Sets of items are sets of their positions in cart.items.

Items(c) == DOMAIN c.items

Item(c, i) == c.items[i]

OnSale(c, i) == Item(c, i).effective # Item(c, i).original

Value(c, S) == SumFunction([i \in S |-> Item(c, i).effective * Item(c, i).quantity])

Units(c, S) == SumFunction([i \in S |-> Item(c, i).quantity])

Compare(actual, operator, expected) ==
  \/ operator = "equals" /\ actual = expected
  \/ operator = "at_least" /\ actual >= expected
  \/ operator = "at_most" /\ actual <= expected
  \/ operator = "greater_than" /\ actual > expected
  \/ operator = "less_than" /\ actual < expected

\* A subtotal or quantity condition sums over the items of its scope.
Passes(k, c, eligible, matched) ==
  LET summed == IF k.type # "user_segment" /\ k.scope = "matched_items" THEN matched ELSE eligible
  IN \/ k.type = "subtotal" /\ Compare(Value(c, summed), k.operator, k.value)
     \/ k.type = "quantity" /\ Compare(Units(c, summed), k.operator, k.value)
     \/ k.type = "user_segment" /\ c.userSegment = k.value

\* Mutant: excludeOnSale is not looked at.
AllEligible(d, c) == Items(c)

Eligible(d, c) == {i \in Items(c) : d.excludeOnSale => ~OnSale(c, i)}

\* The eligible items that every item condition selects, by product, variant,
\* category or tag: value is one of the item's labels.
Selected(d, c) ==
  {i \in Eligible(d, c) : \A k \in ItemConditions(d) : k.value \in Item(c, i).labels}

Matches(d, c) ==
  /\ ItemConditions(d) # {} => Selected(d, c) # {}
  /\ \A k \in d.conditions \ ItemConditions(d) : Passes(k, c, Eligible(d, c), Selected(d, c))

\* Empty for a discount without item conditions, which is cart-level.
MatchedItems(d, c) == IF ItemConditions(d) = {} THEN {} ELSE Selected(d, c)

-----------------------------------------------------------------------------
\* DiscountCalculator.  off[i] / scale is taken off the line of item i as a
\* whole, cart is the amount taken off the cart.

\* A cart-level percentage applies to every item.  It is a share of the
\* original price, so a markdown that is lower still stands.
Percentage(d, c) ==
  LET S == IF MatchedItems(d, c) = {} THEN Items(c) ELSE MatchedItems(d, c)
  IN [off |-> [i \in S |-> Item(c, i).quantity *
                 Max({0, 100 * Item(c, i).effective - (100 - d.value) * Item(c, i).original})],
      scale |-> 100, cart |-> 0]

\* Mutant: the cart amount is not capped.
UncappedAmount(d, c) == d.value

CartAmount(d, c) == Min({d.value, Value(c, Items(c))})

\* Mutant: the share of a line is taken off each of its units.
SharePerUnit(d, c, S, i) ==
  Item(c, i).quantity * Item(c, i).effective * Min({Value(c, S), d.value * Item(c, i).quantity})

\* Mutant: an amount above the value of the items drives prices below zero.
ShareBelowZero(d, c, S, i) == Item(c, i).quantity * Item(c, i).effective * d.value

\* A line's share of the amount, in proportion to its value; no price falls
\* below zero.  The scale is the value of all items.
Share(d, c, S, i) ==
  Item(c, i).quantity * Item(c, i).effective * Min({Value(c, S), d.value})

FixedAmount(d, c) ==
  LET S == MatchedItems(d, c)
  IN IF S = {}
     THEN [off |-> << >>, scale |-> 1, cart |-> CartAmount(d, c)]
     ELSE [off |-> [i \in S |-> Share(d, c, S, i)], scale |-> Value(c, S), cart |-> 0]

\* The units of the complete sets that are sold at a discount.
DiscountedCount(d, c, S) ==
  (Units(c, S) \div (d.value.buy + d.value.get)) * d.value.get

\* Mutant: the first units in the cart rather than the cheapest.
InCartOrder(c, S, i) == {j \in S : j < i}

\* Items whose units come before those of i in the sorted list of units.
SortedBefore(c, S, i) ==
  {j \in S : \/ Item(c, j).effective < Item(c, i).effective
             \/ Item(c, j).effective = Item(c, i).effective /\ j < i}

BuyXGetY(d, c) ==
  LET S == MatchedItems(d, c)
      left(i) == DiscountedCount(d, c, S) - Units(c, SortedBefore(c, S, i))
      hit(i) == Max({0, Min({Item(c, i).quantity, left(i)})})
  IN [off |-> [i \in {j \in S : hit(j) > 0} |-> hit(i) * Item(c, i).effective * d.value.percent],
      scale |-> 100, cart |-> 0]

Calculate(d, c) ==
  CASE d.type = "percentage" -> Percentage(d, c)
    [] d.type = "fixed_amount" -> FixedAmount(d, c)
    [] d.type = "buy_x_get_y" -> BuyXGetY(d, c)
    [] d.type = "free_shipping" -> [off |-> << >>, scale |-> 1, cart |-> 0]

-----------------------------------------------------------------------------
\* The choice among the discounts that match, and the answer.

\* measureSavings, over the scale of the calculation.
Savings(r) == SumFunction(r.off) + r.cart * r.scale

\* Never true of NaN, on either side.
SavesMore(r, s) == Savings(r) * s.scale > Savings(s) * r.scale

ValueMatches(c, ds) == {k \in DOMAIN ds : Matches(ds[k], c) /\ ds[k].type # "free_shipping"}

Stackable(c, ds) == {k \in ValueMatches(c, ds) : ds[k].stackable}

HighestPriority(ds, S) == {k \in S : \A j \in S : ds[j].priority <= ds[k].priority}

\* The non-stackable discounts of the highest priority that matches.
TopTier(c, ds) == HighestPriority(ds, ValueMatches(c, ds) \ Stackable(c, ds))

Results(c, ds) == [k \in TopTier(c, ds) |-> Calculate(ds[k], c)]

\* Mutant: the first of the tier wins, whatever it saves.
FirstWins(c, ds) == {k \in TopTier(c, ds) : \A j \in TopTier(c, ds) : k <= j}

\* A saving of NaN, a share of items that cost nothing, is kept when it comes
\* first and passed over elsewhere.
Contenders(results) ==
  {k \in DOMAIN results : results[k].scale # 0 \/ \A j \in DOMAIN results : k <= j}

\* The one of S that saves most, and the first of those that save as much.
Best(results, S) ==
  {k \in S : \A j \in S \ {k} :
     \/ SavesMore(results[k], results[j])
     \/ k < j /\ ~SavesMore(results[j], results[k])}

Winner(c, ds) == Best(Results(c, ds), Contenders(Results(c, ds)))

Applied(c, ds) == Stackable(c, ds) \cup Winner(c, ds)

\* round2 of n / d: half a cent is rounded up.
Round2(n, d) == (2 * n + d) \div (2 * d)

\* The price of item i when r alone applies; NaN is not below any price.
PriceUnder(r, c, i) ==
  LET whole == r.scale * Item(c, i).quantity
  IN IF whole = 0 THEN Item(c, i).effective
     ELSE Round2(Item(c, i).effective * whole - r.off[i], whole)

\* Mutant: the last discount that touches an item sets its price.
LastPrice(c, ds, i) ==
  LET touching == {k \in Applied(c, ds) : i \in DOMAIN Calculate(ds[k], c).off}
  IN IF touching = {} THEN Item(c, i).effective
     ELSE PriceUnder(Calculate(ds[Max(touching)], c), c, i)

\* Discounts of one item do not add up: the lowest price any of them gives.
FinalPrice(c, ds, i) ==
  LET touching == {k \in Applied(c, ds) : i \in DOMAIN Calculate(ds[k], c).off}
  IN Min({Item(c, i).effective} \cup {PriceUnder(Calculate(ds[k], c), c, i) : k \in touching})

\* Discounts of the cart do.
CartDiscountAmount(c, ds) == SumFunction([k \in Applied(c, ds) |-> Calculate(ds[k], c).cart])

Answer(c, ds) ==
  LET prices == [i \in Items(c) |-> FinalPrice(c, ds, i)]
      saved == [i \in Items(c) |-> (Item(c, i).original - prices[i]) * Item(c, i).quantity]
      amount == CartDiscountAmount(c, ds)
  IN [prices |-> prices,
      cartDiscountAmount |-> amount,
      totalSavings |-> SumFunction(saved) + amount,
      shippingFree |-> \E k \in DOMAIN ds : Matches(ds[k], c) /\ ds[k].type = "free_shipping",
      appliedDiscounts |-> Applied(c, ds)]

Evaluate ==
  /\ answer = NoAnswer
  /\ answer' = Answer(cart, Candidates)
  /\ UNCHANGED <<cart, automatic, coupon>>

Next == Evaluate

Spec == Init /\ [][Next]_vars

-----------------------------------------------------------------------------
\* Properties.

Answered == answer # NoAnswer

\* What the customer is spared against the effective prices.
Given(c, a) ==
  SumFunction([i \in Items(c) |-> (Item(c, i).effective - a.prices[i]) * Item(c, i).quantity])
    + a.cartDiscountAmount

\* Prices are never negative and never above what the item costs without a
\* discount, whatever discounts meet (evaluate, applyFixedAmount).
TypeOK ==
  Answered =>
    /\ \A i \in Items(cart) : answer.prices[i] \in 0 .. Item(cart, i).effective
    /\ answer.cartDiscountAmount \in Nat
    /\ answer.totalSavings \in Nat

\* All ways to choose n units of the items in S.
UnitChoices(c, S, n) ==
  {f \in [S -> 0 .. n] : SumFunction(f) = n /\ \A i \in S : f[i] <= Item(c, i).quantity}

\* applyBuyXGetY, with its expanded and sorted list of units, discounts the
\* units that are worth least of all units it could choose.
CheapestUnitsAreDiscounted ==
  \A k \in DOMAIN Candidates :
    LET d == Candidates[k]
        S == MatchedItems(d, cart)
        Worth(f) == SumFunction([i \in S |-> f[i] * Item(cart, i).effective])
    IN d.type = "buy_x_get_y" /\ Matches(d, cart) =>
         Savings(Calculate(d, cart)) =
           d.value.percent * Min({Worth(f) : f \in UnitChoices(cart, S, DiscountedCount(d, cart, S))})

\* A fixed amount alone gives the amount it names, or everything it covers if
\* that is less; rounding the price of a unit moves it by at most half a cent
\* for each unit (applyFixedAmount, evaluate).
FixedAmountIsHonoured ==
  \A k \in DOMAIN Candidates :
    LET d == Candidates[k]
        S == IF MatchedItems(d, cart) = {} THEN Items(cart) ELSE MatchedItems(d, cart)
        error == Given(cart, Answer(cart, <<d>>)) - Min({d.value, Value(cart, S)})
    IN d.type = "fixed_amount" /\ Matches(d, cart) =>
         2 * error \in -Units(cart, S) .. Units(cart, S)

\* A coupon for a stackable discount never makes an item or the cart dearer
\* than without the code.  (One that is not stackable may: its discount can
\* outrank a better automatic one.)
StackableCouponNeverHurts ==
  Answered /\ coupon # NoCoupon /\ coupon.discount.stackable =>
    LET without == Answer(cart, automatic)
    IN /\ \A i \in Items(cart) : answer.prices[i] <= without.prices[i]
       /\ answer.totalSavings >= without.totalSavings

Reversed == [k \in DOMAIN Candidates |-> Candidates[Len(Candidates) + 1 - k]]

Tied ==
  \E j, k \in TopTier(cart, Candidates) :
    /\ Candidates[j] # Candidates[k]
    /\ ~SavesMore(Calculate(Candidates[j], cart), Calculate(Candidates[k], cart))
    /\ ~SavesMore(Calculate(Candidates[k], cart), Calculate(Candidates[j], cart))

\* findAllActiveAutomatic does not sort.  The order in which the database
\* happens to return the discounts decides between exclusive discounts of one
\* priority and equal savings, or savings of which one is NaN, and nothing else.
OnlyTiesDependOnOrder ==
  Answered /\ ~Tied =>
    LET other == Answer(cart, Reversed)
    IN /\ other.prices = answer.prices
       /\ other.cartDiscountAmount = answer.cartDiscountAmount

\* The discounts exceed the value of the cart only when a cart-level fixed
\* amount, which is capped on its own, is applied together with another one.
OverdrawnOnlyByStacking ==
  Answered /\ Given(cart, answer) > Value(cart, Items(cart)) =>
    \E j, k \in answer.appliedDiscounts :
      /\ j # k
      /\ Candidates[j].type = "fixed_amount" /\ MatchedItems(Candidates[j], cart) = {}

Spares(d) == d.excludeOnSale /\ (ItemConditions(d) # {} \/ d.type = "fixed_amount")

\* Discounts that exclude sale items leave the prices of these alone when they
\* have item conditions or are fixed amounts.
ExcludedItemsUntouched ==
  Answered /\ (\A k \in answer.appliedDiscounts : Spares(Candidates[k])) =>
    \A i \in Items(cart) : OnSale(cart, i) => answer.prices[i] = Item(cart, i).effective

\* The same of every discount that excludes sale items: the claim of the unit
\* test "excludes on-sale items when excludeOnSale is true".
OnSaleItemsExcluded ==
  Answered /\ (\A k \in answer.appliedDiscounts : Candidates[k].excludeOnSale) =>
    \A i \in Items(cart) : OnSale(cart, i) => answer.prices[i] = Item(cart, i).effective

=============================================================================
