----------------------- MODULE DiscountEngineProofs -----------------------
(***************************************************************************)
(* Theorems about DiscountEngine, for any carts, discounts and coupons.    *)
(***************************************************************************)
EXTENDS DiscountEngine, FiniteFolds

-----------------------------------------------------------------------------
\* Rounding.

LEMMA Quotient ==
  ASSUME NEW a \in Int, NEW b \in Nat \ {0}
  PROVE  /\ a \div b \in Int
         /\ b * (a \div b) <= a
         /\ a < b * (a \div b) + b
OBVIOUS

\* Products of a factor that is at least one.
LEMMA Scales ==
  ASSUME NEW a \in Int, NEW b \in Int, NEW k \in Nat \ {0}
  PROVE  /\ k * a <= k * b <=> a <= b
         /\ k * a < k * b <=> a < b
OBVIOUS

\* A fraction between zero and p is rounded to a number between zero and p.
LEMMA RoundingStays ==
  ASSUME NEW d \in Nat \ {0}, NEW p \in Nat, NEW n \in 0 .. p * d
  PROVE  Round2(n, d) \in 0 .. p
<1> DEFINE q == (2 * n + d) \div (2 * d)
<1>0. 2 * n + d \in Int /\ 2 * d \in Nat \ {0} /\ p * d \in Int
  OBVIOUS
<1>1. q \in Int /\ (2 * d) * q <= 2 * n + d /\ 2 * n + d < (2 * d) * q + 2 * d
  BY <1>0, Quotient
<1> HIDE DEF q
<1>2. q < p + 1
  <2>1. (2 * d) * q < (2 * d) * (p + 1)
    <3>1. (2 * d) * q <= 2 * (p * d) + d
      BY <1>0, <1>1
    <3>2. (2 * d) * (p + 1) = 2 * (p * d) + 2 * d
      OBVIOUS
    <3> QED BY <1>0, <1>1, <3>1, <3>2
  <2> QED BY <1>0, <1>1, <2>1, Scales
<1>3. q > -1
  <2>1. (2 * d) * (-1) < (2 * d) * q
    BY <1>0, <1>1
  <2> QED BY <1>0, <1>1, <2>1, Scales
<1> QED BY <1>1, <1>2, <1>3 DEF Round2, q

\* Rounding moves a fraction by half at most.
LEMMA RoundingError ==
  ASSUME NEW d \in Nat \ {0}, NEW n \in Int
  PROVE  /\ Round2(n, d) \in Int
         /\ 2 * (d * Round2(n, d)) <= 2 * n + d
         /\ 2 * n - d <= 2 * (d * Round2(n, d))
<1> DEFINE q == (2 * n + d) \div (2 * d)
<1>0. 2 * n + d \in Int /\ 2 * d \in Nat \ {0}
  OBVIOUS
<1>1. q \in Int /\ (2 * d) * q <= 2 * n + d /\ 2 * n + d < (2 * d) * q + 2 * d
  BY <1>0, Quotient
<1> HIDE DEF q
<1>2. (2 * d) * q = 2 * (d * q)
  BY <1>1
<1>3. d * q \in Int
  BY <1>1
<1>4. 2 * (d * q) <= 2 * n + d /\ 2 * n - d <= 2 * (d * q)
  BY <1>1, <1>2, <1>3
<1> QED BY <1>1, <1>4 DEF Round2, q

-----------------------------------------------------------------------------
\* Carts.

IsCart(c) == c.items \in Seq(Range(c.items)) /\ \A i \in DOMAIN c.items : IsItem(c.items[i])

LEMMA CartItems ==
  ASSUME NEW c, IsCart(c)
  PROVE  /\ Items(c) \subseteq Nat /\ IsFiniteSet(Items(c))
         /\ \A i \in Items(c) : /\ Item(c, i).quantity \in Nat \ {0}
                                /\ Item(c, i).original \in Nat
                                /\ Item(c, i).effective \in Nat
                                /\ Item(c, i).effective <= Item(c, i).original
<1>1. Items(c) = 1 .. Len(c.items) /\ Len(c.items) \in Nat
  BY DEF IsCart, Items
<1>2. IsFiniteSet(Items(c))
  BY <1>1, FS_Interval
<1> QED BY <1>1, <1>2 DEF IsCart, IsItem, Items, Item

\* What the lines of a cart are worth, and their quantities.
Lines(c) == [i \in Items(c) |-> Item(c, i).effective * Item(c, i).quantity]

Quantities(c) == [i \in Items(c) |-> Item(c, i).quantity]

LEMMA ValueIsSum ==
  ASSUME NEW c, IsCart(c), NEW S \in SUBSET Items(c)
  PROVE  /\ Value(c, S) = SumFunctionOnSet(Lines(c), S)
         /\ Units(c, S) = SumFunctionOnSet(Quantities(c), S)
         /\ IsFiniteSet(S)
<1>1. IsFiniteSet(S)
  BY CartItems, FS_Subset
<1>2. \A i \in Items(c) : Lines(c)[i] \in Nat /\ Quantities(c)[i] \in Nat
  BY CartItems DEF Lines, Quantities
<1>3. Value(c, S) = SumFunctionOnSet(Lines(c), S)
  <2> DEFINE f == [i \in S |-> Item(c, i).effective * Item(c, i).quantity]
  <2>1. \A i \in S : Lines(c)[i] \in Int /\ f[i] = Lines(c)[i]
    BY <1>2 DEF Lines
  <2>2. SumFunctionOnSet(Lines(c), S) = SumFunctionOnSet(f, S)
    <3> HIDE DEF f
    <3> QED BY <1>1, <2>1, SumOfEquals
  <2> QED BY <2>2 DEF Value, SumFunction
<1>4. Units(c, S) = SumFunctionOnSet(Quantities(c), S)
  <2> DEFINE f == [i \in S |-> Item(c, i).quantity]
  <2>1. \A i \in S : Quantities(c)[i] \in Int /\ f[i] = Quantities(c)[i]
    BY <1>2 DEF Quantities
  <2>2. SumFunctionOnSet(Quantities(c), S) = SumFunctionOnSet(f, S)
    <3> HIDE DEF f
    <3> QED BY <1>1, <2>1, SumOfEquals
  <2> QED BY <2>2 DEF Units, SumFunction
<1> QED BY <1>1, <1>3, <1>4

LEMMA LinesAreNaturals ==
  ASSUME NEW c, IsCart(c)
  PROVE  \A i \in Items(c) : Lines(c)[i] \in Nat /\ Quantities(c)[i] \in Nat
BY CartItems DEF Lines, Quantities

LEMMA ValueIsNatural ==
  ASSUME NEW c, IsCart(c), NEW S \in SUBSET Items(c)
  PROVE  Value(c, S) \in Nat /\ Units(c, S) \in Nat
<1>1. \A i \in S : Lines(c)[i] \in Nat /\ Quantities(c)[i] \in Nat
  BY LinesAreNaturals
<1> QED BY <1>1, ValueIsSum, SumOfNaturals

-----------------------------------------------------------------------------
\* Calculations.

LEMMA MatchedAreItems ==
  ASSUME NEW c, NEW d
  PROVE  /\ MatchedItems(d, c) \subseteq Selected(d, c)
         /\ Selected(d, c) \subseteq Eligible(d, c)
         /\ Eligible(d, c) \subseteq Items(c)
BY DEF MatchedItems, Selected, Eligible

\* What a calculation takes off a line is not more than the line.
IsCalculation(r, c) ==
  /\ r.scale \in Nat
  /\ r.cart \in Nat
  /\ DOMAIN r.off \subseteq Items(c)
  /\ \A i \in DOMAIN r.off :
       r.off[i] \in 0 .. Item(c, i).effective * (r.scale * Item(c, i).quantity)

LEMMA PercentageIs ==
  ASSUME NEW c, IsCart(c), NEW d, d.value \in 0 .. 100
  PROVE  IsCalculation(Percentage(d, c), c)
<1> DEFINE S == IF MatchedItems(d, c) = {} THEN Items(c) ELSE MatchedItems(d, c)
           cut(i) == Max({0, 100 * Item(c, i).effective - (100 - d.value) * Item(c, i).original})
           off == [i \in S |-> Item(c, i).quantity * cut(i)]
<1>1. S \subseteq Items(c)
  BY MatchedAreItems
<1>2. ASSUME NEW i \in S
      PROVE  off[i] \in 0 .. Item(c, i).effective * (100 * Item(c, i).quantity)
  <2> DEFINE e == Item(c, i).effective
             o == Item(c, i).original
             q == Item(c, i).quantity
  <2>1. e \in Nat /\ o \in Nat /\ q \in Nat
    BY <1>1, CartItems
  <2>2. off[i] = q * cut(i)
    OBVIOUS
  <2> HIDE DEF e, o, q, S, off
  <2>3. (100 - d.value) * o \in Nat
    BY <2>1
  <2>4. cut(i) \in 0 .. 100 * e
    <3>1. 100 * e - (100 - d.value) * o \in Int
      BY <2>1, <2>3
    <3>2. cut(i) = IF 0 <= 100 * e - (100 - d.value) * o
                   THEN 100 * e - (100 - d.value) * o ELSE 0
      BY <3>1, MaxOfTwo DEF e, o
    <3> QED BY <2>1, <2>3, <3>1, <3>2
  <2> HIDE DEF cut
  <2>5. q * cut(i) \in Nat /\ q * cut(i) <= q * (100 * e)
    BY <2>1, <2>4
  <2>6. q * (100 * e) = e * (100 * q)
    BY <2>1
  <2> QED BY <2>2, <2>5, <2>6, <2>1 DEF e, q
<1> QED BY <1>1, <1>2 DEF Percentage, IsCalculation

LEMMA FixedAmountIs ==
  ASSUME NEW c, IsCart(c), NEW d, d.value \in Nat
  PROVE  IsCalculation(FixedAmount(d, c), c)
<1> DEFINE S == MatchedItems(d, c)
<1>1. S \subseteq Items(c) /\ Value(c, S) \in Nat /\ Value(c, Items(c)) \in Nat
  BY MatchedAreItems, ValueIsNatural
<1>2. CASE S = {}
  <2>1. CartAmount(d, c) \in Nat
    BY <1>1, MinOfTwo DEF CartAmount
  <2>2. FixedAmount(d, c) = [off |-> << >>, scale |-> 1, cart |-> CartAmount(d, c)]
    BY <1>2 DEF FixedAmount
  <2> QED BY <2>1, <2>2 DEF IsCalculation
<1>3. CASE S # {}
  <2> DEFINE off == [i \in S |-> Share(d, c, S, i)]
  <2>1. ASSUME NEW i \in S
        PROVE  Share(d, c, S, i) \in 0 .. Item(c, i).effective * (Value(c, S) * Item(c, i).quantity)
    <3> DEFINE e == Item(c, i).effective
               q == Item(c, i).quantity
               V == Value(c, S)
               m == Min({V, d.value})
    <3>1. e \in Nat /\ q \in Nat /\ V \in Nat
      BY <1>1, CartItems
    <3>2. Share(d, c, S, i) = q * e * m
      BY DEF Share
    <3> HIDE DEF e, q, V, S
    <3>3. m \in 0 .. V
      BY <3>1, MinOfTwo
    <3> HIDE DEF m
    <3>4. q * e \in Nat
      BY <3>1
    <3>5. (q * e) * m \in Nat /\ (q * e) * m <= (q * e) * V
      BY <3>1, <3>3, <3>4
    <3>6. (q * e) * V = e * (V * q)
      BY <3>1
    <3> QED BY <3>1, <3>2, <3>5, <3>6 DEF e, q, V
  <2>2. FixedAmount(d, c) = [off |-> off, scale |-> Value(c, S), cart |-> 0]
    BY <1>3 DEF FixedAmount
  <2>3. DOMAIN off = S /\ \A i \in S : off[i] = Share(d, c, S, i)
    OBVIOUS
  <2> HIDE DEF S, off
  <2> QED BY <1>1, <2>1, <2>2, <2>3 DEF IsCalculation
<1> QED BY <1>2, <1>3

\* Of the units of a line that are discounted, at most all are.
Hit(d, c, i) ==
  Max({0, Min({Item(c, i).quantity,
               DiscountedCount(d, c, MatchedItems(d, c))
                 - Units(c, SortedBefore(c, MatchedItems(d, c), i))})})

LEMMA DiscountedCountIs ==
  ASSUME NEW c, IsCart(c), NEW d, d.value.buy \in Nat \ {0}, d.value.get \in Nat \ {0},
         NEW S \in SUBSET Items(c)
  PROVE  DiscountedCount(d, c, S) \in 0 .. Units(c, S)
<1> DEFINE u == Units(c, S)
           b == d.value.buy
           g == d.value.get
           sets == u \div (b + g)
<1>1. u \in Nat
  BY ValueIsNatural
<1>2. b \in Nat \ {0} /\ g \in Nat \ {0} /\ b + g \in Nat \ {0}
  OBVIOUS
<1> HIDE DEF u, b, g
<1>3. sets \in Int /\ (b + g) * sets <= u /\ u < (b + g) * sets + (b + g)
  <2> DEFINE k == b + g
  <2>1. k \in Nat \ {0} /\ u \in Int
    BY <1>1, <1>2
  <2> HIDE DEF k
  <2>2. u \div k \in Int /\ k * (u \div k) <= u /\ u < k * (u \div k) + k
    BY <2>1, Quotient
  <2> QED BY <2>2 DEF k
<1> HIDE DEF sets
<1>4. sets \in Nat
  <2>1. (b + g) * (-1) < (b + g) * sets
    BY <1>1, <1>2, <1>3
  <2> QED BY <1>2, <1>3, <2>1, Scales
<1>5. sets * g \in Nat /\ b * sets \in Nat /\ (b + g) * sets = b * sets + sets * g
  BY <1>2, <1>4
<1>6. sets * g \in 0 .. u
  BY <1>1, <1>3, <1>5
<1> QED BY <1>6 DEF DiscountedCount, u, b, g, sets

LEMMA HitIs ==
  ASSUME NEW c, IsCart(c), NEW d, d.value.buy \in Nat \ {0}, d.value.get \in Nat \ {0},
         NEW i \in MatchedItems(d, c)
  PROVE  LET S == MatchedItems(d, c)
             left == DiscountedCount(d, c, S) - Units(c, SortedBefore(c, S, i))
         IN /\ left \in Int
            /\ Hit(d, c, i) = IF left <= 0 THEN 0
                              ELSE IF left <= Item(c, i).quantity THEN left
                              ELSE Item(c, i).quantity
            /\ Hit(d, c, i) \in 0 .. Item(c, i).quantity
<1> DEFINE S == MatchedItems(d, c)
           n == DiscountedCount(d, c, S)
           u == Units(c, SortedBefore(c, S, i))
           q == Item(c, i).quantity
<1>1. S \in SUBSET Items(c) /\ SortedBefore(c, S, i) \in SUBSET Items(c) /\ i \in Items(c)
  BY MatchedAreItems DEF SortedBefore
<1>2. n \in Nat /\ u \in Nat /\ q \in Nat
  <2>1. n \in Nat
    <3>1. Units(c, S) \in Nat
      BY <1>1, ValueIsNatural
    <3> HIDE DEF S
    <3> QED BY <1>1, <3>1, DiscountedCountIs
  <2>2. u \in Nat
    BY <1>1, ValueIsNatural
  <2> QED BY <1>1, <2>1, <2>2, CartItems
<1>3. Hit(d, c, i) = Max({0, Min({q, n - u})})
  BY DEF Hit
<1> HIDE DEF n, u, q
<1>4. Min({q, n - u}) = IF q <= n - u THEN q ELSE n - u
  BY <1>2, MinOfTwo
<1>5. Min({q, n - u}) \in Int
  BY <1>2, <1>4
<1>6. Hit(d, c, i) = IF 0 <= Min({q, n - u}) THEN Min({q, n - u}) ELSE 0
  <2> DEFINE m == Min({q, n - u})
  <2>1. m \in Int /\ Hit(d, c, i) = Max({0, m})
    BY <1>3, <1>5
  <2> HIDE DEF m
  <2>2. Hit(d, c, i) = IF 0 <= m THEN m ELSE 0
    BY <2>1, MaxOfTwo
  <2> QED BY <2>2 DEF m
<1>7. n - u \in Int /\ Hit(d, c, i) = IF n - u <= 0 THEN 0 ELSE IF n - u <= q THEN n - u ELSE q
  BY <1>2, <1>4, <1>6
<1>8. Hit(d, c, i) \in 0 .. q
  BY <1>2, <1>7
<1> QED BY <1>7, <1>8 DEF n, u, q

LEMMA BuyXGetYIs ==
  ASSUME NEW c, IsCart(c), NEW d, d.value.buy \in Nat \ {0}, d.value.get \in Nat \ {0},
         d.value.percent \in 0 .. 100
  PROVE  IsCalculation(BuyXGetY(d, c), c)
<1> DEFINE S == {j \in MatchedItems(d, c) : Hit(d, c, j) > 0}
           off == [i \in S |-> Hit(d, c, i) * Item(c, i).effective * d.value.percent]
<1>1. S \subseteq Items(c)
  BY MatchedAreItems
<1>2. ASSUME NEW i \in S
      PROVE  off[i] \in 0 .. Item(c, i).effective * (100 * Item(c, i).quantity)
  <2> DEFINE e == Item(c, i).effective
             q == Item(c, i).quantity
             h == Hit(d, c, i)
             p == d.value.percent
  <2>1. e \in Nat /\ q \in Nat /\ h \in 0 .. q /\ p \in 0 .. 100
    BY <1>1, CartItems, HitIs
  <2>2. off[i] = h * e * p
    OBVIOUS
  <2> HIDE DEF e, q, h, p, off
  <2>3. h * e \in Nat /\ h * e <= q * e /\ q * e \in Nat
    BY <2>1
  <2>4. (h * e) * p \in Nat /\ (h * e) * p <= (h * e) * 100
    BY <2>1, <2>3
  <2>5. (q * e) * 100 = e * (100 * q)
    BY <2>1
  <2>6. (h * e) * 100 <= (q * e) * 100
    BY <2>3
  <2> QED BY <2>2, <2>3, <2>4, <2>5, <2>6 DEF e, q
<1>3. BuyXGetY(d, c) = [off |-> off, scale |-> 100, cart |-> 0]
  BY DEF BuyXGetY, Hit
<1>4. DOMAIN off = S
  OBVIOUS
<1> HIDE DEF S, off
<1> QED BY <1>1, <1>2, <1>3, <1>4 DEF IsCalculation

\* applyPercentage, applyFixedAmount and applyBuyXGetY never take more off a
\* line than it is worth.
LEMMA CalculationIs ==
  ASSUME NEW c, IsCart(c), NEW d, IsDiscount(d)
  PROVE  IsCalculation(Calculate(d, c), c)
<1>1. CASE d.type = "percentage"
  <2>1. d.value \in 0 .. 100 /\ Calculate(d, c) = Percentage(d, c)
    BY <1>1 DEF IsDiscount, IsValue, Calculate
  <2> QED BY <2>1, PercentageIs
<1>2. CASE d.type = "fixed_amount"
  <2>1. d.value \in Nat /\ Calculate(d, c) = FixedAmount(d, c)
    BY <1>2 DEF IsDiscount, IsValue, Calculate
  <2> QED BY <2>1, FixedAmountIs
<1>3. CASE d.type = "buy_x_get_y"
  <2>1. /\ d.value.buy \in Nat \ {0} /\ d.value.get \in Nat \ {0}
        /\ d.value.percent \in 0 .. 100
        /\ Calculate(d, c) = BuyXGetY(d, c)
    BY <1>3 DEF IsDiscount, IsValue, Calculate
  <2> QED BY <2>1, BuyXGetYIs
<1>4. CASE d.type = "free_shipping"
  <2>1. Calculate(d, c) = [off |-> << >>, scale |-> 1, cart |-> 0]
    BY <1>4 DEF Calculate
  <2> QED BY <2>1 DEF IsCalculation
<1> QED BY <1>1, <1>2, <1>3, <1>4 DEF IsDiscount

-----------------------------------------------------------------------------
\* Answers to a list of discounts.

LEMMA ListOfDiscounts ==
  ASSUME NEW ds \in Seq(Discounts)
  PROVE  /\ DOMAIN ds = 1 .. Len(ds) /\ Len(ds) \in Nat /\ IsFiniteSet(DOMAIN ds)
         /\ \A k \in DOMAIN ds : IsDiscount(ds[k])
<1>1. DOMAIN ds = 1 .. Len(ds) /\ Len(ds) \in Nat
  OBVIOUS
<1>2. IsFiniteSet(DOMAIN ds)
  BY <1>1, FS_Interval
<1> QED BY <1>1, <1>2, DiscountsAssumption

LEMMA AppliedAreListed ==
  ASSUME NEW c, NEW ds
  PROVE  /\ Applied(c, ds) \subseteq ValueMatches(c, ds)
         /\ ValueMatches(c, ds) \subseteq DOMAIN ds
         /\ Winner(c, ds) \subseteq Contenders(Results(c, ds))
         /\ Contenders(Results(c, ds)) \subseteq TopTier(c, ds)
         /\ TopTier(c, ds) \subseteq ValueMatches(c, ds) \ Stackable(c, ds)
BY DEF Applied, Winner, Best, Contenders, Results, TopTier, HighestPriority, Stackable,
       ValueMatches

LEMMA PriceUnderIs ==
  ASSUME NEW c, IsCart(c), NEW r, IsCalculation(r, c), NEW i \in DOMAIN r.off
  PROVE  PriceUnder(r, c, i) \in 0 .. Item(c, i).effective
<1> DEFINE e == Item(c, i).effective
           whole == r.scale * Item(c, i).quantity
<1>1. e \in Nat /\ whole \in Nat /\ r.off[i] \in 0 .. e * whole
  <2>1. i \in Items(c) /\ r.scale \in Nat /\ r.off[i] \in 0 .. e * whole
    BY DEF IsCalculation
  <2>2. e \in Nat /\ Item(c, i).quantity \in Nat
    BY <2>1, CartItems
  <2> QED BY <2>1, <2>2
<1>2. PriceUnder(r, c, i) = IF whole = 0 THEN e ELSE Round2(e * whole - r.off[i], whole)
  BY DEF PriceUnder
<1> HIDE DEF e, whole
<1>3. CASE whole # 0
  <2>1. e * whole \in Nat
    BY <1>1
  <2>2. e * whole - r.off[i] \in 0 .. e * whole
    BY <1>1, <2>1
  <2> QED BY <1>1, <1>2, <1>3, <2>2, RoundingStays DEF e
<1>4. CASE whole = 0
  BY <1>1, <1>2, <1>4 DEF e
<1> QED BY <1>3, <1>4

\* The discounts of the list that change the price of an item, and the prices
\* it may get.
Touching(c, ds, i) == {k \in Applied(c, ds) : i \in DOMAIN Calculate(ds[k], c).off}

Offers(c, ds, i) ==
  {Item(c, i).effective} \cup {PriceUnder(Calculate(ds[k], c), c, i) : k \in Touching(c, ds, i)}

\* The final price is the lowest of the offers.
LEMMA FinalPriceIs ==
  ASSUME NEW c, IsCart(c), NEW ds \in Seq(Discounts), NEW i \in Items(c)
  PROVE  /\ Offers(c, ds, i) \subseteq 0 .. Item(c, i).effective
         /\ FinalPrice(c, ds, i) \in Offers(c, ds, i)
         /\ \A p \in Offers(c, ds, i) : FinalPrice(c, ds, i) <= p
<1>1. Item(c, i).effective \in Nat
  BY CartItems
<1>2. ASSUME NEW k \in Touching(c, ds, i)
      PROVE  PriceUnder(Calculate(ds[k], c), c, i) \in 0 .. Item(c, i).effective
  <2>1. k \in DOMAIN ds /\ i \in DOMAIN Calculate(ds[k], c).off
    BY AppliedAreListed DEF Touching
  <2>2. IsCalculation(Calculate(ds[k], c), c)
    BY <2>1, ListOfDiscounts, CalculationIs
  <2> QED BY <2>1, <2>2, PriceUnderIs
<1>3. Offers(c, ds, i) \subseteq 0 .. Item(c, i).effective /\ Offers(c, ds, i) # {}
  BY <1>1, <1>2 DEF Offers
<1>4. IsFiniteSet(Offers(c, ds, i)) /\ Offers(c, ds, i) \subseteq Int
  <2>1. IsFiniteSet(0 .. Item(c, i).effective)
    BY <1>1, FS_Interval
  <2>2. IsFiniteSet(Offers(c, ds, i))
    BY <1>3, <2>1, FS_Subset
  <2> QED BY <1>3, <2>2
<1>5. FinalPrice(c, ds, i) = Min(Offers(c, ds, i))
  BY DEF FinalPrice, Offers, Touching
<1> QED BY <1>3, <1>4, <1>5, MinIs

\* The amounts that the discounts take off the cart.
Amounts(c, ds) == [k \in DOMAIN ds |-> Calculate(ds[k], c).cart]

LEMMA CartDiscountAmountIs ==
  ASSUME NEW c, IsCart(c), NEW ds \in Seq(Discounts)
  PROVE  /\ IsFiniteSet(Applied(c, ds))
         /\ \A k \in DOMAIN ds : Amounts(c, ds)[k] \in Nat
         /\ CartDiscountAmount(c, ds) = SumFunctionOnSet(Amounts(c, ds), Applied(c, ds))
         /\ CartDiscountAmount(c, ds) \in Nat
<1>1. Applied(c, ds) \subseteq DOMAIN ds /\ IsFiniteSet(Applied(c, ds))
  <2>1. Applied(c, ds) \subseteq DOMAIN ds
    BY AppliedAreListed
  <2> QED BY <2>1, ListOfDiscounts, FS_Subset
<1>2. \A k \in DOMAIN ds : Amounts(c, ds)[k] \in Nat
  BY ListOfDiscounts, CalculationIs DEF IsCalculation, Amounts
<1>3. CartDiscountAmount(c, ds) = SumFunctionOnSet(Amounts(c, ds), Applied(c, ds))
  <2> DEFINE f == [k \in Applied(c, ds) |-> Calculate(ds[k], c).cart]
  <2>1. \A k \in Applied(c, ds) : Amounts(c, ds)[k] \in Int /\ f[k] = Amounts(c, ds)[k]
    BY <1>1, <1>2 DEF Amounts
  <2>2. SumFunctionOnSet(Amounts(c, ds), Applied(c, ds)) = SumFunctionOnSet(f, Applied(c, ds))
    <3> HIDE DEF f
    <3> QED BY <1>1, <2>1, SumOfEquals
  <2> QED BY <2>2 DEF CartDiscountAmount, SumFunction
<1>4. CartDiscountAmount(c, ds) \in Nat
  <2>1. \A k \in Applied(c, ds) : Amounts(c, ds)[k] \in Nat
    BY <1>1, <1>2
  <2> QED BY <1>1, <1>3, <2>1, SumOfNaturals
<1> QED BY <1>1, <1>2, <1>3, <1>4

\* What the customer pays less than the original prices.
SavedOn(c, ds) ==
  [i \in Items(c) |-> (Item(c, i).original - FinalPrice(c, ds, i)) * Item(c, i).quantity]

LEMMA AnswerIs ==
  ASSUME NEW c, IsCart(c), NEW ds \in Seq(Discounts)
  PROVE  /\ \A i \in Items(c) : /\ Answer(c, ds).prices[i] = FinalPrice(c, ds, i)
                                /\ FinalPrice(c, ds, i) \in 0 .. Item(c, i).effective
                                /\ SavedOn(c, ds)[i] \in Nat
         /\ Answer(c, ds).cartDiscountAmount = CartDiscountAmount(c, ds)
         /\ Answer(c, ds).totalSavings =
              SumFunctionOnSet(SavedOn(c, ds), Items(c)) + CartDiscountAmount(c, ds)
         /\ Answer(c, ds).totalSavings \in Nat
<1>1. \A i \in Items(c) : /\ Answer(c, ds).prices[i] = FinalPrice(c, ds, i)
                          /\ FinalPrice(c, ds, i) \in 0 .. Item(c, i).effective
  BY FinalPriceIs DEF Answer
<1>2. \A i \in Items(c) : SavedOn(c, ds)[i] \in Nat
  <2> TAKE i \in Items(c)
  <2>1. /\ Item(c, i).original \in Nat /\ Item(c, i).effective \in Nat
        /\ Item(c, i).effective <= Item(c, i).original /\ Item(c, i).quantity \in Nat
    BY CartItems
  <2>2. Item(c, i).original - FinalPrice(c, ds, i) \in Nat
    BY <1>1, <2>1
  <2>3. (Item(c, i).original - FinalPrice(c, ds, i)) * Item(c, i).quantity \in Nat
    BY <2>1, <2>2
  <2> QED BY <2>3 DEF SavedOn
<1>3. Answer(c, ds).totalSavings =
        SumFunctionOnSet(SavedOn(c, ds), Items(c)) + CartDiscountAmount(c, ds)
  <2> DEFINE prices == [i \in Items(c) |-> FinalPrice(c, ds, i)]
             saved == [i \in Items(c) |-> (Item(c, i).original - prices[i]) * Item(c, i).quantity]
  <2>1. saved = SavedOn(c, ds)
    BY DEF SavedOn
  <2>2. Answer(c, ds).totalSavings = SumFunction(saved) + CartDiscountAmount(c, ds)
    BY DEF Answer
  <2>3. DOMAIN SavedOn(c, ds) = Items(c)
    BY DEF SavedOn
  <2> QED BY <2>1, <2>2, <2>3 DEF SumFunction
<1>4. Answer(c, ds).totalSavings \in Nat
  <2>1. IsFiniteSet(Items(c))
    BY CartItems
  <2>2. SumFunctionOnSet(SavedOn(c, ds), Items(c)) \in Nat
    BY <1>2, <2>1, SumOfNaturals
  <2> QED BY <1>3, <2>2, CartDiscountAmountIs
<1>5. Answer(c, ds).cartDiscountAmount = CartDiscountAmount(c, ds)
  BY DEF Answer
<1> QED BY <1>1, <1>2, <1>3, <1>4, <1>5

-----------------------------------------------------------------------------
\* The state of a request.

\* The request does not change, and the answer is the one to its candidates.
RequestInv ==
  /\ cart \in Carts
  /\ automatic \in Seq(Discounts)
  /\ coupon \in Coupons \cup {NoCoupon}
  /\ answer = NoAnswer \/ answer = Answer(cart, Candidates)

LEMMA RequestIs ==
  ASSUME RequestInv
  PROVE  /\ IsCart(cart)
         /\ ResolveCouponDiscount \in Seq(Discounts)
         /\ Candidates \in Seq(Discounts)
         /\ Answered => answer = Answer(cart, Candidates)
<1>1. IsCart(cart)
  BY CartsAssumption DEF RequestInv, IsCart
<1>2. ResolveCouponDiscount \in Seq(Discounts)
  BY DiscountsAssumption DEF RequestInv, ResolveCouponDiscount
<1> QED BY <1>1, <1>2 DEF RequestInv, Candidates, Answered

\* The request does not change, and an answer is the one to its cart and
\* candidates.
LEMMA RequestCorrect == Spec => []RequestInv
<1>1. Init => RequestInv
  <2> SUFFICES ASSUME Init PROVE RequestInv
    OBVIOUS
  <2>1. automatic \in Seq(Discounts)
    <3>1. PICK n \in 0 .. MaxAutomatic : automatic \in [1 .. n -> Discounts]
      BY DEF Init
    <3> QED BY <3>1
  <2> QED BY <2>1 DEF Init, RequestInv
<1>2. RequestInv /\ [Next]_vars => RequestInv'
  BY DEF RequestInv, Next, Evaluate, vars, Candidates, ResolveCouponDiscount
<1> QED BY <1>1, <1>2, PTL DEF Spec

\* Prices are never negative and never above what the item costs without a
\* discount, and neither amounts nor savings are negative, for any cart and any
\* discounts (evaluate, applyFixedAmount).
THEOREM TypeCorrect == Spec => []TypeOK
<1>1. RequestInv => TypeOK
  <2> SUFFICES ASSUME RequestInv, Answered PROVE TypeOK
    BY DEF TypeOK
  <2>1. IsCart(cart) /\ Candidates \in Seq(Discounts) /\ answer = Answer(cart, Candidates)
    BY RequestIs
  <2> QED BY <2>1, AnswerIs, CartDiscountAmountIs DEF TypeOK
<1> QED BY <1>1, RequestCorrect, PTL

-----------------------------------------------------------------------------
\* Discounts that exclude sale items.

\* A discount that spares sale items touches none.
LEMMA TouchedAreEligible ==
  ASSUME NEW c, NEW d, IsDiscount(d), Matches(d, c), Spares(d),
         NEW i \in DOMAIN Calculate(d, c).off
  PROVE  ~OnSale(c, i)
<1> SUFFICES i \in Selected(d, c)
  BY MatchedAreItems DEF Eligible, Spares
<1>1. CASE d.type = "percentage"
  <2>1. ItemConditions(d) # {} /\ Selected(d, c) # {}
    BY <1>1 DEF Spares, Matches
  <2>2. MatchedItems(d, c) = Selected(d, c)
    BY <2>1 DEF MatchedItems
  <2>3. Calculate(d, c) = Percentage(d, c)
    BY <1>1 DEF Calculate
  <2>4. DOMAIN Percentage(d, c).off = Selected(d, c)
    BY <2>1, <2>2 DEF Percentage
  <2> QED BY <2>3, <2>4
<1>2. CASE d.type = "fixed_amount"
  <2>1. Calculate(d, c) = FixedAmount(d, c)
    BY <1>2 DEF Calculate
  <2>2. CASE MatchedItems(d, c) = {}
    <3>1. FixedAmount(d, c).off = << >>
      BY <2>2 DEF FixedAmount
    <3> QED BY <2>1, <3>1
  <2>3. CASE MatchedItems(d, c) # {}
    <3>1. DOMAIN FixedAmount(d, c).off = MatchedItems(d, c)
      BY <2>3 DEF FixedAmount
    <3> QED BY <2>1, <3>1, MatchedAreItems
  <2> QED BY <2>2, <2>3
<1>3. CASE d.type = "buy_x_get_y"
  <2>1. Calculate(d, c) = BuyXGetY(d, c)
    BY <1>3 DEF Calculate
  <2>2. DOMAIN BuyXGetY(d, c).off \subseteq MatchedItems(d, c)
    BY DEF BuyXGetY
  <2> QED BY <2>1, <2>2, MatchedAreItems
<1>4. CASE d.type = "free_shipping"
  <2>1. Calculate(d, c).off = << >>
    BY <1>4 DEF Calculate
  <2> QED BY <2>1
<1> QED BY <1>1, <1>2, <1>3, <1>4 DEF IsDiscount

\* An item that no applied discount touches keeps its price.
LEMMA UntouchedKeepsPrice ==
  ASSUME NEW c, IsCart(c), NEW ds \in Seq(Discounts), NEW i \in Items(c),
         Touching(c, ds, i) = {}
  PROVE  FinalPrice(c, ds, i) = Item(c, i).effective
<1>1. Offers(c, ds, i) = {Item(c, i).effective}
  BY DEF Offers
<1> QED BY <1>1, FinalPriceIs

\* Discounts that exclude sale items leave the prices of these alone when they
\* have item conditions or are fixed amounts (the filter of evaluate,
\* ConditionEvaluator, DiscountCalculator).
THEOREM ExcludedItemsUntouchedCorrect == Spec => []ExcludedItemsUntouched
<1>1. RequestInv => ExcludedItemsUntouched
  <2> SUFFICES ASSUME RequestInv, Answered,
                      \A k \in answer.appliedDiscounts : Spares(Candidates[k]),
                      NEW i \in Items(cart), OnSale(cart, i)
               PROVE  answer.prices[i] = Item(cart, i).effective
    BY DEF ExcludedItemsUntouched
  <2>1. IsCart(cart) /\ Candidates \in Seq(Discounts) /\ answer = Answer(cart, Candidates)
    BY RequestIs
  <2>2. answer.appliedDiscounts = Applied(cart, Candidates)
    BY <2>1 DEF Answer
  <2>3. ASSUME NEW k \in Touching(cart, Candidates, i) PROVE FALSE
    <3>1. k \in Applied(cart, Candidates) /\ i \in DOMAIN Calculate(Candidates[k], cart).off
      BY DEF Touching
    <3>2. k \in DOMAIN Candidates /\ Matches(Candidates[k], cart)
      BY <3>1, AppliedAreListed DEF ValueMatches
    <3>3. IsDiscount(Candidates[k]) /\ Spares(Candidates[k])
      BY <2>1, <2>2, <3>1, <3>2, ListOfDiscounts
    <3> QED BY <3>1, <3>2, <3>3, TouchedAreEligible
  <2>4. FinalPrice(cart, Candidates, i) = Item(cart, i).effective
    BY <2>1, <2>3, UntouchedKeepsPrice
  <2> QED BY <2>1, <2>4, AnswerIs
<1> QED BY <1>1, RequestCorrect, PTL

-----------------------------------------------------------------------------
\* Amounts taken off the cart.

\* Only a fixed amount without item conditions takes anything off the cart, at
\* most what the cart is worth, and then it touches no item.
LEMMA CartLevelIs ==
  ASSUME NEW c, IsCart(c), NEW d, IsDiscount(d), Calculate(d, c).cart # 0
  PROVE  /\ d.type = "fixed_amount"
         /\ MatchedItems(d, c) = {}
         /\ Calculate(d, c).cart <= Value(c, Items(c))
         /\ DOMAIN Calculate(d, c).off = {}
<1>1. d.type = "fixed_amount"
  BY DEF IsDiscount, Calculate, Percentage, BuyXGetY
<1>2. Calculate(d, c) = FixedAmount(d, c)
  BY <1>1 DEF Calculate
<1>3. MatchedItems(d, c) = {}
  BY <1>2 DEF FixedAmount
<1>4. FixedAmount(d, c) = [off |-> << >>, scale |-> 1, cart |-> CartAmount(d, c)]
  BY <1>3 DEF FixedAmount
<1>5. CartAmount(d, c) <= Value(c, Items(c))
  <2>1. d.value \in Nat /\ Value(c, Items(c)) \in Nat
    BY <1>1, ValueIsNatural DEF IsDiscount, IsValue
  <2> QED BY <2>1, MinOfTwo DEF CartAmount
<1> QED BY <1>1, <1>2, <1>3, <1>4, <1>5

\* What the customer is spared against the effective prices.
SparedOn(c, ds) ==
  [i \in Items(c) |-> (Item(c, i).effective - FinalPrice(c, ds, i)) * Item(c, i).quantity]

LEMMA GivenIs ==
  ASSUME NEW c, IsCart(c), NEW ds \in Seq(Discounts)
  PROVE  /\ \A i \in Items(c) : SparedOn(c, ds)[i] \in Nat /\ SparedOn(c, ds)[i] <= Lines(c)[i]
         /\ Given(c, Answer(c, ds)) =
              SumFunctionOnSet(SparedOn(c, ds), Items(c)) + CartDiscountAmount(c, ds)
         /\ SumFunctionOnSet(SparedOn(c, ds), Items(c)) \in 0 .. Value(c, Items(c))
<1>1. ASSUME NEW i \in Items(c)
      PROVE  SparedOn(c, ds)[i] \in Nat /\ SparedOn(c, ds)[i] <= Lines(c)[i]
  <2> DEFINE e == Item(c, i).effective
             q == Item(c, i).quantity
             p == FinalPrice(c, ds, i)
  <2>1. e \in Nat /\ q \in Nat /\ p \in 0 .. e
    BY CartItems, AnswerIs
  <2>2. SparedOn(c, ds)[i] = (e - p) * q /\ Lines(c)[i] = e * q
    BY DEF SparedOn, Lines
  <2> HIDE DEF e, q, p
  <2>3. (e - p) * q \in Nat /\ (e - p) * q <= e * q
    BY <2>1
  <2> QED BY <2>2, <2>3
<1>2. Given(c, Answer(c, ds)) =
        SumFunctionOnSet(SparedOn(c, ds), Items(c)) + CartDiscountAmount(c, ds)
  <2> DEFINE a == Answer(c, ds)
             f == [i \in Items(c) |-> (Item(c, i).effective - a.prices[i]) * Item(c, i).quantity]
  <2>1. \A i \in Items(c) : a.prices[i] = FinalPrice(c, ds, i)
    BY AnswerIs
  <2>2. f = SparedOn(c, ds)
    <3> HIDE DEF a
    <3> QED BY <2>1 DEF SparedOn
  <2>3. Given(c, a) = SumFunction(f) + a.cartDiscountAmount
    BY DEF Given
  <2>4. DOMAIN SparedOn(c, ds) = Items(c) /\ a.cartDiscountAmount = CartDiscountAmount(c, ds)
    BY AnswerIs DEF SparedOn
  <2> QED BY <2>2, <2>3, <2>4 DEF SumFunction
<1>3. SumFunctionOnSet(SparedOn(c, ds), Items(c)) \in 0 .. Value(c, Items(c))
  <2>1. IsFiniteSet(Items(c)) /\ Value(c, Items(c)) = SumFunctionOnSet(Lines(c), Items(c))
    BY ValueIsSum
  <2>2. SumFunctionOnSet(SparedOn(c, ds), Items(c)) \in Nat
    BY <1>1, <2>1, SumOfNaturals
  <2>3. SumFunctionOnSet(SparedOn(c, ds), Items(c)) <= SumFunctionOnSet(Lines(c), Items(c))
    BY <1>1, <2>1, LinesAreNaturals, SumIsMonotone
  <2> QED BY <2>1, <2>2, <2>3, ValueIsNatural
<1> QED BY <1>1, <1>2, <1>3

\* The discounts exceed the value of the cart only when a cart-level fixed
\* amount, which is capped on its own, is applied together with another one
\* (applyFixedAmount, evaluate).
THEOREM OverdrawnOnlyByStackingCorrect == Spec => []OverdrawnOnlyByStacking
<1>1. RequestInv => OverdrawnOnlyByStacking
  <2> DEFINE c == cart
             ds == Candidates
             worth == Value(c, Items(c))
             amounts == Amounts(c, ds)
  <2> SUFFICES ASSUME RequestInv, Answered, Given(cart, answer) > worth
               PROVE  \E j, k \in answer.appliedDiscounts :
                        /\ j # k
                        /\ ds[j].type = "fixed_amount" /\ MatchedItems(ds[j], c) = {}
    BY DEF OverdrawnOnlyByStacking
  <2>1. IsCart(c) /\ ds \in Seq(Discounts) /\ answer = Answer(c, ds)
    BY RequestIs
  <2>2. answer.appliedDiscounts = Applied(c, ds)
    BY <2>1 DEF Answer
  <2>3. Given(c, Answer(c, ds)) > worth
    BY <2>1
  <2> HIDE DEF c, ds
  <2>4. worth \in Nat
    BY <2>1, ValueIsNatural
  <2>5. /\ IsFiniteSet(Applied(c, ds)) /\ \A k \in Applied(c, ds) : amounts[k] \in Nat
        /\ CartDiscountAmount(c, ds) = SumFunctionOnSet(amounts, Applied(c, ds))
    BY <2>1, CartDiscountAmountIs, AppliedAreListed
  <2>6. PICK j \in Applied(c, ds) : amounts[j] # 0
    <3> SUFFICES ASSUME \A k \in Applied(c, ds) : amounts[k] = 0 PROVE FALSE
      OBVIOUS
    <3>1. SumFunctionOnSet(amounts, Applied(c, ds)) = SumFunctionOnSet(amounts, {})
      <4> HIDE DEF amounts
      <4> QED BY <2>5, SumOverSupport
    <3>2. CartDiscountAmount(c, ds) = 0
      BY <2>5, <3>1, SumOfNone
    <3> QED BY <2>1, <2>3, <2>4, <3>2, GivenIs
  <2>7. /\ ds[j].type = "fixed_amount" /\ MatchedItems(ds[j], c) = {}
        /\ amounts[j] <= worth
        /\ DOMAIN Calculate(ds[j], c).off = {}
    <3>1. j \in DOMAIN ds
      BY AppliedAreListed
    <3>2. IsDiscount(ds[j]) /\ amounts[j] = Calculate(ds[j], c).cart
      BY <2>1, <3>1, ListOfDiscounts DEF Amounts
    <3> QED BY <2>1, <2>6, <3>2, CartLevelIs
  <2>8. ASSUME \A k \in Applied(c, ds) : k = j PROVE FALSE
    <3>1. Applied(c, ds) = {j}
      BY <2>8
    <3>2. CartDiscountAmount(c, ds) = amounts[j]
      <4>1. SumFunctionOnSet(amounts, Applied(c, ds)) =
              amounts[j] + SumFunctionOnSet(amounts, Applied(c, ds) \ {j})
        <5>1. \A k \in Applied(c, ds) : amounts[k] \in Int
          BY <2>5
        <5> HIDE DEF amounts
        <5> QED BY <2>5, <5>1, SumSplits
      <4>2. Applied(c, ds) \ {j} = {}
        BY <3>1
      <4>3. amounts[j] \in Nat
        BY <2>5
      <4> QED BY <2>5, <4>1, <4>2, <4>3, SumOfNone
    <3>3. ASSUME NEW i \in Items(c) PROVE SparedOn(c, ds)[i] = 0
      <4>1. Touching(c, ds, i) = {}
        BY <2>7, <3>1 DEF Touching
      <4>2. FinalPrice(c, ds, i) = Item(c, i).effective
        BY <2>1, <4>1, UntouchedKeepsPrice
      <4>3. Item(c, i).effective \in Nat /\ Item(c, i).quantity \in Nat
        BY <2>1, CartItems
      <4>4. (Item(c, i).effective - Item(c, i).effective) * Item(c, i).quantity = 0
        BY <4>3
      <4> QED BY <4>2, <4>4 DEF SparedOn
    <3>4. SumFunctionOnSet(SparedOn(c, ds), Items(c)) = 0
      <4>1. SumFunctionOnSet(SparedOn(c, ds), Items(c)) = SumFunctionOnSet(SparedOn(c, ds), {})
        BY <2>1, <3>3, CartItems, SumOverSupport
      <4> QED BY <4>1, SumOfNone
    <3> QED BY <2>1, <2>3, <2>4, <2>5, <2>7, <3>2, <3>4, GivenIs
  <2>9. PICK k \in Applied(c, ds) : k # j
    BY <2>8
  <2> QED BY <2>2, <2>7, <2>9
<1> QED BY <1>1, RequestCorrect, PTL

-----------------------------------------------------------------------------
\* One more stackable discount.

\* A stackable discount at the end of the list is applied next to the others,
\* if it matches at all.
LEMMA StackableIsAdded ==
  ASSUME NEW c, NEW ds \in Seq(Discounts), NEW d \in Discounts, d.stackable
  PROVE  LET es == ds \o <<d>>
         IN /\ es \in Seq(Discounts)
            /\ \A k \in DOMAIN ds : es[k] = ds[k]
            /\ Applied(c, ds) \subseteq Applied(c, es)
<1> DEFINE es == ds \o <<d>>
           n == Len(ds) + 1
<1>1. /\ es \in Seq(Discounts) /\ DOMAIN es = DOMAIN ds \cup {n}
      /\ n \notin DOMAIN ds /\ es[n] = d /\ \A k \in DOMAIN ds : es[k] = ds[k]
  OBVIOUS
<1> HIDE DEF es, n
<1>2. /\ ValueMatches(c, ds) \subseteq DOMAIN ds
      /\ ValueMatches(c, es) \in {ValueMatches(c, ds), ValueMatches(c, ds) \cup {n}}
  BY <1>1 DEF ValueMatches
<1>3. Stackable(c, ds) \subseteq Stackable(c, es)
  BY <1>1, <1>2 DEF Stackable
<1>4. ValueMatches(c, es) \ Stackable(c, es) = ValueMatches(c, ds) \ Stackable(c, ds)
  BY <1>1, <1>2 DEF Stackable
<1>5. TopTier(c, es) = TopTier(c, ds) /\ TopTier(c, ds) \subseteq DOMAIN ds
  BY <1>1, <1>2, <1>4 DEF TopTier, HighestPriority
<1>6. Results(c, es) = Results(c, ds)
  BY <1>1, <1>5 DEF Results
<1>7. Winner(c, es) = Winner(c, ds)
  BY <1>6 DEF Winner
<1> QED BY <1>1, <1>3, <1>7 DEF Applied, es

\* A list whose applied discounts are among those of another never gives lower
\* prices or larger savings.
LEMMA MoreAppliedSavesMore ==
  ASSUME NEW c, IsCart(c), NEW ds \in Seq(Discounts), NEW es \in Seq(Discounts),
         Applied(c, ds) \subseteq Applied(c, es),
         \A k \in Applied(c, ds) : es[k] = ds[k]
  PROVE  /\ \A i \in Items(c) : FinalPrice(c, es, i) <= FinalPrice(c, ds, i)
         /\ Answer(c, es).totalSavings >= Answer(c, ds).totalSavings
<1>1. ASSUME NEW i \in Items(c) PROVE FinalPrice(c, es, i) <= FinalPrice(c, ds, i)
  <2>1. Touching(c, ds, i) \subseteq Touching(c, es, i)
    BY DEF Touching
  <2>2. \A k \in Touching(c, ds, i) : es[k] = ds[k]
    BY DEF Touching
  <2>3. Offers(c, ds, i) \subseteq Offers(c, es, i)
    BY <2>1, <2>2 DEF Offers
  <2> QED BY <2>3, FinalPriceIs
<1>2. ASSUME NEW i \in Items(c) PROVE SavedOn(c, ds)[i] <= SavedOn(c, es)[i]
  <2> DEFINE o == Item(c, i).original
             q == Item(c, i).quantity
             p == FinalPrice(c, ds, i)
             r == FinalPrice(c, es, i)
  <2>1. o \in Nat /\ q \in Nat /\ p \in Nat /\ r \in Nat /\ r <= p
    <3>1. Item(c, i).effective \in Nat /\ o \in Nat /\ q \in Nat
      BY CartItems
    <3>2. p \in 0 .. Item(c, i).effective /\ r \in 0 .. Item(c, i).effective
      BY AnswerIs
    <3> QED BY <1>1, <3>1, <3>2
  <2>2. SavedOn(c, ds)[i] = (o - p) * q /\ SavedOn(c, es)[i] = (o - r) * q
    BY DEF SavedOn
  <2> HIDE DEF o, q, p, r
  <2>3. (o - p) * q <= (o - r) * q
    BY <2>1
  <2> QED BY <2>2, <2>3
<1>3. SumFunctionOnSet(SavedOn(c, ds), Items(c)) <= SumFunctionOnSet(SavedOn(c, es), Items(c))
  <2>1. \A i \in Items(c) : SavedOn(c, ds)[i] \in Int /\ SavedOn(c, es)[i] \in Int
    BY AnswerIs
  <2> QED BY <1>2, <2>1, CartItems, SumIsMonotone
<1>4. CartDiscountAmount(c, ds) <= CartDiscountAmount(c, es)
  <2>0. Applied(c, ds) \subseteq DOMAIN ds /\ Applied(c, es) \subseteq DOMAIN es
    BY AppliedAreListed
  <2>1. \A k \in Applied(c, ds) : Amounts(c, ds)[k] \in Int /\ Amounts(c, es)[k] = Amounts(c, ds)[k]
    <3>1. \A k \in Applied(c, ds) : Amounts(c, ds)[k] \in Nat
      BY <2>0, CartDiscountAmountIs
    <3>2. \A k \in Applied(c, ds) : Amounts(c, es)[k] = Amounts(c, ds)[k]
      BY <2>0 DEF Amounts
    <3> QED BY <3>1, <3>2
  <2>2. SumFunctionOnSet(Amounts(c, ds), Applied(c, ds)) = SumFunctionOnSet(Amounts(c, es), Applied(c, ds))
    BY <2>1, CartDiscountAmountIs, SumOfEquals
  <2>3. SumFunctionOnSet(Amounts(c, es), Applied(c, ds)) <= SumFunctionOnSet(Amounts(c, es), Applied(c, es))
    <3>1. \A k \in Applied(c, es) : Amounts(c, es)[k] \in Nat
      BY <2>0, CartDiscountAmountIs
    <3> QED BY <3>1, CartDiscountAmountIs, SumOfNaturals
  <2> QED BY <2>2, <2>3, CartDiscountAmountIs
<1>5. Answer(c, es).totalSavings >= Answer(c, ds).totalSavings
  <2>1. /\ CartDiscountAmount(c, ds) \in Nat /\ CartDiscountAmount(c, es) \in Nat
        /\ IsFiniteSet(Items(c))
    BY CartDiscountAmountIs, CartItems
  <2>2. /\ SumFunctionOnSet(SavedOn(c, ds), Items(c)) \in Nat
        /\ SumFunctionOnSet(SavedOn(c, es), Items(c)) \in Nat
    <3>1. \A i \in Items(c) : SavedOn(c, ds)[i] \in Nat /\ SavedOn(c, es)[i] \in Nat
      BY AnswerIs
    <3> QED BY <2>1, <3>1, SumOfNaturals
  <2>3. /\ Answer(c, ds).totalSavings =
             SumFunctionOnSet(SavedOn(c, ds), Items(c)) + CartDiscountAmount(c, ds)
        /\ Answer(c, es).totalSavings =
             SumFunctionOnSet(SavedOn(c, es), Items(c)) + CartDiscountAmount(c, es)
    BY AnswerIs
  <2> QED BY <1>3, <1>4, <2>1, <2>2, <2>3
<1> QED BY <1>1, <1>5

\* A coupon for a stackable discount never makes an item or the cart dearer
\* than without the code (resolveCouponDiscount, selectValueDiscounts).
THEOREM StackableCouponNeverHurtsCorrect == Spec => []StackableCouponNeverHurts
<1>1. RequestInv => StackableCouponNeverHurts
  <2> SUFFICES ASSUME RequestInv, Answered, coupon # NoCoupon, coupon.discount.stackable
               PROVE  LET without == Answer(cart, automatic)
                      IN /\ \A i \in Items(cart) : answer.prices[i] <= without.prices[i]
                         /\ answer.totalSavings >= without.totalSavings
    BY DEF StackableCouponNeverHurts
  <2>1. IsCart(cart) /\ Candidates \in Seq(Discounts) /\ answer = Answer(cart, Candidates)
    BY RequestIs
  <2>2. automatic \in Seq(Discounts)
    BY DEF RequestInv
  <2>3. /\ Applied(cart, automatic) \subseteq Applied(cart, Candidates)
        /\ \A k \in Applied(cart, automatic) : Candidates[k] = automatic[k]
    <3>1. CASE ResolveCouponDiscount = << >>
      <4>1. Candidates = automatic
        BY <2>2, <3>1 DEF Candidates
      <4> QED BY <4>1
    <3>2. CASE ResolveCouponDiscount # << >>
      <4>1. Candidates = automatic \o <<coupon.discount>> /\ coupon.discount \in Discounts
        BY <3>2, DiscountsAssumption DEF Candidates, ResolveCouponDiscount, RequestInv
      <4>2. Applied(cart, automatic) \subseteq DOMAIN automatic
        BY AppliedAreListed
      <4> QED BY <2>2, <4>1, <4>2, StackableIsAdded
    <3> QED BY <3>1, <3>2
  <2>4. \A i \in Items(cart) : /\ answer.prices[i] = FinalPrice(cart, Candidates, i)
                               /\ Answer(cart, automatic).prices[i] = FinalPrice(cart, automatic, i)
    BY <2>1, <2>2, AnswerIs
  <2> QED BY <2>1, <2>2, <2>3, <2>4, MoreAppliedSavesMore
<1> QED BY <1>1, RequestCorrect, PTL

-----------------------------------------------------------------------------
\* A fixed amount alone.

LEMMA SingleIsApplied ==
  ASSUME NEW c, NEW d \in Discounts, Matches(d, c), d.type # "free_shipping"
  PROVE  <<d>> \in Seq(Discounts) /\ Applied(c, <<d>>) = {1}
<1> DEFINE ds == <<d>>
<1>1. ds \in Seq(Discounts) /\ DOMAIN ds = {1} /\ ds[1] = d
  OBVIOUS
<1>2. d.priority \in Int
  BY DiscountsAssumption DEF IsDiscount
<1> HIDE DEF ds
<1>3. ValueMatches(c, ds) = {1}
  BY <1>1 DEF ValueMatches
<1>4. CASE d.stackable
  <2>1. Stackable(c, ds) = {1}
    BY <1>1, <1>3, <1>4 DEF Stackable
  <2>2. TopTier(c, ds) = {}
    BY <1>3, <2>1 DEF TopTier, HighestPriority
  <2> QED BY <1>1, <2>1, <2>2, AppliedAreListed DEF Applied, ds
<1>5. CASE ~d.stackable
  <2>1. Stackable(c, ds) = {}
    BY <1>1, <1>3, <1>5 DEF Stackable
  <2>2. TopTier(c, ds) = {1}
    BY <1>1, <1>2, <1>3, <2>1 DEF TopTier, HighestPriority
  <2>3. Contenders(Results(c, ds)) = {1}
    BY <2>2 DEF Contenders, Results
  <2>4. Winner(c, ds) = {1}
    BY <2>3 DEF Winner, Best
  <2> QED BY <1>1, <2>1, <2>4 DEF Applied, ds
<1> QED BY <1>4, <1>5

LEMMA SingleAmount ==
  ASSUME NEW c, IsCart(c), NEW d \in Discounts, Matches(d, c), d.type # "free_shipping"
  PROVE  CartDiscountAmount(c, <<d>>) = Calculate(d, c).cart
<1> DEFINE ds == <<d>>
<1>1. ds \in Seq(Discounts) /\ Applied(c, ds) = {1} /\ DOMAIN ds = {1} /\ ds[1] = d
  BY SingleIsApplied
<1> HIDE DEF ds
<1>2. /\ \A k \in {1} : Amounts(c, ds)[k] \in Int
      /\ CartDiscountAmount(c, ds) = SumFunctionOnSet(Amounts(c, ds), {1})
  <2>1. /\ \A k \in DOMAIN ds : Amounts(c, ds)[k] \in Nat
        /\ CartDiscountAmount(c, ds) = SumFunctionOnSet(Amounts(c, ds), Applied(c, ds))
    BY <1>1, CartDiscountAmountIs
  <2> QED BY <1>1, <2>1
<1>3. SumFunctionOnSet(Amounts(c, ds), {1}) = Amounts(c, ds)[1] + SumFunctionOnSet(Amounts(c, ds), {1} \ {1})
  <2>1. IsFiniteSet({1}) /\ 1 \in {1}
    BY FS_Singleton
  <2> QED BY <1>2, <2>1, SumSplits
<1>4. {1} \ {1} = {}
  OBVIOUS
<1>5. SumFunctionOnSet(Amounts(c, ds), {1}) = Amounts(c, ds)[1]
  BY <1>2, <1>3, <1>4, SumOfNone
<1> QED BY <1>1, <1>2, <1>5 DEF Amounts, ds

\* What rounding does to the price of an item with a share of the amount m,
\* out of a total of V.
LEMMA ShareIsRounded ==
  ASSUME NEW e \in Nat, NEW q \in Nat \ {0}, NEW V \in Nat \ {0}, NEW m \in 0 .. V,
         NEW p, p = Round2(e * (V * q) - q * e * m, V * q)
  PROVE  /\ (2 * V) * ((e - p) * q) - (2 * m) * (e * q) \in Int
         /\ (2 * V) * ((e - p) * q) - (2 * m) * (e * q) <= V * q
         /\ -(V * q) <= (2 * V) * ((e - p) * q) - (2 * m) * (e * q)
<1> DEFINE d == V * q
           L == e * q
           n == e * d - L * m
<1>1. d \in Nat \ {0} /\ L \in Nat
  OBVIOUS
<1>2. e * d = V * L /\ q * e * m = L * m
  OBVIOUS
<1>3. V * L \in Int /\ L * m \in Int
  BY <1>1
<1>4. n \in Int /\ n = V * L - L * m /\ p = Round2(n, d)
  BY <1>2, <1>3
<1> HIDE DEF d, L, n
<1>5. p \in Int /\ 2 * (d * p) <= 2 * n + d /\ 2 * n - d <= 2 * (d * p)
  BY <1>1, <1>4, RoundingError
<1>6. (2 * V) * ((e - p) * q) = 2 * (V * L) - 2 * (d * p)
  <2>1. (e - p) * q = L - p * q
    BY <1>5 DEF L
  <2>2. p * q \in Int
    BY <1>5
  <2>3. V * (L - p * q) = V * L - V * (p * q)
    BY <1>1, <2>2
  <2>4. V * (p * q) = d * p
    BY <1>5 DEF d
  <2>5. (2 * V) * (L - p * q) = 2 * (V * (L - p * q))
    BY <1>1, <2>2
  <2>6. d * p \in Int
    BY <1>1, <1>5
  <2> QED BY <1>3, <2>1, <2>3, <2>4, <2>5, <2>6
<1>7. (2 * m) * L = 2 * (L * m)
  BY <1>1
<1>8. d * p \in Int
  BY <1>1, <1>5
<1> QED BY <1>1, <1>3, <1>4, <1>5, <1>6, <1>7, <1>8 DEF d, L

LEMMA FixedAmountAlone ==
  ASSUME NEW c, IsCart(c), NEW d \in Discounts, d.type = "fixed_amount", Matches(d, c),
         MatchedItems(d, c) # {}
  PROVE  LET S == MatchedItems(d, c)
             error == Given(c, Answer(c, <<d>>)) - Min({d.value, Value(c, S)})
         IN 2 * error \in -Units(c, S) .. Units(c, S)
<1> DEFINE S == MatchedItems(d, c)
           ds == <<d>>
           V == Value(c, S)
           U == Units(c, S)
           m == Min({d.value, V})
           spared == SparedOn(c, ds)
           given == SumFunctionOnSet(spared, S)
<1>0. ds = <<d>>
  OBVIOUS
<1>1. ds \in Seq(Discounts) /\ Applied(c, ds) = {1} /\ ds[1] = d /\ d.type # "free_shipping"
  BY SingleIsApplied
<1> HIDE DEF ds
<1>2. S \subseteq Items(c) /\ S # {} /\ IsFiniteSet(S)
  BY MatchedAreItems, ValueIsSum
<1>3. /\ V \in Nat /\ V = SumFunctionOnSet(Lines(c), S)
      /\ U \in Nat /\ U = SumFunctionOnSet(Quantities(c), S)
  BY <1>2, ValueIsNatural, ValueIsSum
<1>4. d.value \in Nat /\ m \in 0 .. V
  <2>1. d.value \in Nat
    BY DiscountsAssumption DEF IsDiscount, IsValue
  <2> QED BY <1>3, <2>1, MinOfTwo
<1>5. Calculate(d, c) = [off |-> [i \in S |-> Share(d, c, S, i)], scale |-> V, cart |-> 0]
  BY <1>2 DEF Calculate, FixedAmount
<1>6. CartDiscountAmount(c, ds) = 0
  BY <1>1, <1>5, <1>0, SingleAmount
<1>7. ASSUME NEW i \in S
      PROVE  /\ spared[i] = (Item(c, i).effective - FinalPrice(c, ds, i)) * Item(c, i).quantity
             /\ FinalPrice(c, ds, i) = PriceUnder(Calculate(d, c), c, i)
  <2>1. i \in Items(c) /\ Touching(c, ds, i) = {1}
    BY <1>1, <1>2, <1>5 DEF Touching
  <2>2. Offers(c, ds, i) = {Item(c, i).effective, PriceUnder(Calculate(d, c), c, i)}
    BY <1>1, <2>1 DEF Offers
  <2>3. Item(c, i).effective \in Nat
    BY <2>1, CartItems
  <2>4. FinalPrice(c, ds, i) = PriceUnder(Calculate(d, c), c, i)
    <3> DEFINE e == Item(c, i).effective
               p == PriceUnder(Calculate(d, c), c, i)
    <3>1. /\ Offers(c, ds, i) \subseteq 0 .. e
          /\ FinalPrice(c, ds, i) \in Offers(c, ds, i)
          /\ \A x \in Offers(c, ds, i) : FinalPrice(c, ds, i) <= x
      BY <1>1, <2>1, FinalPriceIs
    <3>2. e \in Nat /\ Offers(c, ds, i) = {e, p}
      BY <2>2, <2>3
    <3> HIDE DEF e, p
    <3>3. p \in 0 .. e
      BY <3>1, <3>2
    <3>4. FinalPrice(c, ds, i) = p
      BY <3>1, <3>2, <3>3
    <3> QED BY <3>4 DEF p
  <2> QED BY <2>1, <2>4 DEF SparedOn
<1>8. ASSUME NEW i \in Items(c) \ S PROVE spared[i] = 0
  <2>1. Touching(c, ds, i) = {}
    BY <1>1, <1>5 DEF Touching
  <2>2. FinalPrice(c, ds, i) = Item(c, i).effective
    BY <1>1, <2>1, UntouchedKeepsPrice
  <2>3. Item(c, i).effective \in Nat /\ Item(c, i).quantity \in Nat
    BY CartItems
  <2>4. (Item(c, i).effective - Item(c, i).effective) * Item(c, i).quantity = 0
    BY <2>3
  <2> QED BY <2>2, <2>4 DEF SparedOn
<1>9. Given(c, Answer(c, ds)) = given /\ given \in Nat
  <2>1. \A i \in Items(c) : spared[i] \in Nat
    BY <1>1, GivenIs
  <2>2. SumFunctionOnSet(spared, Items(c)) = given
    <3> HIDE DEF spared, S
    <3> QED BY <1>2, <1>8, <2>1, CartItems, SumOverSupport
  <2>3. given \in Nat
    <3> HIDE DEF spared, S
    <3> QED BY <1>2, <2>1, SumOfNaturals
  <2> QED BY <1>1, <1>6, <2>2, <2>3, GivenIs
<1>10. CASE V = 0
  <2>1. ASSUME NEW i \in S PROVE spared[i] = 0
    <3>1. Item(c, i).effective \in Nat /\ Item(c, i).quantity \in Nat
      BY <1>2, CartItems
    <3>2. PriceUnder(Calculate(d, c), c, i) = Item(c, i).effective
      BY <1>5, <1>10, <3>1 DEF PriceUnder
    <3>3. (Item(c, i).effective - Item(c, i).effective) * Item(c, i).quantity = 0
      BY <3>1
    <3> QED BY <1>7, <3>2, <3>3
  <2>2. given = SumFunctionOnSet(spared, {})
    <3> HIDE DEF spared, S
    <3> QED BY <1>2, <2>1, SumOverSupport
  <2>3. given = 0 /\ m = 0
    BY <1>4, <1>10, <2>2, SumOfNone
  <2> HIDE DEF given, m, U
  <2> QED BY <1>3, <1>9, <1>0, <2>3 DEF m, U
<1>11. CASE V # 0
  <2> DEFINE f == [i \in S |-> (2 * V) * spared[i] + (-(2 * m)) * Lines(c)[i]]
             lower == [i \in S |-> (-V) * Quantities(c)[i] + 0 * Quantities(c)[i]]
             upper == [i \in S |-> V * Quantities(c)[i] + 0 * Quantities(c)[i]]
  <2>1. ASSUME NEW i \in S
        PROVE  /\ spared[i] \in Int /\ Lines(c)[i] \in Int /\ Quantities(c)[i] \in Int
               /\ f[i] \in Int /\ lower[i] \in Int /\ upper[i] \in Int
               /\ lower[i] <= f[i] /\ f[i] <= upper[i]
    <3> DEFINE e == Item(c, i).effective
               q == Item(c, i).quantity
               p == FinalPrice(c, ds, i)
    <3>1. e \in Nat /\ q \in Nat \ {0}
      BY <1>2, CartItems
    <3>2. p = Round2(e * (V * q) - q * e * m, V * q)
      <4>1. Share(d, c, S, i) = q * e * m
        <5>1. {V, d.value} = {d.value, V}
          OBVIOUS
        <5> QED BY <5>1 DEF Share
      <4>2. V * q # 0
        BY <1>3, <1>11, <3>1
      <4>3. /\ Calculate(d, c).scale = V
            /\ Calculate(d, c).off[i] = q * e * m
        BY <1>5, <4>1
      <4>4. p = PriceUnder(Calculate(d, c), c, i)
        BY <1>7
      <4> HIDE DEF V, m, p, S
      <4> QED BY <4>2, <4>3, <4>4 DEF PriceUnder
    <3>3. spared[i] = (e - p) * q /\ Lines(c)[i] = e * q /\ Quantities(c)[i] = q
      BY <1>2, <1>7 DEF Lines, Quantities
    <3>4. spared[i] \in Int
      BY <1>1, <1>2, GivenIs
    <3>5. f[i] = (2 * V) * spared[i] + (-(2 * m)) * Lines(c)[i]
      OBVIOUS
    <3>6. lower[i] = (-V) * Quantities(c)[i] + 0 * Quantities(c)[i]
      OBVIOUS
    <3>7. upper[i] = V * Quantities(c)[i] + 0 * Quantities(c)[i]
      OBVIOUS
    <3> HIDE DEF e, q, p, f, lower, upper, V, m, spared
    <3>8. V \in Nat \ {0} /\ m \in 0 .. V
      BY <1>3, <1>4, <1>11
    <3>9. /\ (2 * V) * ((e - p) * q) - (2 * m) * (e * q) \in Int
          /\ (2 * V) * ((e - p) * q) - (2 * m) * (e * q) <= V * q
          /\ -(V * q) <= (2 * V) * ((e - p) * q) - (2 * m) * (e * q)
      BY <3>1, <3>2, <3>8, ShareIsRounded
    <3>10. e * q \in Int /\ V * q \in Int /\ (2 * V) * spared[i] \in Int /\ (2 * m) * (e * q) \in Int
      BY <3>1, <3>4, <3>8
    <3>11. (-(2 * m)) * (e * q) = -((2 * m) * (e * q)) /\ (-V) * q = -(V * q) /\ 0 * q = 0
      BY <3>1, <3>8, <3>10
    <3>12. f[i] = (2 * V) * ((e - p) * q) - (2 * m) * (e * q) /\ upper[i] = V * q /\ lower[i] = -(V * q)
      BY <3>3, <3>5, <3>6, <3>7, <3>9, <3>10, <3>11
    <3> QED BY <3>1, <3>3, <3>4, <3>9, <3>10, <3>12
  <2>2. /\ \A i \in S : f[i] = (2 * V) * spared[i] + (-(2 * m)) * Lines(c)[i]
        /\ \A i \in S : lower[i] = (-V) * Quantities(c)[i] + 0 * Quantities(c)[i]
        /\ \A i \in S : upper[i] = V * Quantities(c)[i] + 0 * Quantities(c)[i]
    OBVIOUS
  <2> HIDE DEF f, lower, upper, V, m, spared, S, U, given
  <2>3. /\ SumFunctionOnSet(f, S) = (2 * V) * given + (-(2 * m)) * V
        /\ SumFunctionOnSet(lower, S) = (-V) * U + 0 * U
        /\ SumFunctionOnSet(upper, S) = V * U + 0 * U
    <3>1. 2 * V \in Int /\ -(2 * m) \in Int /\ -V \in Int /\ V \in Int
      BY <1>3, <1>4
    <3>2. SumFunctionOnSet(f, S) = (2 * V) * SumFunctionOnSet(spared, S)
                                     + (-(2 * m)) * SumFunctionOnSet(Lines(c), S)
      BY <1>2, <2>1, <2>2, <3>1, SumIsLinear
    <3>3. SumFunctionOnSet(lower, S) = (-V) * SumFunctionOnSet(Quantities(c), S)
                                         + 0 * SumFunctionOnSet(Quantities(c), S)
      BY <1>2, <2>1, <2>2, <3>1, SumIsLinear
    <3>4. SumFunctionOnSet(upper, S) = V * SumFunctionOnSet(Quantities(c), S)
                                         + 0 * SumFunctionOnSet(Quantities(c), S)
      BY <1>2, <2>1, <2>2, <3>1, SumIsLinear
    <3> QED BY <1>3, <3>2, <3>3, <3>4 DEF given
  <2>4. /\ SumFunctionOnSet(lower, S) <= SumFunctionOnSet(f, S)
        /\ SumFunctionOnSet(f, S) <= SumFunctionOnSet(upper, S)
    BY <1>2, <2>1, SumIsMonotone
  <2>5. V \in Nat \ {0} /\ U \in Nat /\ m \in Int /\ given \in Nat
    BY <1>3, <1>4, <1>9, <1>11
  <2>6. (2 * V) * given + (-(2 * m)) * V = V * (2 * (given - m))
    BY <2>5
  <2>7. (-V) * U + 0 * U = V * (-U) /\ V * U + 0 * U = V * U
    BY <2>5
  <2>8. V * (-U) <= V * (2 * (given - m)) /\ V * (2 * (given - m)) <= V * U
    BY <2>3, <2>4, <2>6, <2>7
  <2>9. -U <= 2 * (given - m) /\ 2 * (given - m) <= U
    BY <2>5, <2>8, Scales
  <2> QED BY <1>9, <1>0, <2>5, <2>9 DEF S, V, U, m
<1> QED BY <1>10, <1>11

LEMMA CartAmountAlone ==
  ASSUME NEW c, IsCart(c), NEW d \in Discounts, d.type = "fixed_amount", Matches(d, c),
         MatchedItems(d, c) = {}
  PROVE  Given(c, Answer(c, <<d>>)) = Min({d.value, Value(c, Items(c))})
<1> DEFINE ds == <<d>>
<1>0. ds = <<d>>
  OBVIOUS
<1>1. ds \in Seq(Discounts) /\ Applied(c, ds) = {1} /\ ds[1] = d /\ d.type # "free_shipping"
  BY SingleIsApplied
<1> HIDE DEF ds
<1>2. Calculate(d, c) = [off |-> << >>, scale |-> 1, cart |-> CartAmount(d, c)]
  BY DEF Calculate, FixedAmount
<1>3. CartDiscountAmount(c, ds) = CartAmount(d, c)
  BY <1>0, <1>1, <1>2, SingleAmount
<1>4. ASSUME NEW i \in Items(c) PROVE SparedOn(c, ds)[i] = 0
  <2>1. Touching(c, ds, i) = {}
    BY <1>1, <1>2 DEF Touching
  <2>2. FinalPrice(c, ds, i) = Item(c, i).effective
    BY <1>1, <2>1, UntouchedKeepsPrice
  <2>3. Item(c, i).effective \in Nat /\ Item(c, i).quantity \in Nat
    BY CartItems
  <2>4. (Item(c, i).effective - Item(c, i).effective) * Item(c, i).quantity = 0
    BY <2>3
  <2> QED BY <2>2, <2>4 DEF SparedOn
<1>5. SumFunctionOnSet(SparedOn(c, ds), Items(c)) = 0
  <2>1. SumFunctionOnSet(SparedOn(c, ds), Items(c)) = SumFunctionOnSet(SparedOn(c, ds), {})
    BY <1>4, CartItems, SumOverSupport
  <2> QED BY <2>1, SumOfNone
<1>6. CartDiscountAmount(c, ds) \in Nat
  BY <1>1, CartDiscountAmountIs
<1>7. Given(c, Answer(c, ds)) = CartDiscountAmount(c, ds)
  BY <1>1, <1>5, <1>6, GivenIs
<1> QED BY <1>0, <1>3, <1>7 DEF CartAmount

\* A fixed amount alone gives the amount it names, or everything it covers if
\* that is less; rounding the price of a unit moves it by at most half a cent
\* for each unit (applyFixedAmount, evaluate).
THEOREM FixedAmountIsHonouredCorrect == Spec => []FixedAmountIsHonoured
<1>1. RequestInv => FixedAmountIsHonoured
  <2> SUFFICES ASSUME RequestInv, NEW k \in DOMAIN Candidates,
                      Candidates[k].type = "fixed_amount", Matches(Candidates[k], cart)
               PROVE  LET d == Candidates[k]
                          S == IF MatchedItems(d, cart) = {} THEN Items(cart)
                               ELSE MatchedItems(d, cart)
                          error == Given(cart, Answer(cart, <<d>>)) - Min({d.value, Value(cart, S)})
                      IN 2 * error \in -Units(cart, S) .. Units(cart, S)
    BY DEF FixedAmountIsHonoured
  <2> DEFINE d == Candidates[k]
             g == Given(cart, Answer(cart, <<d>>))
  <2>1. IsCart(cart) /\ d \in Discounts /\ d.type = "fixed_amount" /\ Matches(d, cart)
    <3>1. IsCart(cart) /\ Candidates \in Seq(Discounts)
      BY RequestIs
    <3> QED BY <3>1
  <2> HIDE DEF d
  <2>2. CASE MatchedItems(d, cart) = {}
    <3>1. g = Min({d.value, Value(cart, Items(cart))})
      BY <2>1, <2>2, CartAmountAlone
    <3>2. g \in Int
      <4>1. d.value \in Nat /\ Value(cart, Items(cart)) \in Nat
        BY <2>1, ValueIsNatural, DiscountsAssumption DEF IsDiscount, IsValue
      <4> QED BY <3>1, <4>1, MinOfTwo
    <3>3. Units(cart, Items(cart)) \in Nat
      BY <2>1, ValueIsNatural
    <3> HIDE DEF g
    <3>4. 2 * (g - Min({d.value, Value(cart, Items(cart))}))
            \in -Units(cart, Items(cart)) .. Units(cart, Items(cart))
      BY <3>1, <3>2, <3>3
    <3> QED BY <2>2, <3>4 DEF d, g
  <2>3. CASE MatchedItems(d, cart) # {}
    <3>1. 2 * (g - Min({d.value, Value(cart, MatchedItems(d, cart))}))
            \in -Units(cart, MatchedItems(d, cart)) .. Units(cart, MatchedItems(d, cart))
      BY <2>1, <2>3, FixedAmountAlone
    <3> QED BY <2>3, <3>1 DEF d
  <2> QED BY <2>2, <2>3
<1> QED BY <1>1, RequestCorrect, PTL

-----------------------------------------------------------------------------
\* Buy some, get some.

LEMMA UnitsGrow ==
  ASSUME NEW c, IsCart(c), NEW S \in SUBSET Items(c), NEW T \in SUBSET S
  PROVE  /\ Units(c, T) \in Nat /\ Units(c, T) <= Units(c, S)
         /\ \A x \in S \ T : Units(c, T \cup {x}) = Item(c, x).quantity + Units(c, T)
<1>1. \A i \in S : Quantities(c)[i] \in Nat
  BY LinesAreNaturals
<1>2. IsFiniteSet(S) /\ Units(c, S) = SumFunctionOnSet(Quantities(c), S)
  BY ValueIsSum
<1>3. T \in SUBSET Items(c) /\ Units(c, T) = SumFunctionOnSet(Quantities(c), T)
  BY ValueIsSum
<1>4. Units(c, T) \in Nat
  BY <1>3, ValueIsNatural
<1>5. Units(c, T) <= Units(c, S)
  BY <1>1, <1>2, <1>3, SumOfNaturals
<1>6. ASSUME NEW x \in S \ T
      PROVE  Units(c, T \cup {x}) = Item(c, x).quantity + Units(c, T)
  <2>1. Units(c, T \cup {x}) = SumFunctionOnSet(Quantities(c), T \cup {x})
    <3>1. T \cup {x} \in SUBSET Items(c)
      BY <1>3
    <3> QED BY <3>1, ValueIsSum
  <2>2. SumFunctionOnSet(Quantities(c), T \cup {x})
          = Quantities(c)[x] + SumFunctionOnSet(Quantities(c), T)
    BY <1>1, <1>2, SumGrows
  <2>3. Quantities(c)[x] = Item(c, x).quantity
    BY DEF Quantities
  <2> QED BY <1>3, <2>1, <2>2, <2>3
<1> QED BY <1>4, <1>5, <1>6

\* The order of the units is a strict total order of the items.
LEMMA SortedOrder ==
  ASSUME NEW c, IsCart(c), NEW S \in SUBSET Items(c)
  PROVE  /\ \A i \in S : SortedBefore(c, S, i) \subseteq S \ {i}
         /\ \A i, j \in S : i # j => i \in SortedBefore(c, S, j) \/ j \in SortedBefore(c, S, i)
         /\ \A i, j \in S : i \in SortedBefore(c, S, j) => j \notin SortedBefore(c, S, i)
         /\ \A i, j \in S : i \in SortedBefore(c, S, j) =>
              SortedBefore(c, S, i) \subseteq SortedBefore(c, S, j)
<1>1. \A i \in S : Item(c, i).effective \in Nat /\ i \in Nat
  BY CartItems
<1> DEFINE e(i) == Item(c, i).effective
<1>2. \A i, j \in S : i \in SortedBefore(c, S, j) <=> e(i) < e(j) \/ (e(i) = e(j) /\ i < j)
  BY DEF SortedBefore
<1>3. \A i \in S : SortedBefore(c, S, i) \subseteq S
  BY DEF SortedBefore
<1>4. \A i \in S : e(i) \in Nat /\ i \in Nat
  BY <1>1
<1> HIDE DEF e
<1>5. \A i \in S : i \notin SortedBefore(c, S, i)
  BY <1>2, <1>4
<1>6. \A i, j \in S : i # j => i \in SortedBefore(c, S, j) \/ j \in SortedBefore(c, S, i)
  BY <1>2, <1>4
<1>7. \A i, j \in S : i \in SortedBefore(c, S, j) => j \notin SortedBefore(c, S, i)
  BY <1>2, <1>4
<1>8. ASSUME NEW i \in S, NEW j \in S, i \in SortedBefore(c, S, j), NEW k \in SortedBefore(c, S, i)
      PROVE  k \in SortedBefore(c, S, j)
  <2>1. k \in S
    BY <1>3
  <2> QED BY <1>2, <1>4, <1>8, <2>1
<1> QED BY <1>3, <1>5, <1>6, <1>7, <1>8

\* Of any items that are not none, one comes first and one comes last.
LEMMA SortedEnds ==
  ASSUME NEW c, IsCart(c), NEW S \in SUBSET Items(c), NEW T \in SUBSET S, T # {}
  PROVE  /\ \E i \in T : \A j \in T : j # i => i \in SortedBefore(c, S, j)
         /\ \E i \in T : \A j \in T : j # i => j \in SortedBefore(c, S, i)
<1>1. IsFiniteSet(T)
  BY CartItems, FS_Subset
<1> DEFINE Up == {p \in T \X T : p[1] # p[2] => p[1] \in SortedBefore(c, S, p[2])}
           Down == {p \in T \X T : p[1] # p[2] => p[2] \in SortedBefore(c, S, p[1])}
<1>2. \A x, y \in T : <<x, y>> \in Up \/ <<y, x>> \in Up
  BY SortedOrder
<1>3. \A x, y \in T : <<x, y>> \in Down \/ <<y, x>> \in Down
  BY SortedOrder
<1>4. \A x, y, z \in T : <<x, y>> \in Up /\ <<y, z>> \in Up => <<x, z>> \in Up
  BY SortedOrder
<1>5. \A x, y, z \in T : <<x, y>> \in Down /\ <<y, z>> \in Down => <<x, z>> \in Down
  BY SortedOrder
<1>6. \A x, y \in T : /\ <<x, y>> \in Up => (y # x => x \in SortedBefore(c, S, y))
                      /\ <<x, y>> \in Down => (y # x => y \in SortedBefore(c, S, x))
  OBVIOUS
<1> HIDE DEF Up, Down
<1>7. \E i \in T : \A j \in T : <<i, j>> \in Up
  BY <1>1, <1>2, <1>4, BestExists
<1>8. \E i \in T : \A j \in T : <<i, j>> \in Down
  BY <1>1, <1>3, <1>5, BestExists
<1> QED BY <1>6, <1>7, <1>8

\* The units that are discounted, by item.
Hits(d, c) == [i \in MatchedItems(d, c) |-> Hit(d, c, i)]

IsBuyXGetY(d) ==
  /\ d.type = "buy_x_get_y"
  /\ d.value.buy \in Nat \ {0} /\ d.value.get \in Nat \ {0}
  /\ d.value.percent \in 0 .. 100

\* All the units that are to be discounted are; they are all units of the items
\* that cost less than some price, and none of those that cost more.
LEMMA HitsAreCheapest ==
  ASSUME NEW c, IsCart(c), NEW d, IsBuyXGetY(d)
  PROVE  LET S == MatchedItems(d, c)
         IN /\ SumFunctionOnSet(Hits(d, c), S) = DiscountedCount(d, c, S)
            /\ \E t \in Nat : \A i \in S :
                 /\ Item(c, i).effective < t => Hits(d, c)[i] = Item(c, i).quantity
                 /\ Item(c, i).effective > t => Hits(d, c)[i] = 0
<1> DEFINE S == MatchedItems(d, c)
           n == DiscountedCount(d, c, S)
           h == Hits(d, c)
           B(i) == SortedBefore(c, S, i)
           e(i) == Item(c, i).effective
           q(i) == Item(c, i).quantity
           u(T) == Units(c, T)
<1>1. S \in SUBSET Items(c) /\ IsFiniteSet(S)
  BY MatchedAreItems, ValueIsSum
<1>2. n \in 0 .. u(S) /\ u(S) \in Nat
  <2> HIDE DEF S
  <2> QED BY <1>1, DiscountedCountIs, ValueIsNatural DEF IsBuyXGetY
<1>3. \A i \in S : e(i) \in Nat /\ q(i) \in Nat \ {0}
  BY <1>1, CartItems
<1>4. \A i \in S : /\ h[i] = IF n - u(B(i)) <= 0 THEN 0
                             ELSE IF n - u(B(i)) <= q(i) THEN n - u(B(i)) ELSE q(i)
                   /\ h[i] \in 0 .. q(i)
  BY HitIs DEF Hits, IsBuyXGetY
<1>5. /\ \A i \in S : B(i) \subseteq S \ {i}
      /\ \A i, j \in S : i # j => i \in B(j) \/ j \in B(i)
      /\ \A i, j \in S : i \in B(j) => j \notin B(i)
      /\ \A i, j \in S : i \in B(j) => B(i) \subseteq B(j)
  BY <1>1, SortedOrder
<1>6. \A T \in SUBSET S : u(T) \in Nat /\ u(T) <= u(S)
  BY <1>1, UnitsGrow
<1>7. \A T \in SUBSET S : \A R \in SUBSET T : u(R) <= u(T)
  BY <1>1, UnitsGrow
<1>8. \A T \in SUBSET S : \A x \in S \ T : u(T \cup {x}) = q(x) + u(T)
  BY <1>1, UnitsGrow
<1>9. \A T \in SUBSET S : T # {} => /\ \E i \in T : \A j \in T : j # i => i \in B(j)
                                    /\ \E i \in T : \A j \in T : j # i => j \in B(i)
  BY <1>1, SortedEnds
<1>10. u({}) = 0
  <2>1. {} \in SUBSET Items(c)
    OBVIOUS
  <2>2. Units(c, {}) = SumFunctionOnSet(Quantities(c), {})
    BY <2>1, ValueIsSum
  <2> QED BY <2>2, SumOfNone
<1>11. \A i \in S, j \in S : /\ e(i) < e(j) => i \in B(j)
                             /\ i \in B(j) => e(i) <= e(j)
  <2>1. \A i, j \in S : i \in B(j) <=> e(i) < e(j) \/ (e(i) = e(j) /\ i < j)
    BY DEF SortedBefore
  <2> HIDE DEF B, e
  <2> QED BY <1>3, <2>1
<1>12. \A T \in SUBSET S : u(T) = SumFunctionOnSet(Quantities(c), T) /\ IsFiniteSet(T)
  BY <1>1, ValueIsSum
<1>13. \A i \in S : Quantities(c)[i] = q(i)
  BY <1>1 DEF Quantities
<1> SUFFICES /\ SumFunctionOnSet(h, S) = n
             /\ \E t \in Nat : \A i \in S : /\ e(i) < t => h[i] = q(i)
                                            /\ e(i) > t => h[i] = 0
  OBVIOUS
<1> HIDE DEF S, n, h, B, e, q, u
<1>14. CASE n = 0
  <2>1. \A i \in S : h[i] = 0
    <3> TAKE i \in S
    <3>1. B(i) \in SUBSET S
      BY <1>5
    <3>2. u(B(i)) \in Nat
      BY <1>6, <3>1
    <3> QED BY <1>4, <1>14, <3>2
  <2>2. SumFunctionOnSet(h, S) = SumFunctionOnSet(h, {})
    BY <1>1, <2>1, SumOverSupport
  <2>3. SumFunctionOnSet(h, S) = n
    BY <1>14, <2>2, SumOfNone
  <2>4. \A i \in S : ~(e(i) < 0)
    BY <1>3
  <2> QED BY <2>1, <2>3, <2>4
<1>15. CASE n # 0
  <2> DEFINE P == {i \in S : h[i] > 0}
  <2>0. \A i \in S : i \in P <=> n - u(B(i)) > 0
    <3> TAKE i \in S
    <3>1. B(i) \in SUBSET S
      BY <1>5
    <3>2. u(B(i)) \in Nat /\ n \in Nat /\ q(i) \in Nat \ {0}
      BY <1>2, <1>3, <1>6, <3>1
    <3> QED BY <1>4, <3>2
  <2>1. P # {} /\ P \in SUBSET S
    <3>1. S # {}
      BY <1>2, <1>10, <1>15
    <3>2. PICK i \in S : \A j \in S : j # i => i \in B(j)
      BY <1>9, <3>1
    <3>3. B(i) = {}
      BY <1>5, <3>2
    <3>4. n - u(B(i)) > 0
      BY <1>2, <1>10, <1>15, <3>3
    <3> QED BY <2>0, <3>4
  <2>2. PICK l \in P : \A j \in P : j # l => j \in B(l)
    <3> HIDE DEF P
    <3> QED BY <1>9, <2>1
  <2>3. l \in S /\ B(l) \in SUBSET S /\ l \notin B(l) /\ u(B(l)) \in Nat /\ n - u(B(l)) > 0
    BY <1>5, <1>6, <2>0, <2>1
  <2>4. ASSUME NEW i \in B(l) PROVE h[i] = q(i)
    <3>1. i \in S /\ B(i) \in SUBSET S /\ i \in S \ B(i)
      BY <1>5, <2>3
    <3>2. B(i) \cup {i} \in SUBSET B(l)
      BY <1>5, <2>3, <3>1
    <3>3. u(B(i) \cup {i}) <= u(B(l))
      BY <1>7, <2>3, <3>2
    <3>4. u(B(i) \cup {i}) = q(i) + u(B(i))
      BY <1>8, <3>1
    <3>5. u(B(i)) \in Nat /\ q(i) \in Nat \ {0} /\ n \in Nat
      BY <1>2, <1>3, <1>6, <3>1
    <3>6. n - u(B(i)) > q(i)
      BY <2>3, <3>3, <3>4, <3>5
    <3> QED BY <1>4, <3>1, <3>5, <3>6
  <2>5. ASSUME NEW i \in S, i # l, i \notin B(l) PROVE h[i] = 0
    <3>1. i \notin P
      BY <2>2, <2>5
    <3> QED BY <1>3, <1>4, <3>1
  <2>6. \A i \in S : /\ e(i) < e(l) => h[i] = q(i)
                     /\ e(i) > e(l) => h[i] = 0
    <3> TAKE i \in S
    <3>1. e(i) \in Nat /\ e(l) \in Nat
      BY <1>3, <2>3
    <3>2. CASE e(i) < e(l)
      BY <1>11, <2>3, <2>4, <3>1, <3>2
    <3>3. CASE e(i) > e(l)
      <4>1. i # l /\ i \notin B(l)
        BY <1>11, <2>3, <3>1, <3>3
      <4> QED BY <2>5, <3>1, <3>3, <4>1
    <3> QED BY <3>1, <3>2, <3>3
  <2>7. SumFunctionOnSet(h, S) = h[l] + u(B(l))
    <3>1. \A i \in S : h[i] \in Int
      BY <1>3, <1>4
    <3>2. B(l) \cup {l} \in SUBSET S /\ l \in S \ B(l)
      BY <2>3
    <3>3. SumFunctionOnSet(h, S) = SumFunctionOnSet(h, B(l) \cup {l})
      <4>1. \A i \in S \ (B(l) \cup {l}) : h[i] = 0
        BY <2>5
      <4> QED BY <1>1, <3>1, <3>2, <4>1, SumOverSupport
    <3>4. SumFunctionOnSet(h, B(l) \cup {l}) = h[l] + SumFunctionOnSet(h, B(l))
      BY <1>1, <2>3, <3>1, <3>2, SumGrows
    <3>5. SumFunctionOnSet(h, B(l)) = SumFunctionOnSet(Quantities(c), B(l))
      <4>1. \A i \in B(l) : h[i] \in Int /\ Quantities(c)[i] = h[i]
        BY <1>13, <2>3, <2>4, <3>1
      <4> QED BY <1>12, <2>3, <4>1, SumOfEquals
    <3> QED BY <1>12, <2>3, <3>3, <3>4, <3>5
  <2>8. h[l] = n - u(B(l))
    <3>1. q(l) \in Nat /\ n \in Nat
      BY <1>2, <1>3, <2>3
    <3> SUFFICES ASSUME q(l) < n - u(B(l)) PROVE FALSE
      BY <1>4, <2>3, <3>1
    <3> DEFINE rest == S \ (B(l) \cup {l})
    <3>2. u(B(l) \cup {l}) = q(l) + u(B(l)) /\ u(B(l) \cup {l}) < n
      BY <1>8, <2>3, <3>1
    <3>3. rest # {}
      <4> SUFFICES ASSUME rest = {} PROVE FALSE
        OBVIOUS
      <4>1. B(l) \cup {l} = S
        BY <2>3
      <4>2. u(S) < n
        BY <3>2, <4>1
      <4> QED BY <1>2, <4>2
    <3>4. PICK a \in rest : \A j \in rest : j # a => a \in B(j)
      <4>1. rest \in SUBSET S
        OBVIOUS
      <4> HIDE DEF rest
      <4> QED BY <1>9, <3>3, <4>1
    <3>5. B(a) = B(l) \cup {l}
      <4>1. a \in S /\ a # l /\ a \notin B(l)
        OBVIOUS
      <4>2. l \in B(a) /\ B(l) \subseteq B(a)
        BY <1>5, <2>3, <4>1
      <4>3. ASSUME NEW j \in B(a), j \in rest PROVE FALSE
        <5>1. j # a /\ j \in S
          BY <1>5, <4>1, <4>3
        <5>2. a \in B(j)
          BY <3>4, <4>3, <5>1
        <5>3. j \in B(a)
          BY <4>3
        <5> HIDE DEF rest
        <5> QED BY <1>5, <4>1, <5>1, <5>2, <5>3
      <4>4. B(a) \subseteq S
        BY <1>5, <4>1
      <4> QED BY <4>2, <4>3, <4>4
    <3>6. a \in P
      <4>1. a \in S /\ u(B(a)) < n /\ u(B(a)) \in Nat
        BY <1>6, <2>3, <3>2, <3>5
      <4> QED BY <2>0, <3>1, <4>1
    <3>7. a # l /\ a \notin B(l)
      OBVIOUS
    <3> QED BY <2>2, <3>6, <3>7
  <2>9. SumFunctionOnSet(h, S) = n
    BY <1>2, <2>3, <2>7, <2>8
  <2>10. e(l) \in Nat
    BY <1>3, <2>3
  <2> QED BY <2>6, <2>9, <2>10
<1> QED BY <1>14, <1>15

\* What a choice of units is worth.
WorthOf(d, c, f) == [i \in MatchedItems(d, c) |-> f[i] * Item(c, i).effective]

\* No choice of as many units is worth less than the one of applyBuyXGetY: the
\* two differ by units that cost at least t against units that cost at most t.
LEMMA HitsAreWorthLeast ==
  ASSUME NEW c, IsCart(c), NEW d, IsBuyXGetY(d)
  PROVE  LET S == MatchedItems(d, c)
             choices == UnitChoices(c, S, DiscountedCount(d, c, S))
         IN /\ Hits(d, c) \in choices
            /\ \A f \in choices :
                 /\ SumFunctionOnSet(WorthOf(d, c, f), S) \in Int
                 /\ SumFunctionOnSet(WorthOf(d, c, Hits(d, c)), S)
                      <= SumFunctionOnSet(WorthOf(d, c, f), S)
<1> DEFINE S == MatchedItems(d, c)
           n == DiscountedCount(d, c, S)
           choices == UnitChoices(c, S, n)
           h == Hits(d, c)
           e(i) == Item(c, i).effective
           q(i) == Item(c, i).quantity
           w(f) == WorthOf(d, c, f)
<1>1. S \in SUBSET Items(c) /\ IsFiniteSet(S)
  BY MatchedAreItems, ValueIsSum
<1>2. \A i \in S : e(i) \in Nat /\ q(i) \in Nat \ {0}
  BY <1>1, CartItems
<1>3. n \in Nat
  <2>1. n \in 0 .. Units(c, S) /\ Units(c, S) \in Nat
    <3> HIDE DEF S
    <3> QED BY <1>1, DiscountedCountIs, ValueIsNatural DEF IsBuyXGetY
  <2> QED BY <2>1
<1>4. DOMAIN h = S /\ h = [i \in S |-> h[i]] /\ \A i \in S : h[i] \in 0 .. q(i)
  BY HitIs DEF Hits, IsBuyXGetY
<1>5. SumFunctionOnSet(h, S) = n
  BY HitsAreCheapest
<1>6. PICK t \in Nat : \A i \in S : /\ e(i) < t => h[i] = q(i)
                                    /\ e(i) > t => h[i] = 0
  BY HitsAreCheapest
<1>7. choices = {f \in [S -> 0 .. n] : SumFunction(f) = n /\ \A i \in S : f[i] <= q(i)}
  BY DEF UnitChoices
<1>8. \A f, i : i \in S => w(f)[i] = f[i] * e(i)
  BY DEF WorthOf
<1> HIDE DEF S, n, choices, h, e, q, w
<1>9. h \in choices
  <2>1. \A i \in S : h[i] \in Nat
    BY <1>2, <1>4
  <2>2. \A i \in S : h[i] <= n
    BY <1>1, <1>5, <2>1, SumOfNaturals
  <2>3. h \in [S -> 0 .. n]
    <3>1. \A i \in S : h[i] \in 0 .. n
      BY <1>3, <2>1, <2>2
    <3> QED BY <1>4, <3>1
  <2>4. \A i \in S : h[i] <= q(i)
    BY <1>2, <1>4
  <2>5. SumFunction(h) = n
    BY <1>4, <1>5 DEF SumFunction
  <2> QED BY <1>7, <2>3, <2>4, <2>5
<1>10. ASSUME NEW f \in choices
       PROVE  /\ SumFunctionOnSet(w(f), S) \in Int
              /\ SumFunctionOnSet(w(h), S) <= SumFunctionOnSet(w(f), S)
  <2>1. /\ \A i \in S : f[i] \in Int /\ f[i] >= 0 /\ f[i] <= q(i)
        /\ SumFunctionOnSet(f, S) = n
    <3>1. f \in [S -> 0 .. n] /\ SumFunction(f) = n /\ \A i \in S : f[i] <= q(i)
      BY <1>7
    <3>2. DOMAIN f = S
      BY <3>1
    <3>3. \A i \in S : f[i] \in Int /\ f[i] >= 0
      BY <1>3, <3>1
    <3> QED BY <3>1, <3>2, <3>3 DEF SumFunction
  <2> DEFINE base(g) == [i \in S |-> 1 * w(g)[i] + (-t) * g[i]]
  <2>2. \A i \in S : /\ base(f)[i] = 1 * w(f)[i] + (-t) * f[i]
                     /\ base(h)[i] = 1 * w(h)[i] + (-t) * h[i]
    OBVIOUS
  <2> HIDE DEF base
  <2>3. ASSUME NEW i \in S
        PROVE  /\ w(f)[i] \in Int /\ w(h)[i] \in Int
               /\ base(f)[i] \in Int /\ base(h)[i] \in Int
               /\ base(h)[i] <= base(f)[i]
    <3> DEFINE x == f[i]
               y == h[i]
               z == e(i)
    <3>1. x \in Int /\ x >= 0 /\ x <= q(i) /\ y \in 0 .. q(i) /\ z \in Nat /\ q(i) \in Nat
      BY <1>2, <1>4, <2>1
    <3>2. w(f)[i] = x * z /\ w(h)[i] = y * z
      BY <1>8
    <3>3. base(f)[i] = 1 * (x * z) + (-t) * x /\ base(h)[i] = 1 * (y * z) + (-t) * y
      BY <2>2, <3>2
    <3>4. (z < t => y = q(i)) /\ (z > t => y = 0)
      BY <1>6
    <3> HIDE DEF x, y, z
    <3>5. x * z \in Int /\ y * z \in Int
      BY <3>1
    <3>6. 1 * (x * z) + (-t) * x = x * (z - t) /\ 1 * (y * z) + (-t) * y = y * (z - t)
      BY <3>1
    <3>7. y * (z - t) <= x * (z - t)
      <4>1. CASE z < t
        <5>1. x <= y /\ z - t <= 0
          BY <3>1, <3>4, <4>1
        <5> QED BY <3>1, <5>1
      <4>2. CASE z = t
        <5>1. y * (z - t) = 0 /\ x * (z - t) = 0
          BY <3>1, <4>2
        <5> QED BY <5>1
      <4>3. CASE z > t
        <5>1. y = 0 /\ z - t >= 0
          BY <3>1, <3>4, <4>3
        <5> QED BY <3>1, <5>1
      <4> QED BY <3>1, <4>1, <4>2, <4>3
    <3>8. x * (z - t) \in Int /\ y * (z - t) \in Int
      BY <3>1
    <3> QED BY <3>2, <3>3, <3>5, <3>6, <3>7, <3>8
  <2>4. /\ SumFunctionOnSet(base(f), S) = 1 * SumFunctionOnSet(w(f), S) + (-t) * SumFunctionOnSet(f, S)
        /\ SumFunctionOnSet(base(h), S) = 1 * SumFunctionOnSet(w(h), S) + (-t) * SumFunctionOnSet(h, S)
    <3>1. \A i \in S : h[i] \in Int
      BY <1>2, <1>4
    <3> QED BY <1>1, <2>1, <2>2, <2>3, <3>1, SumIsLinear
  <2>5. SumFunctionOnSet(base(h), S) <= SumFunctionOnSet(base(f), S)
    BY <1>1, <2>3, SumIsMonotone
  <2>6. SumFunctionOnSet(w(f), S) \in Int /\ SumFunctionOnSet(w(h), S) \in Int
    BY <1>1, <2>3, SumSplits
  <2>7. (-t) * n \in Int
    BY <1>3
  <2> QED BY <1>5, <2>1, <2>4, <2>5, <2>6, <2>7
<1> QED BY <1>9, <1>10 DEF S, n, choices, h, w

\* The savings are the worth of the units that are discounted, times the
\* percentage.
LEMMA BuyXGetYSavings ==
  ASSUME NEW c, IsCart(c), NEW d, IsBuyXGetY(d)
  PROVE  Savings(Calculate(d, c)) =
           d.value.percent * SumFunctionOnSet(WorthOf(d, c, Hits(d, c)), MatchedItems(d, c))
<1> DEFINE S == MatchedItems(d, c)
           T == {j \in S : Hit(d, c, j) > 0}
           p == d.value.percent
           w == WorthOf(d, c, Hits(d, c))
           off == [i \in T |-> Hit(d, c, i) * Item(c, i).effective * p]
           all == [i \in S |-> p * w[i] + 0 * w[i]]
<1>1. Calculate(d, c) = [off |-> off, scale |-> 100, cart |-> 0]
  BY DEF IsBuyXGetY, Calculate, BuyXGetY, Hit
<1>2. IsFiniteSet(S) /\ p \in Nat
  BY MatchedAreItems, ValueIsSum DEF IsBuyXGetY
<1>3. ASSUME NEW i \in S
      PROVE  /\ w[i] \in Int /\ all[i] \in Int /\ all[i] = p * w[i] + 0 * w[i]
             /\ i \in T => off[i] = all[i]
             /\ i \notin T => all[i] = 0
  <2> DEFINE e == Item(c, i).effective
             k == Hit(d, c, i)
  <2>1. e \in Nat /\ k \in Nat
    <3>1. e \in Nat /\ Item(c, i).quantity \in Nat
      BY MatchedAreItems, CartItems
    <3> QED BY <3>1, HitIs DEF IsBuyXGetY
  <2>2. w[i] = k * e
    BY DEF WorthOf, Hits
  <2>3. all[i] = p * w[i] + 0 * w[i] /\ (i \in T <=> k > 0) /\ (i \in T => off[i] = k * e * p)
    OBVIOUS
  <2> HIDE DEF e, k, T, off, w, all
  <2>4. k * e \in Nat /\ p * (k * e) \in Nat /\ k * e * p = p * (k * e)
    BY <1>2, <2>1
  <2>5. all[i] = p * (k * e)
    BY <2>2, <2>3, <2>4
  <2>6. k = 0 => p * (k * e) = 0
    BY <1>2, <2>1
  <2> QED BY <2>1, <2>2, <2>3, <2>4, <2>5, <2>6
<1>4. DOMAIN off = T /\ T \in SUBSET S
  OBVIOUS
<1>5. Savings(Calculate(d, c)) = SumFunction(off) + 0 * 100
  BY <1>1 DEF Savings
<1>6. SumFunction(off) = SumFunctionOnSet(off, T)
  BY <1>4 DEF SumFunction
<1> HIDE DEF S, T, p, w, off, all
<1>7. SumFunctionOnSet(all, S) = SumFunctionOnSet(off, T)
  <2>1. \A i \in S : all[i] \in Int
    BY <1>3
  <2>2. \A i \in T : off[i] = all[i]
    BY <1>3, <1>4
  <2>3. \A i \in S \ T : all[i] = 0
    BY <1>3
  <2> QED BY <1>2, <1>4, <2>1, <2>2, <2>3, SumOverSupport
<1>8. SumFunctionOnSet(all, S) = p * SumFunctionOnSet(w, S) + 0 * SumFunctionOnSet(w, S)
  BY <1>2, <1>3, SumIsLinear
<1>9. SumFunctionOnSet(w, S) \in Int
  BY <1>2, <1>3, SumSplits
<1>10. p * SumFunctionOnSet(w, S) \in Int
  BY <1>2, <1>9
<1> QED BY <1>5, <1>6, <1>7, <1>8, <1>9, <1>10 DEF S, p, w

\* applyBuyXGetY, with its expanded and sorted list of units, discounts the
\* units that are worth least of all units it could choose, for any cart.
THEOREM CheapestUnitsAreDiscountedCorrect == Spec => []CheapestUnitsAreDiscounted
<1>1. RequestInv => CheapestUnitsAreDiscounted
  <2> SUFFICES ASSUME RequestInv, NEW k \in DOMAIN Candidates,
                      Candidates[k].type = "buy_x_get_y", Matches(Candidates[k], cart)
               PROVE  LET d == Candidates[k]
                          S == MatchedItems(d, cart)
                          Worth(f) == SumFunction([i \in S |-> f[i] * Item(cart, i).effective])
                      IN Savings(Calculate(d, cart)) =
                           d.value.percent *
                             Min({Worth(f) : f \in UnitChoices(cart, S, DiscountedCount(d, cart, S))})
    BY DEF CheapestUnitsAreDiscounted
  <2> DEFINE d == Candidates[k]
             S == MatchedItems(d, cart)
             choices == UnitChoices(cart, S, DiscountedCount(d, cart, S))
             worth(f) == SumFunctionOnSet(WorthOf(d, cart, f), S)
  <2>1. IsCart(cart) /\ IsBuyXGetY(d)
    <3>1. IsCart(cart) /\ Candidates \in Seq(Discounts)
      BY RequestIs
    <3>2. IsDiscount(d)
      BY <3>1, ListOfDiscounts
    <3> QED BY <3>1, <3>2 DEF IsDiscount, IsValue, IsBuyXGetY
  <2>2. \A f : SumFunction([i \in S |-> f[i] * Item(cart, i).effective]) = worth(f)
    BY DEF SumFunction, WorthOf
  <2> HIDE DEF d
  <2>3. /\ Hits(d, cart) \in choices
        /\ \A f \in choices : worth(f) \in Int /\ worth(Hits(d, cart)) <= worth(f)
    BY <2>1, HitsAreWorthLeast
  <2>4. Savings(Calculate(d, cart)) = d.value.percent * worth(Hits(d, cart))
    BY <2>1, BuyXGetYSavings
  <2> HIDE DEF worth, choices, S
  <2>5. Min({worth(f) : f \in choices}) = worth(Hits(d, cart))
    <3> DEFINE W == {worth(f) : f \in choices}
               m == worth(Hits(d, cart))
    <3>1. m \in W /\ m \in Int /\ \A y \in W : y \in Int /\ m <= y
      BY <2>3
    <3> HIDE DEF W, m
    <3>2. \E x \in W : \A y \in W : x <= y
      BY <3>1
    <3>3. Min(W) \in W /\ \A y \in W : Min(W) <= y
      BY <3>2 DEF Min
    <3>4. Min(W) = m
      <4> DEFINE x == Min(W)
      <4>1. x \in W /\ x <= m
        BY <3>1, <3>3
      <4> HIDE DEF x
      <4>2. x \in Int /\ m <= x
        BY <3>1, <4>1
      <4>3. x = m
        BY <3>1, <4>1, <4>2
      <4> QED BY <4>3 DEF x
    <3> QED BY <3>4 DEF W, m
  <2>6. {SumFunction([i \in S |-> f[i] * Item(cart, i).effective]) : f \in choices}
          = {worth(f) : f \in choices}
    BY <2>2
  <2> QED BY <2>4, <2>5, <2>6 DEF choices, S, d
<1> QED BY <1>1, RequestCorrect, PTL

-----------------------------------------------------------------------------
\* The choice among exclusive discounts.

LEMMA SavingsIs ==
  ASSUME NEW c, IsCart(c), NEW r, IsCalculation(r, c)
  PROVE  /\ Savings(r) \in Nat
         /\ r.scale \in Nat
         /\ r.scale = 0 => Savings(r) = 0
<1> DEFINE S == DOMAIN r.off
           s == SumFunctionOnSet(r.off, S)
<1>1. /\ r.scale \in Nat /\ r.cart \in Nat /\ S \subseteq Items(c)
      /\ \A i \in S : r.off[i] \in 0 .. Item(c, i).effective * (r.scale * Item(c, i).quantity)
  BY DEF IsCalculation
<1>2. IsFiniteSet(S)
  BY <1>1, CartItems, FS_Subset
<1>3. \A i \in S : r.off[i] \in Nat
  BY <1>1
<1>4. s \in Nat
  BY <1>2, <1>3, SumOfNaturals
<1>5. Savings(r) = s + r.cart * r.scale
  BY DEF Savings, SumFunction
<1>6. ASSUME r.scale = 0 PROVE s = 0
  <2>1. ASSUME NEW i \in S PROVE r.off[i] = 0
    <3>1. Item(c, i).effective \in Nat /\ Item(c, i).quantity \in Nat
      BY <1>1, CartItems
    <3>2. Item(c, i).effective * (0 * Item(c, i).quantity) = 0
      BY <3>1
    <3>3. r.off[i] \in 0 .. Item(c, i).effective * (0 * Item(c, i).quantity)
      BY <1>1, <1>6
    <3> QED BY <3>2, <3>3
  <2>2. s = SumFunctionOnSet(r.off, {})
    BY <1>2, <2>1, SumOverSupport
  <2> QED BY <2>2, SumOfNone
<1> HIDE DEF s
<1>7. r.cart * r.scale \in Nat /\ (r.scale = 0 => r.cart * r.scale = 0)
  BY <1>1
<1> QED BY <1>1, <1>4, <1>5, <1>6, <1>7

\* To save more is to have the larger ratio of savings to scale.
LEMMA RatiosAreOrdered ==
  ASSUME NEW A \in Nat, NEW B \in Nat, NEW C \in Nat,
         NEW a \in Nat \ {0}, NEW b \in Nat \ {0}, NEW g \in Nat \ {0}
  PROVE  /\ A * b >= B * a /\ B * g >= C * b => A * g >= C * a
         /\ A * b > B * a /\ B * g >= C * b => A * g > C * a
         /\ A * b >= B * a /\ B * g > C * b => A * g > C * a
<1>1. /\ A * b \in Int /\ B * a \in Int /\ B * g \in Int /\ C * b \in Int
      /\ A * g \in Int /\ C * a \in Int
  OBVIOUS
<1>2. g * (A * b) = b * (A * g) /\ g * (B * a) = a * (B * g) /\ a * (C * b) = b * (C * a)
  OBVIOUS
<1>3. A * b >= B * a /\ B * g >= C * b => A * g >= C * a
  <2> SUFFICES ASSUME B * a <= A * b, C * b <= B * g PROVE C * a <= A * g
    BY <1>1
  <2>1. g * (B * a) <= g * (A * b) /\ a * (C * b) <= a * (B * g)
    BY <1>1, Scales
  <2>2. b * (C * a) <= b * (A * g)
    BY <1>1, <1>2, <2>1
  <2> QED BY <1>1, <2>2, Scales
<1>4. A * b > B * a /\ B * g >= C * b => A * g > C * a
  <2> SUFFICES ASSUME B * a < A * b, C * b <= B * g PROVE C * a < A * g
    BY <1>1
  <2>1. g * (B * a) < g * (A * b) /\ a * (C * b) <= a * (B * g)
    BY <1>1, Scales
  <2>2. b * (C * a) < b * (A * g)
    BY <1>1, <1>2, <2>1
  <2> QED BY <1>1, <2>2, Scales
<1>5. A * b >= B * a /\ B * g > C * b => A * g > C * a
  <2> SUFFICES ASSUME B * a <= A * b, C * b < B * g PROVE C * a < A * g
    BY <1>1
  <2>1. g * (B * a) <= g * (A * b) /\ a * (C * b) < a * (B * g)
    BY <1>1, Scales
  <2>2. b * (C * a) < b * (A * g)
    BY <1>1, <1>2, <2>1
  <2> QED BY <1>1, <2>2, Scales
<1> QED BY <1>3, <1>4, <1>5

LEMMA SavesMoreIs ==
  ASSUME NEW c, IsCart(c), NEW r, IsCalculation(r, c), NEW s, IsCalculation(s, c),
         SavesMore(r, s)
  PROVE  r.scale # 0 /\ s.scale # 0 /\ ~SavesMore(s, r)
<1>1. /\ Savings(r) \in Nat /\ r.scale \in Nat /\ (r.scale = 0 => Savings(r) = 0)
      /\ Savings(s) \in Nat /\ s.scale \in Nat /\ (s.scale = 0 => Savings(s) = 0)
  BY SavingsIs
<1>2. Savings(r) * s.scale \in Nat /\ Savings(s) * r.scale \in Nat
  BY <1>1
<1>3. Savings(r) * s.scale > Savings(s) * r.scale
  BY DEF SavesMore
<1>4. r.scale = 0 => Savings(r) * s.scale = 0
  BY <1>1
<1>5. s.scale = 0 => Savings(r) * s.scale = 0
  BY <1>1
<1> QED BY <1>2, <1>3, <1>4, <1>5 DEF SavesMore

\* Exactly one of the exclusive discounts of the highest priority is applied,
\* NaN or not (reduce of selectValueDiscounts).
LEMMA WinnerExists ==
  ASSUME NEW c, IsCart(c), NEW ds \in Seq(Discounts), TopTier(c, ds) # {}
  PROVE  \E w \in Contenders(Results(c, ds)) : Winner(c, ds) = {w}
<1> DEFINE T == TopTier(c, ds)
           K == Contenders(Results(c, ds))
           r(k) == Calculate(ds[k], c)
           A(k) == Savings(r(k))
           a(k) == r(k).scale
           more(j, k) == SavesMore(r(j), r(k))
           beats(j, k) == more(j, k) \/ (j < k /\ ~more(k, j))
           R == {p \in K \X K : p[1] = p[2] \/ beats(p[1], p[2])}
<1>1. T \subseteq DOMAIN ds /\ K \subseteq T
  BY AppliedAreListed
<1>2. DOMAIN ds \subseteq Nat /\ IsFiniteSet(T) /\ IsFiniteSet(K)
  BY <1>1, ListOfDiscounts, FS_Subset
<1>3. \A k \in T : k \in Nat /\ IsCalculation(r(k), c)
  BY <1>1, <1>2, ListOfDiscounts, CalculationIs
<1>4. \A k \in T : A(k) \in Nat /\ a(k) \in Nat
  BY <1>3, SavingsIs
<1>5. \A j, k \in T : more(j, k) => a(j) # 0 /\ a(k) # 0 /\ ~more(k, j)
  BY <1>3, SavesMoreIs
<1>6. \A j, k \in T : more(j, k) <=> A(j) * a(k) > A(k) * a(j)
  BY DEF SavesMore
<1>7. \A k : k \in K <=> k \in T /\ (a(k) # 0 \/ \A j \in T : k <= j)
  BY DEF Contenders, Results
<1>8. \E f \in T : \A j \in T : f <= j
  <2>1. T \in SUBSET Int /\ T # {}
    BY <1>3
  <2> HIDE DEF T
  <2>2. Min(T) \in T /\ \A j \in T : Min(T) <= j
    BY <1>2, <2>1, MinIs
  <2> QED BY <2>2
<1>9. Winner(c, ds) = {k \in K : \A j \in K \ {k} : beats(k, j)}
  BY <1>1 DEF Winner, Best, Results
<1> HIDE DEF T, K, r, A, a, more
<1>10. K # {}
  BY <1>7, <1>8
<1>11. \A j, k \in K : j # k => beats(j, k) \/ beats(k, j)
  BY <1>1, <1>3
<1>12. \A j, k \in K : beats(j, k) => ~beats(k, j)
  BY <1>1, <1>3, <1>5
<1>13. \A j, k \in K : a(j) = 0 /\ j # k => beats(j, k)
  BY <1>1, <1>3, <1>5, <1>7
<1>14. \A j, k \in K : a(k) = 0 => ~beats(j, k)
  BY <1>1, <1>3, <1>5, <1>7
<1>15. ASSUME NEW j \in K, NEW k \in K, NEW m \in K, beats(j, k), beats(k, m)
       PROVE  beats(j, m)
  <2>1. CASE a(j) = 0
    <3>1. j # m
      BY <1>12, <1>15
    <3> QED BY <1>13, <2>1, <3>1
  <2>2. CASE a(j) # 0
    <3>1. a(k) # 0 /\ a(m) # 0
      BY <1>14, <1>15
    <3>2. /\ A(j) \in Nat /\ A(k) \in Nat /\ A(m) \in Nat
          /\ a(j) \in Nat \ {0} /\ a(k) \in Nat \ {0} /\ a(m) \in Nat \ {0}
          /\ j \in Nat /\ k \in Nat /\ m \in Nat
      BY <1>1, <1>3, <1>4, <2>2, <3>1
    <3>3. /\ A(j) * a(k) >= A(k) * a(j) /\ A(k) * a(m) >= A(m) * a(k) => A(j) * a(m) >= A(m) * a(j)
          /\ A(j) * a(k) > A(k) * a(j) /\ A(k) * a(m) >= A(m) * a(k) => A(j) * a(m) > A(m) * a(j)
          /\ A(j) * a(k) >= A(k) * a(j) /\ A(k) * a(m) > A(m) * a(k) => A(j) * a(m) > A(m) * a(j)
      BY <3>2, RatiosAreOrdered
    <3>4. /\ A(j) * a(k) \in Int /\ A(k) * a(j) \in Int /\ A(k) * a(m) \in Int
          /\ A(m) * a(k) \in Int /\ A(j) * a(m) \in Int /\ A(m) * a(j) \in Int
      BY <3>2
    <3>5. /\ more(j, k) <=> A(j) * a(k) > A(k) * a(j)
          /\ more(k, j) <=> A(k) * a(j) > A(j) * a(k)
          /\ more(k, m) <=> A(k) * a(m) > A(m) * a(k)
          /\ more(m, k) <=> A(m) * a(k) > A(k) * a(m)
          /\ more(j, m) <=> A(j) * a(m) > A(m) * a(j)
          /\ more(m, j) <=> A(m) * a(j) > A(j) * a(m)
      BY <1>1, <1>6
    <3>6. /\ more(j, k) \/ (j < k /\ ~more(k, j))
          /\ more(k, m) \/ (k < m /\ ~more(m, k))
      BY <1>15
    <3>7. A(j) * a(k) >= A(k) * a(j) /\ A(k) * a(m) >= A(m) * a(k)
      BY <3>4, <3>5, <3>6
    <3>8. A(j) * a(m) >= A(m) * a(j)
      BY <3>3, <3>7
    <3>9. ~more(m, j)
      BY <3>4, <3>5, <3>8
    <3>10. more(j, k) \/ more(k, m) => more(j, m)
      BY <3>3, <3>5, <3>7
    <3>11. more(j, m) \/ j < m
      BY <3>2, <3>6, <3>10
    <3> QED BY <3>9, <3>11
  <2> QED BY <2>1, <2>2
<1>16. PICK w \in K : \A j \in K : <<w, j>> \in R
  <2>1. \A x, y \in K : <<x, y>> \in R \/ <<y, x>> \in R
    BY <1>11
  <2>2. \A x, y, z \in K : <<x, y>> \in R /\ <<y, z>> \in R => <<x, z>> \in R
    <3> HIDE DEF beats
    <3> QED BY <1>15
  <2> HIDE DEF R
  <2> QED BY <1>2, <1>10, <2>1, <2>2, BestExists
<1>17. \A j \in K \ {w} : beats(w, j)
  BY <1>16
<1> HIDE DEF beats, R
<1>18. \A k \in K : (\A j \in K \ {k} : beats(k, j)) => k = w
  BY <1>12, <1>17
<1>19. Winner(c, ds) = {w}
  BY <1>9, <1>17, <1>18
<1> QED BY <1>19 DEF K
\* es lists the discounts of ds in another order: its k-th is the b[k]-th of ds.
IsReordered(ds, es, b) ==
  /\ b \in [DOMAIN es -> DOMAIN ds]
  /\ \A k \in DOMAIN es : es[k] = ds[b[k]]
  /\ \A j, k \in DOMAIN es : b[j] = b[k] => j = k
  /\ \A j \in DOMAIN ds : \E k \in DOMAIN es : b[k] = j

\* The sets of a reordered list are the reordered sets of the list.
LEMMA TiersAreReordered ==
  ASSUME NEW c, NEW ds, NEW es, NEW b, IsReordered(ds, es, b)
  PROVE  \A k \in DOMAIN es : /\ k \in ValueMatches(c, es) <=> b[k] \in ValueMatches(c, ds)
                              /\ k \in Stackable(c, es) <=> b[k] \in Stackable(c, ds)
                              /\ k \in TopTier(c, es) <=> b[k] \in TopTier(c, ds)
<1> USE DEF IsReordered
<1>1. \A k \in DOMAIN es : k \in ValueMatches(c, es) <=> b[k] \in ValueMatches(c, ds)
  BY DEF ValueMatches
<1>2. \A k \in DOMAIN es : k \in Stackable(c, es) <=> b[k] \in Stackable(c, ds)
  BY <1>1 DEF Stackable
<1> DEFINE E(l) == ValueMatches(c, l) \ Stackable(c, l)
<1>3. \A k \in DOMAIN es : k \in E(es) <=> b[k] \in E(ds)
  BY <1>1, <1>2
<1>4. E(es) \subseteq DOMAIN es /\ E(ds) \subseteq DOMAIN ds
  BY DEF ValueMatches
<1>5. \A l : TopTier(c, l) = {k \in E(l) : \A j \in E(l) : l[j].priority <= l[k].priority}
  BY DEF TopTier, HighestPriority
<1> HIDE DEF E
<1>6. ASSUME NEW k \in DOMAIN es PROVE k \in TopTier(c, es) <=> b[k] \in TopTier(c, ds)
  <2>1. ASSUME k \in TopTier(c, es) PROVE b[k] \in TopTier(c, ds)
    <3>1. ASSUME NEW j \in E(ds) PROVE ds[j].priority <= ds[b[k]].priority
      <4>1. PICK i \in DOMAIN es : b[i] = j
        BY <1>4
      <4> QED BY <1>3, <1>5, <2>1, <4>1
    <3> QED BY <1>3, <1>5, <2>1, <3>1
  <2>2. ASSUME b[k] \in TopTier(c, ds) PROVE k \in TopTier(c, es)
    <3>1. ASSUME NEW j \in E(es) PROVE es[j].priority <= es[k].priority
      BY <1>3, <1>4, <1>5, <2>2
    <3> QED BY <1>3, <1>5, <2>2, <3>1
  <2> QED BY <2>1, <2>2
<1> QED BY <1>1, <1>2, <1>6

\* No two different discounts of the tier save as much, and no saving of the
\* tier is NaN beside another.
IsUntied(c, ds) ==
  \A j, k \in TopTier(c, ds) :
    ds[j] # ds[k] => \/ SavesMore(Calculate(ds[j], c), Calculate(ds[k], c))
                     \/ SavesMore(Calculate(ds[k], c), Calculate(ds[j], c))

\* Without a tie the same discount wins, wherever it is listed.
LEMMA WinnerIsReordered ==
  ASSUME NEW c, IsCart(c), NEW ds \in Seq(Discounts), NEW es \in Seq(Discounts), NEW b,
         IsReordered(ds, es, b), IsUntied(c, ds), NEW v \in Winner(c, es)
  PROVE  \E w \in Winner(c, ds) : ds[w] = es[v]
<1> DEFINE r(d) == Calculate(d, c)
           more(d, e) == SavesMore(r(d), r(e))
<1>1. v \in TopTier(c, es) /\ v \in DOMAIN es
  BY AppliedAreListed
<1>2. b[v] \in TopTier(c, ds) /\ b[v] \in DOMAIN ds /\ es[v] = ds[b[v]]
  BY <1>1, TiersAreReordered DEF IsReordered
<1>3. PICK w \in Contenders(Results(c, ds)) : Winner(c, ds) = {w}
  BY <1>2, WinnerExists
<1>4. w \in TopTier(c, ds) /\ w \in DOMAIN ds
  BY AppliedAreListed
<1>5. PICK k \in DOMAIN es : b[k] = w
  BY <1>4 DEF IsReordered
<1>6. k \in TopTier(c, es) /\ es[k] = ds[w]
  BY <1>4, <1>5, TiersAreReordered DEF IsReordered
<1>7. IsCalculation(r(ds[w]), c) /\ IsCalculation(r(es[v]), c)
  BY <1>1, <1>4, ListOfDiscounts, CalculationIs
<1>8. ASSUME ds[w] # es[v] PROVE FALSE
  <2>1. more(ds[w], es[v]) \/ more(es[v], ds[w])
    BY <1>2, <1>4, <1>8 DEF IsUntied
  <2>2. /\ r(ds[w]).scale # 0 /\ r(es[v]).scale # 0
        /\ ~(more(ds[w], es[v]) /\ more(es[v], ds[w]))
    BY <1>7, <2>1, SavesMoreIs
  <2>3. b[v] \in Contenders(Results(c, ds)) /\ k \in Contenders(Results(c, es))
    BY <1>2, <1>6, <2>2 DEF Contenders, Results
  <2>4. b[v] # w /\ k # v
    BY <1>2, <1>6, <1>8
  <2>5. ~more(es[v], ds[w])
    <3>1. more(ds[w], ds[b[v]]) \/ ~more(ds[b[v]], ds[w])
      BY <1>2, <1>3, <1>4, <2>3, <2>4 DEF Winner, Best, Results
    <3> QED BY <1>2, <2>2, <3>1
  <2>6. ~more(ds[w], es[v])
    <3>1. more(es[v], es[k]) \/ ~more(es[k], es[v])
      BY <1>1, <1>6, <2>3, <2>4 DEF Winner, Best, Results
    <3> QED BY <1>6, <2>2, <3>1
  <2> QED BY <2>1, <2>5, <2>6
<1> QED BY <1>3, <1>8

\* Without a tie the applied discounts are the same ones.
LEMMA AppliedAreReordered ==
  ASSUME NEW c, IsCart(c), NEW ds \in Seq(Discounts), NEW es \in Seq(Discounts), NEW b,
         IsReordered(ds, es, b), IsUntied(c, ds)
  PROVE  \E h : /\ {h[k] : k \in Applied(c, es)} = Applied(c, ds)
                /\ \A k \in Applied(c, es) : ds[h[k]] = es[k]
                /\ \A j, k \in Applied(c, es) : h[j] = h[k] => j = k
<1> DEFINE S(l) == Stackable(c, l)
           T(l) == TopTier(c, l)
           W(l) == Winner(c, l)
<1>1. \A k \in DOMAIN es : (k \in S(es) <=> b[k] \in S(ds)) /\ (k \in T(es) <=> b[k] \in T(ds))
  BY TiersAreReordered
<1>2. \A l : /\ S(l) \subseteq DOMAIN l /\ W(l) \subseteq T(l) /\ T(l) \subseteq DOMAIN l
             /\ T(l) \cap S(l) = {} /\ Applied(c, l) = S(l) \cup W(l)
  <2> TAKE l
  <2>1. S(l) \subseteq ValueMatches(c, l) /\ Applied(c, l) = S(l) \cup W(l)
    BY DEF Stackable, Applied
  <2> QED BY <2>1, AppliedAreListed
<1>3. /\ \A k \in DOMAIN es : es[k] = ds[b[k]]
      /\ \A j, k \in DOMAIN es : b[j] = b[k] => j = k
      /\ \A j \in DOMAIN ds : \E k \in DOMAIN es : b[k] = j
  BY DEF IsReordered
<1>4. T(es) = {} <=> T(ds) = {}
  BY <1>1, <1>2, <1>3
<1>5. CASE T(es) = {}
  <2>1. Applied(c, es) = S(es) /\ Applied(c, ds) = S(ds)
    BY <1>2, <1>4, <1>5
  <2> HIDE DEF S
  <2>2. {b[k] : k \in Applied(c, es)} = Applied(c, ds)
    BY <1>1, <1>2, <1>3, <2>1
  <2>3. \A k \in Applied(c, es) : ds[b[k]] = es[k]
    BY <1>2, <1>3, <2>1
  <2>4. \A j, k \in Applied(c, es) : b[j] = b[k] => j = k
    BY <1>2, <1>3, <2>1
  <2> QED BY <2>2, <2>3, <2>4
<1>6. CASE T(es) # {}
  <2>1. PICK v : W(es) = {v}
    BY <1>6, WinnerExists
  <2>2. PICK w \in W(ds) : ds[w] = es[v]
    BY <2>1, WinnerIsReordered
  <2>3. W(ds) = {w}
    BY <1>4, <1>6, <2>2, WinnerExists
  <2> HIDE DEF S, T, W
  <2> DEFINE h == [k \in Applied(c, es) |-> IF k = v THEN w ELSE b[k]]
  <2>4. /\ Applied(c, es) = S(es) \cup {v} /\ v \notin S(es)
        /\ Applied(c, ds) = S(ds) \cup {w} /\ w \notin S(ds)
    BY <1>2, <2>1, <2>3
  <2>5. h[v] = w /\ \A k \in S(es) : h[k] = b[k] /\ b[k] \in S(ds)
    BY <1>1, <1>2, <2>4
  <2>6. \A j \in S(ds) : \E k \in S(es) : b[k] = j
    BY <1>1, <1>2, <1>3
  <2> HIDE DEF h
  <2>7. {h[k] : k \in Applied(c, es)} = Applied(c, ds)
    BY <2>4, <2>5, <2>6
  <2>8. \A k \in Applied(c, es) : ds[h[k]] = es[k]
    BY <1>2, <1>3, <2>2, <2>4, <2>5
  <2>9. \A j, k \in Applied(c, es) : h[j] = h[k] => j = k
    BY <1>2, <1>3, <2>4, <2>5
  <2> QED BY <2>7, <2>8, <2>9
<1> QED BY <1>5, <1>6

\* The same discounts give the same answer, in whatever order they are applied.
LEMMA AnswerIsReordered ==
  ASSUME NEW c, IsCart(c), NEW ds \in Seq(Discounts), NEW es \in Seq(Discounts), NEW b,
         IsReordered(ds, es, b), IsUntied(c, ds)
  PROVE  /\ \A i \in Items(c) : FinalPrice(c, es, i) = FinalPrice(c, ds, i)
         /\ CartDiscountAmount(c, es) = CartDiscountAmount(c, ds)
<1>1. PICK h : /\ {h[k] : k \in Applied(c, es)} = Applied(c, ds)
               /\ \A k \in Applied(c, es) : ds[h[k]] = es[k]
               /\ \A j, k \in Applied(c, es) : h[j] = h[k] => j = k
  BY AppliedAreReordered
<1>2. Applied(c, es) \subseteq DOMAIN es /\ Applied(c, ds) \subseteq DOMAIN ds
  BY AppliedAreListed
<1>3. ASSUME NEW i \in Items(c) PROVE FinalPrice(c, es, i) = FinalPrice(c, ds, i)
  <2>1. \A k \in Touching(c, es, i) : h[k] \in Touching(c, ds, i) /\ ds[h[k]] = es[k]
    BY <1>1 DEF Touching
  <2>2. \A j \in Touching(c, ds, i) : \E k \in Touching(c, es, i) : es[k] = ds[j]
    BY <1>1 DEF Touching
  <2>3. Offers(c, es, i) = Offers(c, ds, i)
    BY <2>1, <2>2 DEF Offers
  <2>4. Item(c, i).effective \in Nat
    BY CartItems
  <2>5. /\ FinalPrice(c, es, i) \in Offers(c, es, i) /\ FinalPrice(c, ds, i) \in Offers(c, ds, i)
        /\ FinalPrice(c, es, i) <= FinalPrice(c, ds, i)
        /\ FinalPrice(c, ds, i) <= FinalPrice(c, es, i)
        /\ Offers(c, es, i) \subseteq Nat
    BY <2>3, <2>4, FinalPriceIs
  <2> QED BY <2>3, <2>5
<1>4. CartDiscountAmount(c, es) = CartDiscountAmount(c, ds)
  <2> DEFINE f == Amounts(c, es)
             g == Amounts(c, ds)
  <2>1. \A k \in Applied(c, es) : f[k] \in Int /\ g[h[k]] = f[k]
    <3> TAKE k \in Applied(c, es)
    <3>1. f[k] \in Nat
      BY <1>2, CartDiscountAmountIs
    <3>2. h[k] \in DOMAIN ds /\ k \in DOMAIN es /\ ds[h[k]] = es[k]
      BY <1>1, <1>2
    <3> QED BY <3>1, <3>2 DEF Amounts
  <2>2. IsFiniteSet(Applied(c, es))
    BY CartDiscountAmountIs
  <2>3. /\ CartDiscountAmount(c, es) = SumFunctionOnSet(f, Applied(c, es))
        /\ CartDiscountAmount(c, ds) = SumFunctionOnSet(g, Applied(c, ds))
    BY CartDiscountAmountIs
  <2> HIDE DEF f, g
  <2>4. SumFunctionOnSet(f, Applied(c, es)) = SumFunctionOnSet(g, {h[k] : k \in Applied(c, es)})
    BY <1>1, <2>1, <2>2, SumIsReordered
  <2> QED BY <1>1, <2>3, <2>4
<1> QED BY <1>3, <1>4

\* Without a tie the order in which the discounts were found does not change
\* the answer, for any carts, discounts and coupons.
THEOREM OnlyTiesDependOnOrderCorrect == Spec => []OnlyTiesDependOnOrder
<1>1. RequestInv => OnlyTiesDependOnOrder
  <2> SUFFICES ASSUME RequestInv, Answered, ~Tied
               PROVE  LET other == Answer(cart, Reversed)
                      IN /\ other.prices = answer.prices
                         /\ other.cartDiscountAmount = answer.cartDiscountAmount
    BY DEF OnlyTiesDependOnOrder
  <2> DEFINE n == Len(Candidates)
             b == [k \in DOMAIN Candidates |-> n + 1 - k]
  <2>1. IsCart(cart) /\ Candidates \in Seq(Discounts) /\ answer = Answer(cart, Candidates)
    BY RequestIs
  <2>2. DOMAIN Candidates = 1 .. n /\ n \in Nat
    BY <2>1, ListOfDiscounts
  <2>3. \A k \in 1 .. n : n + 1 - k \in 1 .. n /\ n + 1 - (n + 1 - k) = k
    BY <2>2
  <2>4. \A k \in 1 .. n : Candidates[k] \in Discounts
    BY <2>1, <2>2
  <2>5. DOMAIN Reversed = 1 .. n /\ \A k \in 1 .. n : Reversed[k] = Candidates[n + 1 - k]
    BY <2>2 DEF Reversed
  <2>6. Reversed \in Seq(Discounts)
    <3>1. Reversed = [k \in 1 .. n |-> Candidates[n + 1 - k]]
      BY <2>2 DEF Reversed
    <3>2. Reversed \in [1 .. n -> Discounts]
      BY <2>3, <2>4, <3>1
    <3> HIDE DEF n
    <3> QED BY <2>2, <3>2
  <2>7. IsReordered(Candidates, Reversed, b)
    <3>1. \A j, k \in 1 .. n : b[j] = b[k] => j = k
      BY <2>2, <2>3
    <3>2. \A j \in 1 .. n : \E k \in 1 .. n : b[k] = j
      BY <2>2, <2>3
    <3>3. b \in [1 .. n -> 1 .. n] /\ \A k \in 1 .. n : b[k] = n + 1 - k
      BY <2>2, <2>3
    <3> HIDE DEF b, n
    <3> QED BY <2>2, <2>5, <3>1, <3>2, <3>3 DEF IsReordered
  <2>8. IsUntied(cart, Candidates)
    BY DEF IsUntied, Tied
  <2>9. /\ \A i \in Items(cart) : FinalPrice(cart, Reversed, i) = FinalPrice(cart, Candidates, i)
        /\ CartDiscountAmount(cart, Reversed) = CartDiscountAmount(cart, Candidates)
    <3> HIDE DEF b
    <3> QED BY <2>1, <2>6, <2>7, <2>8, AnswerIsReordered
  <2> QED BY <2>1, <2>9 DEF Answer
<1> QED BY <1>1, RequestCorrect, PTL

=============================================================================
