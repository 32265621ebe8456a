------------------------ MODULE ProductFiltersProofs ------------------------
(***************************************************************************)
(* That the counts are those of a faceted search, for any products, lists  *)
(* of attributes, queries and requests: what each half of the aggregation  *)
(* counts, what the merge makes of alike items, and that both halves have  *)
(* between them the products a value stands for.                           *)
(***************************************************************************)
EXTENDS ProductFilters, FiniteFolds

\* What products have is in the lists, and requests choose among the keys.
StoreInv ==
  /\ attributes \in [Products -> AttributeLists]
  /\ DOMAIN phase = Requests /\ DOMAIN known = Requests
  /\ DOMAIN selection = Requests /\ DOMAIN answer = Requests
  /\ \A r \in Requests : DOMAIN known[r] \subseteq Keys /\ DOMAIN selection[r] \subseteq Keys

LEMMA InitStore == Init => StoreInv
  BY DEF Init, StoreInv, Nothing

LEMMA NextStore == StoreInv /\ [Next]_vars => StoreInv'
<1> SUFFICES ASSUME StoreInv, [Next]_vars PROVE StoreInv'
  OBVIOUS
<1> USE DEF StoreInv
<1>1. ASSUME NEW r \in Requests, Receive(r) \/ RefuseQuery(r) \/ CountFilters(r) PROVE StoreInv'
  <2>1. /\ UNCHANGED <<attributes, known, selection>>
        /\ \E p : phase' = [phase EXCEPT ![r] = p]
        /\ UNCHANGED answer \/ \E a : answer' = [answer EXCEPT ![r] = a]
    BY <1>1 DEF Receive, RefuseQuery, CountFilters
  <2> QED BY <2>1
<1>2. ASSUME NEW r \in Requests, GetValidFilters(r) PROVE StoreInv'
  <2>1. DOMAIN GetUniqueFilters \subseteq Keys /\ DOMAIN Nothing \subseteq Keys
    BY DEF GetUniqueFilters, Nothing
  <2>2. /\ UNCHANGED <<attributes, selection, answer>>
        /\ \E p : phase' = [phase EXCEPT ![r] = p]
        /\ \/ UNCHANGED known
           \/ known' = [known EXCEPT ![r] = Nothing] \/ known' = [known EXCEPT ![r] = GetUniqueFilters]
    BY <1>2 DEF GetValidFilters
  <2> QED BY <2>1, <2>2
<1>3. ASSUME NEW r \in Requests, AcceptQuery(r) PROVE StoreInv'
  <2>1. DOMAIN Validated(query[r], known[r]) \subseteq DOMAIN known[r]
    BY DEF Validated
  <2>2. /\ UNCHANGED <<attributes, known, answer>>
        /\ \E p : phase' = [phase EXCEPT ![r] = p]
        /\ selection' = [selection EXCEPT ![r] = Validated(query[r], known[r])]
    BY <1>3 DEF AcceptQuery
  <2> QED BY <2>1, <2>2
<1>4. ASSUME NEW p \in Products, UpdateAttributes(p) PROVE StoreInv'
  BY <1>4 DEF UpdateAttributes
<1>5. CASE UNCHANGED vars
  BY <1>5 DEF vars
<1> QED BY <1>1, <1>2, <1>3, <1>4, <1>5 DEF Next

-----------------------------------------------------------------------------
\* What a facet counts.

\* A sum of the community modules is the sum of a function.
LEMMA GroupedIsSum ==
  ASSUME NEW ps, IsFiniteSet(ps), NEW k, NEW v, NEW f, \A p \in ps : f[p] = Occurrences(p, k, v),
         \A p \in ps : f[p] \in Int
  PROVE  Grouped(ps, k, v) = SumFunctionOnSet(f, ps)
<1> DEFINE IsSum(g) == g = [T \in SUBSET ps |->
                              IF T = {} THEN 0
                              ELSE Occurrences(CHOOSE x \in T : TRUE, k, v) + g[T \ {CHOOSE x \in T : TRUE}]]
           sum == CHOOSE g : IsSum(g)
<1>1. Grouped(ps, k, v) = sum[ps]
  BY DEF Grouped, MapThenSumSet, MapThenFoldSet
<1>2. ASSUME NEW T \in SUBSET ps, NEW g
      PROVE  (IF T = {} THEN 0
              ELSE Occurrences(CHOOSE x \in T : TRUE, k, v) + g[T \ {CHOOSE x \in T : TRUE}])
             = IF T = {} THEN 0 ELSE f[First(T)] + g[T \ {First(T)}]
  BY FirstIn DEF First
<1>3. \A g : IsSum(g) <=> IsTable(f, ps, g)
  BY <1>2 DEF IsTable
<1>4. PICK g : IsTable(f, ps, g)
  BY TableExists
<1>5. IsTable(f, ps, sum)
  BY <1>3, <1>4
<1> HIDE DEF sum
<1> QED BY <1>1, <1>5, SumIsEntry
\* How often a product lists a value: at least once if it holds it.
LEMMA OccurrencesIs ==
  ASSUME StoreInv, NEW p \in Products, NEW k, NEW v
  PROVE  Occurrences(p, k, v) \in Nat /\ (Occurrences(p, k, v) > 0 <=> Holds(p, k, v))
<1> DEFINE list == attributes[p]
           rows == {i \in DOMAIN list : list[i].key = k}
           times(i) == {j \in DOMAIN list[i].value : list[i].value[j] = v}
           f == [i \in rows |-> Cardinality(times(i))]
           IsSum(g) == g = [T \in SUBSET rows |->
                              IF T = {} THEN 0
                              ELSE Cardinality(times(CHOOSE x \in T : TRUE)) + g[T \ {CHOOSE x \in T : TRUE}]]
           sum == CHOOSE g : IsSum(g)
<1>1. Occurrences(p, k, v) = sum[rows]
  BY DEF Occurrences, MapThenSumSet, MapThenFoldSet
<1>2. list \in Seq([key : Keys, value : Seq(Values)])
  BY FiltersAssumption DEF StoreInv
<1>3. IsFiniteSet(rows)
  <2>1. DOMAIN list = 1 .. Len(list) /\ Len(list) \in Nat
    BY <1>2
  <2>2. IsFiniteSet(1 .. Len(list)) /\ rows \in SUBSET (1 .. Len(list))
    BY <2>1, FS_Interval
  <2> HIDE DEF rows, list
  <2> QED BY <2>2, FS_Subset
<1>4. ASSUME NEW i \in rows
      PROVE  f[i] \in Nat /\ (f[i] > 0 <=> v \in Range(list[i].value))
  <2>1. list[i].value \in Seq(Values)
    <3>1. i \in DOMAIN list
      OBVIOUS
    <3> DEFINE Entries == [key : Keys, value : Seq(Values)]
    <3>2. list \in Seq(Entries)
      BY <1>2
    <3>3. list[i] \in Entries
      <4> HIDE DEF list, Entries
      <4> QED BY <3>1, <3>2
    <3> QED BY <3>3
  <2> DEFINE values == list[i].value
  <2>2. DOMAIN values = 1 .. Len(values) /\ Len(values) \in Nat
    BY <2>1
  <2>3. IsFiniteSet(times(i))
    <3>1. IsFiniteSet(1 .. Len(values)) /\ times(i) \in SUBSET (1 .. Len(values))
      BY <2>2, FS_Interval
    <3> HIDE DEF times, values
    <3> QED BY <3>1, FS_Subset
  <2>4. times(i) # {} <=> v \in Range(values)
    BY DEF Range
  <2>5. f[i] = Cardinality(times(i))
    OBVIOUS
  <2> HIDE DEF times, f, rows, values
  <2>6. Cardinality(times(i)) \in Nat /\ (Cardinality(times(i)) = 0 <=> times(i) = {})
    BY <2>3, FS_CardinalityType, FS_EmptySet
  <2> QED BY <2>4, <2>5, <2>6 DEF values
<1>5. ASSUME NEW T \in SUBSET rows, NEW g
      PROVE  (IF T = {} THEN 0
              ELSE Cardinality(times(CHOOSE x \in T : TRUE)) + g[T \ {CHOOSE x \in T : TRUE}])
             = IF T = {} THEN 0 ELSE f[First(T)] + g[T \ {First(T)}]
  <2>1. T # {} => First(T) \in rows
    BY FirstIn
  <2>2. \A i \in rows : f[i] = Cardinality(times(i))
    OBVIOUS
  <2> HIDE DEF f, times, rows
  <2> QED BY <2>1, <2>2 DEF First
<1>6. \A g : IsSum(g) <=> IsTable(f, rows, g)
  BY <1>5 DEF IsTable
<1> HIDE DEF f
<1>7. \A i \in rows : f[i] \in Int
  BY <1>4
<1>8. \E g : IsTable(f, rows, g)
  <2> HIDE DEF rows
  <2> QED BY <1>3, <1>7, TableExists
<1>9. IsTable(f, rows, sum)
  <2> HIDE DEF IsSum
  <2> QED BY <1>6, <1>8
<1>10. Occurrences(p, k, v) = SumFunctionOnSet(f, rows)
  <2> HIDE DEF sum, rows
  <2> QED BY <1>1, <1>3, <1>7, <1>9, SumIsEntry
<1>11. Holds(p, k, v) <=> \E i \in rows : f[i] > 0
  BY <1>4 DEF Holds
<1> DEFINE counted == {i \in rows : f[i] > 0}
<1>12. /\ SumFunctionOnSet(f, rows) \in Nat /\ Cardinality(counted) \in Nat
       /\ SumFunctionOnSet(f, rows) >= Cardinality(counted)
       /\ (\A i \in counted : f[i] = 1) => SumFunctionOnSet(f, rows) = Cardinality(counted)
  <2>1. \A i \in rows : f[i] \in Nat
    BY <1>4
  <2> HIDE DEF rows
  <2> QED BY <1>3, <2>1, SumCounts
<1>13. IsFiniteSet(counted)
  <2>1. counted \in SUBSET rows
    OBVIOUS
  <2> HIDE DEF rows, counted
  <2> QED BY <1>3, <2>1, FS_Subset
<1>14. Holds(p, k, v) <=> counted # {}
  BY <1>11
<1> HIDE DEF counted, rows
<1>15. Cardinality(counted) = 0 <=> counted = {}
  BY <1>13, FS_EmptySet
<1>16. counted = {} => SumFunctionOnSet(f, rows) = 0
  BY <1>12, <1>15
<1> QED BY <1>10, <1>12, <1>14, <1>15, <1>16
\* What a group counts: no fewer than its products with the value, and as many
\* if none of them lists it twice.
LEMMA GroupedIs ==
  ASSUME StoreInv, NEW ps \in SUBSET Products, NEW k, NEW v
  PROVE  LET holders == {p \in ps : Holds(p, k, v)} IN
         /\ Grouped(ps, k, v) \in Nat /\ IsFiniteSet(holders) /\ Cardinality(holders) \in Nat
         /\ Grouped(ps, k, v) >= Cardinality(holders)
         /\ (\A p \in holders : ~Repeats(p, k, v)) => Grouped(ps, k, v) = Cardinality(holders)
<1> DEFINE f == [p \in ps |-> Occurrences(p, k, v)]
           holders == {p \in ps : Holds(p, k, v)}
           counted == {p \in ps : f[p] > 0}
<1>1. IsFiniteSet(ps) /\ IsFiniteSet(holders)
  BY FiltersAssumption, FS_Subset
<1>2. \A p \in ps : /\ f[p] = Occurrences(p, k, v) /\ f[p] \in Nat
                    /\ f[p] > 0 <=> Holds(p, k, v)
  BY OccurrencesIs
<1>3. counted = holders
  BY <1>2
<1> HIDE DEF f
<1>4. Grouped(ps, k, v) = SumFunctionOnSet(f, ps)
  BY <1>1, <1>2, GroupedIsSum
<1>5. /\ SumFunctionOnSet(f, ps) \in Nat /\ Cardinality(counted) \in Nat
      /\ SumFunctionOnSet(f, ps) >= Cardinality(counted)
      /\ (\A p \in counted : f[p] = 1) => SumFunctionOnSet(f, ps) = Cardinality(counted)
  BY <1>1, <1>2, SumCounts
<1>6. \A p \in holders : ~Repeats(p, k, v) => f[p] = 1
  BY <1>2 DEF Repeats
<1> HIDE DEF counted, holders
<1>7. (\A p \in holders : ~Repeats(p, k, v)) => Grouped(ps, k, v) = Cardinality(holders)
  BY <1>3, <1>4, <1>5, <1>6
<1>8. Grouped(ps, k, v) \in Nat /\ Cardinality(holders) \in Nat /\ Grouped(ps, k, v) >= Cardinality(holders)
  BY <1>3, <1>4, <1>5
<1> QED BY <1>1, <1>7, <1>8 DEF holders

\* A facet has an entry for what it counts of its keys.
LEMMA RowsAre ==
  ASSUME NEW ps, NEW keys, NEW k, NEW v \in Values
  PROVE  /\ <<k, v>> \in DOMAIN Rows(ps, keys) <=> k \in keys /\ Grouped(ps, k, v) > 0
         /\ <<k, v>> \in DOMAIN Rows(ps, keys) => Rows(ps, keys)[<<k, v>>] = Grouped(ps, k, v)
<1> DEFINE pairs == {kv \in keys \X Values : Grouped(ps, kv[1], kv[2]) > 0}
<1>1. Rows(ps, keys) = [kv \in pairs |-> Grouped(ps, kv[1], kv[2])]
  BY DEF Rows
<1>2. <<k, v>> \in pairs <=> k \in keys /\ Grouped(ps, k, v) > 0
  OBVIOUS
<1> HIDE DEF pairs
<1> QED BY <1>1, <1>2

\* The count that both facets together have for a value.
Count(k, v, chosen) ==
  (IF k \in DOMAIN chosen THEN Grouped(InnerMatch(chosen), k, v) ELSE 0)
    + Grouped(OuterMatch(chosen), k, v)

\* f has the counts of an array, and zero for what the array has not.
Extends(f, arr, S) ==
  \A y \in S :
    /\ f[y] \in Nat
    /\ y \in DOMAIN arr => arr[y] = f[y]
    /\ y \notin DOMAIN arr => f[y] = 0

AddsUp(counts, f, g, S) == \A y \in S : counts[y] = f[y] + g[y]

\* What an array counts under a label is a sum over the values of that label.
LEMMA CountOfIs ==
  ASSUME NEW all, NEW kv, NEW x \in Alike(kv, all), NEW arr, DOMAIN arr \subseteq all,
         IsFiniteSet(Alike(kv, all)),
         NEW f, Extends(f, arr, Alike(kv, all))
  PROVE  CountOf(arr, x) = SumFunctionOnSet(f, Alike(kv, all))
<1> DEFINE alike == Alike(kv, all)
           R == Alike(x, DOMAIN arr)
<1>1. R \in SUBSET alike /\ R = alike \cap DOMAIN arr
  BY DEF Alike
<1>2. /\ \A y \in alike : f[y] \in Int
      /\ \A y \in R : arr[y] = f[y]
      /\ \A y \in alike \ R : f[y] = 0
  <2>1. \A y \in alike :
          /\ f[y] \in Nat
          /\ y \in DOMAIN arr => arr[y] = f[y]
          /\ y \notin DOMAIN arr => f[y] = 0
    BY DEF Extends
  <2> HIDE DEF R, alike
  <2> QED BY <1>1, <2>1
<1> HIDE DEF R, alike
<1>3. SumFunctionOnSet(f, alike) = SumFunctionOnSet(arr, R)
  BY <1>1, <1>2, SumOverSupport DEF alike
<1> QED BY <1>3 DEF R, alike, CountOf

LEMMA SumOfOne == \A f, x : f[x] \in Int => SumFunctionOnSet(f, {x}) = f[x]
<1> SUFFICES ASSUME NEW f, NEW x, f[x] \in Int PROVE SumFunctionOnSet(f, {x}) = f[x]
  OBVIOUS
<1>1. IsFiniteSet({x}) /\ \A y \in {x} : f[y] \in Int
  BY FS_Singleton
<1>2. SumFunctionOnSet(f, {x}) = f[x] + SumFunctionOnSet(f, {x} \ {x})
  BY <1>1, SumSplits
<1>3. {x} \ {x} = {}
  OBVIOUS
<1> QED BY <1>2, <1>3, SumOfNone

\* Of the values of one label a merged array has one at most, and it has the
\* counts of all of them from both arrays.
LEMMA MergedIs ==
  ASSUME NEW all, NEW kv, IsFiniteSet(Alike(kv, all)),
         NEW few, DOMAIN few \subseteq all, NEW many, DOMAIN many \subseteq all,
         NEW f, Extends(f, few, Alike(kv, all)),
         NEW g, Extends(g, many, Alike(kv, all)),
         NEW counts, AddsUp(counts, f, g, Alike(kv, all)),
         NEW told \in MergeArrays(few, many)
  PROVE  /\ \A x, y \in Alike(kv, all) \cap DOMAIN told : x = y
         /\ SumFunctionOnSet(told, Alike(kv, all) \cap DOMAIN told) = SumFunctionOnSet(counts, Alike(kv, all))
         /\ SumFunctionOnSet(counts, Alike(kv, all)) \in Int
<1> DEFINE alike == Alike(kv, all)
           items == DOMAIN few \cup DOMAIN many
           total == SumFunctionOnSet(counts, alike)
<1>1. PICK lost :
        /\ told = [x \in items \ lost |-> CountOf(few, x) + CountOf(many, x)]
        /\ \A x \in items : \E first : Alike(x, items) \ lost = {first}
  BY DEF MergeArrays
<1>2. \A x \in alike : Alike(x, items) = alike \cap items
  BY DEF Alike
<1>3. \A x \in alike : /\ f[x] \in Int /\ g[x] \in Int /\ counts[x] \in Int
                       /\ counts[x] = 1 * f[x] + 1 * g[x]
                       /\ x \notin items => counts[x] = 0
  <2>1. \A x \in alike : f[x] \in Nat /\ (x \notin DOMAIN few => f[x] = 0)
    BY DEF Extends
  <2>2. \A x \in alike : g[x] \in Nat /\ (x \notin DOMAIN many => g[x] = 0)
    BY DEF Extends
  <2>3. \A x \in alike : counts[x] = f[x] + g[x]
    BY DEF AddsUp
  <2> HIDE DEF alike
  <2> QED BY <2>1, <2>2, <2>3
<1>4. \A x \in alike : CountOf(few, x) + CountOf(many, x) = total
  <2>1. total = 1 * SumFunctionOnSet(f, alike) + 1 * SumFunctionOnSet(g, alike)
    <3> HIDE DEF alike
    <3> QED BY <1>3, SumIsLinear DEF alike
  <2>2. SumFunctionOnSet(f, alike) \in Int /\ SumFunctionOnSet(g, alike) \in Int
    <3> HIDE DEF alike
    <3> QED BY <1>3, SumSplits DEF alike
  <2>3. ASSUME NEW x \in alike
        PROVE  /\ CountOf(few, x) = SumFunctionOnSet(f, alike)
               /\ CountOf(many, x) = SumFunctionOnSet(g, alike)
    BY CountOfIs
  <2> HIDE DEF total, alike
  <2> QED BY <2>1, <2>2, <2>3
<1>5. total \in Int
  <2> HIDE DEF alike
  <2> QED BY <1>3, SumSplits DEF alike
<1>6. CASE alike \cap items = {}
  <2>1. \A x \in alike : counts[x] = 0
    BY <1>3, <1>6
  <2>2. total = 0
    <3>1. IsFiniteSet(alike)
      OBVIOUS
    <3> HIDE DEF alike
    <3>2. /\ {} \in SUBSET alike
          /\ \A i \in alike : counts[i] \in Int
          /\ \A i \in {} : counts[i] = counts[i]
          /\ \A i \in alike \ {} : counts[i] = 0
      BY <2>1
    <3>3. SumFunctionOnSet(counts, alike) = SumFunctionOnSet(counts, {})
      BY <3>1, <3>2, SumOverSupport
    <3> QED BY <3>3, SumOfNone
  <2>3. alike \cap DOMAIN told = {}
    BY <1>1, <1>6
  <2> HIDE DEF total, alike
  <2> QED BY <2>2, <2>3, SumOfNone DEF total, alike
<1>7. CASE alike \cap items # {}
  <2>1. PICK x \in alike \cap items : TRUE
    BY <1>7
  <2>2. PICK first : Alike(x, items) \ lost = {first}
    BY <1>1, <2>1
  <2>3. alike \cap DOMAIN told = {first}
    BY <1>1, <1>2, <2>1, <2>2
  <2>4. told[first] = total
    <3>1. first \in alike /\ first \in items \ lost
      BY <1>1, <2>3
    <3> HIDE DEF total, alike, items
    <3> QED BY <1>1, <1>4, <3>1
  <2>5. SumFunctionOnSet(told, {first}) = total
    BY <1>5, <2>4, SumOfOne
  <2> HIDE DEF total, alike
  <2> QED BY <1>5, <2>3, <2>5 DEF total, alike
<1> QED BY <1>6, <1>7

\* The products a value stands for are found in one of the facets each.
LEMMA CountIsFacet ==
  ASSUME StoreInv, NEW chosen, NEW k \in Keys, NEW v \in Values
  PROVE  LET facet == Facet(k, v, chosen)
             extra == Extra(k, v, chosen)
         IN /\ Cardinality(facet) \in Nat /\ Count(k, v, chosen) \in Nat
            /\ Count(k, v, chosen) >= Cardinality(facet)
            /\ Count(k, v, chosen) > Cardinality(facet) =>
                 extra # {} \/ \E p \in facet : Repeats(p, k, v)
<1> DEFINE facet == Facet(k, v, chosen)
           inner == IF k \in DOMAIN chosen THEN InnerMatch(chosen) ELSE {}
           outer == OuterMatch(chosen)
           holders(ps) == {p \in ps : Holds(p, k, v)}
           extra == IF k \in DOMAIN chosen THEN NearMisses(k, v, chosen) ELSE {}
           some(ps) == Grouped(ps, k, v)
           few == IF k \in DOMAIN chosen THEN some(inner) ELSE 0
<1>1. inner \in SUBSET Products /\ outer \in SUBSET Products /\ inner \cap outer = {}
  BY DEF InnerMatch, OuterMatch
<1>2. facet \subseteq holders(inner) \cup holders(outer)
  <2>1. ASSUME NEW p \in facet PROVE p \in inner \cup outer
    <3>1. /\ p \in Products /\ Holds(p, k, v)
          /\ \A l \in DOMAIN chosen \ {k} : Matches(p, l, chosen[l])
      BY DEF Facet
    <3>2. HasKey(p, k)
      BY <3>1 DEF Holds, HasKey
    <3>3. CASE k \in DOMAIN chosen /\ ~Matches(p, k, chosen[k])
      BY <3>1, <3>2, <3>3 DEF InnerMatch
    <3>4. CASE k \notin DOMAIN chosen \/ Matches(p, k, chosen[k])
      BY <3>1, <3>4 DEF OuterMatch
    <3> QED BY <3>3, <3>4
  <2>2. \A p \in facet : Holds(p, k, v)
    BY DEF Facet
  <2> HIDE DEF facet, inner, outer
  <2> QED BY <2>1, <2>2
<1>3. holders(outer) \subseteq facet /\ holders(inner) \subseteq facet \cup extra
  <2>1. holders(outer) \subseteq facet
    BY DEF OuterMatch, Facet
  <2>2. ASSUME NEW p \in holders(inner) PROVE p \in facet \cup extra
    <3>1. /\ p \in Products /\ Holds(p, k, v) /\ k \in DOMAIN chosen
          /\ \E l \in DOMAIN chosen :
               /\ HasKey(p, l) /\ ~Matches(p, l, chosen[l])
               /\ \A j \in DOMAIN chosen \ {l} : Matches(p, j, chosen[j])
      BY DEF InnerMatch
    <3>2. PICK l \in DOMAIN chosen : /\ HasKey(p, l) /\ ~Matches(p, l, chosen[l])
                                     /\ \A j \in DOMAIN chosen \ {l} : Matches(p, j, chosen[j])
      BY <3>1
    <3>3. CASE l = k
      BY <3>1, <3>2, <3>3 DEF Facet
    <3>4. CASE l # k
      BY <3>1, <3>2, <3>4 DEF NearMisses
    <3> QED BY <3>3, <3>4
  <2> QED BY <2>1, <2>2
<1>4. /\ some(outer) \in Nat /\ IsFiniteSet(holders(outer)) /\ Cardinality(holders(outer)) \in Nat
      /\ some(outer) >= Cardinality(holders(outer))
      /\ (\A p \in holders(outer) : ~Repeats(p, k, v)) => some(outer) = Cardinality(holders(outer))
  <2> HIDE DEF outer
  <2> QED BY <1>1, GroupedIs
<1>5. /\ few \in Nat /\ IsFiniteSet(holders(inner)) /\ Cardinality(holders(inner)) \in Nat
      /\ few >= Cardinality(holders(inner))
      /\ (\A p \in holders(inner) : ~Repeats(p, k, v)) => few = Cardinality(holders(inner))
  <2>1. CASE k \in DOMAIN chosen
    <3>1. few = some(inner)
      BY <2>1
    <3> HIDE DEF inner, few
    <3> QED BY <1>1, <3>1, GroupedIs
  <2>2. CASE k \notin DOMAIN chosen
    <3>1. holders(inner) = {} /\ few = 0
      BY <2>2
    <3> HIDE DEF holders, inner, few
    <3> QED BY <3>1, FS_EmptySet
  <2> QED BY <2>1, <2>2
<1>6. Count(k, v, chosen) = few + some(outer)
  BY DEF Count
<1>7. holders(inner) \cap holders(outer) = {}
  BY <1>1
<1>8. /\ IsFiniteSet(holders(inner) \cup holders(outer))
      /\ Cardinality(holders(inner) \cup holders(outer))
           = Cardinality(holders(inner)) + Cardinality(holders(outer))
  <2> HIDE DEF holders, inner, outer
  <2>1. Cardinality(holders(inner) \cap holders(outer)) = 0
    BY <1>7, FS_EmptySet
  <2> QED BY <1>4, <1>5, <2>1, FS_Union
<1> HIDE DEF facet, holders, inner, outer, few, some, extra
<1>9. Cardinality(facet) <= Cardinality(holders(inner)) + Cardinality(holders(outer))
  BY <1>2, <1>8, FS_Subset
<1>10. Cardinality(facet) \in Nat
  BY <1>2, <1>8, FS_Subset, FS_CardinalityType
<1>11. Count(k, v, chosen) >= Cardinality(facet)
  BY <1>4, <1>5, <1>6, <1>9, <1>10
<1>12. ASSUME extra = {}, \A p \in facet : ~Repeats(p, k, v)
       PROVE  Count(k, v, chosen) = Cardinality(facet)
  <2>1. facet = holders(inner) \cup holders(outer)
    BY <1>2, <1>3, <1>12
  <2>2. few = Cardinality(holders(inner)) /\ some(outer) = Cardinality(holders(outer))
    BY <1>4, <1>5, <1>12, <2>1
  <2> QED BY <1>6, <1>8, <2>1, <2>2
<1>13. Count(k, v, chosen) > Cardinality(facet) => extra # {} \/ \E p \in facet : Repeats(p, k, v)
  BY <1>10, <1>12
<1> QED BY <1>4, <1>5, <1>6, <1>10, <1>11, <1>13 DEF facet, extra, Extra

\* So the answer tells of the values of one label what the facets have.
LEMMA CountsAre ==
  ASSUME StoreInv, NEW chosen, DOMAIN chosen \subseteq Keys, NEW told \in FindNextFilters(chosen),
         NEW kv \in Keys \X Values
  PROVE  CountsLikeFacets(told, Alike(kv, Keys \X Values), chosen)
<1> DEFINE all == Keys \X Values
           alike == Alike(kv, all)
           few == Rows(InnerMatch(chosen), DOMAIN chosen)
           many == Rows(OuterMatch(chosen), Keys)
           f == [x \in alike |-> IF x[1] \in DOMAIN chosen THEN Grouped(InnerMatch(chosen), x[1], x[2]) ELSE 0]
           g == [x \in alike |-> Grouped(OuterMatch(chosen), x[1], x[2])]
           counts == [x \in alike |-> Count(x[1], x[2], chosen)]
           facets == [x \in alike |-> Cardinality(Facet(x[1], x[2], chosen))]
           excused(x) == \/ Extra(x[1], x[2], chosen) # {}
                         \/ \E p \in Facet(x[1], x[2], chosen) : Repeats(p, x[1], x[2])
           said == SumFunctionOnSet(told, alike \cap DOMAIN told)
           sum == SumFunctionOnSet(facets, alike)
<1>1. IsFiniteSet(alike)
  <2>1. IsFiniteSet(Keys \X Values)
    BY FiltersAssumption, FS_Product
  <2> QED BY <2>1, FS_Subset DEF Alike
<1>2. DOMAIN few \subseteq all /\ DOMAIN many \subseteq all
  BY DEF Rows
<1>3. ASSUME NEW x \in alike
      PROVE  /\ f[x] \in Nat /\ (x \in DOMAIN few => few[x] = f[x]) /\ (x \notin DOMAIN few => f[x] = 0)
             /\ g[x] \in Nat /\ (x \in DOMAIN many => many[x] = g[x]) /\ (x \notin DOMAIN many => g[x] = 0)
             /\ counts[x] = f[x] + g[x]
             /\ facets[x] \in Int /\ counts[x] \in Int /\ facets[x] <= counts[x]
             /\ ~excused(x) => facets[x] = counts[x]
  <2>1. PICK k \in Keys, v \in Values : x = <<k, v>>
    BY DEF Alike
  <2>2. /\ f[x] = IF k \in DOMAIN chosen THEN Grouped(InnerMatch(chosen), k, v) ELSE 0
        /\ g[x] = Grouped(OuterMatch(chosen), k, v) /\ counts[x] = Count(k, v, chosen)
        /\ facets[x] = Cardinality(Facet(k, v, chosen))
        /\ excused(x) <=> Extra(k, v, chosen) # {} \/ \E p \in Facet(k, v, chosen) : Repeats(p, k, v)
    BY <2>1
  <2>3. Grouped(InnerMatch(chosen), k, v) \in Nat /\ Grouped(OuterMatch(chosen), k, v) \in Nat
    BY GroupedIs DEF InnerMatch, OuterMatch
  <2>4. /\ x \in DOMAIN few <=> k \in DOMAIN chosen /\ Grouped(InnerMatch(chosen), k, v) > 0
        /\ x \in DOMAIN few => few[x] = Grouped(InnerMatch(chosen), k, v)
        /\ x \in DOMAIN many <=> k \in Keys /\ Grouped(OuterMatch(chosen), k, v) > 0
        /\ x \in DOMAIN many => many[x] = Grouped(OuterMatch(chosen), k, v)
    <3> HIDE DEF few, many
    <3> QED BY <2>1, RowsAre DEF few, many
  <2>5. Count(k, v, chosen) = f[x] + g[x]
    BY <2>2 DEF Count
  <2> HIDE DEF f, g, few, many, facets, counts, excused, alike
  <2>6. f[x] \in Nat /\ (x \in DOMAIN few => few[x] = f[x]) /\ (x \notin DOMAIN few => f[x] = 0)
    BY <2>2, <2>3, <2>4
  <2>7. g[x] \in Nat /\ (x \in DOMAIN many => many[x] = g[x]) /\ (x \notin DOMAIN many => g[x] = 0)
    BY <2>2, <2>3, <2>4
  <2>8. /\ facets[x] \in Nat /\ counts[x] \in Nat /\ counts[x] >= facets[x]
        /\ counts[x] > facets[x] => excused(x)
    BY <2>2, CountIsFacet
  <2> QED BY <2>2, <2>5, <2>6, <2>7, <2>8
<1>4. told \in MergeArrays(few, many)
  BY DEF FindNextFilters
<1> HIDE DEF all, few, many, f, g, counts, excused, facets
<1>5. /\ \A x, y \in alike \cap DOMAIN told : x = y
      /\ said = SumFunctionOnSet(counts, alike) /\ said \in Int
  <2>1. Extends(f, few, Alike(kv, all))
    BY <1>3 DEF Extends
  <2>2. Extends(g, many, Alike(kv, all))
    BY <1>3 DEF Extends
  <2>3. AddsUp(counts, f, g, Alike(kv, all))
    BY <1>3 DEF AddsUp
  <2> QED BY <1>1, <1>2, <1>4, <2>1, <2>2, <2>3, MergedIs
<1> HIDE DEF alike
<1>6. sum <= said
  BY <1>1, <1>3, <1>5, SumIsMonotone
<1>7. sum \in Int
  BY <1>1, <1>3, SumSplits
<1>8. (\A x \in alike : ~excused(x)) => sum = said
  BY <1>1, <1>3, <1>5, SumOfEquals
<1>9. said > sum => \E x \in alike : excused(x)
  BY <1>5, <1>7, <1>8
<1> QED BY <1>5, <1>6, <1>7, <1>9 DEF CountsLikeFacets, alike, all, facets, excused

\* The counts of a request are those of a faceted search in the store as it is
\* when they are taken, whatever the products list and whatever was asked:
\* values whose keys and names make one label are told as one, with the counts
\* of all; no product is left out of them, and the ones too many are near misses
\* and repetitions.
THEOREM CountsAreFacetsCorrect == Spec => CountsAreFacets
<1>1. ASSUME StoreInv, [Next]_vars, NEW r \in Requests, phase[r] = "counting", phase'[r] = "answered"
      PROVE  CountFilters(r)
  <2>1. ASSUME NEW q \in Requests,
               Receive(q) \/ GetValidFilters(q) \/ RefuseQuery(q) \/ AcceptQuery(q)
        PROVE  FALSE
    <3>1. /\ phase[q] # "counting"
          /\ \E p : phase' = [phase EXCEPT ![q] = p]
      BY <2>1 DEF Receive, GetValidFilters, RefuseQuery, AcceptQuery
    <3> QED BY <1>1, <3>1 DEF StoreInv
  <2>2. ASSUME NEW q \in Requests, CountFilters(q) PROVE q = r
    <3>1. \E p : phase' = [phase EXCEPT ![q] = p]
      BY <2>2 DEF CountFilters
    <3> QED BY <1>1, <3>1 DEF StoreInv
  <2> QED BY <1>1, <2>1, <2>2 DEF Next, UpdateAttributes, vars
<1>2. ASSUME StoreInv, [Next]_vars, NEW r \in Requests, phase[r] = "counting", phase'[r] = "answered",
             NEW kv \in Keys \X Values
      PROVE  CountsLikeFacets(answer'[r], Alike(kv, Keys \X Values), selection[r])
  <2>1. answer'[r] \in FindNextFilters(selection[r])
    BY <1>1, <1>2 DEF CountFilters, StoreInv
  <2> QED BY <1>2, <2>1, CountsAre DEF StoreInv
<1>3. StoreInv /\ [Next]_vars =>
        [\A r \in Requests :
           phase[r] = "counting" /\ phase'[r] = "answered" =>
             \A kv \in Keys \X Values :
               CountsLikeFacets(answer'[r], Alike(kv, Keys \X Values), selection[r])]_vars
  BY <1>2
<1> QED BY <1>3, InitStore, NextStore, PTL DEF Spec, CountsAreFacets

=============================================================================
