--------------------------- MODULE ProductFilters ---------------------------
(***************************************************************************)
(* GET /products/queryies: which attribute values the shop's filter panel  *)
(* offers next, and how many products each of them would show.  The        *)
(* middleware reads the attributes in use and keeps what it knows of the   *)
(* query; the repository counts in one aggregation and merges its halves   *)
(* by labels made of key and value.  Products change meanwhile.            *)
(***************************************************************************)
EXTENDS Integers, Sequences, FiniteSets, FiniteSetsExt, Functions

CONSTANTS
  Requests,         \* requests for filters
  Products,         \* product ids
  Keys,             \* attribute names: strings, colons allowed
  Values,           \* attribute values, and what a query may ask for: strings
  AttributeLists,   \* what a product's attributes may be
  Queries,          \* query strings, as functions from names to sequences of values
  Sanitized,        \* what sanitizeValue makes of each value
  MaxEdits          \* bound: how often attributes change

ASSUME FiltersAssumption ==
  /\ IsFiniteSet(Products) /\ IsFiniteSet(Keys) /\ IsFiniteSet(Values)
  /\ AttributeLists \subseteq Seq([key : Keys, value : Seq(Values)])
  /\ Sanitized \in [Values -> Values]
  /\ MaxEdits \in Nat

Predefined == {"sort", "price", "page"}

Orders == {"asc", "desc", "price", "rating", "popularity"}

VARIABLES
  attributes,         \* product -> its attributes array
  edits,
  phase,              \* request -> where it is
  query,              \* request -> its query
  known,              \* request -> the filters it read: attribute name -> values
  selection,          \* request -> the filters the middleware has left of its query
  answer              \* request -> <<key, value>> -> count

vars == <<attributes, edits, phase, query, known, selection, answer>>

Nothing == << >>

Init ==
  /\ attributes \in [Products -> AttributeLists]
  /\ edits = 0
  /\ phase = [r \in Requests |-> "idle"]
  /\ query = [r \in Requests |-> Nothing]
  /\ known = [r \in Requests |-> Nothing]
  /\ selection = [r \in Requests |-> Nothing]
  /\ answer = [r \in Requests |-> Nothing]

-----------------------------------------------------------------------------
\* The repository.  Arrays are not checked for repeated names or values.

Holds(p, k, v) == \E i \in DOMAIN attributes[p] :
  attributes[p][i].key = k /\ v \in Range(attributes[p][i].value)

HasKey(p, k) == \E i \in DOMAIN attributes[p] : attributes[p][i].key = k

Matches(p, k, chosen) == \E v \in chosen : Holds(p, k, v)

UsedValues(k) == {v \in Values : \E p \in Products : Holds(p, k, v)}

GetUniqueFilters == [k \in {l \in Keys : UsedValues(l) # {}} |-> UsedValues(k)]

\* Both $unwinds: one row for each time a value is listed.
Occurrences(p, k, v) ==
  MapThenSumSet(LAMBDA i : Cardinality({j \in DOMAIN attributes[p][i].value : attributes[p][i].value[j] = v}),
                {i \in DOMAIN attributes[p] : attributes[p][i].key = k})

Grouped(ps, k, v) == MapThenSumSet(LAMBDA p : Occurrences(p, k, v), ps)

OuterMatch(chosen) == {p \in Products : \A k \in DOMAIN chosen : Matches(p, k, chosen[k])}

\* Mutant: the inner stage forgets the other keys.
InnerMatchOfAnyKey(chosen) ==
  {p \in Products : \E k \in DOMAIN chosen : HasKey(p, k) /\ ~Matches(p, k, chosen[k])}

\* Products that miss exactly one of the chosen keys, although they have it
InnerMatch(chosen) ==
  {p \in Products :
     \E k \in DOMAIN chosen :
       /\ HasKey(p, k)
       /\ ~Matches(p, k, chosen[k])
       /\ \A l \in DOMAIN chosen \ {k} : Matches(p, l, chosen[l])}

\* What a facet has for the keys: counts of pairs, and no entry for zero.
Rows(ps, keys) ==
  LET pairs == {kv \in keys \X Values : Grouped(ps, kv[1], kv[2]) > 0}
  IN [kv \in pairs |-> Grouped(ps, kv[1], kv[2])]

\* What mergeArrays tells items apart by: `${item.key}:${item.value}`.
Label == [kv \in Keys \X Values |-> kv[1] \o ":" \o kv[2]]

Alike(kv, items) == {other \in items : Label[other] = Label[kv]}

CountOf(arr, kv) == SumFunctionOnSet(arr, Alike(kv, DOMAIN arr))

\* Of the items that are alike the first one stays; those of arr1 come first,
\* and within an array they come as the database has grouped them.
MayStay(arr1, arr2, kv) ==
  Alike(kv, IF Alike(kv, DOMAIN arr1) # {} THEN DOMAIN arr1 ELSE DOMAIN arr2)

\* mergeArrays: what it may return, the counts of alike items added up.
MergeArrays(arr1, arr2) ==
  LET items == DOMAIN arr1 \cup DOMAIN arr2
      doubles == {kv \in items : Alike(kv, items) # {kv}}
      dropped == {lost \in SUBSET doubles :
                    \A kv \in items : \E first \in MayStay(arr1, arr2, kv) :
                      Alike(kv, items) \ lost = {first}}
  IN {[kv \in items \ lost |-> CountOf(arr1, kv) + CountOf(arr2, kv)] : lost \in dropped}

\* The outer facet counts every key, the inner one the chosen keys.
FindNextFilters(chosen) ==
  MergeArrays(Rows(InnerMatch(chosen), DOMAIN chosen), Rows(OuterMatch(chosen), Keys))

-----------------------------------------------------------------------------
\* The middleware.

\* The zod schema: names of attributes stand for arrays of strings, which
\* only names outside Predefined are split into; limit is split as well.
Accepts(q, names) ==
  \A k \in DOMAIN q :
    /\ k \in names => k \notin Predefined
    /\ k = "sort" => Sanitized[q[k][1]] \in Orders
    /\ k = "limit" => k \in names

\* sanitizeValue, for each of the values a name's string was split into
SanitizedValues(q, k) == {Sanitized[v] : v \in Range(q[k])}

\* Values the filters it read do not have are dropped, and keys without any left.
Validated(q, filters) ==
  LET asked(k) == SanitizedValues(q, k) \cap filters[k]
  IN [k \in {l \in DOMAIN q \cap DOMAIN filters : l \notin Predefined /\ asked(l) # {}} |-> asked(k)]

Receive(r) ==
  /\ phase[r] = "idle"
  /\ \E q \in Queries :
       /\ query' = [query EXCEPT ![r] = q]
       /\ phase' = [phase EXCEPT ![r] = "validating"]
  /\ UNCHANGED <<attributes, edits, known, selection, answer>>

\* getValidFilters: no read for an empty query; the cache is always empty.
\* Nobody awaits the middleware: if the read fails, the request gets no answer.
GetValidFilters(r) ==
  /\ phase[r] = "validating"
  /\ \/ /\ known' = [known EXCEPT ![r] = IF query[r] = Nothing THEN Nothing ELSE GetUniqueFilters]
        /\ phase' = [phase EXCEPT ![r] = "validated"]
     \/ query[r] # Nothing /\ phase' = [phase EXCEPT ![r] = "dropped"] /\ UNCHANGED known
  /\ UNCHANGED <<attributes, edits, query, selection, answer>>

RefuseQuery(r) ==
  /\ phase[r] = "validated"
  /\ ~Accepts(query[r], DOMAIN known[r])
  /\ phase' = [phase EXCEPT ![r] = "refused"]
  /\ UNCHANGED <<attributes, edits, query, known, selection, answer>>

\* The controller finds the filters in the storage without an await between.
AcceptQuery(r) ==
  /\ phase[r] = "validated"
  /\ Accepts(query[r], DOMAIN known[r])
  /\ selection' = [selection EXCEPT ![r] = Validated(query[r], known[r])]
  /\ phase' = [phase EXCEPT ![r] = IF selection'[r] = Nothing THEN "answered" ELSE "counting"]
  /\ UNCHANGED <<attributes, edits, query, known, answer>>

\* findNextFiltersProduct, or the error of its aggregation
CountFilters(r) ==
  /\ phase[r] = "counting"
  /\ \/ /\ \E merged \in FindNextFilters(selection[r]) : answer' = [answer EXCEPT ![r] = merged]
        /\ phase' = [phase EXCEPT ![r] = "answered"]
     \/ phase' = [phase EXCEPT ![r] = "failed"] /\ UNCHANGED answer
  /\ UNCHANGED <<attributes, edits, query, known, selection>>

\* updateAttributes of a product, saved.
UpdateAttributes(p) ==
  /\ edits < MaxEdits
  /\ \E list \in AttributeLists : attributes' = [attributes EXCEPT ![p] = list]
  /\ edits' = edits + 1
  /\ UNCHANGED <<phase, query, known, selection, answer>>

Next ==
  \/ \E r \in Requests :
       Receive(r) \/ GetValidFilters(r) \/ RefuseQuery(r) \/ AcceptQuery(r) \/ CountFilters(r)
  \/ \E p \in Products : UpdateAttributes(p)

Spec == Init /\ [][Next]_vars

-----------------------------------------------------------------------------
\* Properties.

\* The products a value stands for in the panel: those that match the choice
\* of every other key.
Facet(k, v, chosen) ==
  {p \in Products : Holds(p, k, v) /\ \A l \in DOMAIN chosen \ {k} : Matches(p, l, chosen[l])}

Repeats(p, k, v) == Occurrences(p, k, v) > 1

\* Products with the value that match every chosen key but another one
NearMisses(k, v, chosen) ==
  {p \in Products :
     /\ Holds(p, k, v)
     /\ \E l \in DOMAIN chosen \ {k} :
          /\ HasKey(p, l) /\ ~Matches(p, l, chosen[l])
          /\ \A j \in DOMAIN chosen \ {l} : Matches(p, j, chosen[j])}

Extra(k, v, chosen) == IF k \in DOMAIN chosen THEN NearMisses(k, v, chosen) ELSE {}

\* What the answer tells of the values of one label, and what it should tell.
CountsLikeFacets(told, alike, chosen) ==
  LET facets == [kv \in alike |-> Cardinality(Facet(kv[1], kv[2], chosen))]
      sum == SumFunctionOnSet(facets, alike)
  IN /\ \A kv, other \in alike \cap DOMAIN told : kv = other
     /\ SumFunctionOnSet(told, alike \cap DOMAIN told) >= sum
     /\ SumFunctionOnSet(told, alike \cap DOMAIN told) > sum =>
          \E kv \in alike : \/ Extra(kv[1], kv[2], chosen) # {}
                            \/ \E p \in Facet(kv[1], kv[2], chosen) : Repeats(p, kv[1], kv[2])

\* The counts are those of a faceted search (filter.repository.types.ts:55, "a
\* count of how many items match that filter"), in the store as it is when they
\* are taken.  Values of one label are told as one of them, with the counts of
\* all, whichever facet and whatever order they come in; no product is left
\* out, and there are too many only if a product lists one of them twice or,
\* for a key that is filtered by, if one that has it misses the choice of a
\* single other key.
CountsAreFacets ==
  [][\A r \in Requests :
       phase[r] = "counting" /\ phase'[r] = "answered" =>
         \A kv \in Keys \X Values :
           CountsLikeFacets(answer'[r], Alike(kv, Keys \X Values), selection[r])]_vars

=============================================================================
