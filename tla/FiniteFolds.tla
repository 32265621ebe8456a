---------------------------- MODULE FiniteFolds ----------------------------
(***************************************************************************)
(* Lemmas on finite sets and sequences that the proofs share: induction    *)
(* over them, what a fold over them is, sums, least and greatest elements. *)
(***************************************************************************)
EXTENDS Integers, Sequences, FiniteSetsExt, FiniteSetTheorems, TLAPS

-----------------------------------------------------------------------------
\* Induction over finite sets.  What is to be shown of every set is given as
\* the family of the sets it holds for.

\* A family that contains every subset of S whose smaller subsets it contains
\* contains S.
LEMMA SubsetInduction ==
  ASSUME NEW S, IsFiniteSet(S), NEW G,
         \A T \in SUBSET S : (\A U \in SUBSET T : U # T => U \in G) => T \in G
  PROVE  S \in G
<1> DEFINE Bad == {T \in SUBSET S : T \notin G}
<1> SUFFICES ASSUME S \notin G PROVE FALSE
  OBVIOUS
<1>1. Bad # {} /\ Bad \subseteq FiniteSubsetsOf(S)
  BY FS_FiniteSubsetsOfFinite
<1>2. PICK T \in Bad : \A U \in Bad : <<U, T>> \notin StrictSubsetOrdering(S)
  <2> HIDE DEF Bad
  <2> QED BY <1>1, FS_StrictSubsetOrderingWellFounded, WFMin
<1>3. \A U \in SUBSET T : U # T => U \in G
  BY <1>2 DEF StrictSubsetOrdering
<1> QED BY <1>2, <1>3

\* A family that contains the empty set and every set that is one element
\* larger than one of its own contains S.
LEMMA ElementInduction ==
  ASSUME NEW S, IsFiniteSet(S), NEW G,
         {} \in G,
         \A T \in SUBSET S : \A x \in S \ T : T \in G => T \cup {x} \in G
  PROVE  S \in G
<1>1. ASSUME NEW T \in SUBSET S, \A U \in SUBSET T : U # T => U \in G
      PROVE  T \in G
  <2>1. CASE T = {}
    BY <2>1
  <2>2. CASE T # {}
    <3>1. PICK x \in T : TRUE
      BY <2>2
    <3>2. T \ {x} \in SUBSET T /\ T \ {x} # T /\ T \ {x} \in SUBSET S /\ x \in S \ (T \ {x})
      BY <3>1
    <3>3. T = (T \ {x}) \cup {x}
      BY <3>1
    <3> QED BY <1>1, <3>2, <3>3
  <2> QED BY <2>1, <2>2
<1> QED BY <1>1, SubsetInduction

\* A family of numbers that contains 0 and with each the next one contains all
\* up to n.
LEMMA PrefixInduction ==
  ASSUME NEW n \in Nat, NEW G, 0 \in G, \A i \in 0 .. n - 1 : i \in G => i + 1 \in G
  PROVE  n \in G
<1> DEFINE Below(m) == 1 .. m
           H == {T \in SUBSET (1 .. n) : \A m \in 0 .. n : T = Below(m) => m \in G}
<1>1. ASSUME NEW T \in SUBSET (1 .. n), \A U \in SUBSET T : U # T => U \in H
      PROVE  T \in H
  <2> SUFFICES ASSUME NEW m \in 0 .. n, T = Below(m) PROVE m \in G
    OBVIOUS
  <2>1. CASE m = 0
    BY <2>1
  <2>2. CASE m # 0
    <3>1. m - 1 \in 0 .. n - 1 /\ m - 1 \in 0 .. n
      BY <2>2
    <3>2. Below(m - 1) \in SUBSET T /\ m \in T /\ m \notin Below(m - 1)
      BY <2>2
    <3>3. Below(m - 1) \in H
      BY <1>1, <3>2
    <3>4. m - 1 \in G
      BY <3>1, <3>3
    <3> QED BY <3>1, <3>4
  <2> QED BY <2>1, <2>2
<1>2. Below(n) \in H
  <2>1. IsFiniteSet(Below(n))
    BY FS_Interval
  <2>2. \A T \in SUBSET Below(n) : (\A U \in SUBSET T : U # T => U \in H) => T \in H
    BY <1>1
  <2> HIDE DEF H, Below
  <2> QED BY <2>1, <2>2, SubsetInduction
<1> QED BY <1>2

-----------------------------------------------------------------------------
\* Folds over finite sets.

\* g is what a fold makes of every subset of S: pick says which element of a
\* subset is its last, step what is made of it and of the rest.
IsFold(base, step, pick, S, g) ==
  g = [T \in SUBSET S |-> IF T = {} THEN base ELSE step[pick[T]][g[T \ {pick[T]}]]]

\* Two of them agree where both are defined.
LEMMA FoldsAgree ==
  ASSUME NEW base, NEW step, NEW pick, NEW S, NEW R, NEW g, NEW h,
         IsFold(base, step, pick, S, g), IsFold(base, step, pick, R, h),
         NEW T \in SUBSET S, T \in SUBSET R, IsFiniteSet(T),
         \A U \in SUBSET T : U # {} => pick[U] \in U
  PROVE  g[T] = h[T]
<1> DEFINE G == {U \in SUBSET T : g[U] = h[U]}
<1>1. ASSUME NEW V \in SUBSET T, \A U \in SUBSET V : U # V => U \in G
      PROVE  V \in G
  <2>0. V \in SUBSET S /\ V \in SUBSET R
    OBVIOUS
  <2>1. CASE V = {}
    BY <2>1, <2>0 DEF IsFold
  <2>2. CASE V # {}
    <3> DEFINE W == V \ {pick[V]}
    <3>1. W \in SUBSET V /\ W # V
      BY <2>2
    <3>2. g[W] = h[W]
      BY <3>1, <1>1
    <3>3. g[V] = step[pick[V]][g[W]]
      BY <2>0, <2>2 DEF IsFold
    <3>4. h[V] = step[pick[V]][h[W]]
      BY <2>0, <2>2 DEF IsFold
    <3> QED BY <3>2, <3>3, <3>4
  <2> QED BY <2>1, <2>2
<1>2. T \in G
  <2> HIDE DEF G
  <2> QED BY <1>1, SubsetInduction
<1> QED BY <1>2

\* There is one for every finite set.
LEMMA FoldExists ==
  ASSUME NEW base, NEW step, NEW pick, NEW S, IsFiniteSet(S),
         \A T \in SUBSET S : T # {} => pick[T] \in T
  PROVE  \E g : IsFold(base, step, pick, S, g)
<1> DEFINE G == {T \in SUBSET S : \E g : IsFold(base, step, pick, T, g)}
           Table(T) == CHOOSE g : IsFold(base, step, pick, T, g)
<1>1. ASSUME NEW T \in SUBSET S, \A U \in SUBSET T : U # T => U \in G
      PROVE  T \in G
  <2> DEFINE Rest(U) == U \ {pick[U]}
             g == [U \in SUBSET T |-> IF U = {} THEN base ELSE step[pick[U]][Table(Rest(U))[Rest(U)]]]
  <2>1. \A U \in SUBSET T : U # T => IsFold(base, step, pick, U, Table(U))
    BY <1>1
  <2>2. ASSUME NEW U \in SUBSET T, U # T PROVE g[U] = Table(U)[U]
    <3>1. CASE U = {}
      <4>1. Table(U)[U] = base
        <5> HIDE DEF Table
        <5> QED BY <2>1, <2>2, <3>1 DEF IsFold
      <4> QED BY <3>1, <4>1
    <3>2. CASE U # {}
      <4>1. Rest(U) \in SUBSET T /\ Rest(U) # T /\ Rest(U) \in SUBSET U
        BY <2>2, <3>2
      <4>2. Table(U)[U] = step[pick[U]][Table(U)[Rest(U)]]
        <5> DEFINE h == Table(U)
        <5>1. IsFold(base, step, pick, U, h)
          BY <2>1, <2>2
        <5> HIDE DEF h
        <5> QED BY <5>1, <3>2 DEF IsFold, h
      <4>3. Table(U)[Rest(U)] = Table(Rest(U))[Rest(U)]
        <5>1. IsFiniteSet(Rest(U)) /\ \A V \in SUBSET Rest(U) : V # {} => pick[V] \in V
          <6> HIDE DEF Rest
          <6> QED BY <4>1, FS_Subset
        <5>2. /\ IsFold(base, step, pick, U, Table(U))
              /\ IsFold(base, step, pick, Rest(U), Table(Rest(U)))
          BY <2>1, <2>2, <4>1
        <5> HIDE DEF Table, Rest
        <5> QED BY <4>1, <5>1, <5>2, FoldsAgree
      <4> QED BY <3>2, <4>2, <4>3
    <3> QED BY <3>1, <3>2
  <2>3. ASSUME NEW U \in SUBSET T
        PROVE  g[U] = IF U = {} THEN base ELSE step[pick[U]][g[Rest(U)]]
    <3>1. CASE U = {}
      BY <3>1
    <3>2. CASE U # {}
      <4>1. Rest(U) \in SUBSET T /\ Rest(U) # T
        BY <3>2
      <4>2. g[Rest(U)] = Table(Rest(U))[Rest(U)]
        <5> HIDE DEF g, Table, Rest
        <5> QED BY <4>1, <2>2
      <4>3. g[U] = step[pick[U]][Table(Rest(U))[Rest(U)]]
        <5> HIDE DEF Table, Rest
        <5> QED BY <3>2
      <4> HIDE DEF g
      <4> QED BY <3>2, <4>2, <4>3
    <3> QED BY <3>1, <3>2
  <2>4. IsFold(base, step, pick, T, g)
    <3>1. g = [U \in SUBSET T |-> g[U]]
      OBVIOUS
    <3> HIDE DEF g
    <3> QED BY <2>3, <3>1 DEF IsFold
  <2> QED BY <2>4
<1>2. S \in G
  <2> HIDE DEF G
  <2> QED BY <1>1, SubsetInduction
<1> QED BY <1>2

\* What a fold makes of a set is of the kind that base is of and step keeps.
LEMMA FoldType ==
  ASSUME NEW V, NEW base \in V, NEW step, NEW pick, NEW S, IsFiniteSet(S),
         \A T \in SUBSET S : T # {} => pick[T] \in T,
         \A x \in S, a \in V : step[x][a] \in V,
         NEW g, IsFold(base, step, pick, S, g)
  PROVE  \A T \in SUBSET S : g[T] \in V
<1> SUFFICES ASSUME NEW R \in SUBSET S PROVE g[R] \in V
  OBVIOUS
<1> DEFINE G == {T \in SUBSET R : g[T] \in V}
<1>1. ASSUME NEW T \in SUBSET R, \A U \in SUBSET T : U # T => U \in G
      PROVE  T \in G
  <2>1. CASE T = {}
    BY <2>1 DEF IsFold
  <2>2. CASE T # {}
    <3> DEFINE W == T \ {pick[T]}
    <3>1. pick[T] \in T /\ W \in SUBSET T /\ W # T
      BY <2>2
    <3>2. g[W] \in V
      BY <3>1, <1>1
    <3>3. g[T] = step[pick[T]][g[W]]
      BY <2>2 DEF IsFold
    <3> HIDE DEF W
    <3> QED BY <3>1, <3>2, <3>3
  <2> QED BY <2>1, <2>2
<1>2. R \in G
  <2>1. IsFiniteSet(R)
    BY FS_Subset
  <2> HIDE DEF G
  <2> QED BY <1>1, <2>1, SubsetInduction
<1> QED BY <1>2

-----------------------------------------------------------------------------
\* Sums over finite sets.

First(S) == CHOOSE x \in S : TRUE

LEMMA FirstIn == \A S : S # {} => First(S) \in S
  BY DEF First

\* g is a table of the sums of f over the subsets of S.
IsTable(f, S, g) ==
  g = [T \in SUBSET S |-> IF T = {} THEN 0 ELSE f[First(T)] + g[T \ {First(T)}]]

LEMMA TableExists ==
  ASSUME NEW f, NEW S, IsFiniteSet(S), \A x \in S : f[x] \in Int
  PROVE  \E g : IsTable(f, S, g)
<1> DEFINE step == [x \in S |-> [a \in Int |-> f[x] + a]]
           pick == [T \in SUBSET S |-> First(T)]
<1>1. /\ \A T \in SUBSET S : pick[T] = First(T) /\ (T # {} => pick[T] \in T)
      /\ \A x \in S, a \in Int : step[x][a] = f[x] + a /\ step[x][a] \in Int
  BY FirstIn
<1> HIDE DEF step, pick
<1>2. PICK g : IsFold(0, step, pick, S, g)
  BY <1>1, FoldExists
<1>3. \A T \in SUBSET S : g[T] \in Int
  <2> DEFINE V == Int
  <2>1. 0 \in V /\ \A x \in S, a \in V : step[x][a] \in V
    BY <1>1
  <2> HIDE DEF V
  <2>2. \A T \in SUBSET S : g[T] \in V
    BY <1>1, <1>2, <2>1, FoldType
  <2> QED BY <2>2 DEF V
<1>4. ASSUME NEW T \in SUBSET S
      PROVE  (IF T = {} THEN 0 ELSE step[pick[T]][g[T \ {pick[T]}]])
               = IF T = {} THEN 0 ELSE f[First(T)] + g[T \ {First(T)}]
  <2>1. CASE T # {}
    <3> DEFINE W == T \ {First(T)}
    <3>1. First(T) \in S /\ W \in SUBSET S /\ pick[T] = First(T)
      BY <1>1, <2>1
    <3>2. g[W] \in Int
      BY <1>3, <3>1
    <3> HIDE DEF W
    <3>3. step[First(T)][g[W]] = f[First(T)] + g[W]
      BY <1>1, <3>1, <3>2
    <3> QED BY <2>1, <3>1, <3>3 DEF W
  <2> QED BY <2>1
<1>5. IsTable(f, S, g)
  BY <1>2, <1>4 DEF IsFold, IsTable
<1> QED BY <1>5

\* Two tables agree where both are defined.
LEMMA TablesAgree ==
  ASSUME NEW f, NEW S, NEW R, NEW g, NEW h, IsTable(f, S, g), IsTable(f, R, h),
         NEW T \in SUBSET S, T \in SUBSET R, IsFiniteSet(T)
  PROVE  g[T] = h[T]
<1> DEFINE G == {U \in SUBSET T : g[U] = h[U]}
<1>1. ASSUME NEW V \in SUBSET T, \A U \in SUBSET V : U # V => U \in G
      PROVE  V \in G
  <2>0. V \in SUBSET S /\ V \in SUBSET R
    OBVIOUS
  <2>1. CASE V = {}
    BY <2>1, <2>0 DEF IsTable
  <2>2. CASE V # {}
    <3>1. First(V) \in V
      BY <2>2, FirstIn
    <3>2. V \ {First(V)} \in G
      BY <3>1, <1>1
    <3>3. g[V] = f[First(V)] + g[V \ {First(V)}]
      BY <2>0, <2>2 DEF IsTable
    <3>4. h[V] = f[First(V)] + h[V \ {First(V)}]
      BY <2>0, <2>2 DEF IsTable
    <3> QED BY <3>2, <3>3, <3>4
  <2> QED BY <2>1, <2>2
<1>2. T \in G
  <2> HIDE DEF G
  <2> QED BY <1>1, SubsetInduction
<1> QED BY <1>2

\* A sum is an entry of a table.
LEMMA SumIsEntry ==
  ASSUME NEW f, NEW S, IsFiniteSet(S), \A x \in S : f[x] \in Int,
         NEW g, NEW R, IsTable(f, R, g), S \in SUBSET R
  PROVE  SumFunctionOnSet(f, S) = g[S]
<1> DEFINE table == CHOOSE h : IsTable(f, S, h)
<1>1. IsTable(f, S, table)
  BY TableExists
<1>2. SumFunctionOnSet(f, S) = table[S]
  BY DEF SumFunctionOnSet, FoldFunctionOnSet, MapThenFoldSet, IsTable, First
<1> HIDE DEF table
<1> QED BY <1>1, <1>2, TablesAgree

LEMMA SumOfNone == \A f : SumFunctionOnSet(f, {}) = 0
<1> TAKE f
<1>1. IsFiniteSet({})
  BY FS_EmptySet
<1>2. PICK g : IsTable(f, {}, g)
  BY <1>1, TableExists
<1>3. SumFunctionOnSet(f, {}) = g[{}]
  BY <1>1, <1>2, SumIsEntry
<1> QED BY <1>2, <1>3 DEF IsTable

LEMMA SumFromFirst ==
  ASSUME NEW f, NEW S, IsFiniteSet(S), S # {}, \A x \in S : f[x] \in Int
  PROVE  SumFunctionOnSet(f, S) = f[First(S)] + SumFunctionOnSet(f, S \ {First(S)})
<1>1. PICK g : IsTable(f, S, g)
  BY TableExists
<1>2. S \ {First(S)} \in SUBSET S /\ IsFiniteSet(S \ {First(S)})
  BY FS_Subset
<1>3. SumFunctionOnSet(f, S) = g[S]
  BY <1>1, SumIsEntry
<1>4. SumFunctionOnSet(f, S \ {First(S)}) = g[S \ {First(S)}]
  BY <1>1, <1>2, SumIsEntry
<1> QED BY <1>1, <1>3, <1>4 DEF IsTable

\* A sum of integers is one, and any of its terms can be split off.
LEMMA SumSplits ==
  ASSUME NEW f, NEW S, IsFiniteSet(S), \A i \in S : f[i] \in Int
  PROVE  /\ SumFunctionOnSet(f, S) \in Int
         /\ \A x \in S : SumFunctionOnSet(f, S) = f[x] + SumFunctionOnSet(f, S \ {x})
<1> DEFINE Splits(T) == /\ SumFunctionOnSet(f, T) \in Int
                        /\ \A x \in T : SumFunctionOnSet(f, T) = f[x] + SumFunctionOnSet(f, T \ {x})
           G == {T \in SUBSET S : Splits(T)}
<1>1. ASSUME NEW T \in SUBSET S, \A U \in SUBSET T : U # T => U \in G
      PROVE  T \in G
  <2>1. CASE T = {}
    BY <2>1, SumOfNone
  <2>2. CASE T # {}
    <3> DEFINE y == First(T)
    <3>1. y \in T /\ IsFiniteSet(T)
      BY <2>2, FirstIn, FS_Subset
    <3>2. SumFunctionOnSet(f, T) = f[y] + SumFunctionOnSet(f, T \ {y})
      BY <2>2, <3>1, SumFromFirst
    <3>3. \A U \in SUBSET T : U # T => Splits(U)
      BY <1>1
    <3> HIDE DEF y
    <3>4. T \ {y} \in SUBSET T /\ T \ {y} # T
      BY <3>1
    <3>5. SumFunctionOnSet(f, T \ {y}) \in Int /\ f[y] \in Int
      BY <3>1, <3>3, <3>4
    <3>6. ASSUME NEW x \in T, x # y
          PROVE  SumFunctionOnSet(f, T) = f[x] + SumFunctionOnSet(f, T \ {x})
      <4> DEFINE rest == SumFunctionOnSet(f, (T \ {y}) \ {x})
      <4>1. SumFunctionOnSet(f, T \ {y}) = f[x] + rest
        BY <3>3, <3>4, <3>6
      <4>2. SumFunctionOnSet(f, T \ {x}) = f[y] + SumFunctionOnSet(f, (T \ {x}) \ {y})
        BY <3>1, <3>3, <3>6
      <4>3. (T \ {x}) \ {y} = (T \ {y}) \ {x}
        OBVIOUS
      <4>4. rest \in Int /\ f[x] \in Int
        BY <3>1, <3>3
      <4> HIDE DEF rest
      <4>5. SumFunctionOnSet(f, T \ {x}) = f[y] + rest
        BY <4>2, <4>3 DEF rest
      <4> QED BY <3>2, <3>5, <4>1, <4>4, <4>5
    <3>7. Splits(T)
      <4>1. SumFunctionOnSet(f, T) \in Int
        BY <3>2, <3>5
      <4> QED BY <3>2, <3>6, <4>1
    <3> QED BY <3>7
  <2> QED BY <2>1, <2>2
<1>2. S \in G
  <2> HIDE DEF G
  <2> QED BY <1>1, SubsetInduction
<1> QED BY <1>2

\* T and one more element.
LEMMA SumGrows ==
  ASSUME NEW f, NEW S, IsFiniteSet(S), \A i \in S : f[i] \in Int, NEW T \in SUBSET S
  PROVE  /\ SumFunctionOnSet(f, T) \in Int
         /\ \A x \in S \ T : SumFunctionOnSet(f, T \cup {x}) = f[x] + SumFunctionOnSet(f, T)
<1>1. IsFiniteSet(T)
  BY FS_Subset
<1>2. ASSUME NEW x \in S \ T
      PROVE  SumFunctionOnSet(f, T \cup {x}) = f[x] + SumFunctionOnSet(f, T)
  <2>1. IsFiniteSet(T \cup {x}) /\ (T \cup {x}) \ {x} = T
    BY <1>1, FS_AddElement
  <2>2. \A i \in T \cup {x} : f[i] \in Int
    OBVIOUS
  <2> QED BY <2>1, <2>2, SumSplits
<1> QED BY <1>1, <1>2, SumSplits

LEMMA SumIsMonotone ==
  ASSUME NEW f, NEW g, NEW S, IsFiniteSet(S),
         \A i \in S : f[i] \in Int /\ g[i] \in Int /\ f[i] <= g[i]
  PROVE  SumFunctionOnSet(f, S) <= SumFunctionOnSet(g, S)
<1> DEFINE G == {T \in SUBSET S : SumFunctionOnSet(f, T) <= SumFunctionOnSet(g, T)}
<1>1. {} \in G
  BY SumOfNone
<1>2. ASSUME NEW T \in SUBSET S, NEW x \in S \ T, T \in G PROVE T \cup {x} \in G
  BY <1>2, SumGrows
<1>3. S \in G
  <2> HIDE DEF G
  <2> QED BY <1>1, <1>2, ElementInduction
<1> QED BY <1>3

\* A sum of combinations is the combination of the sums.
LEMMA SumIsLinear ==
  ASSUME NEW f, NEW g, NEW h, NEW a \in Int, NEW b \in Int, NEW S, IsFiniteSet(S),
         \A i \in S : f[i] \in Int /\ g[i] \in Int /\ h[i] = a * f[i] + b * g[i]
  PROVE  SumFunctionOnSet(h, S) = a * SumFunctionOnSet(f, S) + b * SumFunctionOnSet(g, S)
<1> DEFINE F(T) == SumFunctionOnSet(f, T)
           K(T) == SumFunctionOnSet(g, T)
           G == {T \in SUBSET S : SumFunctionOnSet(h, T) = a * F(T) + b * K(T)}
<1>0. \A i \in S : h[i] \in Int
  OBVIOUS
<1>1. {} \in G
  BY SumOfNone
<1>2. ASSUME NEW T \in SUBSET S, NEW x \in S \ T, T \in G PROVE T \cup {x} \in G
  <2>1. /\ F(T) \in Int /\ F(T \cup {x}) = f[x] + F(T)
        /\ K(T) \in Int /\ K(T \cup {x}) = g[x] + K(T)
        /\ SumFunctionOnSet(h, T \cup {x}) = h[x] + SumFunctionOnSet(h, T)
    BY <1>0, SumGrows
  <2>2. f[x] \in Int /\ g[x] \in Int /\ h[x] = a * f[x] + b * g[x]
    OBVIOUS
  <2>3. SumFunctionOnSet(h, T) = a * F(T) + b * K(T)
    BY <1>2
  <2> HIDE DEF F, K
  <2>4. h[x] + SumFunctionOnSet(h, T) = a * (f[x] + F(T)) + b * (g[x] + K(T))
    BY <2>1, <2>2, <2>3
  <2> QED BY <2>1, <2>4
<1>3. S \in G
  <2> HIDE DEF G
  <2> QED BY <1>1, <1>2, ElementInduction
<1> QED BY <1>3

\* Terms that are zero do not count.
LEMMA SumOverSupport ==
  ASSUME NEW f, NEW g, NEW S, IsFiniteSet(S), NEW R \in SUBSET S,
         \A i \in S : f[i] \in Int,
         \A i \in R : g[i] = f[i],
         \A i \in S \ R : f[i] = 0
  PROVE  SumFunctionOnSet(f, S) = SumFunctionOnSet(g, R)
<1> DEFINE G == {T \in SUBSET S : SumFunctionOnSet(f, T) = SumFunctionOnSet(g, T \cap R)}
<1>0. IsFiniteSet(R) /\ \A i \in R : g[i] \in Int
  BY FS_Subset
<1>1. {} \in G
  BY SumOfNone
<1>2. ASSUME NEW T \in SUBSET S, NEW x \in S \ T, T \in G PROVE T \cup {x} \in G
  <2>1. /\ SumFunctionOnSet(f, T) \in Int
        /\ SumFunctionOnSet(f, T \cup {x}) = f[x] + SumFunctionOnSet(f, T)
    BY SumGrows
  <2>2. CASE x \in R
    <3>1. (T \cup {x}) \cap R = (T \cap R) \cup {x} /\ x \in R \ (T \cap R)
      BY <2>2
    <3>2. SumFunctionOnSet(g, (T \cap R) \cup {x}) = g[x] + SumFunctionOnSet(g, T \cap R)
      <4> DEFINE part == T \cap R
      <4>1. part \in SUBSET R /\ x \in R \ part
        BY <3>1
      <4> HIDE DEF part
      <4>2. SumFunctionOnSet(g, part \cup {x}) = g[x] + SumFunctionOnSet(g, part)
        BY <1>0, <4>1, SumGrows
      <4> QED BY <4>2 DEF part
    <3> QED BY <1>2, <2>1, <2>2, <3>1, <3>2
  <2>3. CASE x \notin R
    <3>1. (T \cup {x}) \cap R = T \cap R /\ f[x] = 0
      BY <2>3
    <3>2. SumFunctionOnSet(f, T) = SumFunctionOnSet(g, T \cap R)
      BY <1>2
    <3>3. SumFunctionOnSet(f, T \cup {x}) = SumFunctionOnSet(f, T)
      BY <2>1, <3>1
    <3> QED BY <3>1, <3>2, <3>3
  <2> QED BY <2>2, <2>3
<1>3. S \in G
  <2> HIDE DEF G
  <2> QED BY <1>1, <1>2, ElementInduction
<1>4. S \cap R = R
  OBVIOUS
<1> QED BY <1>3, <1>4

\* Functions that agree have the same sum.
LEMMA SumOfEquals ==
  ASSUME NEW f, NEW g, NEW S, IsFiniteSet(S), \A i \in S : f[i] \in Int /\ g[i] = f[i]
  PROVE  SumFunctionOnSet(f, S) = SumFunctionOnSet(g, S)
BY SumOverSupport

\* The order of the terms does not count.
LEMMA SumIsReordered ==
  ASSUME NEW f, NEW g, NEW h, NEW S, IsFiniteSet(S),
         \A x \in S : f[x] \in Int /\ g[h[x]] = f[x],
         \A x, y \in S : h[x] = h[y] => x = y
  PROVE  SumFunctionOnSet(f, S) = SumFunctionOnSet(g, {h[x] : x \in S})
<1> DEFINE Image(T) == {h[x] : x \in T}
           G == {T \in SUBSET S : /\ IsFiniteSet(Image(T))
                                  /\ SumFunctionOnSet(f, T) = SumFunctionOnSet(g, Image(T))}
<1>1. {} \in G
  BY SumOfNone, FS_EmptySet
<1>3. ASSUME NEW T \in SUBSET S, NEW x \in S \ T, T \in G PROVE T \cup {x} \in G
  <2>1. Image(T) \in SUBSET Image(S) /\ h[x] \in Image(S) \ Image(T)
    OBVIOUS
  <2>2. Image(T \cup {x}) = Image(T) \cup {h[x]}
    OBVIOUS
  <2>3. \A y \in Image(S) : g[y] \in Int
    OBVIOUS
  <2>4. IsFiniteSet(Image(T)) /\ SumFunctionOnSet(f, T) = SumFunctionOnSet(g, Image(T))
    BY <1>3
  <2> HIDE DEF Image
  <2>5. /\ IsFiniteSet(Image(T \cup {x}))
        /\ SumFunctionOnSet(g, Image(T \cup {x})) = g[h[x]] + SumFunctionOnSet(g, Image(T))
    <3> DEFINE W == Image(T) \cup {h[x]}
    <3>1. IsFiniteSet(W)
      BY <2>4, FS_AddElement
    <3>2. h[x] \in W /\ W \ {h[x]} = Image(T) /\ \A y \in W : g[y] \in Int
      BY <2>1, <2>3
    <3> HIDE DEF W
    <3>3. SumFunctionOnSet(g, W) = g[h[x]] + SumFunctionOnSet(g, W \ {h[x]})
      BY <3>1, <3>2, SumSplits
    <3>4. Image(T \cup {x}) = W
      BY <2>2 DEF W
    <3> QED BY <3>1, <3>2, <3>3, <3>4
  <2>6. SumFunctionOnSet(f, T \cup {x}) = f[x] + SumFunctionOnSet(f, T)
    BY SumGrows
  <2>7. SumFunctionOnSet(f, T \cup {x}) = SumFunctionOnSet(g, Image(T \cup {x}))
    BY <2>4, <2>5, <2>6
  <2> QED BY <2>5, <2>7 DEF Image
<1>4. S \in G
  <2> HIDE DEF G
  <2> QED BY <1>1, <1>3, ElementInduction
<1> QED BY <1>4

\* A sum of natural numbers is one, and is not less than any part of it.
LEMMA SumOfNaturals ==
  ASSUME NEW f, NEW S, IsFiniteSet(S), \A i \in S : f[i] \in Nat
  PROVE  /\ SumFunctionOnSet(f, S) \in Nat
         /\ \A T \in SUBSET S : SumFunctionOnSet(f, T) <= SumFunctionOnSet(f, S)
         /\ \A i \in S : f[i] <= SumFunctionOnSet(f, S)
<1> DEFINE zero == [i \in S |-> 0]
<1>0. \A i \in S : f[i] \in Int /\ f[i] >= 0
  OBVIOUS
<1>1. ASSUME NEW T \in SUBSET S PROVE SumFunctionOnSet(f, T) \in Nat
  <2>1. IsFiniteSet(T)
    BY FS_Subset
  <2>2. SumFunctionOnSet(zero, T) = SumFunctionOnSet(zero, {})
    <3>1. \A i \in T : zero[i] = 0
      OBVIOUS
    <3> HIDE DEF zero
    <3> QED BY <2>1, <3>1, SumOverSupport
  <2>3. SumFunctionOnSet(zero, T) <= SumFunctionOnSet(f, T)
    <3>1. \A i \in T : zero[i] = 0
      OBVIOUS
    <3> HIDE DEF zero
    <3> QED BY <1>0, <2>1, <3>1, SumIsMonotone
  <2>4. SumFunctionOnSet(f, T) \in Int
    BY <1>0, <2>1, SumSplits
  <2> QED BY <2>2, <2>3, <2>4, SumOfNone
<1>2. ASSUME NEW T \in SUBSET S
      PROVE  SumFunctionOnSet(f, T) <= SumFunctionOnSet(f, S)
  <2> DEFINE part == [i \in S |-> IF i \in T THEN f[i] ELSE 0]
  <2>1. \A i \in S : part[i] \in Int /\ part[i] <= f[i]
    BY <1>0
  <2>2. (\A i \in T : f[i] = part[i]) /\ (\A i \in S \ T : part[i] = 0)
    OBVIOUS
  <2> HIDE DEF part
  <2>3. SumFunctionOnSet(part, S) = SumFunctionOnSet(f, T)
    BY <2>1, <2>2, SumOverSupport
  <2>4. SumFunctionOnSet(part, S) <= SumFunctionOnSet(f, S)
    BY <1>0, <2>1, SumIsMonotone
  <2> QED BY <2>3, <2>4
<1>3. ASSUME NEW i \in S PROVE f[i] <= SumFunctionOnSet(f, S)
  <2>1. SumFunctionOnSet(f, S) = f[i] + SumFunctionOnSet(f, S \ {i})
    BY <1>0, SumSplits
  <2>2. SumFunctionOnSet(f, S \ {i}) \in Nat
    BY <1>1
  <2> QED BY <1>0, <2>1, <2>2
<1>4. SumFunctionOnSet(f, S) \in Nat
  BY <1>1
<1> QED BY <1>2, <1>3, <1>4

\* A sum of natural numbers is at least the number of terms that are not zero,
\* and no more if they are ones.
LEMMA SumCounts ==
  ASSUME NEW f, NEW S, IsFiniteSet(S), \A i \in S : f[i] \in Nat
  PROVE  LET counted == {i \in S : f[i] > 0} IN
         /\ SumFunctionOnSet(f, S) \in Nat /\ Cardinality(counted) \in Nat
         /\ SumFunctionOnSet(f, S) >= Cardinality(counted)
         /\ (\A i \in counted : f[i] = 1) => SumFunctionOnSet(f, S) = Cardinality(counted)
<1> DEFINE counted(T) == {i \in T : f[i] > 0}
           Counts(T) == /\ SumFunctionOnSet(f, T) >= Cardinality(counted(T))
                        /\ (\A i \in counted(T) : f[i] = 1) =>
                             SumFunctionOnSet(f, T) = Cardinality(counted(T))
           G == {T \in SUBSET S : Counts(T)}
<1>0. \A i \in S : f[i] \in Int
  OBVIOUS
<1>1. {} \in G
  <2>1. counted({}) = {} /\ Cardinality({}) = 0
    BY FS_EmptySet
  <2> HIDE DEF counted
  <2> QED BY <2>1, SumOfNone
<1>2. ASSUME NEW T \in SUBSET S PROVE IsFiniteSet(counted(T)) /\ Cardinality(counted(T)) \in Nat
  <2>1. counted(T) \in SUBSET S
    OBVIOUS
  <2> HIDE DEF counted
  <2> QED BY <2>1, FS_Subset, FS_CardinalityType
<1>3. ASSUME NEW T \in SUBSET S, NEW x \in S \ T, T \in G PROVE T \cup {x} \in G
  <2>1. /\ SumFunctionOnSet(f, T) \in Int
        /\ SumFunctionOnSet(f, T \cup {x}) = f[x] + SumFunctionOnSet(f, T)
    BY <1>0, SumGrows
  <2>2. IsFiniteSet(counted(T)) /\ Cardinality(counted(T)) \in Nat
    BY <1>2
  <2>3. CASE f[x] = 0
    <3>1. counted(T \cup {x}) = counted(T)
      BY <2>3
    <3>2. SumFunctionOnSet(f, T \cup {x}) = SumFunctionOnSet(f, T)
      BY <2>1, <2>3
    <3> QED BY <1>3, <3>1, <3>2
  <2>4. CASE f[x] > 0
    <3>1. counted(T \cup {x}) = counted(T) \cup {x} /\ x \notin counted(T)
      BY <2>4
    <3>2. Cardinality(counted(T) \cup {x}) = Cardinality(counted(T)) + 1
      BY <2>2, <3>1, FS_AddElement
    <3>3. Counts(T) /\ f[x] \in Nat
      BY <1>3
    <3> HIDE DEF counted
    <3>4. SumFunctionOnSet(f, T \cup {x}) >= Cardinality(counted(T \cup {x}))
      BY <2>1, <2>2, <2>4, <3>1, <3>2, <3>3
    <3>5. ASSUME \A i \in counted(T \cup {x}) : f[i] = 1
          PROVE  SumFunctionOnSet(f, T \cup {x}) = Cardinality(counted(T \cup {x}))
      <4>1. f[x] = 1 /\ \A i \in counted(T) : f[i] = 1
        BY <3>1, <3>5
      <4> QED BY <2>1, <2>2, <3>1, <3>2, <3>3, <4>1
    <3> QED BY <3>4, <3>5
  <2> QED BY <2>3, <2>4
<1>4. S \in G
  <2> HIDE DEF G
  <2> QED BY <1>1, <1>3, ElementInduction
<1> QED BY <1>2, <1>4, SumOfNaturals

-----------------------------------------------------------------------------
\* Least and greatest elements.

\* A finite set has an element that comes first in any total, transitive
\* relation.
LEMMA BestExists ==
  ASSUME NEW S, IsFiniteSet(S), S # {}, NEW R,
         \A x, y \in S : <<x, y>> \in R \/ <<y, x>> \in R,
         \A x, y, z \in S : <<x, y>> \in R /\ <<y, z>> \in R => <<x, z>> \in R
  PROVE  \E b \in S : \A x \in S : <<b, x>> \in R
<1> DEFINE Best(b, T) == \A x \in T : <<b, x>> \in R
           G == {T \in SUBSET S : T = {} \/ \E b \in T : Best(b, T)}
<1>1. {} \in G
  OBVIOUS
<1>2. ASSUME NEW T \in SUBSET S, NEW x \in S \ T, T \in G PROVE T \cup {x} \in G
  <2>1. CASE T = {}
    <3>1. Best(x, T \cup {x})
      BY <2>1
    <3> QED BY <3>1
  <2>2. CASE T # {}
    <3>1. PICK b \in T : Best(b, T)
      BY <1>2, <2>2
    <3>2. CASE <<b, x>> \in R
      BY <3>1, <3>2
    <3>3. CASE <<x, b>> \in R
      <4>1. Best(x, T \cup {x})
        BY <3>1, <3>3
      <4> QED BY <4>1
    <3> QED BY <3>2, <3>3
  <2> QED BY <2>1, <2>2
<1>3. S \in G
  <2> HIDE DEF G
  <2> QED BY <1>1, <1>2, ElementInduction
<1> QED BY <1>3

LEMMA MinIs ==
  ASSUME NEW S \in SUBSET Int, IsFiniteSet(S), S # {}
  PROVE  Min(S) \in S /\ \A y \in S : Min(S) <= y
<1> DEFINE R == {p \in S \X S : p[1] <= p[2]}
<1>1. \E b \in S : \A x \in S : <<b, x>> \in R
  <2>1. \A x, y \in S : <<x, y>> \in R \/ <<y, x>> \in R
    OBVIOUS
  <2>2. \A x, y, z \in S : <<x, y>> \in R /\ <<y, z>> \in R => <<x, z>> \in R
    OBVIOUS
  <2> HIDE DEF R
  <2> QED BY <2>1, <2>2, BestExists
<1> QED BY <1>1 DEF Min

LEMMA MaxIs ==
  ASSUME NEW S \in SUBSET Int, IsFiniteSet(S), S # {}
  PROVE  Max(S) \in S /\ \A y \in S : Max(S) >= y
<1> DEFINE R == {p \in S \X S : p[1] >= p[2]}
<1>1. \E b \in S : \A x \in S : <<b, x>> \in R
  <2>1. \A x, y \in S : <<x, y>> \in R \/ <<y, x>> \in R
    OBVIOUS
  <2>2. \A x, y, z \in S : <<x, y>> \in R /\ <<y, z>> \in R => <<x, z>> \in R
    OBVIOUS
  <2> HIDE DEF R
  <2> QED BY <2>1, <2>2, BestExists
<1> QED BY <1>1 DEF Max

LEMMA PairIsFinite == \A a, b : IsFiniteSet({a, b})
<1> TAKE a, b
<1>1. IsFiniteSet({a} \cup {b})
  BY FS_Singleton, FS_AddElement
<1>2. {a} \cup {b} = {a, b}
  OBVIOUS
<1> QED BY <1>1, <1>2

LEMMA MinOfTwo ==
  ASSUME NEW a \in Int, NEW b \in Int
  PROVE  Min({a, b}) = IF a <= b THEN a ELSE b
<1>1. Min({a, b}) \in {a, b} /\ \A y \in {a, b} : Min({a, b}) <= y
  <2> QED BY PairIsFinite, MinIs
<1> QED BY <1>1

LEMMA MaxOfTwo ==
  ASSUME NEW a \in Int, NEW b \in Int
  PROVE  Max({a, b}) = IF a <= b THEN b ELSE a
<1>1. Max({a, b}) \in {a, b} /\ \A y \in {a, b} : Max({a, b}) >= y
  <2> QED BY PairIsFinite, MaxIs
<1> QED BY <1>1

-----------------------------------------------------------------------------
\* Sequences.

LEMMA Concatenation ==
  ASSUME NEW S, NEW a \in Seq(S), NEW b \in Seq(S)
  PROVE  /\ a \o b \in Seq(S) /\ Len(a \o b) = Len(a) + Len(b)
         /\ DOMAIN (a \o b) = 1 .. Len(a) + Len(b)
         /\ \A i \in 1 .. Len(a) + Len(b) :
              (a \o b)[i] = IF i <= Len(a) THEN a[i] ELSE b[i - Len(a)]
OBVIOUS

=============================================================================
