------------------------ MODULE DiscountCacheProofs ------------------------
(***************************************************************************)
(* Theorems about DiscountCache, for any number of discounts, evaluations  *)
(* and writers and any times to live.                                      *)
(***************************************************************************)
EXTENDS DiscountCache, FiniteSetTheorems, TLAPS

-----------------------------------------------------------------------------
\* The time to live.

\* A set of integers that is finite and not empty has a least element: of the
\* sets of the elements up to one of them, the smallest has only one.
LEMMA LeastExists ==
  ASSUME NEW T \in SUBSET Int, T # {}, IsFiniteSet(T)
  PROVE  \E m \in T : \A y \in T : m <= y
<1> DEFINE UpTo(x) == {y \in T : y <= x}
           Initial == {UpTo(x) : x \in T}
<1>1. Initial \subseteq FiniteSubsetsOf(T) /\ Initial # {}
  <2>1. \A x \in T : UpTo(x) \subseteq T
    OBVIOUS
  <2>2. \A x \in T : IsFiniteSet(UpTo(x))
    BY <2>1, FS_Subset
  <2> QED BY <2>1, <2>2 DEF FiniteSubsetsOf
<1>2. PICK least \in Initial : \A S \in Initial : ~(<<S, least>> \in StrictSubsetOrdering(T))
  <2> HIDE DEF Initial
  <2> QED BY <1>1, FS_StrictSubsetOrderingWellFounded, WFMin
<1>3. PICK m \in T : least = UpTo(m)
  BY <1>2
<1>4. ASSUME NEW y \in T, y < m PROVE FALSE
  <2>1. UpTo(y) \subseteq UpTo(m)
    <3>1. \A z \in T : z <= y => z <= m
      <4> TAKE z \in T
      <4>1. z \in Int /\ y \in Int /\ m \in Int
        OBVIOUS
      <4> QED BY <1>4, <4>1
    <3> QED BY <3>1
  <2>0. m \in UpTo(m) /\ m \notin UpTo(y)
    <3>1. y \in Int /\ m \in Int
      OBVIOUS
    <3> QED BY <1>4, <3>1
  <2>2. UpTo(y) \in SUBSET T /\ UpTo(m) \in SUBSET T /\ UpTo(y) # UpTo(m)
    BY <2>0
  <2>3. <<UpTo(y), UpTo(m)>> \in StrictSubsetOrdering(T)
    BY <2>1, <2>2 DEF StrictSubsetOrdering
  <2> QED BY <1>2, <1>3, <2>3
<1> QED BY <1>4

\* Ttl lies between its limits, and above MinTtl it ends with the first
\* discount of the list.
LEMMA TtlFits ==
  ASSUME closes \in [Discounts -> -1 .. Far], NEW list \in SUBSET Discounts
  PROVE  /\ Ttl(list) \in MinTtl .. MaxTtl
         /\ \A d \in list : Ttl(list) <= MinTtl \/ Ttl(list) <= closes[d]
<1> USE DiscountCacheAssumption
<1>1. CASE list = {}
  BY <1>1 DEF Ttl
<1>2. CASE list # {}
  <2> DEFINE Ends == {closes[d] : d \in list}
             first == Min(Ends)
             held == Max({MinTtl, first})
  <2>0. Ends \subseteq -1 .. Far /\ Ends # {}
    BY <1>2
  <2>1. Ends \in SUBSET Int /\ Ends # {} /\ IsFiniteSet(Ends)
    <3> HIDE DEF Ends
    <3>1. IsFiniteSet(-1 .. Far)
      BY FS_Interval
    <3>2. Ends \in SUBSET (-1 .. Far)
      BY <2>0
    <3>3. IsFiniteSet(Ends)
      BY <3>1, <3>2, FS_Subset
    <3> QED BY <2>0, <3>3
  <2>2. \E m \in Ends : \A y \in Ends : m <= y
    <3> HIDE DEF Ends
    <3> QED BY <2>1, LeastExists
  <2>3. first \in Ends /\ \A y \in Ends : first <= y
    <3> HIDE DEF Ends
    <3> QED BY <2>2 DEF Min
  <2>4. first \in Int /\ \A d \in list : first <= closes[d]
    BY <2>1, <2>3
  <2> HIDE DEF first
  <2>5. held \in {MinTtl, first} /\ held >= MinTtl /\ held >= first
    BY <2>4 DEF Max
  <2> HIDE DEF held
  <2>6. Min({MaxTtl, held}) \in {MaxTtl, held} /\ Min({MaxTtl, held}) <= MaxTtl
        /\ Min({MaxTtl, held}) <= held
    BY <2>4, <2>5 DEF Min
  <2>7. Ttl(list) = Min({MaxTtl, held})
    BY <1>2 DEF Ttl, held, first
  <2> DEFINE ttl == Ttl(list)
  <2>8. ttl \in {MaxTtl, held} /\ ttl <= MaxTtl /\ ttl <= held
    BY <2>6, <2>7
  <2> HIDE DEF ttl
  <2>9. ttl \in MinTtl .. MaxTtl
    BY <2>4, <2>5, <2>8
  <2>10. ttl <= MinTtl \/ ttl <= first
    BY <2>4, <2>5, <2>8
  <2>11. ASSUME NEW d \in list PROVE ttl <= MinTtl \/ ttl <= closes[d]
    <3>1. closes[d] \in Int /\ first <= closes[d]
      BY <2>4
    <3> QED BY <2>4, <2>9, <2>10, <3>1
  <2> QED BY <2>9, <2>11 DEF ttl
<1> QED BY <1>1, <1>2

-----------------------------------------------------------------------------
\* The inductive invariant.

\* A list is what the database offers until time passes or somebody writes,
\* and a writer that a cached list has missed did so before it was set or has
\* still to delete it.
ListInv ==
  /\ \A e \in Evaluations :
       epc[e] \in {"ttl", "set"} /\ ~fill[e].aged /\ fill[e].missed = {} => fill[e].list = Offered
  /\ cache # NoList =>
       /\ ~cache.aged /\ cache.missed = {} => cache.list = Offered
       /\ \A w \in cache.missed : w \in cache.overtaken \/ Unswept(w)

\* Lists hold stored discounts, whose window no write moves.
StoredInv ==
  /\ \A e \in Evaluations : fill[e].list \subseteq stored
  /\ cache # NoList => cache.list \subseteq stored

\* A key in time expires with the first discount of its list, or after MinTtl.
TimeInv ==
  /\ \A e \in Evaluations : epc[e] = "set" =>
       /\ fill[e].ttl \in 1 .. MaxTtl
       /\ ~fill[e].late =>
            \A d \in fill[e].list : fill[e].ttl <= MinTtl \/ fill[e].ttl <= closes[d]
  /\ cache # NoList /\ ~cache.late =>
       \A d \in cache.list : cache.age + cache.ttl <= MinTtl \/ cache.ttl <= closes[d]

\* Who has not called has no call, and who writes has found the discount.
CallInv ==
  \A w \in Writers :
    /\ wpc[w] = "idle" => call[w] = NoCall
    /\ wpc[w] = "write" => call[w].id \in stored

IInv == TypeOK /\ ListInv /\ StoredInv /\ TimeInv /\ CallInv

LEMMA NoCallIsACall == NoCall \in Calls
BY DiscountCacheAssumption DEF NoCall, Calls

LEMMA InitHolds == Init => IInv
<1> SUFFICES ASSUME Init PROVE IInv
  OBVIOUS
<1> USE DiscountCacheAssumption DEF Init
<1>1. TypeOK
  <2>1. PICK window \in [Existing -> Windows] :
          /\ opens = [d \in Discounts |-> IF d \in Existing THEN window[d].opens ELSE 0]
          /\ closes = [d \in Discounts |-> IF d \in Existing THEN window[d].closes ELSE 0]
    OBVIOUS
  <2>2. \A d \in Existing : window[d].opens \in Nat /\ window[d].closes \in 0 .. Far
    OBVIOUS
  <2>3. opens \in [Discounts -> Nat] /\ closes \in [Discounts -> -1 .. Far]
    BY <2>1, <2>2
  <2>4. fill \in [Evaluations -> Fills]
    BY DEF EmptyFill, Fills
  <2> QED BY <2>3, <2>4, NoCallIsACall DEF TypeOK
<1>2. ListInv /\ StoredInv /\ TimeInv /\ CallInv
  BY DEF ListInv, StoredInv, TimeInv, CallInv, EmptyFill
<1> QED BY <1>1, <1>2 DEF IInv

-----------------------------------------------------------------------------
\* Types.

LEMMA OthersMissTypes ==
  ASSUME TypeOK, NEW w \in Writers, OthersMiss(w)
  PROVE  cache' \in Entries \cup {NoList} /\ fill' \in [Evaluations -> Fills]
BY DEF TypeOK, OthersMiss, Entries, Fills

LEMMA TypeKept == IInv /\ [Next]_vars => TypeOK'
<1> USE DiscountCacheAssumption DEF store, readers, writers, Goes
<1> SUFFICES ASSUME TypeOK, TimeInv, CallInv, [Next]_vars PROVE TypeOK'
  BY DEF IInv
<1>1. ASSUME NEW e \in Evaluations, CacheMiss(e) PROVE TypeOK'
  BY <1>1 DEF CacheMiss, TypeOK
<1>2. ASSUME NEW e \in Evaluations, FindAllActiveAutomatic(e) PROVE TypeOK'
  <2>1. Offered \subseteq Discounts
    BY DEF Offered, TypeOK
  <2>2. [EmptyFill EXCEPT !.list = Offered] \in Fills
    <3>1. EmptyFill \in Fills
      BY DEF EmptyFill, Fills
    <3> QED BY <2>1, <3>1 DEF Fills
  <2> QED BY <1>2, <2>2 DEF FindAllActiveAutomatic, TypeOK
<1>3. ASSUME NEW e \in Evaluations, ComputeTtl(e) PROVE TypeOK'
  <2>1. fill[e] \in Fills /\ fill[e].list \in SUBSET Discounts
    BY DEF TypeOK, Fills
  <2>2. Ttl(fill[e].list) \in 0 .. MaxTtl
    BY <2>1, TtlFits DEF TypeOK
  <2>3. [fill[e] EXCEPT !.ttl = Ttl(fill[e].list)] \in Fills
    BY <2>1, <2>2 DEF Fills
  <2>4. fill' = [fill EXCEPT ![e] = [fill[e] EXCEPT !.ttl = Ttl(fill[e].list)]]
    BY <1>3 DEF ComputeTtl, TypeOK
  <2> QED BY <1>3, <2>3, <2>4 DEF ComputeTtl, TypeOK
<1>4. ASSUME NEW e \in Evaluations, SetCache(e) PROVE TypeOK'
  <2>1. EmptyFill \in Fills
    BY DEF EmptyFill, Fills
  <2>2. Entry(fill[e]) \in Entries
    BY <1>4 DEF SetCache, Entry, Entries, Fills, TypeOK, TimeInv
  <2> QED BY <1>4, <2>1, <2>2 DEF SetCache, TypeOK
<1>5. ASSUME NEW e \in Evaluations, EvaluationFails(e) PROVE TypeOK'
  <2>1. EmptyFill \in Fills
    BY DEF EmptyFill, Fills
  <2> QED BY <1>5, <2>1 DEF EvaluationFails, TypeOK
<1>6. ASSUME NEW w \in Writers, SaveDiscount(w) PROVE TypeOK'
  <2>1. PICK d \in Discounts \ stored, a \in BOOLEAN, window \in Windows :
          /\ call' = [call EXCEPT ![w] = [kind |-> "create", id |-> d]]
          /\ stored' = stored \cup {d}
          /\ active' = IF a THEN active \cup {d} ELSE active
          /\ opens' = [opens EXCEPT ![d] = window.opens]
          /\ closes' = [closes EXCEPT ![d] = window.closes]
    BY <1>6 DEF SaveDiscount
  <2>2. window.opens \in Nat /\ window.closes \in 0 .. Far
    OBVIOUS
  <2>3. opens' \in [Discounts -> Nat] /\ closes' \in [Discounts -> -1 .. Far]
    BY <2>1, <2>2 DEF TypeOK
  <2>4. stored' \subseteq Discounts /\ active' \subseteq stored' /\ call' \in [Writers -> Calls]
    BY <2>1 DEF TypeOK, Calls
  <2> QED BY <1>6, <2>3, <2>4, OthersMissTypes DEF SaveDiscount, TypeOK
<1>7. ASSUME NEW w \in Writers, ReadEntity(w) PROVE TypeOK'
  BY <1>7 DEF ReadEntity, TypeOK, Calls
<1>8. ASSUME NEW w \in Writers, SaveEntity(w) PROVE TypeOK'
  <2>1. call[w].id \in stored
    BY <1>8 DEF SaveEntity, CallInv
  <2>2. active' \subseteq stored' /\ stored' \subseteq Discounts
    BY <1>8, <2>1 DEF SaveEntity, WriteEntity, TypeOK
  <2> QED BY <1>8, <2>2, OthersMissTypes DEF SaveEntity, WriteEntity, UsageUnmarked, TypeOK
<1>9. ASSUME NEW w \in Writers, AtomicIncrementUsage(w) PROVE TypeOK'
  <2>1. PICK d \in Discounts :
          /\ call' = [call EXCEPT ![w] = [kind |-> "redeem", id |-> d]]
          /\ used' = [used EXCEPT ![d] = @ + 1] \/ used' = used
          /\ \/ wpc' = [wpc EXCEPT ![w] = "del"] \/ wpc' = [wpc EXCEPT ![w] = "answered"]
             \/ wpc' = [wpc EXCEPT ![w] = "refused"]
    BY <1>9 DEF AtomicIncrementUsage
  <2>2. used' \in [Discounts -> Nat] /\ call' \in [Writers -> Calls]
    BY <2>1 DEF TypeOK, Calls
  <2> QED BY <1>9, <2>1, <2>2 DEF AtomicIncrementUsage, TypeOK
<1>10. ASSUME NEW w \in Writers, DeleteKey(w) PROVE TypeOK'
  BY <1>10 DEF DeleteKey, TypeOK
<1>11. ASSUME NEW w \in Writers, DeleteFails(w) PROVE TypeOK'
  BY <1>11 DEF DeleteFails, TypeOK
<1>12. ASSUME Tick PROVE TypeOK'
  <2>1. opens' \in [Discounts -> Nat]
    <3>1. \A d \in Discounts : (IF opens[d] = 0 THEN 0 ELSE opens[d] - 1) \in Nat
      BY DEF TypeOK
    <3> QED BY <1>12, <3>1 DEF Tick
  <2>2. closes' \in [Discounts -> -1 .. Far]
    <3>1. \A d \in Discounts : closes[d] \in -1 .. Far /\ Earlier(closes[d]) \in -1 .. Far
      BY DEF TypeOK, Earlier
    <3> QED BY <1>12, <3>1 DEF Tick
  <2>3. cache' \in Entries \cup {NoList}
    <3>1. ASSUME cache \in Entries, cache.ttl # 1 PROVE Expiring(cache) \in Entries
      <4>1. /\ cache.ttl - 1 \in 1 .. MaxTtl /\ cache.age + 1 \in Nat
        BY <3>1 DEF Entries
      <4> QED BY <3>1, <4>1 DEF Expiring, Entries
    <3>2. cache # NoList => cache \in Entries
      BY DEF TypeOK
    <3>3. cache.ttl = 1 => Expiring(cache) = NoList
      BY DEF Expiring
    <3> QED BY <1>12, <3>1, <3>2, <3>3 DEF Tick
  <2>4. fill' \in [Evaluations -> Fills]
    <3>1. ASSUME NEW e \in Evaluations, NEW a \in BOOLEAN, NEW l \in BOOLEAN
          PROVE  [fill[e] EXCEPT !.aged = a, !.late = l] \in Fills
      <4>1. fill[e] \in Fills
        BY DEF TypeOK
      <4> QED BY <4>1, ZenonT(30) DEF Fills
    <3>2. ASSUME NEW e \in Evaluations PROVE fill[e].aged \in BOOLEAN /\ fill[e].late \in BOOLEAN
      BY DEF TypeOK, Fills
    <3>3. fill' = [e \in Evaluations |->
            [fill[e] EXCEPT !.aged = fill[e].aged \/ epc[e] \in {"ttl", "set"},
                            !.late = fill[e].late \/ epc[e] = "set"]]
      BY <1>12 DEF Tick
    <3> QED BY <3>1, <3>2, <3>3
  <2> QED BY <1>12, <2>1, <2>2, <2>3, <2>4 DEF Tick, TypeOK
<1>13. CASE UNCHANGED vars
  BY <1>13 DEF vars, TypeOK
<1> QED
  BY <1>1, <1>2, <1>3, <1>4, <1>5, <1>6, <1>7, <1>8, <1>9, <1>10, <1>11, <1>12, <1>13
     DEF Next, EvaluationStep, WriterStep

-----------------------------------------------------------------------------
\* Calls.

LEMMA CallKept == IInv /\ [Next]_vars => CallInv'
<1> SUFFICES ASSUME TypeOK, CallInv, [Next]_vars PROVE CallInv'
  BY DEF IInv
<1> USE DEF CallInv, TypeOK, store, readers, writers, Goes
<1>1. ASSUME NEW e \in Evaluations,
             CacheMiss(e) \/ FindAllActiveAutomatic(e) \/ ComputeTtl(e) \/ SetCache(e)
               \/ EvaluationFails(e)
      PROVE  CallInv'
  <2>1. UNCHANGED <<store, writers>>
    BY <1>1 DEF CacheMiss, FindAllActiveAutomatic, ComputeTtl, SetCache, EvaluationFails
  <2> QED BY <2>1
<1>2. ASSUME NEW w \in Writers, SaveDiscount(w) PROVE CallInv'
  BY <1>2 DEF SaveDiscount
<1>3. ASSUME NEW w \in Writers, ReadEntity(w) PROVE CallInv'
  BY <1>3 DEF ReadEntity
<1>4. ASSUME NEW w \in Writers, SaveEntity(w) PROVE CallInv'
  BY <1>4 DEF SaveEntity
<1>5. ASSUME NEW w \in Writers, AtomicIncrementUsage(w) PROVE CallInv'
  <2>1. PICK d \in Discounts :
          /\ call' = [call EXCEPT ![w] = [kind |-> "redeem", id |-> d]]
          /\ \/ wpc' = [wpc EXCEPT ![w] = "del"] \/ wpc' = [wpc EXCEPT ![w] = "answered"]
             \/ wpc' = [wpc EXCEPT ![w] = "refused"]
    BY <1>5 DEF AtomicIncrementUsage
  <2> QED BY <1>5, <2>1 DEF AtomicIncrementUsage
<1>6. ASSUME NEW w \in Writers, DeleteKey(w) \/ DeleteFails(w) PROVE CallInv'
  BY <1>6 DEF DeleteKey, DeleteFails
<1>7. CASE Tick \/ UNCHANGED vars
  BY <1>7 DEF Tick, vars
<1> QED BY <1>1, <1>2, <1>3, <1>4, <1>5, <1>6, <1>7 DEF Next, EvaluationStep, WriterStep

-----------------------------------------------------------------------------
\* Lists.

\* What a write changes of what has been read: who has missed it.
LEMMA WriteIsMissed ==
  ASSUME TypeOK, NEW w \in Writers, OthersMiss(w)
  PROVE  /\ \A e \in Evaluations :
              /\ fill'[e].list = fill[e].list /\ fill'[e].ttl = fill[e].ttl
              /\ fill'[e].aged = fill[e].aged /\ fill'[e].late = fill[e].late
              /\ epc[e] \in {"ttl", "set"} => w \in fill'[e].missed
         /\ cache = NoList => cache' = NoList
         /\ cache # NoList =>
              /\ cache'.list = cache.list /\ cache'.ttl = cache.ttl /\ cache'.age = cache.age
              /\ cache'.aged = cache.aged /\ cache'.late = cache.late
              /\ cache'.missed = cache.missed \cup {w} /\ cache'.overtaken = cache.overtaken
BY DEF TypeOK, OthersMiss, Entries, Fills

\* What time changes of what has been read.
LEMMA TimeIsNoted ==
  ASSUME TypeOK, Tick
  PROVE  /\ \A e \in Evaluations :
              /\ fill'[e].list = fill[e].list /\ fill'[e].ttl = fill[e].ttl
              /\ epc[e] \in {"ttl", "set"} => fill'[e].aged
              /\ epc[e] = "set" => fill'[e].late
         /\ cache = NoList => cache' = NoList
         /\ cache' # NoList =>
              /\ cache # NoList /\ cache.ttl # 1 /\ cache'.list = cache.list
              /\ cache'.ttl = cache.ttl - 1 /\ cache'.age = cache.age + 1
              /\ cache'.aged /\ cache'.late = cache.late
              /\ cache'.missed = cache.missed /\ cache'.overtaken = cache.overtaken
<1>1. ASSUME NEW e \in Evaluations
      PROVE  /\ fill'[e].list = fill[e].list /\ fill'[e].ttl = fill[e].ttl
             /\ epc[e] \in {"ttl", "set"} => fill'[e].aged
             /\ epc[e] = "set" => fill'[e].late
  <2>1. fill[e] \in Fills
    BY DEF TypeOK
  <2>2. fill'[e] = [fill[e] EXCEPT !.aged = @ \/ epc[e] \in {"ttl", "set"},
                                   !.late = @ \/ epc[e] = "set"]
    BY DEF Tick
  <2> QED BY <2>1, <2>2 DEF Fills
<1>2. cache = NoList => cache' = NoList
  BY DEF Tick
<1>3. ASSUME cache' # NoList
      PROVE  /\ cache # NoList /\ cache.ttl # 1 /\ cache'.list = cache.list
             /\ cache'.ttl = cache.ttl - 1 /\ cache'.age = cache.age + 1
             /\ cache'.aged /\ cache'.late = cache.late
             /\ cache'.missed = cache.missed /\ cache'.overtaken = cache.overtaken
  <2>1. cache # NoList /\ cache' = Expiring(cache)
    BY <1>3 DEF Tick
  <2>2. cache \in Entries
    BY <2>1 DEF TypeOK
  <2>3. cache' = [cache EXCEPT !.ttl = @ - 1, !.age = @ + 1, !.aged = TRUE] /\ cache.ttl # 1
    BY <1>3, <2>1 DEF Expiring
  <2> QED BY <2>1, <2>2, <2>3 DEF Entries
<1> QED BY <1>1, <1>2, <1>3

LEMMA ListKept == IInv /\ [Next]_vars => ListInv'
<1> SUFFICES ASSUME TypeOK, ListInv, [Next]_vars PROVE ListInv'
  BY DEF IInv
<1> USE DEF store, readers, writers, Goes
<1>1. ASSUME UNCHANGED <<active, opens, closes>> PROVE Offered' = Offered
  BY <1>1 DEF Offered
<1>2. ASSUME NEW e \in Evaluations, CacheMiss(e) \/ EvaluationFails(e) PROVE ListInv'
  BY <1>1, <1>2 DEF CacheMiss, EvaluationFails, ListInv, TypeOK, Unswept
<1>3. ASSUME NEW e \in Evaluations, FindAllActiveAutomatic(e) PROVE ListInv'
  <2>1. fill'[e].list = Offered
    BY <1>3 DEF FindAllActiveAutomatic, TypeOK, EmptyFill
  <2> QED BY <1>1, <1>3, <2>1 DEF FindAllActiveAutomatic, ListInv, TypeOK, Unswept
<1>4. ASSUME NEW e \in Evaluations, ComputeTtl(e) PROVE ListInv'
  <2>1. \A x \in Evaluations :
          /\ fill'[x].list = fill[x].list /\ fill'[x].aged = fill[x].aged
          /\ fill'[x].missed = fill[x].missed
    BY <1>4 DEF ComputeTtl, TypeOK, Fills
  <2>2. \A x \in Evaluations : epc'[x] \in {"ttl", "set"} => epc[x] \in {"ttl", "set"}
    BY <1>4 DEF ComputeTtl, TypeOK
  <2> QED BY <1>1, <1>4, <2>1, <2>2 DEF ComputeTtl, ListInv, Unswept
<1>5. ASSUME NEW e \in Evaluations, SetCache(e) PROVE ListInv'
  <2>1. /\ cache'.list = fill[e].list /\ cache'.aged = fill[e].aged
        /\ cache'.missed = fill[e].missed /\ cache'.overtaken = fill[e].missed
    BY <1>5 DEF SetCache, Entry
  <2>2. \A x \in Evaluations :
          epc'[x] \in {"ttl", "set"} => epc[x] = epc'[x] /\ fill'[x] = fill[x]
    BY <1>5 DEF SetCache, TypeOK
  <2> QED BY <1>1, <1>5, <2>1, <2>2 DEF SetCache, ListInv
<1>6. ASSUME NEW w \in Writers, SaveDiscount(w) \/ SaveEntity(w) PROVE ListInv'
  <2>1. OthersMiss(w) /\ UNCHANGED epc /\ wpc' = [wpc EXCEPT ![w] = "del"]
    BY <1>6 DEF SaveDiscount, SaveEntity
  <2>2. Unswept(w)' /\ \A x \in Writers : Unswept(x) => Unswept(x)'
    BY <2>1 DEF Unswept, TypeOK
  <2>3. cache # NoList => cache.missed \subseteq Writers
    BY DEF TypeOK, Entries
  <2>4. ASSUME cache' # NoList, NEW x \in cache'.missed
        PROVE  x \in cache'.overtaken \/ Unswept(x)'
    BY <2>1, <2>2, <2>3, <2>4, WriteIsMissed DEF ListInv
  <2>5. ASSUME cache' # NoList PROVE cache'.missed # {}
    BY <2>1, <2>5, WriteIsMissed
  <2>6. ASSUME NEW x \in Evaluations, epc'[x] \in {"ttl", "set"} PROVE fill'[x].missed # {}
    BY <2>1, <2>6, WriteIsMissed
  <2> QED BY <2>4, <2>5, <2>6 DEF ListInv
<1>7. ASSUME NEW w \in Writers, ReadEntity(w) \/ AtomicIncrementUsage(w) PROVE ListInv'
  <2>1. wpc[w] = "idle" /\ UNCHANGED <<active, opens, closes, cache, epc, fill>>
    BY <1>7 DEF ReadEntity, AtomicIncrementUsage
  <2>2. \A x \in Writers : x # w => wpc'[x] = wpc[x]
    BY <1>7 DEF ReadEntity, AtomicIncrementUsage, TypeOK
  <2>3. cache # NoList => cache.missed \subseteq Writers
    BY DEF TypeOK, Entries
  <2> QED BY <1>1, <2>1, <2>2, <2>3 DEF ListInv, Unswept
<1>8. ASSUME NEW w \in Writers, DeleteKey(w) PROVE ListInv'
  BY <1>1, <1>8 DEF DeleteKey, ListInv
<1>9. ASSUME NEW w \in Writers, DeleteFails(w) PROVE ListInv'
  <2>1. \A x \in Writers : Unswept(x) => Unswept(x)'
    BY <1>9 DEF DeleteFails, Unswept, TypeOK
  <2>2. cache # NoList => cache.missed \subseteq Writers
    BY DEF TypeOK, Entries
  <2> QED BY <1>1, <1>9, <2>1, <2>2 DEF DeleteFails, ListInv
<1>10. CASE Tick
  <2>1. UNCHANGED <<epc, wpc>>
    BY <1>10 DEF Tick
  <2> QED BY <1>10, <2>1, TimeIsNoted DEF ListInv, Unswept
<1>11. CASE UNCHANGED vars
  BY <1>1, <1>11 DEF vars, ListInv, Unswept
<1> QED BY <1>2, <1>3, <1>4, <1>5, <1>6, <1>7, <1>8, <1>9, <1>10, <1>11
        DEF Next, EvaluationStep, WriterStep

LEMMA StoredKept == IInv /\ [Next]_vars => StoredInv'
<1> SUFFICES ASSUME TypeOK, StoredInv, [Next]_vars PROVE StoredInv'
  BY DEF IInv
<1> USE DEF store, readers, writers, Goes
<1>1. ASSUME NEW e \in Evaluations, CacheMiss(e) \/ EvaluationFails(e) PROVE StoredInv'
  BY <1>1 DEF CacheMiss, EvaluationFails, StoredInv, TypeOK, EmptyFill
<1>2. ASSUME NEW e \in Evaluations, FindAllActiveAutomatic(e) PROVE StoredInv'
  <2>1. fill'[e].list = Offered /\ Offered \subseteq stored
    BY <1>2 DEF FindAllActiveAutomatic, TypeOK, EmptyFill, Offered
  <2> QED BY <1>2, <2>1 DEF FindAllActiveAutomatic, StoredInv, TypeOK
<1>3. ASSUME NEW e \in Evaluations, ComputeTtl(e) PROVE StoredInv'
  <2>1. \A x \in Evaluations : fill'[x].list = fill[x].list
    BY <1>3 DEF ComputeTtl, TypeOK, Fills
  <2> QED BY <1>3, <2>1 DEF ComputeTtl, StoredInv
<1>4. ASSUME NEW e \in Evaluations, SetCache(e) PROVE StoredInv'
  <2>1. cache'.list = fill[e].list
    BY <1>4 DEF SetCache, Entry
  <2>2. \A x \in Evaluations : fill'[x].list \subseteq fill[x].list
    BY <1>4 DEF SetCache, TypeOK, EmptyFill
  <2> QED BY <1>4, <2>1, <2>2 DEF SetCache, StoredInv
<1>5. ASSUME NEW w \in Writers, SaveDiscount(w) \/ SaveEntity(w) PROVE StoredInv'
  <2>1. OthersMiss(w) /\ stored \subseteq stored'
    BY <1>5 DEF SaveDiscount, SaveEntity
  <2> QED BY <2>1, WriteIsMissed DEF StoredInv
<1>6. ASSUME NEW w \in Writers,
             ReadEntity(w) \/ AtomicIncrementUsage(w) \/ DeleteKey(w) \/ DeleteFails(w)
      PROVE  StoredInv'
  BY <1>6 DEF ReadEntity, AtomicIncrementUsage, DeleteKey, DeleteFails, StoredInv
<1>7. CASE Tick
  <2>1. UNCHANGED stored
    BY <1>7 DEF Tick
  <2> QED BY <1>7, <2>1, TimeIsNoted DEF StoredInv
<1>8. CASE UNCHANGED vars
  BY <1>8 DEF vars, StoredInv
<1> QED BY <1>1, <1>2, <1>3, <1>4, <1>5, <1>6, <1>7, <1>8
        DEF Next, EvaluationStep, WriterStep

-----------------------------------------------------------------------------
\* Time.

LEMMA TimeKept == IInv /\ [Next]_vars => TimeInv'
<1> SUFFICES ASSUME TypeOK, StoredInv, TimeInv, [Next]_vars PROVE TimeInv'
  BY DEF IInv
<1> USE DiscountCacheAssumption DEF store, readers, writers, Goes
<1>1. ASSUME NEW e \in Evaluations,
             CacheMiss(e) \/ FindAllActiveAutomatic(e) \/ EvaluationFails(e)
      PROVE  TimeInv'
  <2>1. \A x \in Evaluations : epc'[x] = "set" => epc[x] = "set" /\ fill'[x] = fill[x]
    BY <1>1 DEF CacheMiss, FindAllActiveAutomatic, EvaluationFails, TypeOK
  <2>2. UNCHANGED <<cache, closes>>
    BY <1>1 DEF CacheMiss, FindAllActiveAutomatic, EvaluationFails
  <2> QED BY <2>1, <2>2 DEF TimeInv
<1>2. ASSUME NEW e \in Evaluations, ComputeTtl(e) PROVE TimeInv'
  <2>1. fill[e] \in Fills /\ fill[e].list \in SUBSET Discounts
    BY DEF TypeOK, Fills
  <2>2. fill'[e].list = fill[e].list /\ fill'[e].ttl = Ttl(fill[e].list)
    BY <1>2, <2>1 DEF ComputeTtl, TypeOK, Fills
  <2>3. /\ Ttl(fill[e].list) \in MinTtl .. MaxTtl
        /\ \A d \in fill[e].list : Ttl(fill[e].list) <= MinTtl \/ Ttl(fill[e].list) <= closes[d]
    BY <2>1, TtlFits DEF TypeOK
  <2>4. fill'[e].ttl \in 1 .. MaxTtl
    BY <2>2, <2>3
  <2>5. UNCHANGED <<cache, closes>>
    BY <1>2 DEF ComputeTtl
  <2>6. \A x \in Evaluations \ {e} : epc'[x] = epc[x] /\ fill'[x] = fill[x]
    BY <1>2 DEF ComputeTtl, TypeOK
  <2> QED BY <2>2, <2>3, <2>4, <2>5, <2>6 DEF TimeInv
<1>3. ASSUME NEW e \in Evaluations, SetCache(e) PROVE TimeInv'
  <2>1. /\ cache'.list = fill[e].list /\ cache'.ttl = fill[e].ttl /\ cache'.age = 0
        /\ cache'.late = fill[e].late
    BY <1>3 DEF SetCache, Entry
  <2>2. \A x \in Evaluations : epc'[x] = "set" => epc[x] = "set" /\ fill'[x] = fill[x]
    BY <1>3 DEF SetCache, TypeOK
  <2>3. epc[e] = "set" /\ UNCHANGED closes
    BY <1>3 DEF SetCache
  <2>4. fill[e].ttl \in 1 .. MaxTtl
    BY <2>3 DEF TimeInv
  <2>5. 0 + fill[e].ttl = fill[e].ttl
    BY <2>4
  <2> QED BY <2>1, <2>2, <2>3, <2>5 DEF TimeInv
<1>4. ASSUME NEW w \in Writers, SaveDiscount(w) \/ SaveEntity(w) PROVE TimeInv'
  <2>1. OthersMiss(w) /\ UNCHANGED epc
    BY <1>4 DEF SaveDiscount, SaveEntity
  <2>2. \A d \in stored : closes'[d] = closes[d]
    BY <1>4 DEF SaveDiscount, SaveEntity, TypeOK
  <2> QED BY <2>1, <2>2, WriteIsMissed DEF TimeInv, StoredInv
<1>5. ASSUME NEW w \in Writers,
             ReadEntity(w) \/ AtomicIncrementUsage(w) \/ DeleteKey(w) \/ DeleteFails(w)
      PROVE  TimeInv'
  BY <1>5 DEF ReadEntity, AtomicIncrementUsage, DeleteKey, DeleteFails, TimeInv
<1>6. CASE Tick
  <2>1. UNCHANGED epc
    BY <1>6 DEF Tick
  <2>2. ASSUME cache' # NoList, ~cache'.late, NEW d \in cache'.list
        PROVE  cache'.age + cache'.ttl <= MinTtl \/ cache'.ttl <= closes'[d]
    <3>1. cache # NoList /\ ~cache.late /\ d \in cache.list /\ d \in stored
      BY <1>6, <2>2, TimeIsNoted DEF StoredInv
    <3>2. cache.ttl \in 2 .. MaxTtl /\ cache.age \in Nat
      BY <1>6, <2>2, <3>1, TimeIsNoted DEF TypeOK, Entries
    <3>3. cache'.ttl = cache.ttl - 1 /\ cache'.age = cache.age + 1
      BY <1>6, <2>2, TimeIsNoted
    <3>4. closes[d] \in -1 .. Far /\ closes'[d] = Earlier(closes[d])
      BY <1>6, <3>1 DEF Tick, TypeOK
    <3>5. cache.age + cache.ttl <= MinTtl \/ cache.ttl <= closes[d]
      BY <3>1 DEF TimeInv
    <3> QED BY <3>2, <3>3, <3>4, <3>5 DEF Earlier
  <2> QED BY <1>6, <2>1, <2>2, TimeIsNoted DEF TimeInv
<1>7. CASE UNCHANGED vars
  BY <1>7 DEF vars, TimeInv
<1> QED BY <1>1, <1>2, <1>3, <1>4, <1>5, <1>6, <1>7 DEF Next, EvaluationStep, WriterStep

-----------------------------------------------------------------------------
\* What holds.

LEMMA Inductive == IInv /\ [Next]_vars => IInv'
BY TypeKept, ListKept, StoredKept, TimeKept, CallKept DEF IInv

LEMMA Always == Spec => []IInv
BY InitHolds, Inductive, PTL DEF Spec

\* Types are kept; in particular every ttl that reaches Redis is positive and at
\* most MaxTtl, however long ago a discount of the list has ended
\* (fetchCachedAutomatic).
THEOREM TypeCorrect == Spec => []TypeOK
BY Always, PTL DEF IInv

\* Without a reason the cache is not wrong: any number of evaluations fill it
\* while any number of writers delete it (fetchCachedAutomatic, DeleteKey).
THEOREM StaleLists == Spec => []StaleForAReason
<1>1. IInv => StaleForAReason
  BY DEF IInv, ListInv, StaleForAReason
<1> QED BY <1>1, Always, PTL

\* A list in time leaves the cache with its first discount, for all limits of
\* the time to live (fetchCachedAutomatic).
THEOREM EndedDiscounts == Spec => []EndedDiscountsLeave
<1>1. IInv => EndedDiscountsLeave
  <2> SUFFICES ASSUME IInv, cache # NoList, ~cache.late, NEW d \in cache.list, closes[d] = -1
               PROVE  cache.age < MinTtl
    BY DEF EndedDiscountsLeave
  <2>1. cache.ttl \in 1 .. MaxTtl /\ cache.age \in Nat
    BY DEF IInv, TypeOK, Entries
  <2>2. cache.age + cache.ttl <= MinTtl \/ cache.ttl <= -1
    BY DEF IInv, TimeInv
  <2> QED BY <2>1, <2>2, DiscountCacheAssumption
<1> QED BY <1>1, Always, PTL

-----------------------------------------------------------------------------
\* Usage.

LEMMA UsageStarts == Init => UsageIsCounted
<1> SUFFICES ASSUME Init, NEW d \in Discounts
             PROVE  /\ used[d] = Cardinality(Redeemed(d))
                    /\ UsageLimit[d] # NoLimit => used[d] <= UsageLimit[d]
  BY DEF UsageIsCounted
<1>1. Redeemed(d) = {}
  BY DEF Init, Redeemed, NoCall
<1>2. Cardinality({}) = 0
  BY FS_EmptySet
<1> QED BY <1>1, <1>2, DiscountCacheAssumption DEF Init

LEMMA UsageKept == IInv /\ UsageIsCounted /\ [Next]_vars => UsageIsCounted'
<1> SUFFICES ASSUME TypeOK, CallInv, UsageIsCounted, [Next]_vars PROVE UsageIsCounted'
  BY DEF IInv
<1> USE DEF store, readers, writers, Goes
<1>1. ASSUME UNCHANGED used, \A d \in Discounts : Redeemed(d)' = Redeemed(d)
      PROVE  UsageIsCounted'
  BY <1>1 DEF UsageIsCounted
<1>2. CASE UNCHANGED <<used, wpc, call>>
  BY <1>1, <1>2 DEF Redeemed
<1>3. ASSUME NEW w \in Writers, SaveDiscount(w) \/ ReadEntity(w) PROVE UsageIsCounted'
  <2>1. wpc[w] = "idle" /\ call[w] = NoCall /\ UNCHANGED used
    BY <1>3 DEF SaveDiscount, ReadEntity, CallInv
  <2>2. call'[w].kind # "redeem"
    BY <1>3 DEF SaveDiscount, ReadEntity, TypeOK
  <2>3. \A x \in Writers \ {w} : call'[x] = call[x] /\ wpc'[x] = wpc[x]
    BY <1>3 DEF SaveDiscount, ReadEntity, TypeOK
  <2>4. \A d \in Discounts : Redeemed(d)' = Redeemed(d)
    BY <2>1, <2>2, <2>3 DEF Redeemed, NoCall
  <2> QED BY <1>1, <2>1, <2>4
<1>4. ASSUME NEW w \in Writers, SaveEntity(w) \/ DeleteKey(w) \/ DeleteFails(w)
      PROVE  UsageIsCounted'
  <2>1. UNCHANGED <<used, call>> /\ wpc[w] \in {"write", "del"}
    BY <1>4 DEF SaveEntity, WriteEntity, UsageUnmarked, DeleteKey, DeleteFails
  <2>2. \A x \in Writers : wpc'[x] = "refused" <=> wpc[x] = "refused"
    BY <1>4 DEF SaveEntity, DeleteKey, DeleteFails, TypeOK
  <2>3. \A d \in Discounts : Redeemed(d)' = Redeemed(d)
    BY <2>1, <2>2 DEF Redeemed
  <2> QED BY <1>1, <2>1, <2>3
<1>5. ASSUME NEW w \in Writers, AtomicIncrementUsage(w) PROVE UsageIsCounted'
  <2>1. PICK d \in Discounts :
          /\ call' = [call EXCEPT ![w] = [kind |-> "redeem", id |-> d]]
          /\ \/ /\ d \in stored /\ MayIncrement(d)
                /\ used' = [used EXCEPT ![d] = @ + 1]
                /\ \E label \in {"del", "answered"} : wpc' = [wpc EXCEPT ![w] = label]
             \/ wpc' = [wpc EXCEPT ![w] = "refused"] /\ UNCHANGED used
    BY <1>5 DEF AtomicIncrementUsage
  <2>2. wpc[w] = "idle" /\ call[w] = NoCall
    BY <1>5 DEF AtomicIncrementUsage, CallInv
  <2>3. \A x \in Writers \ {w} : call'[x] = call[x] /\ wpc'[x] = wpc[x]
    BY <2>1 DEF TypeOK
  <2>4. call'[w] = [kind |-> "redeem", id |-> d]
    BY <2>1 DEF TypeOK
  <2>5. \A x \in Discounts : w \notin Redeemed(x)
    BY <2>2 DEF Redeemed, NoCall
  <2>6. CASE wpc' = [wpc EXCEPT ![w] = "refused"] /\ UNCHANGED used
    <3>1. wpc'[w] = "refused"
      BY <2>6 DEF TypeOK
    <3>2. \A x \in Discounts : Redeemed(x)' = Redeemed(x)
      BY <2>3, <2>5, <3>1 DEF Redeemed
    <3> QED BY <1>1, <2>6, <3>2
  <2>7. CASE /\ d \in stored /\ MayIncrement(d)
             /\ used' = [used EXCEPT ![d] = @ + 1]
             /\ \E label \in {"del", "answered"} : wpc' = [wpc EXCEPT ![w] = label]
    <3>1. wpc'[w] # "refused"
      BY <2>7 DEF TypeOK
    <3>2. Redeemed(d)' = Redeemed(d) \cup {w}
      BY <2>3, <2>4, <3>1 DEF Redeemed
    <3>3. \A x \in Discounts \ {d} : Redeemed(x)' = Redeemed(x) /\ used'[x] = used[x]
      BY <2>3, <2>4, <2>5, <2>7 DEF Redeemed, TypeOK
    <3>4. used'[d] = used[d] + 1 /\ used[d] \in Nat
      BY <2>7 DEF TypeOK
    <3>5. Cardinality(Redeemed(d)') = Cardinality(Redeemed(d)) + 1
      <4>1. Redeemed(d) \in SUBSET Writers
        BY DEF Redeemed
      <4>2. IsFiniteSet(Redeemed(d))
        BY <4>1, FS_Subset, DiscountCacheAssumption
      <4> QED BY <2>5, <3>2, <4>2, FS_AddElement
    <3>6. UsageLimit[d] # NoLimit => used'[d] <= UsageLimit[d]
      BY <2>7, <3>4, DiscountCacheAssumption DEF MayIncrement
    <3>7. /\ used'[d] = Cardinality(Redeemed(d)')
          /\ UsageLimit[d] # NoLimit => used'[d] <= UsageLimit[d]
      BY <3>4, <3>5, <3>6 DEF UsageIsCounted
    <3> QED BY <3>3, <3>7 DEF UsageIsCounted
  <2> QED BY <2>1, <2>6, <2>7
<1>6. ASSUME NEW e \in Evaluations,
             CacheMiss(e) \/ EvaluationStep(e) \/ EvaluationFails(e)
      PROVE  UNCHANGED <<used, wpc, call>>
  BY <1>6 DEF CacheMiss, EvaluationStep, FindAllActiveAutomatic, ComputeTtl, SetCache,
              EvaluationFails
<1>7. CASE Tick \/ UNCHANGED vars
  BY <1>2, <1>7 DEF Tick, vars
<1> QED BY <1>2, <1>3, <1>4, <1>5, <1>6, <1>7 DEF Next, WriterStep

\* The count is exact and the limit holds whatever the order in which any
\* number of redemptions, activations and deactivations run
\* (atomicIncrementUsage, toUpdateObject).
THEOREM UsageExact == Spec => []UsageIsCounted
BY UsageStarts, UsageKept, Always, PTL DEF Spec

=============================================================================
