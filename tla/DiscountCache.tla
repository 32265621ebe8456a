---------------------------- MODULE DiscountCache ----------------------------
(***************************************************************************)
(* The list of active automatic discounts that DiscountEngine keeps in     *)
(* Redis, against everybody who changes the discounts: requests that fill  *)
(* the cache, writers that save and then delete the key, time that ends    *)
(* windows and time to live.  Every database and Redis round trip is a     *)
(* step.  Time passes in ticks.  Discounts with a code never enter the     *)
(* list and are left out, as are the coupons that lead to them.            *)
(***************************************************************************)
EXTENDS Integers, FiniteSets, FiniteSetsExt

CONSTANTS
  Discounts,     \* ids that the id generator may give
  UsageLimit,    \* UsageLimit[d]: usageLimit of d, NoLimit for none
  NoLimit,
  Existing,      \* the discounts there are before anything happens
  Windows,       \* windows [opens, closes] a discount may be created with,
                 \* in ticks from then
  Far,           \* an end that is further away than any time to live
  Evaluations,   \* requests that evaluate discounts, again and again
  Writers,       \* requests that change discounts, one call each
  MinTtl,        \* 60 seconds in ticks
  MaxTtl,        \* 3600 seconds in ticks
  NoList         \* no such key

ASSUME DiscountCacheAssumption ==
  /\ UsageLimit \in [Discounts -> Nat \cup {NoLimit}]
  /\ NoLimit \notin Nat
  /\ Discounts # {} /\ Existing \subseteq Discounts
  /\ MinTtl \in Nat \ {0} /\ MaxTtl \in Nat /\ MinTtl <= MaxTtl
  /\ Far \in Nat /\ MaxTtl <= Far
  /\ Windows \subseteq [opens : Nat, closes : 0 .. Far]
  /\ IsFiniteSet(Writers) /\ IsFiniteSet(Discounts)

VARIABLES
  \* the discounts collection
  stored,      \* ids in the collection
  active,      \* those with active set
  used,        \* usageCount
  opens,       \* ticks to the start of the window, 0 once it has begun
  closes,      \* ticks to its end, -1 once it is over
  \* the cache
  cache,       \* the entry under the key, with what its list has missed
  \* the requests
  epc, fill,   \* where an evaluation is, and the list it is about to cache
  wpc, call,   \* where a writer is, and what it does
  entity       \* usageCount of the entity a writer has read, 0 for none

store == <<stored, active, used, opens, closes>>
readers == <<epc, fill>>
writers == <<wpc, call, entity>>
vars == <<store, cache, readers, writers>>

Calls == [kind : {"create", "activate", "deactivate", "redeem", "none"}, id : Discounts]

NoCall == [kind |-> "none", id |-> CHOOSE d \in Discounts : TRUE]

\* aged: has a tick passed since the list was read?  late: since its ttl was
\* computed, before it was set?  missed: writers that have written since it was
\* read; overtaken: those of them that did before it was set.
Fills == [list : SUBSET Discounts, ttl : 0 .. MaxTtl, aged : BOOLEAN, late : BOOLEAN,
          missed : SUBSET Writers]

Entries == [list : SUBSET Discounts, ttl : 1 .. MaxTtl, age : Nat, aged : BOOLEAN,
            late : BOOLEAN, missed : SUBSET Writers, overtaken : SUBSET Writers]

EmptyFill == [list |-> {}, ttl |-> 0, aged |-> FALSE, late |-> FALSE, missed |-> {}]

TypeOK ==
  /\ stored \subseteq Discounts
  /\ active \subseteq stored
  /\ used \in [Discounts -> Nat]
  /\ opens \in [Discounts -> Nat]
  /\ closes \in [Discounts -> -1 .. Far]
  /\ cache \in Entries \cup {NoList}
  /\ epc \in [Evaluations -> {"idle", "find", "ttl", "set"}]
  /\ fill \in [Evaluations -> Fills]
  /\ wpc \in [Writers -> {"idle", "write", "del", "answered", "refused", "failed"}]
  /\ call \in [Writers -> Calls]
  /\ entity \in [Writers -> Nat]

Init ==
  /\ stored = Existing
  /\ active = Existing
  /\ used = [d \in Discounts |-> 0]
  /\ \E window \in [Existing -> Windows] :
       /\ opens = [d \in Discounts |-> IF d \in Existing THEN window[d].opens ELSE 0]
       /\ closes = [d \in Discounts |-> IF d \in Existing THEN window[d].closes ELSE 0]
  /\ cache = NoList
  /\ epc = [e \in Evaluations |-> "idle"]
  /\ fill = [e \in Evaluations |-> EmptyFill]
  /\ wpc = [w \in Writers |-> "idle"]
  /\ call = [w \in Writers |-> NoCall]
  /\ entity = [w \in Writers |-> 0]

-----------------------------------------------------------------------------
\* An evaluation.  One that finds a list in the cache changes nothing.

\* The filter of findAllActiveAutomatic.  It does not ask for usageCount.
Offered == {d \in active : opens[d] = 0 /\ closes[d] >= 0}

CacheMiss(e) ==
  /\ epc[e] = "idle"
  /\ cache = NoList
  /\ epc' = [epc EXCEPT ![e] = "find"]
  /\ UNCHANGED <<store, cache, fill, writers>>

FindAllActiveAutomatic(e) ==
  /\ epc[e] = "find"
  /\ epc' = [epc EXCEPT ![e] = "ttl"]
  /\ fill' = [fill EXCEPT ![e] = [EmptyFill EXCEPT !.list = Offered]]
  /\ UNCHANGED <<store, cache, writers>>

\* Mutant: the list lives until the last of its discounts ends.
TtlOfLast(list) ==
  IF list = {} THEN MinTtl ELSE Min({MaxTtl, Max({MinTtl, Max({closes[d] : d \in list})})})

\* Mutant: the time to live may be nothing, or less.
TtlUnclamped(list) ==
  IF list = {} THEN MinTtl ELSE Min({MaxTtl, Min({closes[d] : d \in list})})

\* Until the first end of a discount of the list, within its limits.
Ttl(list) ==
  IF list = {} THEN MinTtl ELSE Min({MaxTtl, Max({MinTtl, Min({closes[d] : d \in list})})})

ComputeTtl(e) ==
  /\ epc[e] = "ttl"
  /\ epc' = [epc EXCEPT ![e] = "set"]
  /\ fill' = [fill EXCEPT ![e].ttl = Ttl(fill[e].list)]
  /\ UNCHANGED <<store, cache, writers>>

Entry(f) ==
  [list |-> f.list, ttl |-> f.ttl, age |-> 0, aged |-> f.aged, late |-> f.late,
   missed |-> f.missed, overtaken |-> f.missed]

SetCache(e) ==
  /\ epc[e] = "set"
  /\ epc' = [epc EXCEPT ![e] = "idle"]
  /\ cache' = Entry(fill[e])
  /\ fill' = [fill EXCEPT ![e] = EmptyFill]
  /\ UNCHANGED <<store, writers>>

\* The process crashes, or the database or Redis answers with an error.
EvaluationFails(e) ==
  /\ epc[e] # "idle"
  /\ epc' = [epc EXCEPT ![e] = "idle"]
  /\ fill' = [fill EXCEPT ![e] = EmptyFill]
  /\ UNCHANGED <<store, cache, writers>>

-----------------------------------------------------------------------------
\* A writer.

\* Lists that were read before are behind the write of w.
OthersMiss(w) ==
  /\ cache' = IF cache = NoList THEN NoList ELSE [cache EXCEPT !.missed = @ \cup {w}]
  /\ fill' = [e \in Evaluations |->
       IF epc[e] \in {"ttl", "set"} THEN [fill[e] EXCEPT !.missed = @ \cup {w}] ELSE fill[e]]

Goes(w, label) == wpc' = [wpc EXCEPT ![w] = label]

\* saveDiscount, saveBulkDiscounts: insert under an id of its own.
SaveDiscount(w) ==
  /\ wpc[w] = "idle"
  /\ Goes(w, "del")
  /\ \E d \in Discounts \ stored, a \in BOOLEAN, window \in Windows :
       /\ call' = [call EXCEPT ![w] = [kind |-> "create", id |-> d]]
       /\ stored' = stored \cup {d}
       /\ active' = IF a THEN active \cup {d} ELSE active
       /\ opens' = [opens EXCEPT ![d] = window.opens]
       /\ closes' = [closes EXCEPT ![d] = window.closes]
  /\ OthersMiss(w)
  /\ UNCHANGED <<used, epc, entity>>

\* activate and deactivate: read the entity and change the copy, or not found.
ReadEntity(w) ==
  /\ wpc[w] = "idle"
  /\ \E d \in Discounts, kind \in {"activate", "deactivate"} :
       /\ call' = [call EXCEPT ![w] = [kind |-> kind, id |-> d]]
       /\ Goes(w, IF d \in stored THEN "write" ELSE "refused")
       /\ entity' = [entity EXCEPT ![w] = used[d]]
  /\ UNCHANGED <<store, cache, readers>>

\* Mutant: all fields of the entity are written, not only the changed ones.
UsageOfEntity(w) == used' = [used EXCEPT ![call[w].id] = entity[w]]

\* toUpdateObject has only the fields that were marked: active.
UsageUnmarked(w) == UNCHANGED used

WriteEntity(w) ==
  /\ active' = IF call[w].kind = "activate"
               THEN active \cup {call[w].id} ELSE active \ {call[w].id}
  /\ UsageUnmarked(w)
  /\ entity' = [entity EXCEPT ![w] = 0]

SaveEntity(w) ==
  /\ wpc[w] = "write"
  /\ WriteEntity(w)
  /\ OthersMiss(w)
  /\ Goes(w, "del")
  /\ UNCHANGED <<stored, opens, closes, epc, call>>

\* Mutant: the limit is checked on nothing.
IncrementAlways(d) == TRUE

\* The condition of the update in atomicIncrementUsage.
MayIncrement(d) == UsageLimit[d] = NoLimit \/ used[d] < UsageLimit[d]

\* Only the increment that reaches the limit deletes the key.
AtomicIncrementUsage(w) ==
  /\ wpc[w] = "idle"
  /\ \E d \in Discounts :
       /\ call' = [call EXCEPT ![w] = [kind |-> "redeem", id |-> d]]
       /\ IF d \in stored /\ MayIncrement(d)
          THEN /\ used' = [used EXCEPT ![d] = @ + 1]
               /\ Goes(w, IF UsageLimit[d] # NoLimit /\ used[d] + 1 >= UsageLimit[d]
                          THEN "del" ELSE "answered")
          ELSE /\ Goes(w, "refused")
               /\ UNCHANGED used
  /\ UNCHANGED <<stored, active, opens, closes, cache, readers, entity>>

\* Mutant: a service that does not delete the key.
KeepKey(w) ==
  /\ wpc[w] = "del"
  /\ Goes(w, "answered")
  /\ UNCHANGED <<store, cache, readers, call, entity>>

DeleteKey(w) ==
  /\ wpc[w] = "del"
  /\ cache' = NoList
  /\ Goes(w, "answered")
  /\ UNCHANGED <<store, readers, call, entity>>

\* The process crashes before the delete, or Redis answers it with an error.
DeleteFails(w) ==
  /\ wpc[w] = "del"
  /\ Goes(w, "failed")
  /\ UNCHANGED <<store, cache, readers, call, entity>>

-----------------------------------------------------------------------------
\* Time.

Earlier(ticks) == IF ticks = Far \/ ticks = -1 THEN ticks ELSE ticks - 1

\* Mutant: the key is set without a time to live.
NeverExpires(entry) == [entry EXCEPT !.age = Min({@ + 1, MaxTtl}), !.aged = TRUE]

Expiring(entry) ==
  IF entry.ttl = 1 THEN NoList
  ELSE [entry EXCEPT !.ttl = @ - 1, !.age = @ + 1, !.aged = TRUE]

Tick ==
  /\ opens' = [d \in Discounts |-> IF opens[d] = 0 THEN 0 ELSE opens[d] - 1]
  /\ closes' = [d \in Discounts |-> IF d \in stored THEN Earlier(closes[d]) ELSE closes[d]]
  /\ cache' = IF cache = NoList THEN NoList ELSE Expiring(cache)
  /\ fill' = [e \in Evaluations |->
       [fill[e] EXCEPT !.aged = @ \/ epc[e] \in {"ttl", "set"}, !.late = @ \/ epc[e] = "set"]]
  /\ UNCHANGED <<stored, active, used, epc, writers>>

EvaluationStep(e) == FindAllActiveAutomatic(e) \/ ComputeTtl(e) \/ SetCache(e)

WriterStep(w) == SaveEntity(w) \/ DeleteKey(w)

Next ==
  \/ \E e \in Evaluations : CacheMiss(e) \/ EvaluationStep(e) \/ EvaluationFails(e)
  \/ \E w \in Writers :
       \/ SaveDiscount(w) \/ ReadEntity(w) \/ AtomicIncrementUsage(w)
       \/ WriterStep(w) \/ DeleteFails(w)
  \/ Tick

Spec == Init /\ [][Next]_vars

\* Node runs the continuation of every await and time passes.  Nobody has to
\* send a request.
FairSpec ==
  /\ Spec
  /\ \A e \in Evaluations : WF_vars(EvaluationStep(e))
  /\ \A w \in Writers : WF_vars(WriterStep(w))
  /\ WF_vars(Tick)

-----------------------------------------------------------------------------
\* Properties.

\* Has the delete that belongs to the write of w not happened?
Unswept(w) == wpc[w] \in {"del", "failed"}

\* A cached list that is not what the database offers has a reason: time has
\* passed, a writer has not deleted the key yet or could not, or the list was
\* read before a write and set after it (fetchCachedAutomatic against save,
\* saveDiscount).
StaleForAReason ==
  cache # NoList /\ cache.list # Offered =>
    cache.aged \/ \E w \in cache.missed : Unswept(w) \/ w \in cache.overtaken

\* A list outlives the end of one of its discounts only in its first MinTtl
\* ticks, or when time passed between Math.floor and the set
\* (fetchCachedAutomatic).
EndedDiscountsLeave ==
  cache # NoList /\ (\E d \in cache.list : closes[d] = -1) => cache.age < MinTtl \/ cache.late

Redeemed(d) == {w \in Writers : call[w] = [kind |-> "redeem", id |-> d] /\ wpc[w] # "refused"}

\* usageCount is the number of redemptions that were granted, at most the
\* limit, although activate and deactivate read and write the document around
\* them (atomicIncrementUsage, toUpdateObject).
UsageIsCounted ==
  \A d \in Discounts :
    /\ used[d] = Cardinality(Redeemed(d))
    /\ UsageLimit[d] # NoLimit => used[d] <= UsageLimit[d]

\* When nothing is written or read any more, or only the same again and again,
\* the cache comes to hold nothing but what the database offers: no race and no
\* failed delete leaves a list behind for good (the EX of RedisCache.set).
CacheCatchesUp == <>[](cache = NoList \/ cache.list = Offered)

=============================================================================
