----------------------------- MODULE CartProofs -----------------------------
(***************************************************************************)
(* Theorems about Cart, for any number of owners, requests and lines.      *)
(***************************************************************************)
EXTENDS CartRefinement, CartArray, FiniteFolds

-----------------------------------------------------------------------------
\* The items of a cart.

\* The lines of a cart are finitely many.
LEMMA InCartFinite ==
  ASSUME NEW items \in Items
  PROVE  IsFiniteSet(InCart(items))
<1>1. InCart(items) \subseteq Lines
  BY DEF InCart
<1> QED BY <1>1, FS_Subset, CartItemsAssumption

\* One more line: the count grows by one at most.
LEMMA OneLineMore ==
  ASSUME NEW items \in Items, NEW new \in Items, NEW l \in Lines,
         InCart(new) \subseteq InCart(items) \cup {l}
  PROVE  /\ Cardinality(InCart(new)) <= Cardinality(InCart(items)) + 1
         /\ items[l] > 0 => Cardinality(InCart(new)) <= Cardinality(InCart(items))
<1>1. /\ IsFiniteSet(InCart(items))
      /\ IsFiniteSet(InCart(items) \cup {l})
  BY InCartFinite, FS_AddElement
<1>2. Cardinality(InCart(items) \cup {l}) <= Cardinality(InCart(items)) + 1
  BY <1>1, FS_AddElement, FS_CardinalityType
<1>3. /\ Cardinality(InCart(new)) <= Cardinality(InCart(items) \cup {l})
      /\ Cardinality(InCart(new)) \in Nat
      /\ Cardinality(InCart(items)) \in Nat
      /\ Cardinality(InCart(items) \cup {l}) \in Nat
  BY <1>1, FS_Subset, FS_CardinalityType, InCartFinite
<1>4. ASSUME items[l] > 0
      PROVE  Cardinality(InCart(new)) <= Cardinality(InCart(items))
  <2>1. InCart(new) \subseteq InCart(items)
    BY <1>4 DEF InCart
  <2> QED BY <2>1, <1>1, FS_Subset
<1>5. Cardinality(InCart(new)) <= Cardinality(InCart(items)) + 1
  BY <1>2, <1>3
<1> QED BY <1>4, <1>5

\* What a call leaves behind is again the contents of a cart, within the
\* limit when the cart it acts on is, and the entity accepted the call.
LEMMA EffectsFit ==
  ASSUME NEW c \in CallRecords, NEW items \in Items, NEW incoming \in Items,
         NEW available \in Nat,
         Accepts(c, items, available),
         Cardinality(InCart(items)) <= MaxCartItems,
         NEW new \in Effects(c, items, incoming)
  PROVE  new \in Items /\ Cardinality(InCart(new)) <= MaxCartItems
<1> USE CartItemsAssumption
<1>0. c.kind \in Kinds /\ c.line \in Lines /\ c.qty \in Nat \ {0}
  BY DEF CallRecords
<1>1. Cardinality(InCart(items)) \in Nat
  BY InCartFinite, FS_CardinalityType
<1>2. CASE c.kind = "add"
  <2>1. new = [items EXCEPT ![c.line] = @ + c.qty]
    BY <1>2 DEF Effects, AddItem
  <2>2. new \in Items /\ InCart(new) \subseteq InCart(items) \cup {c.line}
    BY <2>1, <1>0 DEF Items, InCart
  <2>3. CanAdd(items, c.line)
    BY <1>2 DEF Accepts
  <2>4. Cardinality(InCart(new)) \in Nat
    BY <2>2, InCartFinite, FS_CardinalityType
  <2> QED BY <1>0, <1>1, <2>2, <2>3, <2>4, OneLineMore DEF CanAdd, HasRoom
<1>3. CASE c.kind = "set"
  <2>1. new = [items EXCEPT ![c.line] = c.qty]
    BY <1>3 DEF Effects, UpdateQuantity
  <2>2. new \in Items /\ InCart(new) \subseteq InCart(items) \cup {c.line}
    BY <2>1, <1>0 DEF Items, InCart
  <2>3. items[c.line] > 0
    BY <1>3 DEF Accepts
  <2>4. Cardinality(InCart(new)) \in Nat
    BY <2>2, InCartFinite, FS_CardinalityType
  <2> QED BY <1>0, <1>1, <2>2, <2>3, <2>4, OneLineMore
<1>4. CASE c.kind = "remove"
  <2>1. new = [items EXCEPT ![c.line] = 0]
    BY <1>4 DEF Effects, RemoveItem
  <2>2. new \in Items /\ InCart(new) \subseteq InCart(items) \cup {c.line}
    BY <2>1, <1>0 DEF Items, InCart
  <2>3. items[c.line] > 0
    BY <1>4 DEF Accepts
  <2>4. Cardinality(InCart(new)) \in Nat
    BY <2>2, InCartFinite, FS_CardinalityType
  <2> QED BY <1>0, <1>1, <2>2, <2>3, <2>4, OneLineMore
<1>5. CASE c.kind = "clear"
  <2>1. new = Empty
    BY <1>5 DEF Effects
  <2>2. new \in Items /\ InCart(new) = {}
    BY <2>1 DEF Items, Empty, InCart
  <2> QED BY <2>2, FS_EmptySet
<1>6. CASE c.kind = "merge"
  <2>1. new \in MergeItems(items, incoming)
    BY <1>6 DEF Effects
  <2>2. PICK kept \in SUBSET (InCart(incoming) \ InCart(items)) :
          /\ Cardinality(InCart(items) \cup kept) <= MaxCartItems
          /\ new = [l \in Lines |->
                      IF l \in (InCart(incoming) \cap InCart(items)) \cup kept
                      THEN incoming[l] ELSE items[l]]
    BY <2>1 DEF MergeItems
  <2>3. new \in Items
    BY <2>2 DEF Items
  <2>4. InCart(new) = InCart(items) \cup kept
    BY <2>2 DEF InCart, Items
  <2> QED BY <2>2, <2>3, <2>4
<1> QED BY <1>0, <1>2, <1>3, <1>4, <1>5, <1>6 DEF Kinds

-----------------------------------------------------------------------------
\* The inductive invariant.

\* What request r knows when it is about to save: its copy is no newer than
\* the stored cart of the same id, it holds what the stored revision of the
\* same version holds, and it is the stored revision as long as nobody has
\* changed the owner's cart since it was read.
Copy(r) ==
  LET stored == carts[call[r].owner] IN
  /\ snap[r] \in CartDocs
  /\ snap[r].id < nextId
  /\ ~NothingToMerge(r)
  /\ Accepts(call[r], snap[r].items, avail[r])
  /\ tries[r] + begun[r] <= seen[r]
  /\ seen[r] <= writes[call[r].owner]
  /\ seen[r] = writes[call[r].owner] => Matches(r)
  /\ stored # NoCart /\ stored.id = snap[r].id =>
       /\ snap[r].version <= stored.version
       /\ snap[r].version = stored.version => snap[r].items = stored.items

RequestInv(r) ==
  /\ pc[r] = "idle" => tries[r] = 0
  /\ pc[r] \notin Answers => tries[r] < MaxSaveAttempts
  /\ tries[r] + begun[r] <= writes[call[r].owner]
  /\ pc[r] = "take" => call[r].kind = "merge"
  /\ pc[r] = "drop" => /\ call[r].kind = "merge"
                       /\ taken[r] \in CartDocs
                       /\ taken[r].id \in released
  /\ pc[r] \in {"load", "insert", "refetch", "save"} /\ call[r].kind = "set" =>
       call[r].qty <= avail[r]
  /\ pc[r] = "save" => Copy(r)

UsedIds == \A o \in Owners : carts[o] # NoCart => carts[o].id < nextId

IInv ==
  /\ TypeOK
  /\ UsedIds
  /\ CartCapacity
  /\ NoCartVanishes
  /\ \A r \in Requests : RequestInv(r)

\* All that a step of one actor can do to what the others rely on.
Shared ==
  /\ released \subseteq released'
  /\ \/ UNCHANGED <<carts, nextId, writes>>
     \/ \E o \in Owners :
          \/ /\ carts[o] = NoCart
             /\ carts' = [carts EXCEPT ![o] = [id |-> nextId, version |-> 0,
                                               items |-> Empty]]
             /\ nextId' = nextId + 1
             /\ UNCHANGED writes
          \/ /\ carts[o] # NoCart
             /\ \E new \in Items :
                  /\ Cardinality(InCart(new)) <= MaxCartItems
                  /\ carts' = [carts EXCEPT ![o] = [id |-> carts[o].id,
                                                    version |-> carts[o].version + 1,
                                                    items |-> new]]
             /\ writes' = [writes EXCEPT ![o] = @ + 1]
             /\ UNCHANGED nextId
          \/ /\ carts[o] # NoCart
             /\ carts[o].id \in released'
             /\ carts' = [carts EXCEPT ![o] = NoCart]
             /\ writes' = [writes EXCEPT ![o] = @ + 1]
             /\ UNCHANGED nextId

\* A Shared step keeps what is said of the collection.
LEMMA SharedKeepsCarts ==
  ASSUME IInv, Shared
  PROVE  /\ carts' \in [Owners -> CartDocs \cup {NoCart}]
         /\ nextId' \in Nat
         /\ writes' \in [Owners -> Nat]
         /\ UsedIds'
         /\ CartCapacity'
         /\ NoCartVanishes'
<1> USE CartItemsAssumption, CartAssumption
<1>0. /\ carts \in [Owners -> CartDocs \cup {NoCart}] /\ nextId \in Nat
      /\ writes \in [Owners -> Nat] /\ UsedIds /\ CartCapacity /\ NoCartVanishes
      /\ released \subseteq released'
  BY DEF IInv, TypeOK, Shared
<1>1. CASE UNCHANGED <<carts, nextId, writes>>
  BY <1>0, <1>1 DEF UsedIds, CartCapacity, NoCartVanishes
<1>2. ASSUME NEW o \in Owners, carts[o] = NoCart,
             carts' = [carts EXCEPT ![o] = [id |-> nextId, version |-> 0, items |-> Empty]],
             nextId' = nextId + 1,
             UNCHANGED writes
      PROVE  /\ carts' \in [Owners -> CartDocs \cup {NoCart}] /\ nextId' \in Nat
             /\ UsedIds' /\ CartCapacity' /\ NoCartVanishes'
  <2> DEFINE new == [id |-> nextId, version |-> 0, items |-> Empty]
  <2>1. new \in CartDocs /\ new # NoCart
    BY <1>0 DEF CartDocs, Items, Empty
  <2>2. Cardinality(InCart(Empty)) <= MaxCartItems
    <3>1. InCart(Empty) = {}
      BY DEF InCart, Empty
    <3> QED BY <3>1, FS_EmptySet
  <2>3. /\ carts'[o] = new /\ carts'[o].id = nextId /\ carts'[o].items = Empty
        /\ \A p \in Owners \ {o} : carts'[p] = carts[p]
    BY <1>0, <1>2
  <2>4. carts' \in [Owners -> CartDocs \cup {NoCart}]
    BY <1>0, <1>2, <2>1
  <2>5. UsedIds'
    BY <1>0, <1>2, <2>3 DEF UsedIds, CartDocs
  <2>6. CartCapacity'
    BY <1>0, <2>2, <2>3 DEF CartCapacity
  <2>7. NoCartVanishes'
    BY <1>0, <1>2, <2>1, <2>3 DEF NoCartVanishes
  <2> QED BY <1>0, <1>2, <2>4, <2>5, <2>6, <2>7
<1>3. ASSUME NEW o \in Owners, carts[o] # NoCart,
             NEW new \in Items, Cardinality(InCart(new)) <= MaxCartItems,
             carts' = [carts EXCEPT ![o] = [id |-> carts[o].id,
                                            version |-> carts[o].version + 1,
                                            items |-> new]],
             writes' = [writes EXCEPT ![o] = @ + 1],
             UNCHANGED nextId
      PROVE  /\ carts' \in [Owners -> CartDocs \cup {NoCart}] /\ writes' \in [Owners -> Nat]
             /\ UsedIds' /\ CartCapacity' /\ NoCartVanishes'
  <2>1. carts[o] \in CartDocs
    BY <1>0, <1>3
  <2>2. /\ carts'[o] = [id |-> carts[o].id, version |-> carts[o].version + 1, items |-> new]
        /\ \A p \in Owners \ {o} : carts'[p] = carts[p]
    BY <1>0, <1>3
  <2>3. carts'[o] \in CartDocs /\ carts'[o] # NoCart
    BY <2>1, <2>2 DEF CartDocs
  <2>4. carts' \in [Owners -> CartDocs \cup {NoCart}]
    BY <1>0, <1>3, <2>2, <2>3
  <2>5. carts'[o].id = carts[o].id /\ carts'[o].items = new
    BY <2>2
  <2>6. UsedIds'
    BY <1>0, <1>3, <2>2, <2>5 DEF UsedIds
  <2>7. CartCapacity'
    BY <1>0, <1>3, <2>2, <2>5 DEF CartCapacity
  <2>8. NoCartVanishes'
    BY <1>0, <1>3, <2>2, <2>3, <2>5 DEF NoCartVanishes
  <2> QED BY <1>0, <1>3, <2>4, <2>6, <2>7, <2>8
<1>4. ASSUME NEW o \in Owners, carts[o] # NoCart, carts[o].id \in released',
             carts' = [carts EXCEPT ![o] = NoCart],
             writes' = [writes EXCEPT ![o] = @ + 1],
             UNCHANGED nextId
      PROVE  /\ carts' \in [Owners -> CartDocs \cup {NoCart}] /\ writes' \in [Owners -> Nat]
             /\ UsedIds' /\ CartCapacity' /\ NoCartVanishes'
  <2>1. /\ carts'[o] = NoCart
        /\ \A p \in Owners \ {o} : carts'[p] = carts[p]
    BY <1>0, <1>4
  <2>2. UsedIds' /\ CartCapacity'
    BY <1>0, <1>4, <2>1 DEF UsedIds, CartCapacity
  <2>3. NoCartVanishes'
    BY <1>0, <1>4, <2>1 DEF NoCartVanishes
  <2> QED BY <1>0, <1>4, <2>2, <2>3
<1> QED BY <1>0, <1>1, <1>2, <1>3, <1>4 DEF Shared

\* The locals of q and the session of calls it depends on stay as they are.
Untouched(q) ==
  /\ pc'[q] = pc[q] /\ call'[q] = call[q] /\ avail'[q] = avail[q]
  /\ taken'[q] = taken[q] /\ snap'[q] = snap[q] /\ tries'[q] = tries[q]
  /\ seen'[q] = seen[q] /\ begun'[q] = begun[q]

\* A Shared step keeps what is said of a request it does not belong to.
LEMMA SharedKeepsOthers ==
  ASSUME IInv, Shared, NEW q \in Requests, Untouched(q)
  PROVE  RequestInv(q)'
<1> USE CartItemsAssumption, CartAssumption
<1> DEFINE p == call[q].owner
<1>0. /\ carts \in [Owners -> CartDocs \cup {NoCart}] /\ nextId \in Nat
      /\ writes \in [Owners -> Nat] /\ UsedIds /\ RequestInv(q)
      /\ tries[q] \in Nat /\ begun[q] \in Nat /\ seen[q] \in Nat
      /\ p \in Owners
      /\ released \subseteq released'
  BY DEF IInv, TypeOK, Shared, CallRecords
<1>1. writes'[p] \in Nat /\ writes[p] <= writes'[p]
  BY <1>0 DEF Shared
<1>2. (pc[q] = "save" /\ Copy(q)) => Copy(q)'
  <2> SUFFICES ASSUME pc[q] = "save", Copy(q)
               PROVE  Copy(q)'
    OBVIOUS
  <2>1. /\ snap[q] \in CartDocs /\ snap[q].id < nextId
        /\ snap[q].id \in Nat /\ snap[q].version \in Nat
        /\ ~NothingToMerge(q) /\ Accepts(call[q], snap[q].items, avail[q])
        /\ tries[q] + begun[q] <= seen[q] /\ seen[q] <= writes[p]
        /\ seen[q] = writes[p] => Matches(q)
        /\ carts[p] # NoCart /\ carts[p].id = snap[q].id =>
             /\ snap[q].version <= carts[p].version
             /\ snap[q].version = carts[p].version => snap[q].items = carts[p].items
    BY DEF Copy, CartDocs
  <2>2. nextId <= nextId' /\ nextId' \in Nat
    BY <1>0 DEF Shared
  <2>3. /\ (seen[q] = writes'[p] => Matches(q)')
        /\ carts'[p] # NoCart /\ carts'[p].id = snap[q].id =>
             /\ snap[q].version <= carts'[p].version
             /\ snap[q].version = carts'[p].version => snap[q].items = carts'[p].items
    <3>1. CASE carts'[p] = carts[p]
      BY <3>1, <1>0, <1>1, <2>1 DEF Matches, Untouched
    <3>2. CASE carts'[p] # carts[p]
      <4>1. CASE /\ carts[p] = NoCart
                 /\ carts'[p] = [id |-> nextId, version |-> 0, items |-> Empty]
                 /\ writes'[p] = writes[p]
        <5>1. carts'[p].id = nextId
          BY <4>1
        <5> QED BY <5>1, <4>1, <1>0, <2>1 DEF Matches
      <4>2. CASE /\ carts[p] # NoCart
                 /\ \E new \in Items :
                      carts'[p] = [id |-> carts[p].id, version |-> carts[p].version + 1,
                                   items |-> new]
                 /\ writes'[p] = writes[p] + 1
        <5>1. carts[p].version \in Nat
          BY <4>2, <1>0 DEF CartDocs
        <5>2. carts'[p].id = carts[p].id /\ carts'[p].version = carts[p].version + 1
          BY <4>2
        <5> QED BY <5>1, <5>2, <4>2, <1>0, <2>1
      <4>3. CASE carts'[p] = NoCart /\ writes'[p] = writes[p] + 1
        BY <4>3, <1>0, <2>1
      <4> QED BY <3>2, <4>1, <4>2, <4>3, <1>0 DEF Shared
    <3> QED BY <3>1, <3>2
  <2>4. ~NothingToMerge(q)'
    BY <2>1 DEF NothingToMerge, Untouched
  <2> QED BY <1>0, <1>1, <2>1, <2>2, <2>3, <2>4 DEF Copy, Untouched
<1>3. pc'[q] = "save" => Copy(q)'
  BY <1>0, <1>2 DEF RequestInv, Untouched
<1> QED BY <1>0, <1>1, <1>3 DEF RequestInv, Untouched

-----------------------------------------------------------------------------
\* One step of one request.

\* The part of TypeOK that Shared does not speak of.
LocalTypes ==
  /\ stock \in [Lines -> Nat]
  /\ pc \in [Requests -> {"idle", "check", "take", "load", "insert", "refetch", "save", "drop"}
                           \cup Answers]
  /\ call \in [Requests -> Calls]
  /\ avail \in [Requests -> Nat]
  /\ taken \in [Requests -> CartDocs \cup {NoCart}]
  /\ snap \in [Requests -> CartDocs \cup {NoCart}]
  /\ tries \in [Requests -> 0 .. MaxSaveAttempts]
  /\ seen \in [Requests -> Nat]
  /\ begun \in [Requests -> Nat]
  /\ released \in SUBSET Nat

\* A step of request r keeps the invariant when it is a Shared step, leaves
\* the other requests alone and establishes what is said of r itself.
LEMMA StepOfOne ==
  ASSUME IInv, Shared, NEW r \in Requests, LocalTypes', RequestInv(r)',
         \A q \in Requests \ {r} : Untouched(q)
  PROVE  IInv'
<1>1. TypeOK' /\ UsedIds' /\ CartCapacity' /\ NoCartVanishes'
  BY SharedKeepsCarts DEF LocalTypes, TypeOK
<1>2. ASSUME NEW q \in Requests PROVE RequestInv(q)'
  BY SharedKeepsOthers
<1> QED BY <1>1, <1>2 DEF IInv

\* A step of the environment keeps it when it touches no request.
LEMMA StepOfNone ==
  ASSUME IInv, Shared, LocalTypes', \A q \in Requests : Untouched(q)
  PROVE  IInv'
<1>1. TypeOK' /\ UsedIds' /\ CartCapacity' /\ NoCartVanishes'
  BY SharedKeepsCarts DEF LocalTypes, TypeOK
<1>2. ASSUME NEW q \in Requests PROVE RequestInv(q)'
  BY SharedKeepsOthers
<1> QED BY <1>1, <1>2 DEF IInv

\* Having read a cart that is the stored one, a request is ready to save, or
\* has its answer.
LEMMA LoadedKeeps ==
  ASSUME IInv, NEW r \in Requests, NEW cart \in CartDocs, Shared,
         pc[r] \in {"load", "insert", "refetch"},
         Loaded(r, cart), carts'[call[r].owner] = cart, nextId' \in Nat,
         cart.id < nextId', stock' = stock
  PROVE  IInv'
<1> USE CartAssumption
<1> DEFINE o == call[r].owner
<1>0. /\ LocalTypes /\ RequestInv(r) /\ TypeOK
      /\ o \in Owners /\ writes[o] \in Nat /\ call[r] \in Calls
  BY DEF IInv, TypeOK, LocalTypes, CallRecords
<1>1. /\ snap' = [snap EXCEPT ![r] = cart]
      /\ seen' = [seen EXCEPT ![r] = writes[o]]
      /\ UNCHANGED <<stock, avail, call, taken, tries, writes, begun, released>>
      /\ pc' = [pc EXCEPT ![r] = pc'[r]]
      /\ pc'[r] \in {"ok", "save", "refused"}
      /\ pc'[r] = "save" => ~NothingToMerge(r) /\ Accepts(call[r], cart.items, avail[r])
  BY <1>0 DEF Loaded, Goto, catalog, LocalTypes
<1>2. LocalTypes'
  BY <1>0, <1>1 DEF LocalTypes, Answers
<1>3. \A q \in Requests \ {r} : Untouched(q)
  BY <1>0, <1>1 DEF Untouched, LocalTypes
<1>4. snap'[r] = cart /\ seen'[r] = writes[o] /\ cart # NoCart
  BY <1>0, <1>1 DEF LocalTypes
<1>5. tries[r] \in Nat /\ tries[r] < MaxSaveAttempts /\ tries[r] + begun[r] <= writes[o]
  BY <1>0 DEF RequestInv, LocalTypes, Answers
<1>6. pc'[r] = "save" => Copy(r)'
  <2> SUFFICES ASSUME pc'[r] = "save" PROVE Copy(r)'
    OBVIOUS
  <2>1. ~NothingToMerge(r)' /\ Matches(r)'
    BY <1>1, <1>4 DEF NothingToMerge, Matches
  <2>2. cart.version \in Nat
    BY DEF CartDocs
  <2> QED BY <1>0, <1>1, <1>4, <1>5, <2>1, <2>2 DEF Copy
<1>7. RequestInv(r)'
  BY <1>0, <1>1, <1>5, <1>6 DEF RequestInv, Answers
<1> QED BY <1>2, <1>3, <1>7, StepOfOne

\* Every step keeps the invariant.
LEMMA NextKeeps == IInv /\ [Next]_vars => IInv'
<1> USE CartAssumption, CartItemsAssumption
<1> SUFFICES ASSUME IInv, [Next]_vars
             PROVE  IInv'
  OBVIOUS
<1>0. LocalTypes /\ TypeOK /\ \A q \in Requests : RequestInv(q)
  BY DEF IInv, TypeOK, LocalTypes
<1> DEFINE Alone(r) == \A q \in Requests \ {r} : Untouched(q)
<1>1. ASSUME NEW r \in Requests, Begin(r) PROVE IInv'
  <2>1. PICK c \in Calls :
          /\ pc[r] = "idle"
          /\ call' = [call EXCEPT ![r] = c]
          /\ pc' = [pc EXCEPT ![r] = FirstStep(c)]
          /\ begun' = [begun EXCEPT ![r] = writes[c.owner]]
          /\ UNCHANGED <<carts, nextId, stock, avail, taken, snap, tries, writes, seen, released>>
    BY <1>1 DEF Begin, Goto, catalog
  <2>2. /\ FirstStep(c) \in {"check", "take", "load"}
        /\ FirstStep(c) = "take" => c.kind = "merge"
        /\ FirstStep(c) = "load" => c.kind # "set"
    BY DEF FirstStep, CallRecords, Kinds
  <2>3. c.owner \in Owners /\ writes[c.owner] \in Nat
    BY <1>0 DEF CallRecords, TypeOK
  <2>4. LocalTypes'
    BY <1>0, <2>1, <2>2, <2>3 DEF LocalTypes
  <2>5. Alone(r)
    BY <1>0, <2>1 DEF Untouched, LocalTypes
  <2>6. call'[r] = c /\ pc'[r] = FirstStep(c) /\ begun'[r] = writes'[c.owner] /\ tries'[r] = 0
    BY <1>0, <2>1 DEF LocalTypes, RequestInv
  <2>7. RequestInv(r)'
    BY <2>1, <2>2, <2>3, <2>6 DEF RequestInv
  <2>8. Shared
    BY <2>1 DEF Shared
  <2> QED BY <2>4, <2>5, <2>7, <2>8, StepOfOne
<1>2. ASSUME NEW r \in Requests, CheckAvailability(r) PROVE IInv'
  <2> DEFINE c == call[r]
  <2>1. /\ pc[r] = "check"
        /\ avail' = [avail EXCEPT ![r] = stock[c.line]]
        /\ pc' = [pc EXCEPT ![r] =
                    IF stock[c.line] = 0 \/ (c.kind = "set" /\ c.qty > stock[c.line])
                    THEN "refused" ELSE "load"]
        /\ UNCHANGED <<carts, nextId, stock, call, taken, snap, tries,
                       writes, seen, begun, released>>
    BY <1>2 DEF CheckAvailability, Goto, history
  <2>2. c \in CallRecords /\ c.line \in Lines /\ c.qty \in Nat /\ stock[c.line] \in Nat
    BY <1>0 DEF LocalTypes, CallRecords
  <2>3. LocalTypes'
    BY <1>0, <2>1, <2>2 DEF LocalTypes, Answers
  <2>4. Alone(r)
    BY <1>0, <2>1 DEF Untouched, LocalTypes
  <2>5. pc'[r] \in {"refused", "load"} /\ avail'[r] = stock[c.line]
        /\ (pc'[r] = "load" /\ c.kind = "set" => c.qty <= stock[c.line])
    BY <1>0, <2>1, <2>2 DEF LocalTypes
  <2>6. RequestInv(r)'
    BY <1>0, <2>1, <2>5 DEF RequestInv, Answers
  <2>7. Shared
    BY <2>1 DEF Shared
  <2> QED BY <2>3, <2>4, <2>6, <2>7, StepOfOne
<1>3. ASSUME NEW r \in Requests, TakeGuestCart(r) PROVE IInv'
  <2>1. /\ pc[r] = "take"
        /\ taken'[r] \in CartDocs \cup {NoCart}
        /\ taken' = [taken EXCEPT ![r] = taken'[r]]
        /\ pc' = [pc EXCEPT ![r] = "load"]
        /\ UNCHANGED <<carts, nextId, stock, avail, call, snap, tries,
                       writes, seen, begun, released>>
    <3>1. call[r].guest \in Guests /\ carts[call[r].guest] \in CartDocs \cup {NoCart}
      BY <1>0 DEF LocalTypes, TypeOK, CallRecords, Owners
    <3> QED BY <1>0, <1>3, <3>1 DEF TakeGuestCart, Goto, catalog, history, LocalTypes
  <2>2. LocalTypes'
    BY <1>0, <2>1 DEF LocalTypes
  <2>3. Alone(r)
    BY <1>0, <2>1 DEF Untouched, LocalTypes
  <2>4. RequestInv(r)'
    BY <1>0, <2>1 DEF RequestInv, Answers, LocalTypes
  <2>5. Shared
    BY <2>1 DEF Shared
  <2> QED BY <2>2, <2>3, <2>4, <2>5, StepOfOne
<1>4. ASSUME NEW r \in Requests, FindCart(r) \/ Refetch(r) \/ RequireCart(r) PROVE IInv'
  <2> DEFINE cart == carts[call[r].owner]
  <2>1. /\ pc[r] \in {"load", "refetch"}
        /\ UNCHANGED <<carts, nextId, stock, avail, call, taken, tries, writes, begun, released>>
        /\ \/ cart # NoCart /\ Loaded(r, cart)
           \/ /\ pc' = [pc EXCEPT ![r] = pc'[r]] /\ pc'[r] \in {"insert", "ok", "refused"}
              /\ UNCHANGED <<snap, seen>>
    BY <1>0, <1>4 DEF FindCart, Refetch, RequireCart, Loaded, Goto, catalog, history, LocalTypes
  <2>2. Shared
    BY <2>1 DEF Shared
  <2>3. CASE cart # NoCart /\ Loaded(r, cart)
    <3>1. cart \in CartDocs /\ cart.id < nextId /\ nextId \in Nat
      BY <1>0, <2>3 DEF TypeOK, CallRecords, IInv, UsedIds
    <3> QED BY <2>1, <2>2, <2>3, <3>1, LoadedKeeps
  <2>4. CASE /\ pc' = [pc EXCEPT ![r] = pc'[r]] /\ pc'[r] \in {"insert", "ok", "refused"}
             /\ UNCHANGED <<snap, seen>>
    <3>1. LocalTypes'
      BY <1>0, <2>1, <2>4 DEF LocalTypes, Answers
    <3>2. Alone(r)
      BY <1>0, <2>1, <2>4 DEF Untouched, LocalTypes
    <3>3. RequestInv(r)'
      BY <1>0, <2>1, <2>4 DEF RequestInv, Answers
    <3> QED BY <2>2, <3>1, <3>2, <3>3, StepOfOne
  <2> QED BY <2>1, <2>3, <2>4
<1>5. ASSUME NEW r \in Requests, InsertCart(r) PROVE IInv'
  <2> DEFINE o == call[r].owner
             new == [id |-> nextId, version |-> 0, items |-> Empty]
  <2>1. /\ pc[r] = "insert" /\ carts[o] = NoCart
        /\ carts' = [carts EXCEPT ![o] = new]
        /\ nextId' = nextId + 1 /\ Loaded(r, new)
        /\ UNCHANGED <<stock, writes, released>>
    BY <1>5 DEF InsertCart, Loaded, catalog
  <2>2. o \in Owners /\ nextId \in Nat /\ new \in CartDocs /\ carts'[o] = new
    BY <1>0, <2>1 DEF TypeOK, CallRecords, CartDocs, Items, Empty
  <2>3. Shared
    BY <2>1, <2>2 DEF Shared
  <2>4. new.id < nextId' /\ nextId' \in Nat
    BY <2>1, <2>2
  <2> QED BY <2>1, <2>2, <2>3, <2>4, LoadedKeeps
<1>6. ASSUME NEW r \in Requests, InsertCollides(r) PROVE IInv'
  <2>1. /\ pc[r] = "insert" /\ pc' = [pc EXCEPT ![r] = "refetch"]
        /\ UNCHANGED <<carts, nextId, stock, avail, call, taken, snap, tries,
                       writes, seen, begun, released>>
    BY <1>6 DEF InsertCollides, Goto, catalog, history
  <2>2. LocalTypes' /\ Alone(r)
    BY <1>0, <2>1 DEF LocalTypes, Untouched
  <2>3. RequestInv(r)'
    BY <1>0, <2>1 DEF RequestInv, Answers, LocalTypes
  <2>4. Shared
    BY <2>1 DEF Shared
  <2> QED BY <2>2, <2>3, <2>4, StepOfOne
<1>7. ASSUME NEW r \in Requests, Save(r) PROVE IInv'
  <2> DEFINE o == call[r].owner
             incoming == IF call[r].kind = "merge" THEN taken[r].items ELSE Empty
  <2>1. PICK new \in Effects(call[r], snap[r].items, incoming) :
          carts' = [carts EXCEPT ![o] = [id |-> snap[r].id, version |-> snap[r].version + 1,
                                         items |-> new]]
    BY <1>7 DEF Save
  <2>2. /\ pc[r] = "save" /\ Matches(r)
        /\ pc' = [pc EXCEPT ![r] = IF call[r].kind = "merge" THEN "drop" ELSE "ok"]
        /\ writes' = [writes EXCEPT ![o] = @ + 1]
        /\ released' = IF call[r].kind = "merge" THEN released \cup {taken[r].id} ELSE released
        /\ UNCHANGED <<nextId, stock, avail, call, taken, snap, tries, seen, begun>>
    BY <1>7 DEF Save, Goto, catalog
  <2>3. Copy(r) /\ call[r] \in CallRecords /\ o \in Owners
    BY <1>0, <2>2 DEF RequestInv, LocalTypes, CallRecords
  <2>4. /\ carts[o] # NoCart /\ carts[o] \in CartDocs
        /\ carts[o].id = snap[r].id /\ carts[o].version = snap[r].version
        /\ carts[o].items = snap[r].items
        /\ snap[r] \in CartDocs /\ snap[r].items \in Items
    BY <1>0, <2>2, <2>3 DEF Matches, Copy, TypeOK, CartDocs
  <2>5. call[r].kind = "merge" => taken[r] \in CartDocs
    BY <1>0, <2>3 DEF Copy, NothingToMerge, LocalTypes
  <2>6. incoming \in Items
    BY <2>5 DEF CartDocs, Items, Empty
  <2>7. new \in Items /\ Cardinality(InCart(new)) <= MaxCartItems
    <3>1. Cardinality(InCart(snap[r].items)) <= MaxCartItems
      BY <2>3, <2>4 DEF IInv, CartCapacity
    <3>2. Accepts(call[r], snap[r].items, avail[r]) /\ avail[r] \in Nat
      BY <1>0, <2>3 DEF Copy, LocalTypes
    <3> QED BY <2>3, <2>4, <2>6, <3>1, <3>2, EffectsFit
  <2>8. Shared
    <3>1. carts' = [carts EXCEPT ![o] = [id |-> carts[o].id, version |-> carts[o].version + 1,
                                         items |-> new]]
      BY <2>1, <2>4
    <3>2. released \subseteq released'
      BY <2>2
    <3> QED BY <2>2, <2>3, <2>4, <2>7, <3>1, <3>2 DEF Shared
  <2>9. LocalTypes'
    BY <1>0, <2>2, <2>5 DEF LocalTypes, Answers, CartDocs
  <2>10. Alone(r)
    BY <1>0, <2>2 DEF Untouched, LocalTypes
  <2>11. RequestInv(r)'
    <3>1. pc'[r] = (IF call[r].kind = "merge" THEN "drop" ELSE "ok")
          /\ writes'[o] = writes[o] + 1 /\ writes[o] \in Nat
      BY <1>0, <2>2, <2>3 DEF LocalTypes, TypeOK
    <3>2. tries[r] \in Nat /\ tries[r] < MaxSaveAttempts /\ tries[r] + begun[r] <= writes[o]
          /\ begun[r] \in Nat
      BY <1>0, <2>2 DEF RequestInv, Answers, LocalTypes
    <3> QED BY <2>2, <2>5, <3>1, <3>2 DEF RequestInv, Answers
  <2> QED BY <2>8, <2>9, <2>10, <2>11, StepOfOne
<1>8. ASSUME NEW r \in Requests, Conflict(r) PROVE IInv'
  <2> DEFINE o == call[r].owner
  <2>1. /\ pc[r] = "save" /\ ~Matches(r)
        /\ tries' = [tries EXCEPT ![r] = tries[r] + 1]
        /\ pc' = [pc EXCEPT ![r] = AfterConflict(r)]
        /\ UNCHANGED <<carts, nextId, stock, avail, call, taken, snap,
                       writes, seen, begun, released>>
    BY <1>8 DEF Conflict, Goto, catalog, history
  <2>2. /\ Copy(r) /\ tries[r] \in Nat /\ begun[r] \in Nat /\ seen[r] \in Nat
        /\ tries[r] < MaxSaveAttempts /\ o \in Owners /\ writes[o] \in Nat
    BY <1>0, <2>1 DEF RequestInv, Answers, LocalTypes, TypeOK, CallRecords
  <2>3. tries[r] + 1 + begun[r] <= writes[o]
    BY <2>1, <2>2 DEF Copy
  <2>4. LocalTypes'
    BY <1>0, <2>1, <2>2 DEF LocalTypes, AfterConflict, Answers
  <2>5. Alone(r)
    BY <1>0, <2>1 DEF Untouched, LocalTypes
  <2>6. tries'[r] = tries[r] + 1 /\ pc'[r] = AfterConflict(r)
    BY <1>0, <2>1 DEF LocalTypes
  <2>7. RequestInv(r)'
    BY <1>0, <2>1, <2>2, <2>3, <2>6 DEF RequestInv, AfterConflict, Answers
  <2>8. Shared
    BY <2>1 DEF Shared
  <2> QED BY <2>4, <2>5, <2>7, <2>8, StepOfOne
<1>9. ASSUME NEW r \in Requests, DropGuestCart(r) PROVE IInv'
  <2> DEFINE g == call[r].guest
  <2>1. /\ pc[r] = "drop" /\ pc' = [pc EXCEPT ![r] = "ok"]
        /\ UNCHANGED <<nextId, stock, avail, call, taken, snap, tries, seen, begun, released>>
        /\ \/ /\ carts[g] # NoCart /\ carts[g].id = taken[r].id
              /\ carts' = [carts EXCEPT ![g] = NoCart]
              /\ writes' = [writes EXCEPT ![g] = @ + 1]
           \/ UNCHANGED <<carts, writes>>
    BY <1>9 DEF DropGuestCart, Goto, catalog
  <2>2. g \in Owners /\ call[r].owner \in Owners /\ taken[r].id \in released
    BY <1>0, <2>1 DEF LocalTypes, CallRecords, Owners, RequestInv
  <2>3. Shared
    BY <2>1, <2>2 DEF Shared
  <2>4. LocalTypes' /\ Alone(r)
    BY <1>0, <2>1 DEF LocalTypes, Untouched, Answers
  <2>5. writes[call[r].owner] \in Nat /\ writes'[call[r].owner] \in Nat
        /\ writes[call[r].owner] <= writes'[call[r].owner]
    BY <1>0, <2>1, <2>2 DEF TypeOK
  <2>6. RequestInv(r)'
    BY <1>0, <2>1, <2>5 DEF RequestInv, Answers, LocalTypes
  <2> QED BY <2>3, <2>4, <2>6, StepOfOne
<1>10. ASSUME NEW g \in Guests, Expire(g) PROVE IInv'
  <2>1. /\ carts[g] # NoCart /\ carts' = [carts EXCEPT ![g] = NoCart]
        /\ writes' = [writes EXCEPT ![g] = @ + 1]
        /\ released' = released \cup {carts[g].id}
        /\ UNCHANGED <<nextId, stock, avail, pc, call, taken, snap, tries, seen, begun>>
    BY <1>10 DEF Expire, catalog
  <2>2. g \in Owners /\ carts[g] \in CartDocs
    BY <1>0, <2>1 DEF TypeOK, Owners
  <2>3. Shared
    BY <2>1, <2>2 DEF Shared
  <2>4. LocalTypes' /\ \A q \in Requests : Untouched(q)
    BY <1>0, <2>1, <2>2 DEF LocalTypes, Untouched, CartDocs
  <2> QED BY <2>3, <2>4, StepOfNone
<1>11. ASSUME NEW l \in Lines, NEW n \in StockLevels, StockChanges(l, n) PROVE IInv'
  <2>1. /\ stock' = [stock EXCEPT ![l] = n]
        /\ UNCHANGED <<carts, nextId, avail, pc, call, taken, snap, tries,
                       writes, seen, begun, released>>
    BY <1>11 DEF StockChanges, history
  <2>2. Shared
    BY <2>1 DEF Shared
  <2>3. LocalTypes' /\ \A q \in Requests : Untouched(q)
    BY <1>0, <2>1 DEF LocalTypes, Untouched
  <2> QED BY <2>2, <2>3, StepOfNone
<1>12. CASE UNCHANGED vars
  <2>1. UNCHANGED <<carts, nextId, stock, pc, call, avail, taken, snap, tries,
                    writes, seen, begun, released>>
    BY <1>12 DEF vars
  <2>2. Shared /\ LocalTypes' /\ \A q \in Requests : Untouched(q)
    BY <1>0, <2>1 DEF Shared, LocalTypes, Untouched
  <2> QED BY <2>2, StepOfNone
<1> QED BY <1>1, <1>2, <1>3, <1>4, <1>5, <1>6, <1>7, <1>8, <1>9, <1>10, <1>11, <1>12
        DEF Next, Step, AllAnswered

LEMMA InitHolds == Init => IInv
<1> USE CartAssumption, CartItemsAssumption
<1> SUFFICES ASSUME Init PROVE IInv
  OBVIOUS
<1>1. (CHOOSE c \in Calls : TRUE) \in Calls
  OBVIOUS
<1>2. TypeOK
  <2>1. call \in [Requests -> Calls]
    BY <1>1 DEF Init
  <2>2. stock \in [Lines -> Nat]
    BY DEF Init
  <2>3. tries \in [Requests -> 0 .. MaxSaveAttempts]
    BY DEF Init
  <2>4. pc \in [Requests -> {"idle"}]
    BY DEF Init
  <2> QED BY <2>1, <2>2, <2>3, <2>4 DEF Init, TypeOK
<1>3. UsedIds /\ CartCapacity
  BY DEF Init, UsedIds, CartCapacity
<1>4. NoCartVanishes
  BY DEF Init, NoCartVanishes
<1>5. ASSUME NEW r \in Requests PROVE RequestInv(r)
  <2>1. call[r] \in Calls /\ call[r].owner \in Owners
    BY <1>2 DEF TypeOK, CallRecords
  <2>2. pc[r] = "idle" /\ tries[r] = 0 /\ begun[r] = 0 /\ writes[call[r].owner] = 0
    BY <2>1 DEF Init
  <2> QED BY <2>2 DEF RequestInv
<1> QED BY <1>2, <1>3, <1>4, <1>5 DEF IInv

\* The inductive invariant holds throughout.
THEOREM Invariance == Spec => []IInv
BY InitHolds, NextKeeps, PTL DEF Spec

-----------------------------------------------------------------------------
\* Every variable keeps its type.
THEOREM TypeCorrect == Spec => []TypeOK
<1>1. IInv => TypeOK
  BY DEF IInv
<1> QED BY <1>1, Invariance, PTL

\* No stored cart exceeds MAX_CART_ITEMS.
THEOREM Capacity == Spec => []CartCapacity
<1>1. IInv => CartCapacity
  BY DEF IInv
<1> QED BY <1>1, Invariance, PTL

\* Carts disappear only by expiry or after their items have landed.
THEOREM Conservation == Spec => []NoCartVanishes
<1>1. IInv => NoCartVanishes
  BY DEF IInv
<1> QED BY <1>1, Invariance, PTL

\* A conflict is always the work of another writer.
THEOREM ConflictsArePaidFor == Spec => []ConflictNeedsWriters
<1>1. IInv => ConflictNeedsWriters
  BY DEF IInv, RequestInv, ConflictNeedsWriters
<1> QED BY <1>1, Invariance, PTL

\* What lands fits the stock the request was told of.
THEOREM StockIsHonoured == Spec => StockHonoured
<1> USE CartAssumption, CartItemsAssumption
<1>1. ASSUME IInv, [Next]_vars, NEW r \in Requests,
             pc[r] = "save", pc'[r] = "ok", call[r].kind \in {"add", "set"}
      PROVE  carts'[call[r].owner].items[call[r].line] <= avail[r]
  <2> DEFINE c == call[r]
  <2>1. Save(r)
    <3>1. pc \in [Requests -> {"idle", "check", "take", "load", "insert", "refetch", "save", "drop"}
                               \cup Answers]
      BY <1>1 DEF IInv, TypeOK
    <3>2. ASSUME NEW q \in Requests, Begin(q) \/ Step(q)
          PROVE  pc' = [pc EXCEPT ![q] = pc'[q]]
      <4>1. CASE Begin(q)
        BY <4>1, <3>1 DEF Begin, Goto
      <4>2. CASE CheckAvailability(q) \/ TakeGuestCart(q) \/ InsertCollides(q)
        BY <4>2, <3>1 DEF CheckAvailability, TakeGuestCart, InsertCollides, Goto
      <4>3. CASE FindCart(q) \/ InsertCart(q) \/ Refetch(q) \/ RequireCart(q)
        BY <4>3, <3>1 DEF FindCart, InsertCart, Refetch, RequireCart, Loaded, Goto
      <4>4. CASE Save(q) \/ Conflict(q) \/ DropGuestCart(q)
        BY <4>4, <3>1 DEF Save, Conflict, DropGuestCart, Goto
      <4> QED BY <3>2, <4>1, <4>2, <4>3, <4>4 DEF Step
    <3>3. PICK q \in Requests : Begin(q) \/ Step(q)
      BY <1>1 DEF Next, vars, Expire, StockChanges, AllAnswered
    <3>4. q = r
      BY <1>1, <3>1, <3>2, <3>3
    <3>5. Save(r) \/ Conflict(r)
      BY <1>1, <3>3, <3>4 DEF Step, Begin, CheckAvailability, TakeGuestCart, FindCart,
         InsertCart, InsertCollides, Refetch, RequireCart, DropGuestCart
    <3>6. Conflict(r) => pc'[r] = AfterConflict(r)
      BY <3>1 DEF Conflict, Goto
    <3> QED BY <1>1, <3>5, <3>6 DEF AfterConflict
  <2>2. Copy(r) /\ RequestInv(r) /\ c \in CallRecords /\ c.owner \in Owners
        /\ c.line \in Lines /\ snap[r].items \in Items /\ avail[r] \in Nat
    BY <1>1 DEF IInv, RequestInv, Copy, TypeOK, CallRecords, CartDocs
  <2>3. PICK new \in Effects(c, snap[r].items, Empty) : carts'[c.owner].items = new
    BY <1>1, <2>1, <2>2 DEF Save, IInv, TypeOK
  <2>4. CASE c.kind = "add"
    BY <2>2, <2>3, <2>4 DEF Copy, Accepts, Effects, AddItem, Items
  <2>5. CASE c.kind = "set"
    BY <2>2, <2>3, <2>5, <1>1 DEF RequestInv, Effects, UpdateQuantity, Items
  <2> QED BY <1>1, <2>4, <2>5
<1>2. IInv /\ [Next]_vars =>
        [\A r \in Requests :
           /\ pc[r] = "save" /\ pc'[r] = "ok"
           /\ call[r].kind \in {"add", "set"}
           => carts'[call[r].owner].items[call[r].line] <= avail[r]]_vars
  BY <1>1
<1> QED BY <1>2, Invariance, PTL DEF Spec, StockHonoured

-----------------------------------------------------------------------------
\* Cart implements AtomicCart: the initial states map to initial states, and
\* every step maps to a step or a stutter.

LEMMA InitMaps == Init => Abstract!Init
BY DEF Init, Abstract!Init, Contents, Phase, Held, ItemsOf, PhaseOf, Owners, Abstract!Owners

\* A cart document exists exactly when its contents do.
LEMMA ItemsOfCart ==
  ASSUME NEW cart \in CartDocs \cup {NoCart}
  PROVE  /\ ItemsOf(cart) \in Items \cup {NoCart}
         /\ ItemsOf(cart) = NoCart <=> cart = NoCart
         /\ cart # NoCart => ItemsOf(cart) = cart.items
BY CartAssumption DEF ItemsOf, CartDocs

\* What the abstract call permits and does is what the entity accepts and does.
LEMMA SameEffects ==
  ASSUME NEW c, NEW items, NEW incoming
  PROVE  Abstract!Effects(c, items, incoming) = Effects(c, items, incoming)
BY DEF Abstract!Effects, Effects, Abstract!AddItem, AddItem, Abstract!RemoveItem, RemoveItem,
       Abstract!UpdateQuantity, UpdateQuantity, Abstract!Empty, Empty,
       Abstract!MergeItems, MergeItems, Abstract!InCart, InCart

LEMMA SameCanAdd ==
  ASSUME NEW items, NEW l
  PROVE  Abstract!CanAdd(items, l) <=> CanAdd(items, l)
<1>1. ASSUME NEW S PROVE Abstract!Cardinality(S) = Cardinality(S)
  BY DEF Abstract!Cardinality, Cardinality
<1> QED BY <1>1 DEF Abstract!CanAdd, CanAdd, Abstract!HasRoom, HasRoom, Abstract!InCart, InCart

\* Where a request that has read its cart goes, seen from AtomicCart: it is
\* still pending, has nothing to do, or is refused.
LEMMA LoadedMaps ==
  ASSUME IInv, NEW r \in Requests, NEW cart \in CartDocs, Loaded(r, cart),
         pc[r] \in {"load", "insert", "refetch"}, stock' = stock,
         \/ carts' = carts /\ carts[call[r].owner] = cart
         \/ /\ carts[call[r].owner] = NoCart /\ cart.items = Empty
            /\ carts' = [carts EXCEPT ![call[r].owner] = cart]
  PROVE  [Abstract!Next]_(Abstract!vars)
<1> USE CartAssumption
<1> DEFINE o == call[r].owner
<1>1. TypeOK /\ call[r] \in CallRecords /\ o \in Owners /\ taken[r] \in CartDocs \cup {NoCart}
  BY DEF IInv, TypeOK, CallRecords
<1>2. /\ UNCHANGED <<stock, avail, call, taken>>
      /\ pc' = [pc EXCEPT ![r] = pc'[r]]
      /\ pc'[r] = IF NothingToMerge(r) THEN "ok"
                  ELSE IF Accepts(call[r], cart.items, avail[r]) THEN "save" ELSE "refused"
  BY <1>1 DEF Loaded, Goto, catalog, TypeOK
<1>3. /\ Phase[r] = "pending" /\ UNCHANGED Held
      /\ Phase' = [Phase EXCEPT ![r] = PhaseOf(pc'[r])]
  BY <1>1, <1>2 DEF Phase, PhaseOf, Held, TypeOK
<1>4. /\ cart # NoCart /\ ItemsOf(cart) = cart.items /\ cart.items # NoCart
      /\ ItemsOf(NoCart) = NoCart
  BY CartAssumption DEF ItemsOf, CartDocs
<1>5. \/ Contents' = Contents /\ Contents[o] # NoCart
      \/ /\ Contents[o] = NoCart
         /\ Contents' = [Contents EXCEPT ![o] = Abstract!Empty]
  <2>1. CASE carts' = carts /\ carts[o] = cart
    BY <2>1, <1>1, <1>4 DEF Contents
  <2>2. CASE /\ carts[o] = NoCart /\ cart.items = Empty
             /\ carts' = [carts EXCEPT ![o] = cart]
    BY <2>2, <1>1, <1>4 DEF Contents, Abstract!Empty, Empty, TypeOK
  <2> QED BY <2>1, <2>2
<1>6. CASE NothingToMerge(r)
  <2>1. Held[r] = NoCart /\ call[r].kind = "merge" /\ Phase' = [Phase EXCEPT ![r] = "applied"]
    BY <1>1, <1>2, <1>3, <1>4, <1>6 DEF NothingToMerge, Held, PhaseOf
  <2>2. Contents' = [Contents EXCEPT ![o] = IF @ = NoCart THEN Abstract!Empty ELSE @]
    BY <1>1, <1>5 DEF Contents
  <2>3. Abstract!ApplyNothing(r)
    BY <1>2, <1>3, <2>1, <2>2 DEF Abstract!ApplyNothing
  <2> QED BY <2>3 DEF Abstract!Next
<1>7. CASE ~NothingToMerge(r) /\ Accepts(call[r], cart.items, avail[r])
  <2>1. Phase' = Phase
    BY <1>2, <1>3, <1>7 DEF Phase, PhaseOf
  <2>2. CASE Contents' = Contents
    BY <2>1, <2>2, <1>2, <1>3 DEF Abstract!vars
  <2>3. CASE Contents[o] = NoCart /\ Contents' = [Contents EXCEPT ![o] = Abstract!Empty]
    BY <2>1, <2>3, <1>2, <1>3 DEF Abstract!Next, Abstract!Open
  <2> QED BY <1>5, <2>2, <2>3
<1>8. CASE ~NothingToMerge(r) /\ ~Accepts(call[r], cart.items, avail[r])
  <2>1. Phase' = [Phase EXCEPT ![r] = "refused"]
    BY <1>2, <1>3, <1>8 DEF PhaseOf
  <2>2. CASE Contents' = Contents
    BY <2>1, <2>2, <1>2, <1>3 DEF Abstract!Next, Abstract!Refuse
  <2>3. CASE Contents[o] = NoCart /\ Contents' = [Contents EXCEPT ![o] = Abstract!Empty]
    BY <2>1, <2>3, <1>2, <1>3 DEF Abstract!Next, Abstract!Open
  <2> QED BY <1>5, <2>2, <2>3
<1> QED BY <1>6, <1>7, <1>8

LEMMA StepMaps == IInv /\ [Next]_vars => [Abstract!Next]_(Abstract!vars)
<1> USE CartAssumption
<1> SUFFICES ASSUME IInv, [Next]_vars
             PROVE  [Abstract!Next]_(Abstract!vars)
  OBVIOUS
<1>0. TypeOK /\ \A q \in Requests : RequestInv(q) /\ call[q] \in CallRecords
      /\ call[q].owner \in Owners
  BY DEF IInv, TypeOK, CallRecords
<1>1. ASSUME NEW r \in Requests, Begin(r) PROVE [Abstract!Next]_(Abstract!vars)
  <2>1. PICK c \in Calls :
          /\ pc[r] = "idle" /\ call' = [call EXCEPT ![r] = c]
          /\ pc' = [pc EXCEPT ![r] = FirstStep(c)]
          /\ UNCHANGED <<carts, stock, avail, taken>>
    BY <1>1 DEF Begin, Goto, catalog
  <2>2. PhaseOf(FirstStep(c)) = "pending" /\ PhaseOf("idle") = "idle"
    BY DEF FirstStep, PhaseOf
  <2>3. Phase[r] = "idle" /\ Phase' = [Phase EXCEPT ![r] = "pending"]
    BY <1>0, <2>1, <2>2 DEF Phase, TypeOK
  <2>4. UNCHANGED <<Contents, Held>>
    BY <2>1 DEF Contents, Held
  <2>5. Abstract!Start(r)
    BY <2>1, <2>3, <2>4 DEF Abstract!Start
  <2> QED BY <2>5 DEF Abstract!Next
<1>2. ASSUME NEW r \in Requests, CheckAvailability(r) PROVE [Abstract!Next]_(Abstract!vars)
  <2>1. /\ pc[r] = "check" /\ avail' = [avail EXCEPT ![r] = stock[call[r].line]]
        /\ pc' = [pc EXCEPT ![r] = pc'[r]] /\ pc'[r] \in {"refused", "load"}
        /\ UNCHANGED <<carts, stock, call, taken>>
    BY <1>0, <1>2 DEF CheckAvailability, Goto, history, TypeOK
  <2>2. /\ Phase[r] = "pending"
        /\ Phase' = Phase \/ Phase' = [Phase EXCEPT ![r] = "refused"]
    BY <1>0, <2>1 DEF Phase, PhaseOf, TypeOK
  <2>3. UNCHANGED <<Contents, Held>>
    BY <2>1 DEF Contents, Held
  <2>4. Abstract!Consult(r)
    BY <2>1, <2>2, <2>3 DEF Abstract!Consult
  <2> QED BY <2>4 DEF Abstract!Next
<1>3. ASSUME NEW r \in Requests, TakeGuestCart(r) PROVE [Abstract!Next]_(Abstract!vars)
  <2> DEFINE g == call[r].guest
             guestCart == carts[g]
             got == IF guestCart # NoCart /\ guestCart.items # Empty THEN guestCart ELSE NoCart
  <2>1. /\ pc[r] = "take" /\ taken' = [taken EXCEPT ![r] = got]
        /\ pc' = [pc EXCEPT ![r] = "load"]
        /\ UNCHANGED <<carts, stock, call, avail>>
    BY <1>3 DEF TakeGuestCart, Goto, catalog
  <2>2. call[r].kind = "merge" /\ g \in Owners /\ guestCart \in CartDocs \cup {NoCart}
    BY <1>0, <2>1 DEF RequestInv, TypeOK, CallRecords, Owners
  <2>3. Phase[r] = "pending" /\ UNCHANGED <<Phase, Contents>>
    BY <1>0, <2>1 DEF Phase, PhaseOf, Contents, TypeOK
  <2>4. Contents[g] = ItemsOf(guestCart)
    BY <2>2 DEF Contents
  <2>5. ItemsOf(got) = IF Contents[g] = Abstract!Empty THEN NoCart ELSE Contents[g]
    BY <2>2, <2>4 DEF ItemsOf, Abstract!Empty, Empty, CartDocs
  <2>6. Held' = [Held EXCEPT ![r] = ItemsOf(got)]
    BY <1>0, <2>1 DEF Held, TypeOK
  <2>7. Abstract!Capture(r)
    BY <2>1, <2>2, <2>3, <2>5, <2>6 DEF Abstract!Capture
  <2> QED BY <2>7 DEF Abstract!Next
<1>4. ASSUME NEW r \in Requests, FindCart(r) \/ Refetch(r) \/ RequireCart(r)
      PROVE  [Abstract!Next]_(Abstract!vars)
  <2> DEFINE cart == carts[call[r].owner]
  <2>1. /\ pc[r] \in {"load", "refetch"}
        /\ UNCHANGED <<carts, stock, avail, call, taken>>
        /\ \/ cart # NoCart /\ Loaded(r, cart)
           \/ /\ pc' = [pc EXCEPT ![r] = pc'[r]] /\ cart = NoCart
              /\ \/ pc'[r] \in {"insert", "refused"}
                 \/ pc'[r] = "ok" /\ call[r].kind = "clear"
    BY <1>0, <1>4 DEF FindCart, Refetch, RequireCart, Loaded, Goto, catalog, history, TypeOK
  <2>2. CASE cart # NoCart /\ Loaded(r, cart)
    <3>1. cart \in CartDocs
      BY <1>0, <2>2 DEF TypeOK
    <3> QED BY <2>1, <2>2, <3>1, LoadedMaps
  <2>3. CASE /\ pc' = [pc EXCEPT ![r] = pc'[r]] /\ cart = NoCart
             /\ \/ pc'[r] \in {"insert", "refused"}
                \/ pc'[r] = "ok" /\ call[r].kind = "clear"
    <3>1. /\ Phase[r] = "pending" /\ UNCHANGED <<Contents, Held>>
          /\ Phase' = [Phase EXCEPT ![r] = PhaseOf(pc'[r])]
      BY <1>0, <2>1, <2>3 DEF Phase, PhaseOf, Contents, Held, TypeOK
    <3>2. CASE pc'[r] = "insert"
      <4>1. Phase' = Phase
        BY <3>1, <3>2 DEF Phase, PhaseOf
      <4> QED BY <2>1, <3>1, <4>1 DEF Abstract!vars
    <3>3. CASE pc'[r] = "refused"
      BY <2>1, <3>1, <3>3 DEF PhaseOf, Abstract!Refuse, Abstract!Next
    <3>4. CASE pc'[r] = "ok" /\ call[r].kind = "clear"
      <4>1. Contents[call[r].owner] = NoCart
        BY <1>0, <2>3 DEF Contents, ItemsOf
      <4> QED BY <2>1, <3>1, <3>4, <4>1 DEF PhaseOf, Abstract!ApplyNothing, Abstract!Next
    <3> QED BY <2>3, <3>2, <3>3, <3>4
  <2> QED BY <2>1, <2>2, <2>3
<1>5. ASSUME NEW r \in Requests, InsertCart(r) PROVE [Abstract!Next]_(Abstract!vars)
  <2> DEFINE new == [id |-> nextId, version |-> 0, items |-> Empty]
  <2>1. new \in CartDocs
    BY <1>0 DEF TypeOK, CartDocs, Items, Empty
  <2>2. /\ pc[r] = "insert" /\ carts[call[r].owner] = NoCart
        /\ carts' = [carts EXCEPT ![call[r].owner] = new]
        /\ Loaded(r, new) /\ stock' = stock
    BY <1>5 DEF InsertCart, Loaded, catalog
  <2> QED BY <2>1, <2>2, LoadedMaps
<1>6. ASSUME NEW r \in Requests, InsertCollides(r) PROVE [Abstract!Next]_(Abstract!vars)
  <2>1. /\ pc[r] = "insert" /\ pc' = [pc EXCEPT ![r] = "refetch"]
        /\ UNCHANGED <<carts, stock, avail, call, taken>>
    BY <1>6 DEF InsertCollides, Goto, catalog
  <2>2. UNCHANGED <<Phase, Contents, Held>>
    BY <1>0, <2>1 DEF Phase, PhaseOf, Contents, Held, TypeOK
  <2> QED BY <2>1, <2>2 DEF Abstract!vars
<1>7. ASSUME NEW r \in Requests, Save(r) PROVE [Abstract!Next]_(Abstract!vars)
  <2> DEFINE c == call[r]
             o == c.owner
             incoming == IF c.kind = "merge" THEN taken[r].items ELSE Empty
  <2>1. PICK new \in Effects(c, snap[r].items, incoming) :
          carts' = [carts EXCEPT ![o] = [id |-> snap[r].id, version |-> snap[r].version + 1,
                                         items |-> new]]
    BY <1>7 DEF Save
  <2>2. /\ pc[r] = "save" /\ Matches(r)
        /\ pc' = [pc EXCEPT ![r] = IF c.kind = "merge" THEN "drop" ELSE "ok"]
        /\ UNCHANGED <<stock, avail, call, taken>>
    BY <1>7 DEF Save, Goto, catalog
  <2>3. Copy(r) /\ c \in CallRecords /\ c.kind \in Kinds /\ o \in Owners /\ avail[r] \in Nat
    BY <1>0, <2>2 DEF RequestInv, TypeOK, CallRecords
  <2>4. /\ carts[o] # NoCart /\ carts[o] \in CartDocs /\ carts[o].items = snap[r].items
        /\ snap[r].items \in Items
    BY <1>0, <2>2, <2>3 DEF Matches, Copy, TypeOK, CartDocs
  <2>5. Contents[o] = snap[r].items /\ Contents[o] # NoCart
    BY <2>3, <2>4 DEF Contents, ItemsOf
  <2>6. c.kind = "merge" => Held[r] = taken[r].items /\ Held[r] # NoCart
    BY <1>0, <2>3 DEF Held, ItemsOf, Copy, NothingToMerge, TypeOK, CartDocs
  <2>7. /\ Phase[r] = "pending" /\ UNCHANGED Held
        /\ Phase' = [Phase EXCEPT ![r] = "applied"]
    BY <1>0, <2>2 DEF Phase, PhaseOf, Held, TypeOK
  <2>8. new \in Abstract!Effects(c, Contents[o], Held[r])
    <3>1. new \in Effects(c, Contents[o], Held[r])
      BY <2>1, <2>3, <2>5, <2>6 DEF Effects, Kinds
    <3> QED BY <3>1, SameEffects
  <2>9. Abstract!Permitted(c, Contents[o], avail[r])
    <3>1. Accepts(c, Contents[o], avail[r])
      BY <2>3, <2>5 DEF Copy
    <3>2. c.kind = "set" => c.qty <= avail[r]
      BY <1>0, <2>2 DEF RequestInv
    <3>3. c.kind = "add" => Abstract!CanAdd(Contents[o], c.line)
      BY <3>1, SameCanAdd DEF Accepts
    <3> QED BY <3>1, <3>2, <3>3, <2>3 DEF Accepts, Abstract!Permitted, Kinds
  <2>10. Contents' = [Contents EXCEPT ![o] = new]
    <3>1. new \in Items
      <4>1. incoming \in Items
        BY <1>0, <2>3 DEF Copy, NothingToMerge, TypeOK, CartDocs, Items, Empty
      <4>2. Cardinality(InCart(snap[r].items)) <= MaxCartItems
        BY <2>3, <2>4 DEF IInv, CartCapacity
      <4>3. Accepts(c, snap[r].items, avail[r])
        BY <2>3 DEF Copy
      <4> QED BY <2>3, <2>4, <4>1, <4>2, <4>3, EffectsFit
    <3>2. [id |-> snap[r].id, version |-> snap[r].version + 1, items |-> new] \in CartDocs
      BY <1>0, <2>3, <3>1 DEF Copy, TypeOK, CartDocs
    <3>3. ItemsOf([id |-> snap[r].id, version |-> snap[r].version + 1, items |-> new]) = new
      BY <3>2 DEF ItemsOf
    <3> QED BY <1>0, <2>1, <2>3, <3>3 DEF Contents, TypeOK
  <2>11. Abstract!Apply(r)
    BY <2>2, <2>5, <2>6, <2>7, <2>8, <2>9, <2>10 DEF Abstract!Apply
  <2> QED BY <2>11 DEF Abstract!Next
<1>8. ASSUME NEW r \in Requests, Conflict(r) PROVE [Abstract!Next]_(Abstract!vars)
  <2>1. /\ pc[r] = "save" /\ pc' = [pc EXCEPT ![r] = pc'[r]]
        /\ pc'[r] \in {"load", "conflict"}
        /\ UNCHANGED <<carts, stock, avail, call, taken>>
    BY <1>0, <1>8 DEF Conflict, AfterConflict, Goto, catalog, TypeOK
  <2>2. Phase[r] = "pending" /\ UNCHANGED <<Contents, Held>>
    BY <2>1 DEF Phase, PhaseOf, Contents, Held
  <2>3. Phase' = Phase \/ Phase' = [Phase EXCEPT ![r] = "refused"]
    BY <1>0, <2>1 DEF Phase, PhaseOf, TypeOK
  <2>4. CASE Phase' = Phase
    BY <2>1, <2>2, <2>4 DEF Abstract!vars
  <2>5. CASE Phase' = [Phase EXCEPT ![r] = "refused"]
    BY <2>1, <2>2, <2>5 DEF Abstract!Refuse, Abstract!Next
  <2> QED BY <2>3, <2>4, <2>5
<1>9. ASSUME NEW r \in Requests, DropGuestCart(r) PROVE [Abstract!Next]_(Abstract!vars)
  <2> DEFINE g == call[r].guest
  <2>1. /\ pc[r] = "drop" /\ pc' = [pc EXCEPT ![r] = "ok"]
        /\ UNCHANGED <<stock, avail, call, taken>>
        /\ carts' = carts \/ carts' = [carts EXCEPT ![g] = NoCart]
    BY <1>9 DEF DropGuestCart, Goto, catalog
  <2>2. UNCHANGED <<Phase, Held>> /\ g \in Guests
    BY <1>0, <2>1 DEF Phase, PhaseOf, Held, TypeOK, CallRecords
  <2>3. CASE carts' = carts
    BY <2>1, <2>2, <2>3 DEF Abstract!vars, Contents
  <2>4. CASE carts' = [carts EXCEPT ![g] = NoCart]
    <3>1. Contents' = [Contents EXCEPT ![g] = NoCart]
      BY <1>0, <2>2, <2>4 DEF Contents, ItemsOf, TypeOK, Owners
    <3> QED BY <2>1, <2>2, <3>1 DEF Abstract!Vanish, Abstract!Next
  <2> QED BY <2>1, <2>3, <2>4
<1>10. ASSUME NEW g \in Guests, Expire(g) PROVE [Abstract!Next]_(Abstract!vars)
  <2>1. /\ carts' = [carts EXCEPT ![g] = NoCart]
        /\ UNCHANGED <<pc, stock, avail, call, taken>>
    BY <1>10 DEF Expire, catalog
  <2>2. Contents' = [Contents EXCEPT ![g] = NoCart]
    BY <1>0, <2>1 DEF Contents, ItemsOf, TypeOK, Owners
  <2>3. UNCHANGED <<Phase, Held>>
    BY <2>1 DEF Phase, Held
  <2> QED BY <2>1, <2>2, <2>3 DEF Abstract!Vanish, Abstract!Next
<1>11. ASSUME NEW l \in Lines, NEW n \in StockLevels, StockChanges(l, n)
       PROVE  [Abstract!Next]_(Abstract!vars)
  <2>1. /\ stock' = [stock EXCEPT ![l] = n]
        /\ UNCHANGED <<carts, pc, avail, call, taken>>
    BY <1>11 DEF StockChanges
  <2>2. UNCHANGED <<Contents, Phase, Held>>
    BY <2>1 DEF Contents, Phase, Held
  <2> QED BY <2>1, <2>2 DEF Abstract!StockChanges, Abstract!Next
<1>12. CASE UNCHANGED vars
  BY <1>12 DEF vars, Abstract!vars, Contents, Phase, Held
<1> QED BY <1>1, <1>2, <1>3, <1>4, <1>5, <1>6, <1>7, <1>8, <1>9, <1>10, <1>11, <1>12
        DEF Next, Step, AllAnswered

\* Every behaviour of the cart module is one in which each call takes effect
\* at most once, at a single instant.
THEOREM CallsTakeEffectAtomically == Spec => CallsAreAtomic
BY InitMaps, StepMaps, Invariance, PTL DEF Spec, CallsAreAtomic, Abstract!Spec
-----------------------------------------------------------------------------
\* The items array behind a cart.

LinesOf(array) == {array[i].line : i \in DOMAIN array}

\* No line has two entries.
Distinct(array) == \A i, j \in DOMAIN array : array[i].line = array[j].line => i = j

Arrays == {array \in Seq(Entries) : Distinct(array) /\ Len(array) <= MaxCartItems}

ArrayInv == account \in Arrays /\ guest \in Arrays

\* Where a line is found.
LEMMA FoundAt ==
  ASSUME NEW array \in Seq(Entries), Distinct(array)
  PROVE  /\ \A i \in DOMAIN array : /\ IndexOf(array, array[i].line) = i
                                    /\ QuantityOf(array, array[i].line) = array[i].quantity
         /\ \A l : Has(array, l) =>
              IndexOf(array, l) \in DOMAIN array /\ array[IndexOf(array, l)].line = l
         /\ \A l : Has(array, l) <=> l \in LinesOf(array)
         /\ \A l : l \notin LinesOf(array) => QuantityOf(array, l) = 0
<1>1. DOMAIN array = 1 .. Len(array) /\ Len(array) \in Nat
  OBVIOUS
<1>2. ASSUME NEW i \in DOMAIN array PROVE IndexOf(array, array[i].line) = i
  <2> DEFINE l == array[i].line
             First1(k) == array[k].line = l /\ \A j \in 1 .. k - 1 : array[j].line # l
  <2>1. First1(i)
    BY <1>1 DEF Distinct
  <2>2. \A k \in DOMAIN array : First1(k) => k = i
    BY DEF Distinct
  <2>3. IndexOf(array, l) = CHOOSE k \in DOMAIN array : First1(k)
    BY DEF IndexOf
  <2> HIDE DEF First1, l
  <2>4. IndexOf(array, l) = i
    BY <2>1, <2>2, <2>3
  <2> QED BY <2>4 DEF l
<1>3. \A l : Has(array, l) <=> l \in LinesOf(array)
  BY DEF Has, LinesOf
<1> QED BY <1>2, <1>3 DEF Has, QuantityOf

\* An array has as many entries as lines.
LEMMA EntriesAreLines ==
  ASSUME NEW array \in Seq(Entries), Distinct(array)
  PROVE  /\ LinesOf(array) \subseteq Lines
         /\ IsFiniteSet(LinesOf(array)) /\ Cardinality(LinesOf(array)) = Len(array)
         /\ InCart(View(array)) = LinesOf(array)
<1> DEFINE n == Len(array)
           f == [i \in 1 .. n |-> array[i].line]
<1>1. DOMAIN array = 1 .. n /\ n \in Nat /\ \A i \in DOMAIN array : array[i] \in Entries
  OBVIOUS
<1>2. f \in Bijection(1 .. n, LinesOf(array))
  <2>1. f \in Injection(1 .. n, LinesOf(array))
    BY <1>1 DEF Injection, LinesOf, Distinct, IsInjective
  <2>2. f \in Surjection(1 .. n, LinesOf(array))
    BY <1>1 DEF Surjection, LinesOf
  <2> QED BY <2>1, <2>2 DEF Bijection
<1>3. IsFiniteSet(1 .. n) /\ Cardinality(1 .. n) = n
  <2> HIDE DEF n
  <2> QED BY <1>1, FS_Interval
<1>4. IsFiniteSet(LinesOf(array)) /\ Cardinality(LinesOf(array)) = n
  <2> HIDE DEF n, f
  <2> QED BY <1>2, <1>3, FS_Bijection DEF ExistsBijection
<1>5. LinesOf(array) \subseteq Lines
  BY <1>1 DEF LinesOf, Entries
<1>6. \A l \in Lines : QuantityOf(array, l) > 0 <=> l \in LinesOf(array)
  <2>1. ASSUME NEW i \in DOMAIN array PROVE QuantityOf(array, array[i].line) > 0
    <3>1. array[i].quantity \in 1 .. MaxQuantity
      BY <1>1 DEF Entries
    <3>2. QuantityOf(array, array[i].line) = array[i].quantity
      BY FoundAt
    <3> QED BY <3>1, <3>2, CartArrayAssumption
  <2> QED BY <2>1, FoundAt DEF LinesOf
<1>7. InCart(View(array)) = LinesOf(array)
  BY <1>5, <1>6 DEF InCart, View
<1> QED BY <1>4, <1>5, <1>7

\* What the three ways to change an array do.
LEMMA SetQuantityIs ==
  ASSUME NEW array \in Seq(Entries), Distinct(array), NEW l, Has(array, l), NEW q
  PROVE  LET new == SetQuantity(array, l, q) IN
         /\ DOMAIN new = DOMAIN array /\ Distinct(new) /\ LinesOf(new) = LinesOf(array)
         /\ q \in 1 .. MaxQuantity =>
              /\ new \in Seq(Entries) /\ Len(new) = Len(array)
              /\ \A k : QuantityOf(new, k) = IF k = l THEN q ELSE QuantityOf(array, k)
<1> DEFINE new == SetQuantity(array, l, q)
           at == IndexOf(array, l)
<1>1. at \in DOMAIN array /\ array[at].line = l
  BY FoundAt
<1>2. DOMAIN array = 1 .. Len(array) /\ Len(array) \in Nat /\ \A i \in DOMAIN array : array[i] \in Entries
  OBVIOUS
<1>3. /\ DOMAIN new = DOMAIN array
      /\ \A i \in DOMAIN array : /\ new[i].line = array[i].line
                                 /\ new[i].quantity = IF i = at THEN q ELSE array[i].quantity
                                 /\ q \in 1 .. MaxQuantity => new[i] \in Entries
  BY <1>1, <1>2 DEF SetQuantity, Entries
<1>4. Distinct(new) /\ LinesOf(new) = LinesOf(array)
  <2> HIDE DEF new
  <2> QED BY <1>3 DEF Distinct, LinesOf
<1>5. ASSUME q \in 1 .. MaxQuantity
      PROVE  /\ new \in Seq(Entries) /\ Len(new) = Len(array)
             /\ \A k : QuantityOf(new, k) = IF k = l THEN q ELSE QuantityOf(array, k)
  <2>1. new \in Seq(Entries) /\ Len(new) = Len(array)
    <3>1. new = [i \in 1 .. Len(array) |-> new[i]]
      BY <1>2 DEF SetQuantity
    <3> HIDE DEF new
    <3> QED BY <1>2, <1>3, <1>5, <3>1
  <2>2. ASSUME NEW k PROVE QuantityOf(new, k) = IF k = l THEN q ELSE QuantityOf(array, k)
    <3> HIDE DEF new, at
    <3>1. CASE k \notin LinesOf(array)
      <4>1. k # l
        BY <1>1, <3>1 DEF LinesOf
      <4> QED BY <1>4, <2>1, <3>1, <4>1, FoundAt
    <3>2. CASE k \in LinesOf(array)
      <4>1. PICK i \in DOMAIN array : array[i].line = k
        BY <3>2 DEF LinesOf
      <4>2. QuantityOf(array, k) = array[i].quantity /\ QuantityOf(new, k) = new[i].quantity
        BY <1>3, <1>4, <2>1, <4>1, FoundAt
      <4>3. i = at <=> k = l
        BY <1>1, <4>1 DEF Distinct
      <4> QED BY <1>3, <4>2, <4>3
    <3> QED BY <3>1, <3>2
  <2> QED BY <2>1, <2>2
<1> QED BY <1>3, <1>4, <1>5

LEMMA PushIs ==
  ASSUME NEW array \in Seq(Entries), Distinct(array), NEW entry \in Entries, ~Has(array, entry.line)
  PROVE  LET new == Append(array, entry) IN
         /\ new \in Seq(Entries) /\ Distinct(new) /\ Len(new) = Len(array) + 1
         /\ LinesOf(new) = LinesOf(array) \cup {entry.line}
         /\ \A k : QuantityOf(new, k) = IF k = entry.line THEN entry.quantity ELSE QuantityOf(array, k)
<1> DEFINE new == Append(array, entry)
           n == Len(array)
<1>1. /\ new \in Seq(Entries) /\ Len(new) = n + 1 /\ n \in Nat
      /\ DOMAIN array = 1 .. n /\ DOMAIN new = 1 .. n + 1
      /\ \A i \in 1 .. n : new[i] = array[i]
      /\ new[n + 1] = entry
  OBVIOUS
<1>2. \A i \in 1 .. n : array[i].line # entry.line
  BY <1>1 DEF Has
<1> HIDE DEF new, n
<1>3. Distinct(new)
  BY <1>1, <1>2 DEF Distinct
<1>4. LinesOf(new) = LinesOf(array) \cup {entry.line}
  BY <1>1 DEF LinesOf
<1>5. ASSUME NEW k
      PROVE  QuantityOf(new, k) = IF k = entry.line THEN entry.quantity ELSE QuantityOf(array, k)
  <2>1. CASE k = entry.line
    BY <1>1, <1>3, <2>1, FoundAt
  <2>2. CASE k # entry.line /\ k \in LinesOf(array)
    <3>1. PICK i \in 1 .. n : array[i].line = k
      BY <1>1, <2>2 DEF LinesOf
    <3>2. i \in DOMAIN new /\ i \in DOMAIN array /\ new[i] = array[i]
      BY <1>1, <3>1
    <3>3. QuantityOf(array, k) = array[i].quantity /\ QuantityOf(new, k) = new[i].quantity
      BY <1>1, <1>3, <3>1, <3>2, FoundAt
    <3> QED BY <2>2, <3>2, <3>3
  <2>3. CASE k # entry.line /\ k \notin LinesOf(array)
    BY <1>1, <1>3, <1>4, <2>3, FoundAt
  <2> QED BY <2>1, <2>2, <2>3
<1> QED BY <1>1, <1>3, <1>4, <1>5 DEF new, n

LEMMA RemovalIs ==
  ASSUME NEW array \in Seq(Entries), Distinct(array), NEW i \in DOMAIN array
  PROVE  /\ Distinct(RemoveAt(array, i)) /\ Len(RemoveAt(array, i)) <= Len(array)
<1> DEFINE new == RemoveAt(array, i)
           n == Len(array)
<1>1. DOMAIN array = 1 .. n /\ n \in Nat /\ i \in 1 .. n
  OBVIOUS
<1>2. /\ SubSeq(array, 1, i - 1) \in Seq(Entries) /\ Len(SubSeq(array, 1, i - 1)) = i - 1
      /\ \A j \in 1 .. i - 1 : SubSeq(array, 1, i - 1)[j] = array[j]
  BY <1>1
<1>3. /\ SubSeq(array, i + 1, n) \in Seq(Entries) /\ Len(SubSeq(array, i + 1, n)) = n - i
      /\ \A j \in 1 .. n - i : SubSeq(array, i + 1, n)[j] = array[i + j]
  BY <1>1
<1>4. /\ Len(new) = n - 1 /\ DOMAIN new = 1 .. n - 1
      /\ \A j \in 1 .. n - 1 : new[j] = IF j < i THEN array[j] ELSE array[j + 1]
  <2> DEFINE head == SubSeq(array, 1, i - 1)
             tail == SubSeq(array, i + 1, n)
  <2>1. new = head \o tail
    BY DEF RemoveAt
  <2>2. /\ head \in Seq(Entries) /\ Len(head) = i - 1
        /\ tail \in Seq(Entries) /\ Len(tail) = n - i
    BY <1>2, <1>3
  <2>3. \A j \in 1 .. i - 1 : head[j] = array[j]
    BY <1>2
  <2>4. \A j \in 1 .. n - i : tail[j] = array[i + j]
    BY <1>3
  <2> HIDE DEF head, tail, new, n
  <2>5. /\ Len(new) = Len(head) + Len(tail) /\ DOMAIN new = 1 .. Len(head) + Len(tail)
        /\ \A j \in 1 .. Len(head) + Len(tail) :
             new[j] = IF j <= Len(head) THEN head[j] ELSE tail[j - Len(head)]
    BY <2>1, <2>2, Concatenation
  <2>6. /\ Len(new) = n - 1 /\ DOMAIN new = 1 .. n - 1
        /\ \A j \in 1 .. n - 1 : new[j] = IF j <= i - 1 THEN head[j] ELSE tail[j - (i - 1)]
    <3>1. Len(head) + Len(tail) = n - 1
      BY <1>1, <2>2
    <3> QED BY <2>2, <2>5, <3>1
  <2>7. ASSUME NEW j \in 1 .. n - 1 PROVE new[j] = IF j < i THEN array[j] ELSE array[j + 1]
    <3>1. CASE j < i
      BY <1>1, <2>3, <2>6, <3>1
    <3>2. CASE ~(j < i)
      <4>1. j - (i - 1) \in 1 .. n - i /\ i + (j - (i - 1)) = j + 1
        BY <1>1, <3>2
      <4>2. tail[j - (i - 1)] = array[j + 1]
        BY <2>4, <4>1
      <4> QED BY <1>1, <2>6, <3>2, <4>2
    <3> QED BY <3>1, <3>2
  <2> QED BY <2>6, <2>7
<1> HIDE DEF new, n
<1>5. Distinct(new)
  <2> DEFINE from(j) == IF j < i THEN j ELSE j + 1
  <2>1. \A j \in 1 .. n - 1 : from(j) \in 1 .. n /\ new[j] = array[from(j)]
    BY <1>1, <1>4
  <2>2. \A j, k \in 1 .. n - 1 : from(j) = from(k) => j = k
    BY <1>1
  <2> HIDE DEF from
  <2> QED BY <1>1, <1>4, <2>1, <2>2 DEF Distinct
<1> QED BY <1>1, <1>4, <1>5 DEF new, n

\* Whatever a call does to an array, no line gets a second entry and the limit
\* stands.
LEMMA EditsAreArrays ==
  ASSUME NEW array \in Arrays
  PROVE  Edits(array) \cap Seq(Entries) \subseteq Arrays
<1> SUFFICES ASSUME NEW new \in Edits(array), new \in Seq(Entries)
             PROVE  Distinct(new) /\ Len(new) <= MaxCartItems
  BY DEF Arrays
<1>1. array \in Seq(Entries) /\ Distinct(array) /\ Len(array) <= MaxCartItems
  BY DEF Arrays
<1>2. ASSUME NEW l \in Lines, Has(array, l), NEW q, new = SetQuantity(array, l, q)
      PROVE  Distinct(new) /\ Len(new) <= MaxCartItems
  <2>1. Distinct(new) /\ DOMAIN new = DOMAIN array
    BY <1>1, <1>2, SetQuantityIs
  <2>2. Len(new) = Len(array)
    BY <1>1, <2>1
  <2> QED BY <1>1, <2>1, <2>2
<1>3. ASSUME NEW l \in Lines, ~Has(array, l), CanPush(array, l), NEW q \in 1 .. MaxQuantity,
             new = Append(array, [line |-> l, quantity |-> q])
      PROVE  Distinct(new) /\ Len(new) <= MaxCartItems
  <2> DEFINE entry == [line |-> l, quantity |-> q]
  <2>1. entry \in Entries /\ entry.line = l
    BY DEF Entries
  <2> HIDE DEF entry
  <2>2. Distinct(new) /\ Len(new) = Len(array) + 1
    BY <1>1, <1>3, <2>1, PushIs DEF entry
  <2>3. Len(array) < MaxCartItems
    BY <1>3 DEF CanPush
  <2> QED BY <1>1, <2>2, <2>3, CartItemsAssumption
<1>4. ASSUME NEW l \in Lines, Has(array, l), new = RemoveAt(array, IndexOf(array, l))
      PROVE  Distinct(new) /\ Len(new) <= MaxCartItems
  <2>1. IndexOf(array, l) \in DOMAIN array
    BY <1>1, <1>4, FoundAt
  <2>2. Distinct(new) /\ Len(new) <= Len(array)
    BY <1>1, <1>4, <2>1, RemovalIs
  <2> QED BY <1>1, <2>2, CartItemsAssumption
<1>5. CASE new = << >>
  BY <1>5, CartItemsAssumption DEF Distinct
<1>6. ASSUME NEW l \in Lines, CanPush(array, l), NEW q \in 1 .. MaxQuantity, new = Add(array, l, q)
      PROVE  Distinct(new) /\ Len(new) <= MaxCartItems
  <2>1. CASE Has(array, l)
    BY <1>2, <1>6, <2>1 DEF Add
  <2>2. CASE ~Has(array, l)
    BY <1>3, <1>6, <2>2 DEF Add
  <2> QED BY <2>1, <2>2
<1> QED BY <1>2, <1>4, <1>5, <1>6 DEF Edits

\* One round of the loop of mergeItems.
LEMMA MergeEntryIs ==
  ASSUME NEW array \in Arrays, NEW entry \in Entries
  PROVE  LET new == MergeEntry(array, entry)
             full == ~Has(array, entry.line) /\ Len(array) >= MaxCartItems
         IN /\ new \in Arrays
            /\ full => new = array
            /\ ~full =>
                 /\ LinesOf(new) = LinesOf(array) \cup {entry.line}
                 /\ \A k : QuantityOf(new, k) = IF k = entry.line THEN entry.quantity
                                                ELSE QuantityOf(array, k)
<1>1. array \in Seq(Entries) /\ Distinct(array) /\ Len(array) <= MaxCartItems
  BY DEF Arrays
<1>2. entry.quantity \in 1 .. MaxQuantity
  BY DEF Entries
<1>3. CASE Has(array, entry.line)
  <2> DEFINE new == SetQuantity(array, entry.line, entry.quantity)
  <2>1. MergeEntry(array, entry) = new
    BY <1>3 DEF MergeEntry
  <2>2. /\ Distinct(new) /\ LinesOf(new) = LinesOf(array)
        /\ new \in Seq(Entries) /\ Len(new) = Len(array)
        /\ \A k : QuantityOf(new, k) = IF k = entry.line THEN entry.quantity ELSE QuantityOf(array, k)
    BY <1>1, <1>2, <1>3, SetQuantityIs
  <2>3. entry.line \in LinesOf(array)
    BY <1>1, <1>3, FoundAt
  <2> HIDE DEF new
  <2> QED BY <1>1, <1>3, <2>1, <2>2, <2>3 DEF Arrays
<1>4. CASE ~Has(array, entry.line) /\ Len(array) >= MaxCartItems
  BY <1>4 DEF MergeEntry
<1>5. CASE ~Has(array, entry.line) /\ ~(Len(array) >= MaxCartItems)
  <2> DEFINE new == Append(array, entry)
  <2>1. MergeEntry(array, entry) = new
    BY <1>5 DEF MergeEntry
  <2>2. /\ new \in Seq(Entries) /\ Distinct(new) /\ Len(new) = Len(array) + 1
        /\ LinesOf(new) = LinesOf(array) \cup {entry.line}
        /\ \A k : QuantityOf(new, k) = IF k = entry.line THEN entry.quantity ELSE QuantityOf(array, k)
    BY <1>1, <1>5, PushIs
  <2>3. Len(array) \in Nat
    BY <1>1
  <2> HIDE DEF new
  <2>4. Len(new) <= MaxCartItems
    BY <1>5, <2>2, <2>3, CartItemsAssumption
  <2> QED BY <1>5, <2>1, <2>2, <2>4 DEF Arrays
<1> QED BY <1>3, <1>4, <1>5

\* The loop: g is the array after each of its rounds.
LEMMA MergeIsLoop ==
  ASSUME NEW array \in Arrays, NEW incoming \in Arrays
  PROVE  \E g : /\ g[0] = array
                /\ \A i \in 0 .. Len(incoming) : g[i] \in Arrays
                /\ \A i \in 1 .. Len(incoming) : g[i] = MergeEntry(g[i - 1], incoming[i])
                /\ Merge(array, incoming) = g[Len(incoming)]
<1> DEFINE n == Len(incoming)
           rounds == DOMAIN incoming
           step == [i \in rounds |-> [a \in Arrays |-> MergeEntry(a, incoming[i])]]
           last == [T \in SUBSET rounds |-> Max(T)]
           IsMerge(h) == h = [T \in SUBSET rounds |->
                                IF T = {} THEN array ELSE MergeEntry(h[T \ {Max(T)}], incoming[Max(T)])]
           merge == CHOOSE h : IsMerge(h)
<1>1. rounds = 1 .. n /\ n \in Nat /\ \A i \in rounds : incoming[i] \in Entries
  BY DEF Arrays
<1>2. Merge(array, incoming) = merge[rounds]
  BY DEF Merge, FoldLeft, MapThenFoldSet
<1>3. /\ \A i \in rounds, a \in Arrays : /\ step[i][a] = MergeEntry(a, incoming[i])
                                         /\ step[i][a] \in Arrays
  BY <1>1, MergeEntryIs
<1>4. IsFiniteSet(rounds)
  <2> HIDE DEF n, rounds
  <2> QED BY <1>1, FS_Interval
<1>5. ASSUME NEW T \in SUBSET rounds, T # {} PROVE Max(T) \in T /\ \A y \in T : Max(T) >= y
  <2>1. T \in SUBSET Int /\ IsFiniteSet(T)
    BY <1>1, <1>4, FS_Subset
  <2> QED BY <1>5, <2>1, MaxIs
<1>6. \A T \in SUBSET rounds : last[T] = Max(T) /\ (T # {} => last[T] \in T)
  BY <1>5
<1> HIDE DEF step, last
<1>7. PICK h : IsFold(array, step, last, rounds, h)
  <2> HIDE DEF rounds
  <2> QED BY <1>4, <1>6, FoldExists
<1>8. \A T \in SUBSET rounds : h[T] \in Arrays
  <2> HIDE DEF rounds
  <2> QED BY <1>3, <1>4, <1>6, <1>7, FoldType
<1>9. IsMerge(h)
  <2>1. ASSUME NEW T \in SUBSET rounds
        PROVE  (IF T = {} THEN array ELSE step[last[T]][h[T \ {last[T]}]])
               = IF T = {} THEN array ELSE MergeEntry(h[T \ {Max(T)}], incoming[Max(T)])
    <3>1. CASE T # {}
      <4> DEFINE m == Max(T)
                 W == T \ {m}
      <4>1. last[T] = m /\ m \in rounds /\ W \in SUBSET rounds
        BY <1>5, <1>6, <3>1
      <4> HIDE DEF m, W
      <4>2. step[m][h[W]] = MergeEntry(h[W], incoming[m])
        BY <1>3, <1>8, <4>1
      <4> QED BY <3>1, <4>1, <4>2 DEF m, W
    <3> QED BY <3>1
  <2> QED BY <1>7, <2>1 DEF IsFold
<1>10. IsMerge(merge)
  <2> HIDE DEF IsMerge
  <2> QED BY <1>9
<1> HIDE DEF merge
<1> DEFINE g == [i \in 0 .. n |-> merge[1 .. i]]
<1>11. g[0] = array
  <2>1. 1 .. 0 = {} /\ 0 \in 0 .. n
    BY <1>1
  <2> HIDE DEF n, rounds
  <2> QED BY <1>10, <2>1
<1>12. ASSUME NEW i \in 1 .. n PROVE g[i] = MergeEntry(g[i - 1], incoming[i])
  <2> DEFINE T == 1 .. i
  <2>1. T \in SUBSET rounds /\ T # {} /\ i \in T /\ i \in 0 .. n /\ i - 1 \in 0 .. n
    BY <1>1
  <2>2. Max(T) = i
    <3>1. Max(T) \in 1 .. i /\ Max(T) >= i
      BY <1>5, <2>1
    <3> HIDE DEF T
    <3> QED BY <3>1
  <2>3. T \ {i} = 1 .. i - 1
    BY <1>1
  <2>4. merge[T] = MergeEntry(merge[T \ {Max(T)}], incoming[Max(T)])
    <3> HIDE DEF T, rounds
    <3> QED BY <1>10, <2>1
  <2>5. g[i] = merge[T] /\ g[i - 1] = merge[1 .. i - 1]
    BY <2>1
  <2> HIDE DEF T, g, n, rounds
  <2> QED BY <2>2, <2>3, <2>4, <2>5
<1> HIDE DEF g
<1>13. ASSUME NEW i \in 0 .. n PROVE g[i] \in Arrays
  <2> DEFINE G == {j \in 0 .. n : g[j] \in Arrays}
  <2>1. 0 \in G
    BY <1>1, <1>11
  <2>2. ASSUME NEW j \in 0 .. i - 1, j \in G PROVE j + 1 \in G
    <3>1. j + 1 \in 1 .. n /\ (j + 1) - 1 = j /\ j + 1 \in rounds /\ j + 1 \in 0 .. n
      BY <1>1
    <3>2. g[j] \in Arrays
      BY <2>2
    <3>3. g[j + 1] = MergeEntry(g[j], incoming[j + 1])
      <4> HIDE DEF n, rounds
      <4> QED BY <1>12, <3>1
    <3>4. g[j + 1] \in Arrays
      BY <1>1, <3>1, <3>2, <3>3, MergeEntryIs
    <3> QED BY <3>1, <3>4
  <2>3. i \in G
    <3>1. i \in Nat
      BY <1>1
    <3> HIDE DEF G
    <3> QED BY <2>1, <2>2, <3>1, PrefixInduction
  <2> QED BY <2>3
<1>14. Merge(array, incoming) = g[n]
  BY <1>1, <1>2 DEF g
<1> QED BY <1>11, <1>12, <1>13, <1>14

\* What the loop keeps: it adds lines that have come only, such a line has
\* the incoming quantity, and none is left out while there is room.
Looped(array, incoming, i, now) ==
  LET come == {incoming[j].line : j \in 1 .. i} IN
  /\ LinesOf(array) \subseteq LinesOf(now)
  /\ LinesOf(now) \subseteq LinesOf(array) \cup come
  /\ \A l : QuantityOf(now, l) = IF l \in come \cap LinesOf(now) THEN QuantityOf(incoming, l)
                                 ELSE QuantityOf(array, l)
  /\ come \subseteq LinesOf(now) \/ Len(now) >= MaxCartItems

LEMMA RoundKeeps ==
  ASSUME NEW array \in Arrays, NEW incoming \in Arrays, NEW now \in Arrays,
         NEW i \in 1 .. Len(incoming), Looped(array, incoming, i - 1, now)
  PROVE  Looped(array, incoming, i, MergeEntry(now, incoming[i]))
<1> DEFINE e == incoming[i]
           new == MergeEntry(now, e)
           before == {incoming[j].line : j \in 1 .. i - 1}
           come == {incoming[j].line : j \in 1 .. i}
           full == ~Has(now, e.line) /\ Len(now) >= MaxCartItems
<1>1. /\ array \in Seq(Entries) /\ Distinct(array) /\ now \in Seq(Entries) /\ Distinct(now)
      /\ incoming \in Seq(Entries) /\ Distinct(incoming)
  BY DEF Arrays
<1>2. i \in DOMAIN incoming /\ e \in Entries /\ DOMAIN incoming = 1 .. Len(incoming)
  BY <1>1
<1>3. come = before \cup {e.line} /\ e.line \notin before
  <2>1. 1 .. i = (1 .. i - 1) \cup {i} /\ \A j \in 1 .. i - 1 : j \in DOMAIN incoming /\ j # i
    BY <1>1, <1>2
  <2>2. come = before \cup {e.line}
    BY <2>1
  <2>3. \A j \in 1 .. i - 1 : incoming[j].line # e.line
    BY <1>1, <1>2, <2>1 DEF Distinct
  <2> QED BY <2>2, <2>3
<1>4. QuantityOf(incoming, e.line) = e.quantity
  BY <1>1, <1>2, FoundAt
<1>5. /\ new \in Arrays
      /\ full => new = now
      /\ ~full => /\ LinesOf(new) = LinesOf(now) \cup {e.line}
                  /\ \A k : QuantityOf(new, k) = IF k = e.line THEN e.quantity ELSE QuantityOf(now, k)
  BY <1>2, MergeEntryIs
<1>6. Has(now, e.line) <=> e.line \in LinesOf(now)
  BY <1>1, FoundAt
<1>7. /\ LinesOf(array) \subseteq LinesOf(now)
      /\ LinesOf(now) \subseteq LinesOf(array) \cup before
      /\ \A l : QuantityOf(now, l) = IF l \in before \cap LinesOf(now) THEN QuantityOf(incoming, l)
                                     ELSE QuantityOf(array, l)
      /\ before \subseteq LinesOf(now) \/ Len(now) >= MaxCartItems
  BY DEF Looped
<1>8. new \in Seq(Entries) /\ Distinct(new) /\ Len(new) \in Nat /\ Len(now) \in Nat
  BY <1>1, <1>5 DEF Arrays
<1> HIDE DEF new, before, come, full, e
<1>9. CASE full
  <2>1. e.line \notin LinesOf(now)
    BY <1>6, <1>9 DEF full
  <2>2. Len(new) >= MaxCartItems
    BY <1>5, <1>9 DEF full
  <2>3. \A l : QuantityOf(new, l) = IF l \in come \cap LinesOf(new) THEN QuantityOf(incoming, l)
                                    ELSE QuantityOf(array, l)
    BY <1>3, <1>5, <1>7, <1>9, <2>1
  <2> QED BY <1>3, <1>5, <1>7, <1>9, <2>2, <2>3 DEF Looped, come, new, e
<1>10. CASE ~full
  <2>1. LinesOf(new) = LinesOf(now) \cup {e.line}
    BY <1>5, <1>10
  <2>2. \A l : QuantityOf(new, l) = IF l \in come \cap LinesOf(new) THEN QuantityOf(incoming, l)
                                    ELSE QuantityOf(array, l)
    BY <1>3, <1>4, <1>5, <1>7, <1>10, <2>1
  <2>3. come \subseteq LinesOf(new) \/ Len(new) >= MaxCartItems
    <3>1. CASE before \subseteq LinesOf(now)
      BY <1>3, <2>1, <3>1
    <3>2. CASE Len(now) >= MaxCartItems
      <4>1. Has(now, e.line)
        BY <1>10, <3>2 DEF full
      <4>2. LinesOf(new) = LinesOf(now)
        BY <1>6, <2>1, <4>1
      <4>3. Len(new) = Cardinality(LinesOf(new)) /\ Len(now) = Cardinality(LinesOf(now))
        BY <1>1, <1>8, EntriesAreLines
      <4> QED BY <3>2, <4>2, <4>3
    <3> QED BY <1>7, <3>1, <3>2
  <2>4. /\ LinesOf(array) \subseteq LinesOf(new)
        /\ LinesOf(new) \subseteq LinesOf(array) \cup come
    BY <1>3, <1>7, <2>1
  <2> QED BY <2>2, <2>3, <2>4 DEF Looped, come, new, e
<1> QED BY <1>9, <1>10

\* The loop reaches one of the outcomes of MergeItems.
LEMMA MergeIs ==
  ASSUME NEW array \in Arrays, NEW incoming \in Arrays
  PROVE  /\ Merge(array, incoming) \in Arrays
         /\ View(Merge(array, incoming)) \in MergeItems(View(array), View(incoming))
<1> DEFINE n == Len(incoming)
           new == Merge(array, incoming)
<1>1. PICK g : /\ g[0] = array
               /\ \A i \in 0 .. n : g[i] \in Arrays
               /\ \A i \in 1 .. n : g[i] = MergeEntry(g[i - 1], incoming[i])
               /\ new = g[n]
  BY MergeIsLoop
<1>2. /\ array \in Seq(Entries) /\ Distinct(array) /\ Len(array) \in Nat
      /\ incoming \in Seq(Entries) /\ Distinct(incoming) /\ n \in Nat
      /\ DOMAIN incoming = 1 .. n
  BY DEF Arrays
<1> HIDE DEF new, n
<1>3. Looped(array, incoming, n, new)
  <2> DEFINE G == {i \in 0 .. n : Looped(array, incoming, i, g[i])}
  <2>1. 0 \in G
    <3>1. {incoming[j].line : j \in 1 .. 0} = {} /\ 0 \in 0 .. n
      BY <1>2
    <3> QED BY <1>1, <3>1 DEF Looped
  <2>2. ASSUME NEW i \in 0 .. n - 1, i \in G PROVE i + 1 \in G
    <3>1. i + 1 \in 1 .. n /\ i + 1 \in 0 .. n /\ (i + 1) - 1 = i /\ i \in 0 .. n
      BY <1>2
    <3>2. g[i + 1] = MergeEntry(g[i], incoming[i + 1]) /\ g[i] \in Arrays
      BY <1>1, <3>1
    <3>3. Looped(array, incoming, i, g[i])
      BY <2>2
    <3>4. Looped(array, incoming, i + 1, g[i + 1])
      BY <3>1, <3>2, <3>3, RoundKeeps DEF n
    <3> QED BY <3>1, <3>4
  <2>3. n \in G
    <3> HIDE DEF G
    <3> QED BY <1>2, <2>1, <2>2, PrefixInduction
  <2> QED BY <1>1, <2>3
<1>4. new \in Arrays /\ new \in Seq(Entries) /\ Distinct(new) /\ Len(new) \in Nat /\ Len(new) <= MaxCartItems
  <2>1. new \in Arrays
    BY <1>1, <1>2
  <2> QED BY <2>1 DEF Arrays
<1> DEFINE old == LinesOf(array)
           come == LinesOf(incoming)
           kept == LinesOf(new) \ old
           items == View(array)
           others == View(incoming)
<1>5. InCart(items) = old /\ InCart(others) = come /\ InCart(View(new)) = LinesOf(new)
  BY <1>2, <1>4, EntriesAreLines
<1>6. /\ IsFiniteSet(LinesOf(new)) /\ Cardinality(LinesOf(new)) = Len(new) /\ LinesOf(new) \subseteq Lines
      /\ old \subseteq Lines /\ come \subseteq Lines
  BY <1>2, <1>4, EntriesAreLines
<1>7. /\ old \subseteq LinesOf(new) /\ LinesOf(new) \subseteq old \cup come
      /\ \A l : QuantityOf(new, l) = IF l \in come \cap LinesOf(new) THEN QuantityOf(incoming, l)
                                     ELSE QuantityOf(array, l)
      /\ come \subseteq LinesOf(new) \/ Len(new) >= MaxCartItems
  <2>1. {incoming[j].line : j \in 1 .. n} = come
    BY <1>2 DEF LinesOf
  <2> QED BY <1>3, <2>1 DEF Looped
<1> DEFINE Fits(more) == Cardinality(InCart(items) \cup more) <= MaxCartItems
           shared == InCart(others) \cap InCart(items)
           fresh == InCart(others) \ InCart(items)
           result == [l \in Lines |-> IF l \in shared \cup kept THEN others[l] ELSE items[l]]
<1>8. kept \in SUBSET fresh /\ Fits(kept)
  <2>1. kept \in SUBSET fresh /\ old \cup kept = LinesOf(new)
    BY <1>5, <1>7
  <2> QED BY <1>4, <1>5, <1>6, <2>1
<1>9. ASSUME NEW l \in fresh \ kept PROVE ~Fits(kept \cup {l})
  <2>1. l \in come /\ l \notin LinesOf(new) /\ old \cup (kept \cup {l}) = LinesOf(new) \cup {l}
    BY <1>5, <1>7
  <2>2. Len(new) >= MaxCartItems
    BY <1>7, <2>1
  <2>3. Cardinality(LinesOf(new) \cup {l}) = Len(new) + 1
    BY <1>6, <2>1, FS_AddElement
  <2>4. ~(Len(new) + 1 <= MaxCartItems)
    BY <1>4, <2>2, CartItemsAssumption
  <2> QED BY <1>5, <2>1, <2>3, <2>4
<1>10. View(new) = result
  <2>1. ASSUME NEW l \in Lines PROVE QuantityOf(new, l) = result[l]
    <3>1. l \in shared \cup kept <=> l \in come \cap LinesOf(new)
      BY <1>5, <1>7
    <3> QED BY <1>7, <3>1 DEF View
  <2> QED BY <2>1 DEF View
<1>11. result \in MergeItems(items, others)
  <2> HIDE DEF kept, items, others
  <2> QED BY <1>8, <1>9 DEF MergeItems
<1> QED BY <1>4, <1>10, <1>11 DEF new

\* Whatever has been added, removed, set, cleared and merged, in any order and
\* for any limit: no line has two entries, the array is as long as the cart has
\* lines, and a merge of any two such arrays is one of those that the model of
\* the cart allows.
THEOREM ArraysMergeAsSpecified == ArraySpec => []LoopMergesAsSpecified
<1>1. ArrayInit => ArrayInv
  BY CartItemsAssumption DEF ArrayInit, ArrayInv, Arrays, Distinct
<1>2. ArrayInv /\ [ArrayNext]_arrays => ArrayInv'
  BY EditsAreArrays, MergeIs DEF ArrayInv, ArrayNext, EditAccount, EditGuest, MergeGuest, arrays
<1>3. ArrayInv => LoopMergesAsSpecified
  <2>1. ASSUME NEW array \in Arrays PROVE Cardinality(InCart(View(array))) = Len(array)
    BY EntriesAreLines DEF Arrays
  <2> QED BY <2>1, MergeIs DEF ArrayInv, LoopMergesAsSpecified
<1> QED BY <1>1, <1>2, <1>3, PTL DEF ArraySpec

=============================================================================
