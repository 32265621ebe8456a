--------------------------- MODULE CatalogueProofs ---------------------------
(***************************************************************************)
(* That inventories stay of one kind and keep their owners.  The argument: *)
(* whatever changes which inventories a product has writes the product     *)
(* too, last, and is refused if another has written the product since the  *)
(* snapshot.  So a transaction that gets to write its product has seen     *)
(* the inventories that are there, even where it read them from outside.   *)
(* Then what an update does to the fields of a product and to markdowns,   *)
(* and that the images it adds have the files that came with it.           *)
(***************************************************************************)
EXTENDS Catalogue, FiniteFolds

\* The product a request is about.
Target(r) == IF command[r].kind = "create" THEN NewProductId(r) ELSE command[r].product

TargetKey(r) == ProductKey(Target(r))

Inventories(r) == InventoriesOf(view[r], Target(r))

\* Nobody has committed the product since the snapshot.
Fresh(r) == TargetKey(r) \notin stale[r]

RootCommand(r) == ChangesRootStock(command[r].inventory)

UpdatePhases == {"drop", "add", "edit", "save"}

JobKinds == {"create", "update", "remove"}

\* Where a request can be, and what it has by then.
Shape(r) ==
  /\ pc[r] \in {"idle", "load", "done"} => r \notin open
  /\ pc[r] \in {"stock", "commit"} \cup UpdatePhases => r \in open
  /\ pc[r] \notin {"idle", "done"} =>
       {"kind", "product", "inventory", "variants"} \subseteq DOMAIN command[r]
  /\ pc[r] \in UpdatePhases => command[r].kind = "update"
  /\ pc[r] \in {"insert", "stock"} => command[r].kind = "create"
  /\ pc[r] \in UpdatePhases \cup {"insert", "stock"} => IsProduct(entity[r])
  /\ r \in open => WellFormed(view[r])

\* A request on the root's inventory neither adds nor edits variants.
NoClash(r) ==
  /\ pc[r] = "drop" => ~KindsClash(command[r])
  /\ pc[r] \in {"add", "edit"} => ~RootCommand(r)

\* A transaction writes no other product, and changes which inventories there
\* are of its own product only.
OwnWrites(r) ==
  \A k \in wrote[r] :
    /\ k[1] = "product" => k = TargetKey(r)
    /\ k[1] = "stock" /\ k[2] # Target(r) => k \in DOMAIN view[r] \cap DOMAIN store

\* Of the inventories it has not written it sees those that are there.
Agree(r) ==
  \A k \in DOMAIN store \cup DOMAIN view[r] :
    k[1] = "stock" /\ k[2] = Target(r) /\ k \notin wrote[r] =>
      k \in DOMAIN store \cap DOMAIN view[r]

\* The inventories it has added are of the kind its command is about.
AddedAsAsked(r) ==
  \A k \in Inventories(r) \ DOMAIN store : k[3] = Root <=> RootCommand(r)

OneKindSeen(r) == \A k, l \in Inventories(r) : k[3] = Root <=> l[3] = Root

OwnersIn(r, product) == \A k \in Inventories(r) : k[3] # Root => k[3] \in DOMAIN product.variants

\* What is not marked is not stored, so it must be as it was read.
VariantsMarked(r) ==
  /\ TargetKey(r) \in DOMAIN view[r]
  /\ "variants" \notin entity[r].marked => entity[r].variants = view[r][TargetKey(r)].variants
  /\ "hasVariants" \notin entity[r].marked => entity[r].hasVariants = view[r][TargetKey(r)].hasVariants

\* An update that may yet be stored.
UpdateSound(r) ==
  pc[r] \in UpdatePhases /\ Fresh(r) =>
    /\ Agree(r)
    /\ AddedAsAsked(r)
    /\ OneKindSeen(r)
    /\ OwnersIn(r, entity[r])
    /\ VariantsMarked(r)

\* An inventory that is being created.
JobSound(r) ==
  /\ job[r].do \in JobKinds => pc[r] \in UpdatePhases /\ {"do", "key", "ready"} \subseteq DOMAIN job[r]
  /\ job[r].do = "create" =>
       /\ job[r].key = StockKey(Target(r), job[r].key[3])
       /\ job[r].key[3] # Root => job[r].key[3] \in DOMAIN entity[r].variants
       /\ job[r].key[3] = Root <=> RootCommand(r)
       /\ job[r].ready /\ Fresh(r) =>
            \A k \in Inventories(r) : k[3] = Root <=> job[r].key[3] = Root

\* A product that is being created has no inventories yet.
CreateSound(r) ==
  /\ pc[r] \in {"insert", "stock"} =>
       DOMAIN entity[r].variants = {<<r, attempt[r], i>> : i \in DOMAIN Listed(command[r].variants)}
  /\ pc[r] = "insert" =>
       /\ wrote[r] = {} /\ entity[r].marked = {}
       /\ r \in open => \A k \in DOMAIN view[r] : k[1] = "stock" => ProductKey(k[2]) \in DOMAIN view[r]
  /\ pc[r] = "stock" =>
       /\ TargetKey(r) \in wrote[r] \cap DOMAIN view[r]
       /\ view[r][TargetKey(r)] = entity[r]
       /\ Inventories(r) = {} /\ InventoriesOf(store, Target(r)) = {}

\* What is about to be committed.
CommitSound(r) ==
  pc[r] = "commit" =>
    /\ TargetKey(r) \in wrote[r] \cap DOMAIN view[r]
    /\ Agree(r)
    /\ OneKindSeen(r)
    /\ OwnersIn(r, view[r][TargetKey(r)])

RequestSound(r) ==
  /\ Shape(r) /\ NoClash(r) /\ OwnWrites(r)
  /\ UpdateSound(r) /\ JobSound(r) /\ CreateSound(r) /\ CommitSound(r)

StoreSound == WellFormed(store) /\ OneKindIn(store) /\ OwnedIn(store)

ByRequest ==
  /\ open \subseteq Requests
  /\ DOMAIN pc = Requests /\ DOMAIN command = Requests /\ DOMAIN attempt = Requests
  /\ DOMAIN entity = Requests /\ DOMAIN at = Requests /\ DOMAIN job = Requests
  /\ DOMAIN view = Requests /\ DOMAIN wrote = Requests /\ DOMAIN stale = Requests

\* The part of it that holds of any transactions.
TransactionsInv ==
  WritersExclude /\ ViewsAreFresh /\ \A r \in Requests \ open : stale[r] = {}

CatalogueInv ==
  ByRequest /\ TransactionsInv /\ StoreSound /\ \A r \in Requests : RequestSound(r)

-----------------------------------------------------------------------------
\* Keys and overlays.

LEMMA Keys ==
  ASSUME NEW p, NEW v
  PROVE  /\ ProductKey(p)[1] = "product" /\ ProductKey(p)[2] = p
         /\ StockKey(p, v)[1] = "stock" /\ StockKey(p, v)[2] = p /\ StockKey(p, v)[3] = v
  BY DEF ProductKey, StockKey

-----------------------------------------------------------------------------
\* Transactions: what every action does to them keeps their invariant.

LEMMA AbortKeeps ==
  ASSUME ByRequest, TransactionsInv, NEW r \in Requests, Abort(r)
  PROVE  TransactionsInv'
  BY DEF ByRequest, TransactionsInv, WritersExclude, ViewsAreFresh, Abort, Close

LEMMA ReadKeeps ==
  ASSUME ByRequest, TransactionsInv, NEW r \in Requests, Read(r)
  PROVE  TransactionsInv'
  BY DEF ByRequest, TransactionsInv, WritersExclude, ViewsAreFresh, Read, Seen

LEMMA WriteKeeps ==
  ASSUME ByRequest, TransactionsInv, NEW r \in Requests, NEW keys, NEW changed,
         Write(r, keys, changed)
  PROVE  TransactionsInv'
<1>1. WritersExclude' /\ \A q \in Requests \ open' : stale'[q] = {}
  BY DEF ByRequest, TransactionsInv, WritersExclude, Write, Free
<1>2. ViewsAreFresh'
  <2> SUFFICES ASSUME NEW q \in open',
                      NEW k \in (DOMAIN store' \cup DOMAIN view'[q]) \ (stale'[q] \cup wrote'[q])
               PROVE  k \in DOMAIN store' \cap DOMAIN view'[q] /\ store'[k] = view'[q][k]
    BY DEF ViewsAreFresh
  <2>1. CASE q # r
    BY <2>1 DEF ByRequest, TransactionsInv, ViewsAreFresh, Write
  <2>2. CASE q = r
    <3>1. /\ view'[r] = Overlaid(Seen(r), keys, changed) /\ store' = store /\ stale' = stale
          /\ wrote'[r] = wrote[r] \cup keys
      BY DEF ByRequest, Write
    <3>a. /\ DOMAIN view'[r] = (DOMAIN Seen(r) \ keys) \cup (DOMAIN changed \cap keys)
          /\ \A l \in DOMAIN view'[r] : view'[r][l] = IF l \in keys THEN changed[l] ELSE Seen(r)[l]
      BY <3>1 DEF Overlaid
    <3>2. k \in (DOMAIN store \cup DOMAIN Seen(r)) \ (stale[r] \cup wrote[r]) /\ k \notin keys
      BY <2>2, <3>1, <3>a
    <3>3. k \in DOMAIN store \cap DOMAIN Seen(r) /\ store[k] = Seen(r)[k]
      BY <3>2 DEF TransactionsInv, ViewsAreFresh, Seen
    <3> QED BY <2>2, <3>1, <3>a, <3>2, <3>3
  <2> QED BY <2>1, <2>2
<1> QED BY <1>1, <1>2 DEF TransactionsInv

LEMMA CommitKeeps ==
  ASSUME ByRequest, TransactionsInv, NEW r \in Requests, Commit(r)
  PROVE  TransactionsInv'
<1>1. WritersExclude' /\ \A q \in Requests \ open' : stale'[q] = {}
  BY DEF ByRequest, TransactionsInv, WritersExclude, Commit, Close
<1>2. ViewsAreFresh'
  <2> SUFFICES ASSUME NEW q \in open',
                      NEW k \in (DOMAIN store' \cup DOMAIN view'[q]) \ (stale'[q] \cup wrote'[q])
               PROVE  k \in DOMAIN store' \cap DOMAIN view'[q] /\ store'[k] = view'[q][k]
    BY DEF ViewsAreFresh
  <2>1. /\ q \in open /\ q # r /\ view'[q] = view[q] /\ wrote'[q] = wrote[q]
        /\ stale'[q] = stale[q] \cup wrote[r]
    BY DEF ByRequest, Commit, Close
  <2>2. /\ DOMAIN store' = (DOMAIN store \ wrote[r]) \cup (DOMAIN view[r] \cap wrote[r])
        /\ \A l \in DOMAIN store' : store'[l] = IF l \in wrote[r] THEN view[r][l] ELSE store[l]
    BY DEF Commit, Overlaid
  <2>3. k \in (DOMAIN store \cup DOMAIN view[q]) \ (stale[q] \cup wrote[q]) /\ k \notin wrote[r]
    BY <2>1, <2>2
  <2> QED BY <2>1, <2>2, <2>3 DEF TransactionsInv, ViewsAreFresh
<1> QED BY <1>1, <1>2 DEF TransactionsInv

-----------------------------------------------------------------------------
\* The methods of a product: what they do to its variants.

\* The method throws, or leaves the variants alone.
Keeps(p, q) == q = Refusal \/ (IsProduct(q) /\ q.variants = p.variants)

LEMMA SequenceOfItsElements ==
  ASSUME NEW S, NEW s \in Seq(S)
  PROVE  s \in Seq(ToSet(s))
<1>1. DOMAIN s = 1 .. Len(s) /\ Len(s) \in Nat /\ s = [i \in 1 .. Len(s) |-> s[i]]
  OBVIOUS
<1>2. \A i \in 1 .. Len(s) : s[i] \in ToSet(s)
  BY <1>1 DEF ToSet
<1>3. s \in [1 .. Len(s) -> ToSet(s)]
  BY <1>1, <1>2
<1> QED BY <1>1, <1>3

\* A price is remembered within the length of the history (Remember of
\* ProductEntity).
LEMMA RememberKeeps ==
  ASSUME NEW history, IsHistory(history), NEW price
  PROVE  IsHistory(Remember(history, price))
<1> DEFINE kept == IF Len(history) < HistoryLength THEN 1 ELSE Len(history) - HistoryLength + 2
           rest == SubSeq(history, kept, Len(history))
           T == ToSet(history) \cup {price}
<1>1. history \in Seq(T) /\ Len(history) \in 0 .. HistoryLength /\ HistoryLength \in Nat \ {0}
  <2>1. history \in Seq(ToSet(history)) /\ Len(history) <= HistoryLength
    BY DEF IsHistory
  <2> HIDE DEF rest, kept
  <2>2. Len(history) \in Nat /\ DOMAIN history = 1 .. Len(history)
        /\ \A i \in 1 .. Len(history) : history[i] \in ToSet(history)
    BY <2>1
  <2> QED BY <2>1, <2>2, ProductEntityAssumption
<1>2. kept \in 1 .. Len(history) + 1 /\ Len(history) + 1 - kept <= HistoryLength - 1
  BY <1>1
<1> HIDE DEF kept, T
<1>3. rest \in Seq(T) /\ Len(rest) = Len(history) + 1 - kept
  BY <1>1, <1>2
<1>4. Remember(history, price) = Append(rest, price) /\ price \in T
  BY DEF Remember, T, kept
<1> HIDE DEF rest
<1>5. Append(rest, price) \in Seq(T) /\ Len(Append(rest, price)) = Len(rest) + 1
  BY <1>3, <1>4
<1>6. Len(Append(rest, price)) <= HistoryLength
  BY <1>1, <1>2, <1>3, <1>5
<1> QED BY <1>4, <1>5, <1>6, SequenceOfItsElements DEF IsHistory

LEMMA RepricedKeeps ==
  ASSUME NEW p, IsProduct(p), NEW price, NEW original
  PROVE  IsProduct(Repriced(p, price, original)) /\ Repriced(p, price, original).variants = p.variants
<1> DEFINE q == Repriced(p, price, original)
<1>1. /\ DOMAIN q = DOMAIN p /\ q.variants = p.variants /\ q.hasVariants = p.hasVariants
      /\ q.priceHistory = Remember(p.priceHistory, price)
  BY DEF IsProduct, ProductKeys, Repriced, Marking
<1>2. IsHistory(q.priceHistory)
  BY <1>1, RememberKeeps DEF IsProduct, ProductKeys
<1> HIDE DEF q
<1>3. IsProduct(q)
  BY <1>1, <1>2 DEF IsProduct, ProductKeys
<1> QED BY <1>1, <1>3 DEF q

LEMMA UpdatePriceKeeps ==
  ASSUME NEW p, IsProduct(p), NEW change
  PROVE  Keeps(p, UpdatePrice(p, change))
<1> DEFINE price == Merged(p.price, change)
           q == Marking([p EXCEPT !.price = price], {"price"})
<1>1. IsProduct(q) /\ q.variants = p.variants
  BY DEF IsProduct, ProductKeys, Marking
<1>2. UpdatePrice(p, change) \in {Refusal, q}
  BY DEF UpdatePrice
<1> QED BY <1>1, <1>2 DEF Keeps

LEMMA MarkdownsKeep ==
  ASSUME NEW p, IsProduct(p), NEW original, NEW sale
  PROVE  Keeps(p, ApplyMarkdown(p, original, sale)) /\ Keeps(p, RemoveMarkdown(p))
  BY RepricedKeeps DEF Keeps, ApplyMarkdown, RemoveMarkdown

LEMMA PricingKeeps ==
  ASSUME NEW p, IsProduct(p), NEW changes
  PROVE  Keeps(p, Pricing(p, changes))
<1> DEFINE restored == RemoveMarkdown(p)
           sale == IF Has(changes, "price") THEN Merged(p.price, changes.price) ELSE p.price
<1>1. Keeps(p, p) /\ Keeps(p, Refusal)
  BY DEF Keeps
<1>2. Keeps(p, UpdatePrice(p, changes.price)) /\ Keeps(p, restored)
      /\ Keeps(p, ApplyMarkdown(p, changes.compareAtPrice, sale))
  BY UpdatePriceKeeps, MarkdownsKeep
<1>3. restored # Refusal => Keeps(p, UpdatePrice(restored, changes.price))
  <2> SUFFICES ASSUME restored # Refusal PROVE Keeps(p, UpdatePrice(restored, changes.price))
    OBVIOUS
  <2>1. IsProduct(restored) /\ restored.variants = p.variants
    BY <1>2 DEF Keeps
  <2>2. Keeps(restored, UpdatePrice(restored, changes.price))
    BY <2>1, UpdatePriceKeeps
  <2> QED BY <2>1, <2>2 DEF Keeps
<1> QED BY <1>1, <1>2, <1>3 DEF Pricing

LEMMA NamingKeeps ==
  ASSUME NEW p, IsProduct(p), NEW changes
  PROVE  Keeps(p, Naming(p, changes))
<1> DEFINE q == Marking([p EXCEPT !.name = changes.name], {"name", "slug"})
<1>1. IsProduct(q) /\ q.variants = p.variants
  BY DEF IsProduct, ProductKeys, Marking
<1>2. Naming(p, changes) \in {p, Refusal, q}
  BY DEF Naming
<1> QED BY <1>1, <1>2 DEF Keeps

LEMMA SettingKeeps ==
  ASSUME NEW p, IsProduct(p), NEW changes
  PROVE  Keeps(p, Setting(p, changes))
<1>1. \A value, keys : LET q == Marking([p EXCEPT !.fields = value], keys) IN
        IsProduct(q) /\ q.variants = p.variants
  BY DEF IsProduct, ProductKeys, Marking
<1>2. Setting(p, changes) = Refusal
      \/ \E value, keys : Setting(p, changes) = Marking([p EXCEPT !.fields = value], keys)
  BY Zenon DEF Setting
<1> QED BY <1>1, <1>2 DEF Keeps

LEMMA UpdateMultipleKeeps ==
  ASSUME NEW p, IsProduct(p), NEW changes
  PROVE  Keeps(p, UpdateMultiple(p, changes))
<1> DEFINE named == Naming(p, changes)
           set == Setting(named, changes)
<1>1. Keeps(p, Refusal) /\ Keeps(p, named)
  BY NamingKeeps DEF Keeps
<1>2. CASE named = Refusal
  BY <1>1, <1>2 DEF UpdateMultiple
<1>3. CASE named # Refusal
  <2>1. IsProduct(named) /\ named.variants = p.variants
    BY <1>1, <1>3 DEF Keeps
  <2>2. Keeps(named, set)
    BY <2>1, SettingKeeps
  <2>3. CASE set = Refusal
    BY <1>1, <1>3, <2>3 DEF UpdateMultiple
  <2>4. CASE set # Refusal
    <3>1. IsProduct(set) /\ set.variants = p.variants
      BY <2>1, <2>2, <2>4 DEF Keeps
    <3>2. Keeps(set, Pricing(set, changes))
      BY <3>1, PricingKeeps
    <3>3. UpdateMultiple(p, changes) = Pricing(set, changes)
      BY <1>3, <2>4 DEF UpdateMultiple
    <3> QED BY <3>1, <3>2, <3>3 DEF Keeps
  <2> QED BY <2>3, <2>4
<1> QED BY <1>2, <1>3

LEMMA ArrangeRootKeeps ==
  ASSUME NEW p, IsProduct(p), NEW added, NEW removed, NEW order
  PROVE  Keeps(p, ArrangeRoot(p, added, removed, order))
<1> DEFINE images == Rearranged(p.images, added, removed)
           q == Marking([p EXCEPT !.images = InOrder(images, order)], {"images"})
<1>1. IsProduct(q) /\ q.variants = p.variants
  BY DEF IsProduct, ProductKeys, Marking
<1>2. ArrangeRoot(p, added, removed, order) \in {Refusal, q}
  BY DEF ArrangeRoot
<1> QED BY <1>1, <1>2 DEF Keeps

\* What the constructor makes of variants and history.
NewKeeps(props, p) ==
  /\ ProductKeys \subseteq DOMAIN p
  /\ p.variants = props.variants /\ p.priceHistory = props.priceHistory /\ p.marked = {}
  /\ p.hasVariants = (DOMAIN p.variants # {})

LEMMA NewIsMade ==
  ASSUME NEW props, ProductKeys \ {"hasVariants", "marked"} \subseteq DOMAIN props
  PROVE  NewKeeps(props, New(props))
<1> DEFINE more == [hasVariants |-> DOMAIN props.variants # {}, marked |-> {}]
<1>1. DOMAIN more = {"hasVariants", "marked"} /\ more.marked = {}
  OBVIOUS
<1>2. more.hasVariants = (DOMAIN props.variants # {})
  OBVIOUS
<1>3. New(props) = [key \in DOMAIN props \cup DOMAIN more |->
                      IF key \in DOMAIN more THEN more[key]
                      ELSE IF key = "fields"
                      THEN [f \in Fields |-> IF f = "productOptions" THEN Undefined ELSE props[key][f]]
                      ELSE props[key]]
  BY DEF New
<1> HIDE DEF more
<1>4. /\ ProductKeys \subseteq DOMAIN New(props)
      /\ New(props).variants = props.variants /\ New(props).priceHistory = props.priceHistory
      /\ New(props).marked = more.marked /\ New(props).hasVariants = more.hasVariants
  BY <1>1, <1>3 DEF ProductKeys
<1> QED BY <1>1, <1>2, <1>4 DEF NewKeeps

LEMMA EntityIsProduct ==
  ASSUME NEW doc, IsProduct(doc)
  PROVE  IsProduct(Entity(doc)) /\ Entity(doc).variants = doc.variants
<1> DEFINE props == [key \in DOMAIN doc \ {"hasVariants", "marked"} |-> doc[key]]
<1>1. /\ ProductKeys \ {"hasVariants", "marked"} \subseteq DOMAIN props
      /\ props.variants = doc.variants /\ props.priceHistory = doc.priceHistory
  BY DEF IsProduct, ProductKeys
<1>2. Entity(doc) = New(props)
  BY DEF Entity
<1> HIDE DEF props
<1>3. NewKeeps(props, New(props))
  BY <1>1, NewIsMade
<1> QED BY <1>1, <1>2, <1>3 DEF IsProduct, ProductKeys, NewKeeps

\* Up to the first operation on an inventory the variants are those read.
LEMMA PreparedKeeps ==
  ASSUME NEW r, NEW doc, IsProduct(doc),
         {"kind", "product", "inventory", "variants"} \subseteq DOMAIN command[r]
  PROVE  /\ Keeps(doc, Prepared(r, doc).product)
         /\ {"kind", "product", "inventory", "variants"} \subseteq DOMAIN Prepared(r, doc).command
         /\ \A f \in {"kind", "product", "inventory", "variants"} :
              Prepared(r, doc).command[f] = command[r][f]
<1> DEFINE cmd == command[r]
           updated == IF cmd.domain = Undefined THEN Entity(doc)
                      ELSE UpdateMultiple(Entity(doc), cmd.domain)
<1>1. Keeps(doc, updated) /\ Keeps(doc, Refusal)
  BY EntityIsProduct, UpdateMultipleKeeps DEF Keeps
<1>2. CASE updated = Refusal \/ ~TouchesRootImages(cmd)
  <2>1. Prepared(r, doc) = [product |-> updated, command |-> cmd]
    BY <1>2 DEF Prepared
  <2> QED BY <1>1, <2>1
<1>3. CASE updated # Refusal /\ TouchesRootImages(cmd) /\ cmd.images.order = Undefined
  <2>1. Prepared(r, doc) = [product |-> Refusal, command |-> cmd]
    BY <1>3 DEF Prepared
  <2> QED BY <1>1, <2>1
<1>4. CASE updated # Refusal /\ TouchesRootImages(cmd) /\ cmd.images.order # Undefined
  <2> DEFINE adds == Listed(cmd.images.add)
             ids == [i \in DOMAIN adds |-> <<r, attempt[r], i>>]
             order == Renamed(cmd.images.order, adds, ids)
             product == ArrangeRoot(updated, WithIds(adds, ids), ToSet(Listed(cmd.images.remove)), order)
             new == [cmd EXCEPT !.images.order = order]
  <2>1. Prepared(r, doc) = [product |-> product, command |-> new]
    BY <1>4 DEF Prepared
  <2>2. Keeps(updated, product) /\ updated.variants = doc.variants
    BY <1>1, <1>4, ArrangeRootKeeps DEF Keeps
  <2>3. \A o : LET c == [cmd EXCEPT !.images.order = o] IN
          /\ DOMAIN c = DOMAIN cmd
          /\ \A f \in {"kind", "product", "inventory", "variants"} : c[f] = cmd[f]
    OBVIOUS
  <2>4. Keeps(doc, product)
    BY <2>2 DEF Keeps
  <2> HIDE DEF product, order
  <2> QED BY <2>1, <2>3, <2>4
<1> QED BY <1>2, <1>3, <1>4

\* The mark of hasVariants stays, and comes with every change of it.
FlagMarked(p, q) ==
  "hasVariants" \notin q.marked => "hasVariants" \notin p.marked /\ q.hasVariants = p.hasVariants

LEMMA RemoveVariantsRemoves ==
  ASSUME NEW p, IsProduct(p), NEW ids, RemoveVariants(p, ids) # Refusal
  PROVE  LET q == RemoveVariants(p, ids) IN
         /\ IsProduct(q) /\ DOMAIN q.variants = DOMAIN p.variants \ ids
         /\ "variants" \in q.marked /\ FlagMarked(p, q)
<1> DEFINE kept == [w \in DOMAIN p.variants \ ids |-> p.variants[w]]
           q == Marking([p EXCEPT !.variants = kept, !.hasVariants = DOMAIN p.variants # ids],
                        {"variants", "hasVariants"})
<1>1. RemoveVariants(p, ids) = q
  BY DEF RemoveVariants
<1>2. DOMAIN kept = DOMAIN p.variants \ ids /\ ids \subseteq DOMAIN p.variants
  BY DEF RemoveVariants
<1> HIDE DEF kept
<1>3. (DOMAIN p.variants # ids) = (DOMAIN kept # {})
  BY <1>2
<1>4. /\ DOMAIN q = DOMAIN p /\ q.variants = kept /\ q.priceHistory = p.priceHistory
      /\ {"variants", "hasVariants"} \subseteq q.marked /\ q.hasVariants = (DOMAIN p.variants # ids)
  BY DEF IsProduct, ProductKeys, Marking
<1>5. IsProduct(q)
  BY <1>2, <1>3, <1>4 DEF IsProduct, ProductKeys
<1> QED BY <1>1, <1>2, <1>4, <1>5 DEF FlagMarked

LEMMA AddVariantAdds ==
  ASSUME NEW p, IsProduct(p), NEW id, id # Root, NEW v, AddVariant(p, id, v) # Refusal
  PROVE  LET q == AddVariant(p, id, v) IN
         /\ IsProduct(q) /\ DOMAIN q.variants = DOMAIN p.variants \cup {id}
         /\ "variants" \in q.marked /\ FlagMarked(p, q)
<1> DEFINE more == [w \in DOMAIN p.variants \cup {id} |-> IF w = id THEN v ELSE p.variants[w]]
           q == Marking([p EXCEPT !.variants = more, !.hasVariants = TRUE], {"variants", "hasVariants"})
<1>1. AddVariant(p, id, v) = q
  BY DEF AddVariant
<1>2. DOMAIN more = DOMAIN p.variants \cup {id}
  OBVIOUS
<1> HIDE DEF more
<1>3. IsProduct(q) /\ q.variants = more /\ {"variants", "hasVariants"} \subseteq q.marked
  BY <1>2 DEF IsProduct, ProductKeys, Marking
<1> QED BY <1>1, <1>2, <1>3 DEF FlagMarked

LEMMA UpdateVariantKeeps ==
  ASSUME NEW p, IsProduct(p), NEW id, NEW options, NEW added, NEW removed, NEW order,
         UpdateVariant(p, id, options, added, removed, order) # Refusal
  PROVE  LET q == UpdateVariant(p, id, options, added, removed, order) IN
         /\ IsProduct(q) /\ DOMAIN q.variants = DOMAIN p.variants
         /\ "variants" \in q.marked /\ FlagMarked(p, q)
<1>1. \A x : LET q == Marking([p EXCEPT !.variants[id] = x], {"variants"}) IN
        /\ IsProduct(q) /\ DOMAIN q.variants = DOMAIN p.variants
        /\ "variants" \in q.marked /\ FlagMarked(p, q)
  BY DEF IsProduct, ProductKeys, Marking, FlagMarked
<1>2. \E x : UpdateVariant(p, id, options, added, removed, order)
               = Marking([p EXCEPT !.variants[id] = x], {"variants"})
  BY Zenon DEF UpdateVariant
<1> QED BY <1>1, <1>2

\* References of variants are not the root's.
LEMMA IdsAreNotRoot ==
  ASSUME NEW x, NEW y, NEW z
  PROVE  <<x, y, z>> # Root
  BY DEF Root

LEMMA NewProductIsProduct ==
  ASSUME NEW r
  PROVE  /\ IsProduct(NewProduct(r)) /\ NewProduct(r).marked = {}
         /\ DOMAIN NewProduct(r).variants = {<<r, attempt[r], i>> : i \in DOMAIN Listed(command[r].variants)}
<1> DEFINE variants == VariantsOf(r, Listed(command[r].variants))
<1>1. DOMAIN variants = {<<r, attempt[r], i>> : i \in DOMAIN Listed(command[r].variants)}
  BY DEF VariantsOf
<1>2. Root \notin DOMAIN variants
  BY <1>1, IdsAreNotRoot
<1> HIDE DEF variants
<1> DEFINE cmd == command[r]
           draft == cmd.product
           images == Listed(cmd.images)
           props == [sku |-> SkuOf(draft.sku), name |-> draft.name, price |-> draft.price,
                     compareAtPrice |-> Undefined, priceHistory |-> <<>>, status |-> "draft",
                     fields |-> draft.fields,
                     images |-> [i \in DOMAIN images |-> [id |-> <<r, attempt[r], i>>, url |-> images[i]]],
                     variants |-> variants]
<1>3. /\ NewProduct(r) = New(props)
      /\ ProductKeys \ {"hasVariants", "marked"} \subseteq DOMAIN props
      /\ props.variants = variants /\ props.priceHistory = <<>>
  BY DEF NewProduct, variants, ProductKeys
<1> HIDE DEF props
<1>4. NewKeeps(props, NewProduct(r))
  BY <1>3, NewIsMade
<1>5. IsHistory(<<>>)
  BY ProductEntityAssumption DEF IsHistory
<1> QED BY <1>1, <1>2, <1>3, <1>4, <1>5 DEF IsProduct, ProductKeys, NewKeeps

\* What is stored has the variants of the product, or those there were.
LEMMA StoredVariants ==
  ASSUME NEW doc, IsProduct(doc), NEW p, IsProduct(p),
         "variants" \notin p.marked => p.variants = doc.variants,
         "hasVariants" \notin p.marked => p.hasVariants = doc.hasVariants
  PROVE  /\ IsProduct(Stored(doc, p)) /\ Stored(doc, p).variants = p.variants
         /\ Stored(doc, p).marked = doc.marked
<1> DEFINE q == Stored(doc, p)
<1>1. /\ DOMAIN q = DOMAIN doc /\ q.variants = p.variants /\ q.marked = doc.marked
      /\ q.priceHistory \in {p.priceHistory, doc.priceHistory}
      /\ q.hasVariants = IF "hasVariants" \in p.marked THEN p.hasVariants ELSE doc.hasVariants
  BY DEF Stored, IsProduct, ProductKeys
<1> HIDE DEF q
<1>2. q.hasVariants = p.hasVariants
  BY <1>1 DEF IsProduct, ProductKeys
<1>3. IsProduct(q)
  BY <1>1, <1>2 DEF IsProduct, ProductKeys
<1> QED BY <1>1, <1>3 DEF q

-----------------------------------------------------------------------------
\* Steps of one request, and the others.

\* The requests other than r stay where they are.
OthersWait(r) ==
  /\ DOMAIN pc' = Requests /\ DOMAIN command' = Requests /\ DOMAIN attempt' = Requests
  /\ DOMAIN entity' = Requests /\ DOMAIN at' = Requests /\ DOMAIN job' = Requests
  /\ \A q \in Requests \ {r} :
       /\ pc'[q] = pc[q] /\ command'[q] = command[q] /\ attempt'[q] = attempt[q]
       /\ entity'[q] = entity[q] /\ job'[q] = job[q]

\* A transaction has ended without a commit.
Ends(r) ==
  /\ Abort(r)
  /\ pc'[r] = "done" \/ (pc'[r] = "load" /\ pc[r] \notin {"idle", "done"})
  /\ command'[r] = command[r] /\ job'[r] = NoJob
  /\ OthersWait(r)

LEMMA RefuseEnds ==
  ASSUME ByRequest, NEW r \in Requests, Refuse(r)
  PROVE  Ends(r)
<1>1. Abort(r)
  BY DEF Refuse
<1>2. pc'[r] = "done" /\ command'[r] = command[r] /\ job'[r] = NoJob
  BY DEF ByRequest, Refuse, Answer, Goto, Forget
<1>3. OthersWait(r)
  BY DEF ByRequest, Refuse, Answer, Goto, Forget, OthersWait
<1> QED BY <1>1, <1>2, <1>3 DEF Ends

LEMMA RunAgainEnds ==
  ASSUME ByRequest, NEW r \in Requests, pc[r] \notin {"idle", "done"}, RunAgain(r)
  PROVE  Ends(r)
<1>1. CASE attempt[r] < MaxAttempts
  BY <1>1 DEF ByRequest, RunAgain, Goto, Forget, Ends, OthersWait
<1>2. CASE ~(attempt[r] < MaxAttempts)
  BY <1>2 DEF ByRequest, RunAgain, Answer, Goto, Forget, Ends, OthersWait
<1> QED BY <1>1, <1>2

LEMMA ConflictEnds ==
  ASSUME ByRequest, NEW r \in Requests, NEW keys, pc[r] \notin {"idle", "done"}, Conflict(r, keys)
  PROVE  Ends(r)
  BY RunAgainEnds DEF Conflict

\* What a step of another request leaves of a request.
Unmoved(q) ==
  /\ pc'[q] = pc[q] /\ command'[q] = command[q] /\ attempt'[q] = attempt[q]
  /\ entity'[q] = entity[q] /\ job'[q] = job[q]
  /\ view'[q] = view[q] /\ wrote'[q] = wrote[q] /\ (q \in open' <=> q \in open)

LEMMA UnmovedTerms ==
  ASSUME NEW q \in Requests, Unmoved(q)
  PROVE  /\ Target(q)' = Target(q) /\ TargetKey(q)' = TargetKey(q)
         /\ Inventories(q)' = Inventories(q) /\ RootCommand(q)' = RootCommand(q)
  BY DEF Unmoved, Target, TargetKey, Inventories, RootCommand, NewProductId, ProductKey,
         InventoriesOf, ChangesRootStock

\* What of it does not depend on what is committed.
LEMMA UnmovedKeeps ==
  ASSUME NEW q \in Requests, Unmoved(q), Shape(q), NoClash(q)
  PROVE  Shape(q)' /\ NoClash(q)'
<1>1. Shape(q)'
  BY DEF Unmoved, Shape, IsProduct, ProductKeys, WellFormed, StockKey, Root
<1>2. NoClash(q)'
  BY UnmovedTerms DEF Unmoved, NoClash, KindsClash, ChangesRootStock, HasChanges
<1> QED BY <1>1, <1>2

LEMMA StoreKept ==
  ASSUME StoreSound, store' = store
  PROVE  StoreSound'
<1>1. WellFormed(store')
  BY DEF StoreSound
<1>2. WellFormed(store)'
  BY <1>1 DEF WellFormed, IsProduct, ProductKeys, IsHistory, ToSet, StockKey, Root
<1>3. OneKindIn(store)' /\ OwnedIn(store)'
  BY DEF StoreSound, OneKindIn, OwnedIn, OtherKindIn, InventoriesOf, ProductKey, Root
<1> QED BY <1>2, <1>3 DEF StoreSound

LEMMA UnmovedSound ==
  ASSUME NEW q \in Requests, Unmoved(q), store' = store, stale'[q] = stale[q], RequestSound(q)
  PROVE  RequestSound(q)'
<1> USE DEF RequestSound
<1>1. Shape(q)' /\ NoClash(q)'
  BY UnmovedKeeps
<1>2. OwnWrites(q)'
  BY UnmovedTerms DEF Unmoved, OwnWrites
<1>3. Fresh(q)' = Fresh(q) /\ Agree(q)' = Agree(q) /\ OneKindSeen(q)' = OneKindSeen(q)
      /\ AddedAsAsked(q)' = AddedAsAsked(q)
  BY UnmovedTerms DEF Unmoved, Fresh, Agree, OneKindSeen, AddedAsAsked, Root
<1>4. UpdateSound(q)'
  BY <1>3, UnmovedTerms DEF Unmoved, UpdateSound, OwnersIn, VariantsMarked, Root
<1>5. JobSound(q)'
  BY <1>3, UnmovedTerms DEF Unmoved, JobSound, Root, StockKey
<1>6. CreateSound(q)'
  BY UnmovedTerms DEF Unmoved, CreateSound, InventoriesOf, ProductKey, Listed
<1>7. CommitSound(q)'
  BY <1>3, UnmovedTerms DEF Unmoved, CommitSound, OwnersIn, Root
<1> QED BY <1>1, <1>2, <1>4, <1>5, <1>6, <1>7

LEMMA NoJobDoesNothing == NoJob.do = "nothing"
  BY DEF NoJob

\* A request outside a transaction has nothing to keep.
LEMMA OutsideSound ==
  ASSUME NEW r \in Requests, r \notin open', wrote'[r] = {}, pc'[r] \in {"idle", "load", "done"},
         pc'[r] = "load" => {"kind", "product", "inventory", "variants"} \subseteq DOMAIN command'[r],
         job'[r].do \notin JobKinds
  PROVE  RequestSound(r)'
<1>1. Shape(r)' /\ OwnWrites(r)' /\ NoClash(r)'
  BY DEF Shape, OwnWrites, NoClash, UpdatePhases
<1>2. UpdateSound(r)' /\ JobSound(r)' /\ CreateSound(r)' /\ CommitSound(r)'
  BY DEF UpdateSound, JobSound, CreateSound, CommitSound, UpdatePhases, JobKinds
<1> QED BY <1>1, <1>2 DEF RequestSound

LEMMA EndedSound ==
  ASSUME ByRequest, NEW r \in Requests, Ends(r), Shape(r)
  PROVE  RequestSound(r)'
<1>1. r \notin open' /\ wrote'[r] = {}
  BY DEF ByRequest, Ends, Abort, Close
<1>2. pc'[r] \in {"done", "load"} /\ job'[r].do \notin JobKinds
  BY NoJobDoesNothing DEF Ends, JobKinds
<1>3. pc'[r] = "load" => {"kind", "product", "inventory", "variants"} \subseteq DOMAIN command'[r]
  BY DEF Ends, Shape
<1> QED BY <1>1, <1>2, <1>3, OutsideSound

LEMMA EndsKeeps ==
  ASSUME CatalogueInv, NEW r \in Requests, Ends(r)
  PROVE  CatalogueInv'
<1> USE DEF CatalogueInv
<1>1. ByRequest'
  BY DEF ByRequest, Ends, Abort, Close, OthersWait
<1>2. TransactionsInv'
  BY AbortKeeps DEF Ends
<1>3. StoreSound'
  BY StoreKept DEF Ends, Abort
<1>4. RequestSound(r)'
  BY EndedSound DEF RequestSound
<1>5. ASSUME NEW q \in Requests \ {r} PROVE RequestSound(q)'
  <2>1. Unmoved(q) /\ store' = store /\ stale'[q] = stale[q]
    BY DEF Ends, Abort, Close, OthersWait, Unmoved, ByRequest
  <2> QED BY <2>1, UnmovedSound
<1> QED BY <1>1, <1>2, <1>3, <1>4, <1>5

\* What a step does to the transactions if it does not end one.
Works(r) ==
  \/ UNCHANGED txns
  \/ Read(r)
  \/ \E keys, changed : Write(r, keys, changed)

LEMMA WorkKeeps ==
  ASSUME CatalogueInv, NEW r \in Requests, Works(r), OthersWait(r), RequestSound(r)'
  PROVE  CatalogueInv'
<1> USE DEF CatalogueInv
<1>1. /\ store' = store /\ stale' = stale
      /\ \A q \in Requests \ {r} : view'[q] = view[q] /\ wrote'[q] = wrote[q] /\ (q \in open' <=> q \in open)
      /\ open' \subseteq Requests
      /\ DOMAIN view' = Requests /\ DOMAIN wrote' = Requests
  BY DEF ByRequest, Works, Read, Write, txns
<1>2. ByRequest'
  BY <1>1 DEF ByRequest, OthersWait
<1>3. TransactionsInv'
  <2>1. CASE UNCHANGED txns
    BY <2>1 DEF txns, TransactionsInv, WritersExclude, ViewsAreFresh
  <2>2. CASE Read(r)
    BY <2>2, ReadKeeps
  <2>3. CASE \E keys, changed : Write(r, keys, changed)
    BY <2>3, WriteKeeps
  <2> QED BY <2>1, <2>2, <2>3 DEF Works
<1>4. StoreSound'
  BY <1>1, StoreKept
<1>5. ASSUME NEW q \in Requests \ {r} PROVE RequestSound(q)'
  <2>1. Unmoved(q) /\ store' = store /\ stale'[q] = stale[q]
    BY <1>1 DEF OthersWait, Unmoved
  <2> QED BY <2>1, UnmovedSound
<1> QED BY <1>2, <1>3, <1>4, <1>5

-----------------------------------------------------------------------------
\* Commits.

\* What a commit makes of the keys: the transaction's view of its own
\* product, and what there was of the others.
LEMMA CommittedKeys ==
  ASSUME CatalogueInv, NEW r \in Requests, pc[r] = "commit", Commit(r)
  PROVE  /\ \A k \in DOMAIN store' :
              \/ k \in wrote[r] \cap DOMAIN view[r] /\ store'[k] = view[r][k]
              \/ k \in DOMAIN store \ wrote[r] /\ store'[k] = store[k]
         /\ \A k : k[1] = "stock" /\ k[2] # Target(r) => (k \in DOMAIN store' <=> k \in DOMAIN store)
         /\ \A k : k[1] = "stock" /\ k[2] = Target(r) => (k \in DOMAIN store' <=> k \in DOMAIN view[r])
         /\ \A k \in DOMAIN store :
              k[1] = "product" /\ k # TargetKey(r) => k \in DOMAIN store' /\ store'[k] = store[k]
         /\ TargetKey(r) \in DOMAIN store' /\ store'[TargetKey(r)] = view[r][TargetKey(r)]
         /\ \A k \in DOMAIN store : k \notin wrote[r] => k \in DOMAIN store'
<1>1. OwnWrites(r) /\ CommitSound(r)
  BY DEF CatalogueInv, RequestSound
<1>2. /\ DOMAIN store' = (DOMAIN store \ wrote[r]) \cup (DOMAIN view[r] \cap wrote[r])
      /\ \A k \in DOMAIN store' : store'[k] = IF k \in wrote[r] THEN view[r][k] ELSE store[k]
  BY DEF Commit, Overlaid
<1>3. \A k : k[1] = "stock" /\ k[2] # Target(r) => (k \in DOMAIN store' <=> k \in DOMAIN store)
  BY <1>1, <1>2 DEF OwnWrites
<1>4. \A k : k[1] = "stock" /\ k[2] = Target(r) => (k \in DOMAIN store' <=> k \in DOMAIN view[r])
  BY <1>1, <1>2 DEF CommitSound, Agree
<1>5. TargetKey(r) \in wrote[r] \cap DOMAIN view[r]
  BY <1>1 DEF CommitSound
<1>6. \A k \in DOMAIN store :
        k[1] = "product" /\ k # TargetKey(r) => k \in DOMAIN store' /\ store'[k] = store[k]
  BY <1>1, <1>2 DEF OwnWrites
<1> QED BY <1>2, <1>3, <1>4, <1>5, <1>6

LEMMA CommitStoreSound ==
  ASSUME CatalogueInv, NEW r \in Requests, pc[r] = "commit", Commit(r)
  PROVE  StoreSound'
<1>1. StoreSound /\ Shape(r) /\ CommitSound(r)
  BY DEF CatalogueInv, RequestSound
<1>2. WellFormed(store')
  <2>1. WellFormed(store) /\ WellFormed(view[r])
    BY <1>1 DEF StoreSound, Shape
  <2> QED BY <2>1, CommittedKeys DEF WellFormed
<1>3. OneKindIn(store')
  <2> SUFFICES ASSUME NEW k \in DOMAIN store', k[1] = "stock",
                      NEW l \in InventoriesOf(store', k[2])
               PROVE  k[3] = Root <=> l[3] = Root
    BY DEF OneKindIn, OtherKindIn
  <2>1. l \in DOMAIN store' /\ l[1] = "stock" /\ l[2] = k[2]
    BY DEF InventoriesOf
  <2>2. CASE k[2] = Target(r)
    <3>1. k \in Inventories(r) /\ l \in Inventories(r)
      BY <2>1, <2>2, CommittedKeys DEF Inventories, InventoriesOf
    <3> QED BY <1>1, <3>1 DEF CommitSound, OneKindSeen
  <2>3. CASE k[2] # Target(r)
    <3>1. k \in DOMAIN store /\ l \in InventoriesOf(store, k[2])
      BY <2>1, <2>3, CommittedKeys DEF InventoriesOf
    <3> QED BY <1>1, <3>1 DEF StoreSound, OneKindIn, OtherKindIn
  <2> QED BY <2>2, <2>3
<1>4. OwnedIn(store')
  <2> SUFFICES ASSUME NEW k \in DOMAIN store', k[1] = "stock"
               PROVE  /\ ProductKey(k[2]) \in DOMAIN store'
                      /\ k[3] # Root => k[3] \in DOMAIN store'[ProductKey(k[2])].variants
    BY DEF OwnedIn
  <2>2. CASE k[2] = Target(r)
    <3>1. k \in Inventories(r)
      BY <2>2, CommittedKeys DEF Inventories, InventoriesOf
    <3>2. k[3] # Root => k[3] \in DOMAIN view[r][TargetKey(r)].variants
      BY <1>1, <3>1 DEF CommitSound, OwnersIn
    <3>3. ProductKey(k[2]) = TargetKey(r)
      BY <2>2 DEF TargetKey
    <3> QED BY <3>2, <3>3, CommittedKeys
  <2>3. CASE k[2] # Target(r)
    <3>1. k \in DOMAIN store
      BY <2>3, CommittedKeys
    <3>2. /\ ProductKey(k[2]) \in DOMAIN store
          /\ k[3] # Root => k[3] \in DOMAIN store[ProductKey(k[2])].variants
      BY <1>1, <3>1 DEF StoreSound, OwnedIn
    <3>3. ProductKey(k[2])[1] = "product" /\ ProductKey(k[2]) # TargetKey(r)
      BY <2>3, Keys DEF TargetKey
    <3> QED BY <3>2, <3>3, CommittedKeys
  <2> QED BY <2>2, <2>3
<1> QED BY <1>2, <1>3, <1>4 DEF StoreSound

\* A transaction that another's commit leaves fresh is about another product.
LEMMA CommitOthersSound ==
  ASSUME CatalogueInv, NEW r \in Requests, pc[r] = "commit", Commit(r),
         NEW q \in Requests \ {r}, Unmoved(q)
  PROVE  RequestSound(q)'
<1>1. RequestSound(q) /\ CommitSound(r) /\ WritersExclude /\ r \in open /\ (q \notin open => stale[q] = {})
  BY DEF CatalogueInv, RequestSound, Shape, TransactionsInv
<1> USE DEF RequestSound
<1>2. Shape(q)' /\ NoClash(q)'
  BY <1>1, UnmovedKeeps
<1>3. TargetKey(r) \in wrote[r] /\ wrote[q] \cap wrote[r] = {}
  BY <1>1 DEF CommitSound, WritersExclude
<1>4. OwnWrites(q)'
  <2> SUFFICES ASSUME NEW k \in wrote'[q]
               PROVE  /\ k[1] = "product" => k = TargetKey(q)
                      /\ k[1] = "stock" /\ k[2] # Target(q) => k \in DOMAIN view[q] \cap DOMAIN store'
    BY UnmovedTerms DEF OwnWrites, Unmoved
  <2>1. k \in wrote[q] /\ k \notin wrote[r]
    BY <1>3 DEF Unmoved
  <2> QED BY <1>1, <2>1, CommittedKeys DEF OwnWrites
<1>5. ASSUME Target(q) # Target(r)
      PROVE  /\ Agree(q) => Agree(q)'
             /\ AddedAsAsked(q) => AddedAsAsked(q)'
             /\ InventoriesOf(store', Target(q)) = InventoriesOf(store, Target(q))
  <2>1. \A k : k[1] = "stock" /\ k[2] = Target(q) => (k \in DOMAIN store' <=> k \in DOMAIN store)
    BY <1>5, CommittedKeys
  <2>2. Agree(q) => Agree(q)'
    BY <2>1, UnmovedTerms DEF Unmoved, Agree
  <2>3. AddedAsAsked(q) => AddedAsAsked(q)'
    BY <2>1, UnmovedTerms DEF AddedAsAsked, Inventories, InventoriesOf, Root
  <2> QED BY <2>1, <2>2, <2>3 DEF InventoriesOf
<1>6. pc[q] \in UpdatePhases /\ Fresh(q)' => Fresh(q) /\ Target(q) # Target(r)
  <2> SUFFICES ASSUME pc[q] \in UpdatePhases, Fresh(q)' PROVE Fresh(q) /\ Target(q) # Target(r)
    OBVIOUS
  <2>1. q \in open
    BY <1>1 DEF Shape
  <2>2. stale'[q] = stale[q] \cup wrote[r]
    BY <2>1 DEF Commit
  <2>3. TargetKey(q) \notin stale[q] \cup wrote[r]
    BY <2>2, UnmovedTerms DEF Fresh
  <2> QED BY <2>3, <1>3 DEF Fresh, TargetKey
<1>7. OneKindSeen(q)' = OneKindSeen(q)
  BY UnmovedTerms DEF OneKindSeen, Root
<1>8. UpdateSound(q)'
  BY <1>1, <1>5, <1>6, <1>7, UnmovedTerms DEF Unmoved, UpdateSound, OwnersIn, VariantsMarked, Root
<1>9. JobSound(q)'
  BY <1>1, <1>6, UnmovedTerms DEF Unmoved, JobSound, JobKinds, UpdatePhases, Root, StockKey
<1>10. TargetKey(q) \in wrote[q] => Target(q) # Target(r)
  BY <1>3 DEF TargetKey
<1>11. CreateSound(q)'
  <2>1. pc[q] = "stock" => InventoriesOf(store', Target(q)) = {}
    BY <1>1, <1>5, <1>10 DEF CreateSound
  <2> QED BY <1>1, <2>1, UnmovedTerms DEF Unmoved, CreateSound, InventoriesOf, ProductKey, Listed
<1>12. CommitSound(q)'
  BY <1>1, <1>5, <1>7, <1>10, UnmovedTerms DEF Unmoved, CommitSound, OwnersIn, Root
<1> QED BY <1>2, <1>4, <1>8, <1>9, <1>11, <1>12

LEMMA CommitTransactionKeeps ==
  ASSUME CatalogueInv, NEW r \in Requests, CommitTransaction(r)
  PROVE  CatalogueInv'
<1>1. pc[r] = "commit" /\ Commit(r) /\ pc'[r] = "done" /\ job'[r].do = "nothing"
  BY NoJobDoesNothing DEF CatalogueInv, ByRequest, CommitTransaction, Answer, Goto, Forget
<1>2. OthersWait(r)
  BY DEF CatalogueInv, ByRequest, CommitTransaction, Answer, Goto, Forget, OthersWait
<1>3. ByRequest'
  BY <1>1, <1>2 DEF CatalogueInv, ByRequest, Commit, Close, OthersWait
<1>4. TransactionsInv'
  BY <1>1, CommitKeeps DEF CatalogueInv
<1>5. RequestSound(r)'
  <2>1. r \notin open' /\ wrote'[r] = {}
    BY <1>1 DEF CatalogueInv, ByRequest, Commit, Close
  <2> QED BY <1>1, <2>1, OutsideSound DEF JobKinds
<1>6. ASSUME NEW q \in Requests \ {r} PROVE RequestSound(q)'
  <2>1. Unmoved(q)
    BY <1>1, <1>2 DEF OthersWait, Unmoved, Commit, Close, CatalogueInv, ByRequest
  <2> QED BY <1>1, <2>1, CommitOthersSound
<1> QED BY <1>1, <1>3, <1>4, <1>5, <1>6, CommitStoreSound DEF CatalogueInv

-----------------------------------------------------------------------------
\* Receiving a request, and loading the product of an update.

LEMMA ReceiveKeeps ==
  ASSUME CatalogueInv, NEW r \in Requests, Receive(r)
  PROVE  CatalogueInv'
<1>1. ByRequest /\ Shape(r) /\ JobSound(r) /\ WritersExclude
  BY DEF CatalogueInv, RequestSound, TransactionsInv
<1>2. UNCHANGED txns /\ r \notin open' /\ wrote'[r] = {}
  BY <1>1 DEF Receive, txns, Shape, WritersExclude
<1>3. job[r].do \notin JobKinds
  BY <1>1 DEF Receive, JobSound, UpdatePhases
<1>4. PICK dto \in Dtos :
        IF Accepted(dto)
        THEN /\ Goto(r, "load")
             /\ command' = [command EXCEPT ![r] = Assembled(dto)]
             /\ attempt' = [attempt EXCEPT ![r] = 1]
             /\ UNCHANGED <<entity, at, job, answer>>
        ELSE Answer(r, "refused")
  BY DEF Receive
<1>5. OthersWait(r)
  BY <1>1, <1>4 DEF ByRequest, Goto, Answer, Forget, OthersWait
<1>6. {"kind", "product", "inventory", "variants"} \subseteq DOMAIN Assembled(dto)
  BY DEF Assembled, AssembleUpdate, AssembleCreate
<1>7. CASE Accepted(dto)
  <2>1. pc'[r] = "load" /\ job'[r].do \notin JobKinds /\ command'[r] = Assembled(dto)
    BY <1>1, <1>3, <1>4, <1>7 DEF ByRequest, Goto
  <2>2. RequestSound(r)'
    BY <1>2, <1>6, <2>1, OutsideSound
  <2> QED BY <1>2, <1>5, <2>2, WorkKeeps DEF Works
<1>8. CASE ~Accepted(dto)
  <2>1. pc'[r] = "done" /\ job'[r].do \notin JobKinds
    BY <1>1, <1>4, <1>8, NoJobDoesNothing DEF ByRequest, Goto, Answer, Forget, JobKinds
  <2>2. RequestSound(r)'
    BY <1>2, <2>1, OutsideSound
  <2> QED BY <1>2, <1>5, <2>2, WorkKeeps DEF Works
<1> QED BY <1>7, <1>8

\* A transaction that has just begun sees what is committed.
LEMMA Begun ==
  ASSUME CatalogueInv, NEW r \in Requests, pc[r] = "load", Read(r)
  PROVE  /\ r \in open' /\ view'[r] = store /\ store' = store
         /\ wrote'[r] = {} /\ stale'[r] = {}
  BY DEF CatalogueInv, ByRequest, RequestSound, Shape, TransactionsInv, WritersExclude, Read, Seen

\* The phases come in one order, and each has something to do.
LEMMA Phased ==
  ASSUME NEW cmd
  PROVE  /\ \A phase : PhaseFrom(cmd, phase) \in UpdatePhases
         /\ \A phase : PhaseFrom(cmd, phase) = "add" => HasChanges(cmd.variants, "add")
         /\ \A phase : PhaseFrom(cmd, phase) = "edit" => HasChanges(cmd.variants, "edit")
         /\ PhaseFrom(cmd, "save") = "save"
         /\ \A phase : PhaseFrom(cmd, phase) = "drop" => phase = "drop"
  BY DEF PhaseFrom, UpdatePhases

LEMMA LoadedSound ==
  ASSUME CatalogueInv, NEW r \in Requests, pc[r] = "load", command[r].kind = "update",
         ~KindsClash(command[r]), ProductKey(command[r].product) \in DOMAIN store,
         NEW doc, doc = store[ProductKey(command[r].product)],
         Prepared(r, doc).product # Refusal,
         entity'[r] = Prepared(r, doc).product, command'[r] = Prepared(r, doc).command,
         job'[r] = JobFor(command[r].inventory, StockKey(command[r].product, Root), FALSE),
         pc'[r] = PhaseFrom(command[r], "drop"), Read(r)
  PROVE  RequestSound(r)'
<1>1. StoreSound /\ Shape(r)
  BY DEF CatalogueInv, RequestSound
<1>2. IsProduct(doc)
  BY <1>1, Keys DEF StoreSound, WellFormed
<1>3. /\ IsProduct(entity'[r]) /\ entity'[r].variants = doc.variants
      /\ {"kind", "product", "inventory", "variants"} \subseteq DOMAIN command'[r]
      /\ command'[r].kind = "update" /\ command'[r].product = command[r].product
      /\ command'[r].inventory = command[r].inventory /\ command'[r].variants = command[r].variants
  BY <1>1, <1>2, PreparedKeeps DEF Shape, Keeps
<1>4. r \in open' /\ view'[r] = store /\ store' = store /\ wrote'[r] = {}
  BY Begun
<1>5. pc'[r] \in UpdatePhases
  BY Phased
<1>6. Target(r)' = command[r].product /\ TargetKey(r)' = ProductKey(command[r].product)
      /\ RootCommand(r)' = ChangesRootStock(command[r].inventory)
  BY <1>3 DEF Target, TargetKey, ProductKey, RootCommand, ChangesRootStock
<1>7. Inventories(r)' = InventoriesOf(store, command[r].product)
  BY <1>4, <1>6 DEF Inventories, InventoriesOf
<1>8. Shape(r)'
  <2>1. WellFormed(view[r])'
    <3>1. WellFormed(view'[r])
      BY <1>1, <1>4 DEF StoreSound
    <3> QED BY <3>1 DEF WellFormed, IsProduct, ProductKeys, IsHistory, ToSet, StockKey, Root
  <2>2. IsProduct(entity[r])'
    BY <1>3 DEF IsProduct, ProductKeys, IsHistory, ToSet, Root
  <2> QED BY <1>3, <1>4, <1>5, <2>1, <2>2 DEF Shape, UpdatePhases
<1>9. NoClash(r)'
  BY <1>3, <1>6, Phased DEF NoClash, KindsClash, HasChanges, ChangesRootStock
<1>10. OwnWrites(r)'
  BY <1>4 DEF OwnWrites
<1>11. UpdateSound(r)'
  <2>1. Agree(r)' /\ AddedAsAsked(r)'
    BY <1>4, <1>7 DEF Agree, AddedAsAsked, InventoriesOf
  <2>2. OneKindSeen(r)'
    BY <1>1, <1>7 DEF OneKindSeen, StoreSound, OneKindIn, OtherKindIn, InventoriesOf, Root
  <2>3. OwnersIn(r, entity[r])'
    BY <1>1, <1>3, <1>7 DEF OwnersIn, StoreSound, OwnedIn, InventoriesOf, Root
  <2>4. VariantsMarked(r)'
    <3>1. entity'[r].hasVariants = doc.hasVariants
      BY <1>2, <1>3 DEF IsProduct, ProductKeys
    <3> QED BY <1>3, <1>4, <1>6, <3>1 DEF VariantsMarked
  <2> QED BY <2>1, <2>2, <2>3, <2>4 DEF UpdateSound
<1>12. JobSound(r)'
  <2> DEFINE key == StockKey(command[r].product, Root)
  <2>1. ASSUME job'[r].do \in JobKinds
        PROVE  /\ {"do", "key", "ready"} \subseteq DOMAIN job'[r]
               /\ job'[r].key = key /\ job'[r].ready = FALSE
               /\ job'[r].do = "create" => RootCommand(r)'
    <3> HIDE DEF key
    <3>0. job'[r] = JobFor(command[r].inventory, key, FALSE)
      BY DEF key
    <3>1. /\ command[r].inventory # Undefined /\ job'[r].do = command[r].inventory.do
          /\ job'[r].key = key /\ job'[r].ready = FALSE
          /\ {"do", "key", "ready"} \subseteq DOMAIN job'[r]
      BY <2>1, <3>0, NoJobDoesNothing DEF JobFor, JobKinds
    <3>2. job'[r].do = "create" => ChangesRootStock(command[r].inventory)
      BY <3>1 DEF ChangesRootStock
    <3> QED BY <1>6, <3>1, <3>2
  <2>2. key[3] = Root /\ key = StockKey(Target(r)', key[3])
    BY <1>6, Keys
  <2> HIDE DEF key
  <2> QED BY <1>5, <2>1, <2>2 DEF JobSound, JobKinds, StockKey, Root
<1>13. CreateSound(r)' /\ CommitSound(r)'
  BY <1>5 DEF CreateSound, CommitSound, UpdatePhases
<1> QED BY <1>8, <1>9, <1>10, <1>11, <1>12, <1>13 DEF RequestSound

LEMMA LoadProductKeeps ==
  ASSUME CatalogueInv, NEW r \in Requests, LoadProduct(r)
  PROVE  CatalogueInv'
<1>1. CASE Refuse(r)
  BY <1>1, RefuseEnds, EndsKeeps DEF CatalogueInv
<1>2. CASE ~Refuse(r)
  <2> DEFINE doc == store[ProductKey(command[r].product)]
  <2>1. /\ pc[r] = "load" /\ command[r].kind = "update"
        /\ ~KindsClash(command[r]) /\ ProductKey(command[r].product) \in DOMAIN store
        /\ Prepared(r, doc).product # Refusal
        /\ entity' = [entity EXCEPT ![r] = Prepared(r, doc).product]
        /\ command' = [command EXCEPT ![r] = Prepared(r, doc).command]
        /\ job' = [job EXCEPT ![r] =
                     JobFor(command[r].inventory, StockKey(command[r].product, Root), FALSE)]
        /\ Goto(r, PhaseFrom(command[r], "drop"))
        /\ Read(r)
        /\ UNCHANGED <<attempt, at>>
    BY <1>2 DEF LoadProduct
  <2> HIDE DEF doc
  <2>2. /\ entity'[r] = Prepared(r, doc).product /\ command'[r] = Prepared(r, doc).command
        /\ job'[r] = JobFor(command[r].inventory, StockKey(command[r].product, Root), FALSE)
        /\ pc'[r] = PhaseFrom(command[r], "drop")
    BY <2>1 DEF CatalogueInv, ByRequest, Goto
  <2>3. RequestSound(r)'
    BY <2>1, <2>2, LoadedSound DEF doc
  <2>4. OthersWait(r)
    BY <2>1 DEF CatalogueInv, ByRequest, Goto, OthersWait
  <2> QED BY <2>1, <2>3, <2>4, WorkKeeps DEF Works
<1> QED BY <1>1, <1>2

-----------------------------------------------------------------------------
\* The variants of an update.

\* What is known of an update at work.
LEMMA AtWork ==
  ASSUME CatalogueInv, NEW r \in Requests, pc[r] \in UpdatePhases
  PROVE  /\ r \in open /\ Seen(r) = view[r] /\ WellFormed(view[r])
         /\ command[r].kind = "update" /\ Target(r) = command[r].product
         /\ {"kind", "product", "inventory", "variants"} \subseteq DOMAIN command[r]
         /\ IsProduct(entity[r])
         /\ NoClash(r) /\ OwnWrites(r) /\ UpdateSound(r) /\ JobSound(r)
         /\ pc[r] \notin {"idle", "load", "insert", "stock", "commit", "done"}
  BY DEF CatalogueInv, RequestSound, Shape, Seen, Target, UpdatePhases

\* A step of an update that leaves its product and the kind of its command.
Continues(r) ==
  /\ pc'[r] \in UpdatePhases /\ r \in open'
  /\ command'[r].kind = "update" /\ command'[r].product = command[r].product
  /\ command'[r].inventory = command[r].inventory
  /\ {"kind", "product", "inventory", "variants"} \subseteq DOMAIN command'[r]
  /\ stale'[r] = stale[r] /\ store' = store

LEMMA ContinuesTerms ==
  ASSUME NEW r \in Requests, Continues(r), command[r].kind = "update"
  PROVE  /\ Target(r)' = Target(r) /\ TargetKey(r)' = TargetKey(r)
         /\ RootCommand(r)' = RootCommand(r) /\ Fresh(r)' = Fresh(r)
         /\ CreateSound(r)' /\ CommitSound(r)'
<1>1. /\ Target(r)' = Target(r) /\ TargetKey(r)' = TargetKey(r)
      /\ RootCommand(r)' = RootCommand(r) /\ Fresh(r)' = Fresh(r)
  BY DEF Continues, Target, TargetKey, RootCommand, Fresh, ProductKey, ChangesRootStock
<1>2. CreateSound(r)' /\ CommitSound(r)'
  BY DEF Continues, CreateSound, CommitSound, UpdatePhases
<1> QED BY <1>1, <1>2

\* Deletions among the inventories of the product.
LEMMA RemovalKeeps ==
  ASSUME CatalogueInv, NEW r \in Requests, pc[r] \in UpdatePhases, Continues(r),
         NEW keys, Write(r, keys, EmptyStore), keys \subseteq Inventories(r)
  PROVE  /\ WellFormed(view[r])' /\ OwnWrites(r)'
         /\ Fresh(r) => Agree(r)' /\ AddedAsAsked(r)' /\ OneKindSeen(r)'
         /\ Inventories(r)' = Inventories(r) \ keys
         /\ TargetKey(r) \in DOMAIN view[r] =>
              TargetKey(r) \in DOMAIN view'[r] /\ view'[r][TargetKey(r)] = view[r][TargetKey(r)]
<1>1. /\ Seen(r) = view[r] /\ WellFormed(view[r]) /\ OwnWrites(r) /\ UpdateSound(r)
      /\ command[r].kind = "update"
  BY AtWork
<1>2. /\ DOMAIN view'[r] = DOMAIN view[r] \ keys
      /\ \A k \in DOMAIN view'[r] : view'[r][k] = view[r][k]
      /\ wrote'[r] = wrote[r] \cup keys /\ store' = store
  BY <1>1 DEF CatalogueInv, ByRequest, Write, Overlaid, EmptyStore
<1>3. WellFormed(view'[r])
  BY <1>1, <1>2 DEF WellFormed
<1>4. WellFormed(view[r])'
  BY <1>3 DEF WellFormed, IsProduct, ProductKeys, IsHistory, ToSet, StockKey, Root
<1>5. Inventories(r)' = Inventories(r) \ keys
  BY <1>1, <1>2, ContinuesTerms DEF Inventories, InventoriesOf
<1>6. \A k \in keys : k[1] = "stock" /\ k[2] = Target(r)
  BY DEF Inventories, InventoriesOf
<1>7. OwnWrites(r)'
  BY <1>1, <1>2, <1>6, ContinuesTerms DEF OwnWrites
<1>8. ASSUME Fresh(r) PROVE Agree(r)' /\ AddedAsAsked(r)' /\ OneKindSeen(r)'
  <2>1. Agree(r) /\ AddedAsAsked(r) /\ OneKindSeen(r)
    BY <1>1, <1>8 DEF UpdateSound
  <2>2. Agree(r)'
    BY <1>1, <1>2, <2>1, ContinuesTerms DEF Agree
  <2>3. AddedAsAsked(r)' /\ OneKindSeen(r)'
    BY <1>1, <1>2, <1>5, <2>1, ContinuesTerms DEF AddedAsAsked, OneKindSeen, Root
  <2> QED BY <2>2, <2>3
<1>9. TargetKey(r) \notin keys
  BY <1>6, Keys DEF TargetKey
<1> QED BY <1>2, <1>4, <1>5, <1>7, <1>8, <1>9

LEMMA DropVariantsKeeps ==
  ASSUME CatalogueInv, NEW r \in Requests, DropVariants(r)
  PROVE  CatalogueInv'
<1>a. pc[r] = "drop" /\ pc[r] \in UpdatePhases /\ ByRequest
  BY DEF DropVariants, UpdatePhases, CatalogueInv
<1> DEFINE ids == command[r].variants.drop
           keys == {StockKey(command[r].product, v) : v \in ToSet(ids)} \cap DOMAIN view[r]
           product == RemoveVariants(entity[r], ToSet(ids))
<1>1. CASE Refuse(r)
  BY <1>1, RefuseEnds, EndsKeeps DEF CatalogueInv
<1>2. CASE Conflict(r, keys)
  BY <1>2, <1>a, ConflictEnds, EndsKeeps DEF CatalogueInv
<1>3. CASE /\ product # Refusal
           /\ entity' = [entity EXCEPT ![r] = product]
           /\ Write(r, keys, EmptyStore)
           /\ Goto(r, PhaseFrom(command[r], "add"))
           /\ UNCHANGED <<command, attempt, at, job, answer, faults>>
           /\ job[r] = NoJob
  <2>1. OthersWait(r)
    BY <1>3, <1>a DEF ByRequest, Goto, OthersWait
  <2>2. /\ Target(r) = command[r].product /\ WellFormed(view[r]) /\ r \in open
        /\ command[r].kind = "update" /\ IsProduct(entity[r]) /\ NoClash(r) /\ UpdateSound(r)
        /\ {"kind", "product", "inventory", "variants"} \subseteq DOMAIN command[r]
    BY <1>a, AtWork
  <2>3. /\ entity'[r] = product /\ pc'[r] = PhaseFrom(command[r], "add")
        /\ command' = command /\ job'[r] = NoJob
    BY <1>3, <1>a DEF ByRequest, Goto
  <2>4. IsProduct(product) /\ DOMAIN product.variants = DOMAIN entity[r].variants \ ToSet(ids)
        /\ "variants" \in product.marked /\ FlagMarked(entity[r], product)
    BY <1>3, <2>2, RemoveVariantsRemoves
  <2>5. keys \subseteq Inventories(r)
    BY <2>2, Keys DEF Inventories, InventoriesOf
  <2>6. Continues(r)
    <3>1. r \in open' /\ stale'[r] = stale[r] /\ store' = store
      BY <1>3 DEF Write
    <3> QED BY <2>2, <2>3, <3>1, Phased DEF Continues
  <2>7. \A k \in Inventories(r) \ keys : k[3] \notin ToSet(ids)
    BY <2>2 DEF Inventories, InventoriesOf, WellFormed
  <2> HIDE DEF product, keys
  <2>8. Shape(r)'
    <3>1. IsProduct(entity[r])'
      BY <2>3, <2>4 DEF IsProduct, ProductKeys, IsHistory, ToSet, Root
    <3> QED BY <1>3, <1>a, <2>5, <2>6, <3>1, RemovalKeeps DEF Shape, Continues, UpdatePhases
  <2>9. NoClash(r)'
    <3>1. pc'[r] # "drop" /\ (pc'[r] \in {"add", "edit"} => ~RootCommand(r))
      BY <1>a, <2>2, <2>3, Phased DEF NoClash, KindsClash, RootCommand
    <3> QED BY <2>2, <2>6, <3>1, ContinuesTerms DEF NoClash
  <2>10. UpdateSound(r)'
    <3> SUFFICES ASSUME Fresh(r)
                 PROVE  Agree(r)' /\ AddedAsAsked(r)' /\ OneKindSeen(r)'
                        /\ OwnersIn(r, entity[r])' /\ VariantsMarked(r)'
      BY <2>2, <2>6, ContinuesTerms DEF UpdateSound
    <3>1. Agree(r)' /\ AddedAsAsked(r)' /\ OneKindSeen(r)'
      BY <1>3, <1>a, <2>5, <2>6, RemovalKeeps
    <3>2. OwnersIn(r, entity[r]) /\ VariantsMarked(r)
      BY <1>a, <2>2 DEF UpdateSound
    <3>3. Inventories(r)' = Inventories(r) \ keys
      BY <1>3, <1>a, <2>5, <2>6, RemovalKeeps
    <3>4. OwnersIn(r, entity[r])'
      BY <2>3, <2>4, <2>7, <3>2, <3>3 DEF OwnersIn, Root
    <3>5. VariantsMarked(r)'
      BY <1>3, <1>a, <2>2, <2>3, <2>4, <2>5, <2>6, <3>2, RemovalKeeps, ContinuesTerms
         DEF VariantsMarked, FlagMarked
    <3> QED BY <3>1, <3>4, <3>5
  <2>11. JobSound(r)'
    BY <2>3, NoJobDoesNothing DEF JobSound, JobKinds
  <2>12. RequestSound(r)'
    BY <1>3, <1>a, <2>2, <2>5, <2>6, <2>8, <2>9, <2>10, <2>11, RemovalKeeps, ContinuesTerms
       DEF RequestSound
  <2> QED BY <1>3, <2>1, <2>12, WorkKeeps DEF Works
<1> QED BY <1>1, <1>2, <1>3 DEF DropVariants, VariantInventories

\* A variant that is added, or edited: no inventory is touched yet, and none
\* loses its variant.
LEMMA VariantStepSound ==
  ASSUME CatalogueInv, NEW r \in Requests, pc[r] \in {"add", "edit"}, Continues(r),
         pc'[r] # "drop", UNCHANGED txns,
         IsProduct(entity'[r]), DOMAIN entity[r].variants \subseteq DOMAIN entity'[r].variants,
         "variants" \in entity'[r].marked, FlagMarked(entity[r], entity'[r]),
         NEW inventory, NEW v \in DOMAIN entity'[r].variants, NEW known,
         job'[r] = JobFor(inventory, StockKey(command[r].product, v), known)
  PROVE  RequestSound(r)'
<1>0. pc[r] \in UpdatePhases
  BY DEF UpdatePhases
<1>1. /\ Target(r) = command[r].product /\ command[r].kind = "update" /\ WellFormed(view[r])
      /\ NoClash(r) /\ OwnWrites(r) /\ UpdateSound(r)
  BY <1>0, AtWork
<1>2. view' = view /\ wrote' = wrote /\ store' = store
  BY DEF txns
<1>3. Inventories(r)' = Inventories(r)
  BY <1>1, <1>2, ContinuesTerms DEF Inventories, InventoriesOf
<1>4. Shape(r)'
  <2>1. IsProduct(entity[r])' /\ WellFormed(view[r])'
    BY <1>1, <1>2 DEF IsProduct, ProductKeys, WellFormed, StockKey, Root
  <2> QED BY <2>1 DEF Shape, Continues, UpdatePhases
<1>5. ~RootCommand(r) /\ NoClash(r)'
  BY <1>1, ContinuesTerms DEF NoClash
<1>6. OwnWrites(r)'
  BY <1>1, <1>2, ContinuesTerms DEF OwnWrites
<1>7. UpdateSound(r)'
  <2> SUFFICES ASSUME Fresh(r)
               PROVE  Agree(r)' /\ AddedAsAsked(r)' /\ OneKindSeen(r)'
                      /\ OwnersIn(r, entity[r])' /\ VariantsMarked(r)'
    BY <1>1, ContinuesTerms DEF UpdateSound
  <2>1. /\ Agree(r) /\ AddedAsAsked(r) /\ OneKindSeen(r)
        /\ OwnersIn(r, entity[r]) /\ VariantsMarked(r)
    BY <1>0, <1>1 DEF UpdateSound
  <2>2. Agree(r)' /\ AddedAsAsked(r)' /\ OneKindSeen(r)'
    BY <1>1, <1>2, <1>3, <2>1, ContinuesTerms DEF Agree, AddedAsAsked, OneKindSeen, Root
  <2>3. OwnersIn(r, entity[r])'
    BY <1>3, <2>1 DEF OwnersIn, Root
  <2>4. VariantsMarked(r)'
    BY <1>1, <1>2, <2>1, ContinuesTerms DEF VariantsMarked, FlagMarked
  <2> QED BY <2>2, <2>3, <2>4
<1>8. JobSound(r)'
  <2> DEFINE key == StockKey(command[r].product, v)
  <2>1. key[3] = v /\ key = StockKey(Target(r)', key[3]) /\ key[3] # Root
    BY <1>1, Keys, ContinuesTerms DEF IsProduct, ProductKeys
  <2> HIDE DEF key
  <2>2. job'[r] = JobFor(inventory, key, known)
    BY DEF key
  <2>3. ASSUME job'[r].do \in JobKinds
        PROVE  /\ {"do", "key", "ready"} \subseteq DOMAIN job'[r]
               /\ job'[r].key = key /\ job'[r].ready = FALSE
    BY <2>2, <2>3, NoJobDoesNothing DEF JobFor, JobKinds
  <2>4. pc'[r] \in UpdatePhases /\ key[3] \in DOMAIN entity'[r].variants /\ ~RootCommand(r)'
    BY <1>1, <1>5, <2>1, ContinuesTerms DEF Continues
  <2> QED BY <2>1, <2>3, <2>4 DEF JobSound, JobKinds, StockKey, Root
<1> QED BY <1>1, <1>4, <1>5, <1>6, <1>7, <1>8, ContinuesTerms DEF RequestSound

LEMMA AddNextVariantKeeps ==
  ASSUME CatalogueInv, NEW r \in Requests, AddNextVariant(r)
  PROVE  CatalogueInv'
<1>a. pc[r] = "add" /\ pc[r] \in UpdatePhases /\ ByRequest
  BY DEF AddNextVariant, UpdatePhases, CatalogueInv
<1> DEFINE draft == command[r].variants.add[at[r]]
           adds == Listed(draft.images)
           images == WithIds(adds, [i \in DOMAIN adds |-> <<r, attempt[r], at[r], i>>])
           id == <<r, attempt[r], at[r]>>
           new == NewVariant(SkuOf(draft.sku), draft.name, draft.options, images)
           product == AddVariant(entity[r], id, new)
<1>1. CASE Refuse(r)
  BY <1>1, RefuseEnds, EndsKeeps DEF CatalogueInv
<1>2. CASE /\ product # Refusal
           /\ entity' = [entity EXCEPT ![r] = product]
           /\ job' = [job EXCEPT ![r] =
                        JobFor(draft.inventory, StockKey(command[r].product, id), TRUE)]
           /\ Advance(r, command[r].variants.add, "edit")
           /\ UNCHANGED <<txns, command, attempt, answer, faults>>
  <2>1. /\ r \in open /\ command[r].kind = "update" /\ IsProduct(entity[r])
        /\ {"kind", "product", "inventory", "variants"} \subseteq DOMAIN command[r]
    BY <1>a, AtWork
  <2>2. /\ entity'[r] = product
        /\ job'[r] = JobFor(draft.inventory, StockKey(command[r].product, id), TRUE)
    BY <1>2, <1>a DEF ByRequest
  <2> HIDE DEF new
  <2>3. /\ IsProduct(product) /\ DOMAIN product.variants = DOMAIN entity[r].variants \cup {id}
        /\ "variants" \in product.marked /\ FlagMarked(entity[r], product)
    BY <1>2, <2>1, AddVariantAdds, IdsAreNotRoot
  <2>4. pc'[r] \in {"add", PhaseFrom(command[r], "edit")} /\ OthersWait(r)
    BY <1>2, <1>a DEF ByRequest, Advance, Goto, OthersWait
  <2>5. Continues(r) /\ pc'[r] # "drop"
    <3>1. pc'[r] \in UpdatePhases /\ pc'[r] # "drop"
      BY <2>4, Phased DEF UpdatePhases
    <3> QED BY <1>2, <2>1, <3>1 DEF Continues, txns
  <2> HIDE DEF product, draft, id
  <2>6. id \in DOMAIN entity'[r].variants
    BY <2>2, <2>3
  <2>7. RequestSound(r)'
    BY <1>2, <1>a, <2>2, <2>3, <2>5, <2>6, VariantStepSound
  <2> QED BY <1>2, <2>4, <2>7, WorkKeeps DEF Works
<1> QED BY <1>1, <1>2 DEF AddNextVariant

LEMMA EditNextVariantKeeps ==
  ASSUME CatalogueInv, NEW r \in Requests, EditNextVariant(r)
  PROVE  CatalogueInv'
<1>a. pc[r] = "edit" /\ pc[r] \in UpdatePhases /\ ByRequest
  BY DEF EditNextVariant, UpdatePhases, CatalogueInv
<1> DEFINE edits == command[r].variants.edit
           edit == edits[at[r]]
           images == EditedImages(r, edit)
           product == UpdateVariant(entity[r], edit.id, edit.options, images.added,
                                    ToSet(Listed(edit.images.remove)), images.order)
<1>1. CASE Refuse(r)
  BY <1>1, RefuseEnds, EndsKeeps DEF CatalogueInv
<1>2. CASE /\ edit.id \in DOMAIN entity[r].variants /\ product # Refusal
           /\ entity' = [entity EXCEPT ![r] = product]
           /\ command' = IF edit.images.order = Undefined THEN command
                         ELSE [command EXCEPT ![r].variants.edit[at[r]].images.order = images.order]
           /\ job' = [job EXCEPT ![r] =
                        JobFor(edit.inventory, StockKey(command[r].product, edit.id), FALSE)]
           /\ Advance(r, edits, "save")
           /\ UNCHANGED <<txns, attempt, answer, faults>>
  <2>1. /\ r \in open /\ command[r].kind = "update" /\ IsProduct(entity[r])
        /\ {"kind", "product", "inventory", "variants"} \subseteq DOMAIN command[r]
    BY <1>a, AtWork
  <2>2. /\ entity'[r] = product
        /\ job'[r] = JobFor(edit.inventory, StockKey(command[r].product, edit.id), FALSE)
    BY <1>2, <1>a DEF ByRequest
  <2>3. /\ IsProduct(product) /\ DOMAIN product.variants = DOMAIN entity[r].variants
        /\ "variants" \in product.marked /\ FlagMarked(entity[r], product)
    BY <1>2, <2>1, UpdateVariantKeeps
  <2>4. \A x : LET new == [command EXCEPT ![r].variants.edit[at[r]].images.order = x] IN
          /\ DOMAIN new = Requests /\ DOMAIN new[r] = DOMAIN command[r]
          /\ \A q \in Requests \ {r} : new[q] = command[q]
          /\ \A f \in {"kind", "product", "inventory"} : new[r][f] = command[r][f]
    BY <1>a DEF ByRequest
  <2>5. /\ DOMAIN command' = Requests /\ DOMAIN command'[r] = DOMAIN command[r]
        /\ \A q \in Requests \ {r} : command'[q] = command[q]
        /\ \A f \in {"kind", "product", "inventory"} : command'[r][f] = command[r][f]
    <3> HIDE DEF images
    <3> QED BY <1>2, <1>a, <2>4 DEF ByRequest
  <2>6. pc'[r] \in {"edit", "save"} /\ OthersWait(r)
    <3> HIDE DEF images, product, edits
    <3>1. PhaseFrom(command[r], "save") = "save"
      BY Phased
    <3> QED BY <1>2, <1>a, <2>5, <3>1 DEF ByRequest, Advance, Goto, OthersWait
  <2>7. Continues(r) /\ pc'[r] # "drop"
    BY <1>2, <2>1, <2>5, <2>6 DEF Continues, txns, UpdatePhases
  <2> HIDE DEF product, edit
  <2>8. RequestSound(r)'
    BY <1>2, <1>a, <2>2, <2>3, <2>7, VariantStepSound
  <2> QED BY <1>2, <2>6, <2>8, WorkKeeps DEF Works
<1> QED BY <1>1, <1>2 DEF EditNextVariant

-----------------------------------------------------------------------------
\* The inventory operations of an update: its product stays as it is.

LeavesProduct(r) ==
  /\ pc'[r] = pc[r] /\ command'[r] = command[r] /\ entity'[r] = entity[r]
  /\ OthersWait(r)

\* What is left to show of an operation on an inventory.
LEMMA StockStepKeeps ==
  ASSUME CatalogueInv, NEW r \in Requests, pc[r] \in UpdatePhases,
         LeavesProduct(r), Works(r), WellFormed(view'[r]), OwnWrites(r)', JobSound(r)',
         TargetKey(r) \in DOMAIN view[r] =>
           TargetKey(r) \in DOMAIN view'[r] /\ view'[r][TargetKey(r)] = view[r][TargetKey(r)],
         Fresh(r) => Agree(r)' /\ AddedAsAsked(r)' /\ OneKindSeen(r)' /\ OwnersIn(r, entity[r])'
  PROVE  CatalogueInv'
<1>1. /\ r \in open /\ command[r].kind = "update" /\ NoClash(r) /\ UpdateSound(r)
      /\ IsProduct(entity[r])
      /\ {"kind", "product", "inventory", "variants"} \subseteq DOMAIN command[r]
  BY AtWork
<1>2. r \in open' /\ stale'[r] = stale[r] /\ store' = store
  BY <1>1 DEF Works, Read, Write, txns
<1>3. Continues(r)
  BY <1>1, <1>2 DEF LeavesProduct, Continues
<1>4. Shape(r)'
  <2>1. IsProduct(entity[r])' /\ WellFormed(view[r])'
    BY <1>1 DEF LeavesProduct, IsProduct, ProductKeys, WellFormed, StockKey, Root
  <2> QED BY <1>3, <2>1 DEF Shape, Continues, UpdatePhases
<1>5. NoClash(r)'
  BY <1>1 DEF NoClash, LeavesProduct, KindsClash, RootCommand, ChangesRootStock, HasChanges
<1>6. UpdateSound(r)'
  <2> SUFFICES ASSUME Fresh(r)
               PROVE  Agree(r)' /\ AddedAsAsked(r)' /\ OneKindSeen(r)'
                      /\ OwnersIn(r, entity[r])' /\ VariantsMarked(r)'
    BY <1>1, <1>3, ContinuesTerms DEF UpdateSound
  <2>1. VariantsMarked(r)
    BY <1>1 DEF UpdateSound
  <2>2. VariantsMarked(r)'
    BY <1>1, <1>3, <2>1, ContinuesTerms DEF VariantsMarked, LeavesProduct
  <2> QED BY <2>2
<1>7. RequestSound(r)'
  BY <1>1, <1>3, <1>4, <1>5, <1>6, ContinuesTerms DEF RequestSound
<1> QED BY <1>7, WorkKeeps DEF LeavesProduct

\* An operation that only prepares another.
LEMMA ReadyKeeps ==
  ASSUME CatalogueInv, NEW r \in Requests, pc[r] \in UpdatePhases,
         job' = [job EXCEPT ![r].ready = TRUE],
         UNCHANGED <<txns, pc, command, attempt, entity, at>>,
         job[r].do = "create" => ~OtherKindIn(store, job[r].key)
  PROVE  CatalogueInv'
<1>1. /\ Target(r) = command[r].product /\ command[r].kind = "update" /\ WellFormed(view[r])
      /\ OwnWrites(r) /\ UpdateSound(r) /\ JobSound(r) /\ ByRequest
  BY AtWork DEF CatalogueInv
<1>2. /\ store' = store /\ view' = view /\ wrote' = wrote /\ stale' = stale /\ pc' = pc
      /\ command' = command /\ entity' = entity /\ attempt' = attempt
  BY DEF txns
<1>3. LeavesProduct(r) /\ Works(r)
  BY <1>1, <1>2 DEF LeavesProduct, OthersWait, ByRequest, Works
<1>4. /\ Target(r)' = Target(r) /\ TargetKey(r)' = TargetKey(r) /\ RootCommand(r)' = RootCommand(r)
      /\ Fresh(r)' = Fresh(r) /\ Inventories(r)' = Inventories(r)
  BY <1>1, <1>2 DEF Target, TargetKey, RootCommand, Fresh, Inventories, InventoriesOf, ProductKey,
                    ChangesRootStock
<1>5. OwnWrites(r)'
  BY <1>1, <1>2, <1>4 DEF OwnWrites
<1>6. Fresh(r) => Agree(r)' /\ AddedAsAsked(r)' /\ OneKindSeen(r)' /\ OwnersIn(r, entity[r])'
  BY <1>1, <1>2, <1>4 DEF UpdateSound, Agree, AddedAsAsked, OneKindSeen, OwnersIn, Root
<1>7. JobSound(r)'
  <2>1. /\ DOMAIN job'[r] = DOMAIN job[r] /\ job'[r].do = job[r].do
        /\ job[r].do = "create" => job'[r].key = job[r].key
    BY <1>1 DEF ByRequest
  <2>2. ASSUME job[r].do = "create", Fresh(r), NEW k \in Inventories(r)
        PROVE  k[3] = Root <=> job[r].key[3] = Root
    <3>1. job[r].key = StockKey(Target(r), job[r].key[3]) /\ (job[r].key[3] = Root <=> RootCommand(r))
      BY <1>1, <2>2 DEF JobSound
    <3>2. job[r].key[2] = Target(r)
      BY <3>1, Keys
    <3>3. CASE k \in DOMAIN store
      <4>1. k \in InventoriesOf(store, job[r].key[2])
        BY <2>2, <3>2, <3>3 DEF Inventories, InventoriesOf
      <4> QED BY <2>2, <4>1 DEF OtherKindIn
    <3>4. CASE k \notin DOMAIN store
      BY <1>1, <2>2, <3>1, <3>4 DEF UpdateSound, AddedAsAsked
    <3> QED BY <3>3, <3>4
  <2> QED BY <1>1, <1>2, <1>4, <2>1, <2>2 DEF JobSound, JobKinds, StockKey, Root
<1> QED BY <1>1, <1>2, <1>3, <1>5, <1>6, <1>7, StockStepKeeps

LEMMA FindInventoryKeeps ==
  ASSUME CatalogueInv, NEW r \in Requests, FindInventory(r)
  PROVE  CatalogueInv'
<1>1. pc[r] \in UpdatePhases
  BY DEF FindInventory, CatalogueInv, RequestSound, JobSound, JobKinds
<1>2. CASE Refuse(r)
  BY <1>2, RefuseEnds, EndsKeeps DEF CatalogueInv
<1>3. CASE ~Refuse(r)
  BY <1>1, <1>3, ReadyKeeps DEF FindInventory
<1> QED BY <1>2, <1>3

LEMMA CheckKindsKeeps ==
  ASSUME CatalogueInv, NEW r \in Requests, CheckKinds(r)
  PROVE  CatalogueInv'
<1>1. pc[r] \in UpdatePhases
  BY DEF CheckKinds, CatalogueInv, RequestSound, JobSound, JobKinds
<1>2. CASE Refuse(r)
  BY <1>2, RefuseEnds, EndsKeeps DEF CatalogueInv
<1>3. CASE ~Refuse(r)
  BY <1>1, <1>3, ReadyKeeps DEF CheckKinds
<1> QED BY <1>2, <1>3

LEMMA DeleteInventoryKeeps ==
  ASSUME CatalogueInv, NEW r \in Requests, DeleteInventory(r)
  PROVE  CatalogueInv'
<1>a. pc[r] \in UpdatePhases /\ ByRequest /\ pc[r] \notin {"idle", "done"}
  BY AtWork DEF DeleteInventory, CatalogueInv, RequestSound, JobSound, JobKinds
<1> DEFINE keys == WithId(view[r], job[r].id) \cap InventoriesOf(view[r], command[r].product)
<1>1. CASE Refuse(r)
  BY <1>1, RefuseEnds, EndsKeeps DEF CatalogueInv
<1>2. CASE Conflict(r, keys)
  BY <1>2, <1>a, ConflictEnds, EndsKeeps DEF CatalogueInv
<1>3. CASE /\ Write(r, keys, EmptyStore)
           /\ Finished(r)
           /\ UNCHANGED <<pc, command, attempt, entity, at, answer, faults>>
  <2>1. /\ Target(r) = command[r].product /\ command[r].kind = "update" /\ UpdateSound(r)
        /\ r \in open
        /\ {"kind", "product", "inventory", "variants"} \subseteq DOMAIN command[r]
    BY <1>a, AtWork
  <2>2. keys \subseteq Inventories(r)
    BY <2>1 DEF Inventories
  <2> HIDE DEF keys
  <2>3. LeavesProduct(r) /\ Works(r) /\ job'[r] = NoJob
    BY <1>3, <1>a DEF LeavesProduct, OthersWait, ByRequest, Works, Finished
  <2>4. Continues(r)
    BY <1>3, <1>a, <2>1 DEF Continues, Write
  <2>5. JobSound(r)'
    BY <2>3, NoJobDoesNothing DEF JobSound, JobKinds
  <2>6. Fresh(r) => OwnersIn(r, entity[r])'
    <3>1. Inventories(r)' = Inventories(r) \ keys
      BY <1>3, <1>a, <2>2, <2>4, RemovalKeeps
    <3> QED BY <1>a, <2>1, <2>3, <3>1 DEF UpdateSound, OwnersIn, LeavesProduct, Root
  <2>7. WellFormed(view'[r])
    <3>1. WellFormed(view[r])'
      BY <1>3, <1>a, <2>2, <2>4, RemovalKeeps
    <3> QED BY <3>1 DEF WellFormed, IsProduct, ProductKeys, IsHistory, ToSet, StockKey, Root
  <2> QED BY <1>3, <1>a, <2>2, <2>3, <2>4, <2>5, <2>6, <2>7, RemovalKeeps, StockStepKeeps
<1> QED BY <1>1, <1>2, <1>3 DEF DeleteInventory, OwnInventory

LEMMA SetStockKeeps ==
  ASSUME CatalogueInv, NEW r \in Requests, SetStock(r)
  PROVE  CatalogueInv'
<1>a. pc[r] \in UpdatePhases /\ ByRequest /\ pc[r] \notin {"idle", "done"}
  BY AtWork DEF SetStock, CatalogueInv, RequestSound, JobSound, JobKinds
<1> DEFINE keys == WithId(view[r], job[r].id)
           restocked == [k \in keys |-> [view[r][k] EXCEPT !.stock = job[r].stock]]
<1>1. CASE Refuse(r)
  BY <1>1, RefuseEnds, EndsKeeps DEF CatalogueInv
<1>2. CASE Conflict(r, keys)
  BY <1>2, <1>a, ConflictEnds, EndsKeeps DEF CatalogueInv
<1>3. CASE /\ Write(r, keys, restocked)
           /\ Finished(r)
           /\ UNCHANGED <<pc, command, attempt, entity, at, answer, faults>>
  <2>1. /\ Target(r) = command[r].product /\ command[r].kind = "update" /\ UpdateSound(r)
        /\ r \in open
        /\ {"kind", "product", "inventory", "variants"} \subseteq DOMAIN command[r]
        /\ WellFormed(view[r]) /\ OwnWrites(r) /\ Seen(r) = view[r] /\ ViewsAreFresh
    BY <1>a, AtWork DEF CatalogueInv, TransactionsInv
  <2>2. keys \subseteq DOMAIN view[r] /\ (\A k \in keys : k[1] = "stock") /\ DOMAIN restocked = keys
    BY DEF WithId
  <2> HIDE DEF keys, restocked
  <2>3. /\ DOMAIN view'[r] = DOMAIN view[r]
        /\ \A k \in DOMAIN view[r] \ keys : view'[r][k] = view[r][k]
        /\ wrote'[r] = wrote[r] \cup keys /\ store' = store /\ stale' = stale /\ r \in open'
    BY <1>3, <1>a, <2>1, <2>2 DEF ByRequest, Write, Overlaid
  <2>4. LeavesProduct(r) /\ Works(r) /\ job'[r] = NoJob
    BY <1>3, <1>a DEF LeavesProduct, OthersWait, ByRequest, Works, Finished
  <2>5. Continues(r)
    BY <1>3, <1>a, <2>1, <2>3 DEF Continues
  <2>6. WellFormed(view'[r])
    BY <2>1, <2>2, <2>3, Keys DEF WellFormed
  <2>7. OwnWrites(r)'
    <3>1. \A k \in keys : k \notin wrote[r] => k \in DOMAIN store
      BY <1>3, <2>1, <2>2 DEF Write, Free, ViewsAreFresh
    <3> QED BY <2>1, <2>2, <2>3, <2>5, <3>1, ContinuesTerms DEF OwnWrites
  <2>8. JobSound(r)'
    BY <2>4, NoJobDoesNothing DEF JobSound, JobKinds
  <2>9. Inventories(r)' = Inventories(r)
    BY <2>1, <2>3, <2>5, ContinuesTerms DEF Inventories, InventoriesOf
  <2>10. Fresh(r) => Agree(r)' /\ AddedAsAsked(r)' /\ OneKindSeen(r)' /\ OwnersIn(r, entity[r])'
    BY <1>a, <2>1, <2>3, <2>4, <2>5, <2>9, ContinuesTerms
       DEF UpdateSound, Agree, AddedAsAsked, OneKindSeen, OwnersIn, LeavesProduct, Root
  <2>11. TargetKey(r) \notin keys
    BY <2>2, Keys DEF TargetKey
  <2> QED BY <1>a, <2>3, <2>4, <2>6, <2>7, <2>8, <2>10, <2>11, StockStepKeeps
<1> QED BY <1>1, <1>2, <1>3 DEF SetStock

LEMMA InsertInventoryKeeps ==
  ASSUME CatalogueInv, NEW r \in Requests, InsertInventory(r)
  PROVE  CatalogueInv'
<1>a. pc[r] \in UpdatePhases /\ ByRequest /\ pc[r] \notin {"idle", "done"}
      /\ job[r].do = "create" /\ job[r].ready
  BY AtWork DEF InsertInventory, CatalogueInv, RequestSound, JobSound, JobKinds
<1> DEFINE key == job[r].key
           added == [k \in {key} |-> NewInventory(r, key, job[r].stock)]
<1>1. CASE Refuse(r)
  BY <1>1, RefuseEnds, EndsKeeps DEF CatalogueInv
<1>2. CASE Conflict(r, {key})
  BY <1>2, <1>a, ConflictEnds, EndsKeeps DEF CatalogueInv
<1>3. CASE /\ Write(r, {key}, added)
           /\ Finished(r)
           /\ UNCHANGED <<pc, command, attempt, entity, at, answer, faults>>
  <2>1. /\ Target(r) = command[r].product /\ command[r].kind = "update" /\ UpdateSound(r)
        /\ r \in open
        /\ {"kind", "product", "inventory", "variants"} \subseteq DOMAIN command[r]
        /\ WellFormed(view[r]) /\ OwnWrites(r) /\ Seen(r) = view[r] /\ JobSound(r)
    BY <1>a, AtWork
  <2>2. /\ key = StockKey(Target(r), key[3]) /\ key[1] = "stock" /\ key[2] = Target(r)
        /\ key[3] # Root => key[3] \in DOMAIN entity[r].variants
        /\ key[3] = Root <=> RootCommand(r)
        /\ Fresh(r) => \A k \in Inventories(r) : k[3] = Root <=> key[3] = Root
    <3>1. key = StockKey(Target(r), key[3])
      BY <1>a, <2>1 DEF JobSound
    <3>2. key[1] = "stock" /\ key[2] = Target(r)
      BY <3>1, Keys
    <3> QED BY <1>a, <2>1, <3>1, <3>2 DEF JobSound
  <2> HIDE DEF key
  <2>3. DOMAIN added = {key}
    OBVIOUS
  <2> HIDE DEF added
  <2>4. /\ DOMAIN view'[r] = DOMAIN view[r] \cup {key}
        /\ \A k \in DOMAIN view[r] \ {key} : view'[r][k] = view[r][k]
        /\ wrote'[r] = wrote[r] \cup {key} /\ store' = store /\ stale' = stale /\ r \in open'
    BY <1>3, <1>a, <2>1, <2>3 DEF ByRequest, Write, Overlaid
  <2>5. LeavesProduct(r) /\ Works(r) /\ job'[r] = NoJob
    BY <1>3, <1>a DEF LeavesProduct, OthersWait, ByRequest, Works, Finished
  <2>6. Continues(r)
    BY <1>3, <1>a, <2>1, <2>4 DEF Continues
  <2>7. WellFormed(view'[r])
    BY <2>1, <2>2, <2>4 DEF WellFormed
  <2>8. OwnWrites(r)'
    BY <2>1, <2>2, <2>4, <2>6, ContinuesTerms DEF OwnWrites
  <2>9. JobSound(r)'
    BY <2>5, NoJobDoesNothing DEF JobSound, JobKinds
  <2>10. Inventories(r)' = Inventories(r) \cup {key}
    BY <2>1, <2>2, <2>4, <2>6, ContinuesTerms DEF Inventories, InventoriesOf
  <2>11. ASSUME Fresh(r)
         PROVE  Agree(r)' /\ AddedAsAsked(r)' /\ OneKindSeen(r)' /\ OwnersIn(r, entity[r])'
    <3>1. Agree(r) /\ AddedAsAsked(r) /\ OneKindSeen(r) /\ OwnersIn(r, entity[r])
      BY <1>a, <2>1, <2>11 DEF UpdateSound
    <3>2. Agree(r)'
      BY <2>1, <2>4, <2>6, <3>1, ContinuesTerms DEF Agree
    <3>3. AddedAsAsked(r)' /\ OneKindSeen(r)'
      BY <2>1, <2>2, <2>4, <2>6, <2>10, <2>11, <3>1, ContinuesTerms
         DEF AddedAsAsked, OneKindSeen, Root
    <3>4. OwnersIn(r, entity[r])'
      BY <2>2, <2>5, <2>10, <3>1 DEF OwnersIn, LeavesProduct, Root
    <3> QED BY <3>2, <3>3, <3>4
  <2>12. TargetKey(r) # key
    BY <2>2, Keys DEF TargetKey
  <2> QED BY <1>a, <2>4, <2>5, <2>7, <2>8, <2>9, <2>11, <2>12, StockStepKeeps
<1> QED BY <1>1, <1>2, <1>3 DEF InsertInventory

-----------------------------------------------------------------------------
\* The last write of an update.

\* Keys of names are neither those of products nor of inventories.
LEMMA NameKeysOnly ==
  ASSUME NEW name, NEW k \in NameKeys(name)
  PROVE  k[1] \in {"name", "slug"}
  BY DEF NameKeys

LEMMA SaveProductKeeps ==
  ASSUME CatalogueInv, NEW r \in Requests, SaveProduct(r)
  PROVE  CatalogueInv'
<1>a. pc[r] = "save" /\ pc[r] \in UpdatePhases /\ ByRequest /\ job[r] = NoJob
  BY DEF SaveProduct, UpdatePhases, CatalogueInv
<1> DEFINE key == ProductKey(command[r].product)
           names == Renamings(r)
           keys == {key} \cup names.taken \cup names.given
           stored == Stored(view[r][key], entity[r])
           changed == [k \in {key} \cup names.taken |-> IF k = key THEN stored ELSE command[r].product]
<1>1. CASE Refuse(r)
  BY <1>1, RefuseEnds, EndsKeeps DEF CatalogueInv
<1>2. CASE Conflict(r, keys)
  BY <1>2, <1>a, ConflictEnds, EndsKeeps DEF CatalogueInv
<1>3. CASE /\ Write(r, keys, changed)
           /\ Goto(r, "commit")
           /\ UNCHANGED <<command, attempt, entity, at, job, answer, faults>>
  <2>1. /\ Target(r) = command[r].product /\ TargetKey(r) = key /\ command[r].kind = "update"
        /\ UpdateSound(r) /\ r \in open /\ IsProduct(entity[r])
        /\ {"kind", "product", "inventory", "variants"} \subseteq DOMAIN command[r]
        /\ WellFormed(view[r]) /\ OwnWrites(r) /\ Seen(r) = view[r]
    BY <1>a, AtWork DEF TargetKey
  <2>2. key[1] = "product" /\ (\A k \in keys \ {key} : k[1] \in {"name", "slug"})
    BY Keys, NameKeysOnly DEF Renamings
  <2>3. Fresh(r)
    BY <1>3, <2>1 DEF Write, Free, Fresh
  <2>4. /\ Agree(r) /\ OneKindSeen(r) /\ OwnersIn(r, entity[r]) /\ VariantsMarked(r)
    BY <1>a, <2>1, <2>3 DEF UpdateSound
  <2>5. IsProduct(stored) /\ stored.variants = entity[r].variants /\ stored.marked = {}
    <3>1. IsProduct(view[r][key]) /\ view[r][key].marked = {}
      BY <2>1, <2>2, <2>4 DEF WellFormed, VariantsMarked
    <3>2. /\ "variants" \notin entity[r].marked => entity[r].variants = view[r][key].variants
          /\ "hasVariants" \notin entity[r].marked => entity[r].hasVariants = view[r][key].hasVariants
      BY <2>1, <2>4 DEF VariantsMarked
    <3> HIDE DEF key
    <3> QED BY <2>1, <3>1, <3>2, StoredVariants
  <2>6. DOMAIN changed \subseteq keys /\ key \in DOMAIN changed /\ changed[key] = stored /\ key \in keys
    OBVIOUS
  <2> HIDE DEF stored, changed, keys, key
  <2>7. /\ DOMAIN view'[r] = (DOMAIN view[r] \ keys) \cup DOMAIN changed
        /\ \A k \in DOMAIN view[r] \ keys : view'[r][k] = view[r][k]
        /\ view'[r][key] = stored
        /\ wrote'[r] = wrote[r] \cup keys /\ store' = store /\ stale' = stale /\ r \in open'
    BY <1>3, <1>a, <2>1, <2>6 DEF ByRequest, Write, Overlaid
  <2>8. pc'[r] = "commit" /\ command' = command /\ entity' = entity /\ job'[r] = NoJob /\ OthersWait(r)
    BY <1>3, <1>a DEF ByRequest, Goto, OthersWait
  <2>9. Target(r)' = Target(r) /\ TargetKey(r)' = key
    BY <2>1, <2>8 DEF Target, TargetKey, ProductKey
  <2>10. WellFormed(view'[r])
    BY <2>1, <2>2, <2>5, <2>6, <2>7 DEF WellFormed
  <2>11. Inventories(r)' = Inventories(r)
    BY <2>1, <2>2, <2>6, <2>7, <2>9 DEF Inventories, InventoriesOf
  <2>12. Shape(r)' /\ NoClash(r)'
    <3>1. WellFormed(view[r])'
      BY <2>10 DEF WellFormed, IsProduct, ProductKeys, IsHistory, ToSet, StockKey, Root
    <3> QED BY <2>1, <2>7, <2>8, <3>1 DEF Shape, NoClash, UpdatePhases
  <2>13. OwnWrites(r)'
    BY <2>1, <2>2, <2>6, <2>7, <2>9 DEF OwnWrites
  <2>14. UpdateSound(r)' /\ JobSound(r)' /\ CreateSound(r)'
    BY <2>8, NoJobDoesNothing DEF UpdateSound, JobSound, CreateSound, JobKinds, UpdatePhases
  <2>15. CommitSound(r)'
    <3>1. Agree(r)'
      BY <2>1, <2>2, <2>4, <2>6, <2>7, <2>9 DEF Agree
    <3>2. OneKindSeen(r)'
      BY <2>4, <2>11 DEF OneKindSeen, Root
    <3>3. OwnersIn(r, view[r][TargetKey(r)])'
      BY <2>4, <2>5, <2>7, <2>9, <2>11 DEF OwnersIn, Root
    <3> QED BY <2>6, <2>7, <2>9, <3>1, <3>2, <3>3 DEF CommitSound
  <2>16. RequestSound(r)'
    BY <2>12, <2>13, <2>14, <2>15 DEF RequestSound
  <2> QED BY <1>3, <2>8, <2>16, WorkKeeps DEF Works
<1> QED BY <1>1, <1>2, <1>3 DEF SaveProduct

-----------------------------------------------------------------------------
\* Creations.

LEMMA PrepareProductKeeps ==
  ASSUME CatalogueInv, NEW r \in Requests, PrepareProduct(r)
  PROVE  CatalogueInv'
<1>1. CASE Refuse(r)
  BY <1>1, RefuseEnds, EndsKeeps DEF CatalogueInv
<1>2. CASE ~Refuse(r)
  <2> DEFINE product == NewProduct(r)
  <2>1. /\ pc[r] = "load" /\ command[r].kind = "create"
        /\ entity' = [entity EXCEPT ![r] = product]
        /\ Goto(r, "insert")
        /\ IF DOMAIN product.variants = {} THEN UNCHANGED txns ELSE Read(r)
        /\ UNCHANGED <<command, attempt, at, job, answer, faults>>
    BY <1>2 DEF PrepareProduct
  <2>2. ByRequest /\ Shape(r) /\ JobSound(r) /\ StoreSound /\ WritersExclude
    BY DEF CatalogueInv, RequestSound, TransactionsInv
  <2>3. /\ IsProduct(product) /\ product.marked = {}
        /\ DOMAIN product.variants = {<<r, attempt[r], i>> : i \in DOMAIN Listed(command[r].variants)}
    BY NewProductIsProduct
  <2> HIDE DEF product
  <2>4. /\ entity'[r] = product /\ pc'[r] = "insert" /\ command' = command /\ attempt' = attempt
        /\ job' = job /\ OthersWait(r)
    BY <2>1, <2>2 DEF ByRequest, Goto, OthersWait
  <2>5. Works(r) /\ wrote'[r] = {} /\ store' = store /\ (r \in open' => view'[r] = store)
    BY <2>1, <2>2, Begun DEF Works, txns, Shape, WritersExclude
  <2>6. Shape(r)'
    <3>1. IsProduct(entity[r])'
      BY <2>3, <2>4 DEF IsProduct, ProductKeys, IsHistory, ToSet, Root
    <3>2. r \in open' => WellFormed(view'[r])
      BY <2>2, <2>5 DEF StoreSound
    <3>3. r \in open' => WellFormed(view[r])'
      BY <3>2 DEF WellFormed, IsProduct, ProductKeys, IsHistory, ToSet, StockKey, Root
    <3> QED BY <2>1, <2>2, <2>4, <3>1, <3>3 DEF Shape, UpdatePhases
  <2>7. OwnWrites(r)' /\ NoClash(r)' /\ UpdateSound(r)' /\ CommitSound(r)'
    BY <2>4, <2>5 DEF OwnWrites, NoClash, UpdateSound, CommitSound, UpdatePhases
  <2>8. JobSound(r)'
    BY <2>1, <2>2, <2>4 DEF JobSound, JobKinds, UpdatePhases
  <2>9. CreateSound(r)'
    <3>1. \A k \in DOMAIN store : k[1] = "stock" => ProductKey(k[2]) \in DOMAIN store
      BY <2>2 DEF StoreSound, OwnedIn
    <3> QED BY <2>3, <2>4, <2>5, <3>1 DEF CreateSound, ProductKey, Listed
  <2>10. RequestSound(r)'
    BY <2>6, <2>7, <2>8, <2>9 DEF RequestSound
  <2> QED BY <2>4, <2>5, <2>10, WorkKeeps
<1> QED BY <1>1, <1>2

\* The product that is inserted is nobody else's, and nobody has an inventory
\* for it.
LEMMA InsertProductKeeps ==
  ASSUME CatalogueInv, NEW r \in Requests, InsertProduct(r)
  PROVE  CatalogueInv'
<1>a. pc[r] = "insert" /\ ByRequest /\ pc[r] \notin {"idle", "done"}
  BY DEF InsertProduct, CatalogueInv
<1> DEFINE key == ProductKey(NewProductId(r))
           keys == {key, SkuKey(entity[r].sku)} \cup NameKeys(entity[r].name)
           added == [k \in keys |-> IF k = key THEN entity[r] ELSE NewProductId(r)]
<1>1. CASE Refuse(r)
  BY <1>1, RefuseEnds, EndsKeeps DEF CatalogueInv
<1>2. CASE Conflict(r, keys)
  BY <1>2, <1>a, ConflictEnds, EndsKeeps DEF CatalogueInv
<1>3. CASE /\ keys \cap DOMAIN Seen(r) = {}
           /\ Write(r, keys, added)
           /\ Goto(r, "stock")
           /\ UNCHANGED <<command, attempt, entity, at, job, answer, faults>>
  <2>1. /\ Shape(r) /\ JobSound(r) /\ CreateSound(r) /\ StoreSound /\ ViewsAreFresh
        /\ command[r].kind = "create" /\ IsProduct(entity[r]) /\ wrote[r] = {}
        /\ {"kind", "product", "inventory", "variants"} \subseteq DOMAIN command[r]
    BY <1>a DEF CatalogueInv, RequestSound, TransactionsInv, Shape, CreateSound
  <2>2. Target(r) = NewProductId(r) /\ TargetKey(r) = key
    BY <2>1 DEF Target, TargetKey
  <2>3. key[1] = "product" /\ (\A k \in keys \ {key} : k[1] \in {"name", "slug", "sku"})
    BY Keys, NameKeysOnly DEF SkuKey
  <2>4. DOMAIN added = keys /\ key \in keys /\ added[key] = entity[r]
    OBVIOUS
  <2>5. \A k \in DOMAIN Seen(r) : k[1] = "stock" => ProductKey(k[2]) \in DOMAIN Seen(r)
    BY <1>a, <2>1 DEF Seen, CreateSound, StoreSound, OwnedIn
  <2>6. WellFormed(Seen(r))
    BY <2>1 DEF Seen, Shape, StoreSound
  <2>7. key \notin DOMAIN Seen(r)
    BY <1>3, <2>4
  <2>8. key \notin DOMAIN store
    <3>1. CASE r \in open
      <4>1. key \notin stale[r] \cup wrote[r]
        BY <1>3, <2>1, <2>4 DEF Write, Free
      <4> QED BY <2>1, <2>7, <3>1, <4>1 DEF ViewsAreFresh, Seen
    <3> QED BY <2>7, <3>1 DEF Seen
  <2> HIDE DEF added, keys
  <2>9. /\ DOMAIN view'[r] = DOMAIN Seen(r) \cup keys
        /\ \A k \in DOMAIN Seen(r) \ keys : view'[r][k] = Seen(r)[k]
        /\ view'[r][key] = entity[r]
        /\ wrote'[r] = keys /\ store' = store /\ r \in open'
    BY <1>3, <1>a, <2>1, <2>4 DEF ByRequest, Write, Overlaid
  <2>10. /\ pc'[r] = "stock" /\ command' = command /\ entity' = entity /\ attempt' = attempt
         /\ job' = job /\ OthersWait(r)
    BY <1>3, <1>a DEF ByRequest, Goto, OthersWait
  <2>11. Target(r)' = Target(r) /\ TargetKey(r)' = key
    BY <2>2, <2>10 DEF Target, TargetKey, ProductKey, NewProductId
  <2>12. WellFormed(view'[r])
    <3>1. entity[r].marked = {}
      BY <1>a, <2>1 DEF CreateSound
    <3> QED BY <2>1, <2>3, <2>6, <2>9, <3>1 DEF WellFormed
  <2>13. \A k \in DOMAIN Seen(r) \cup DOMAIN store : k[1] = "stock" => k[2] # Target(r)
    BY <2>1, <2>2, <2>5, <2>7, <2>8 DEF StoreSound, OwnedIn
  <2>14. Inventories(r)' = {} /\ InventoriesOf(store, Target(r))' = {}
    BY <2>2, <2>3, <2>9, <2>11, <2>13 DEF Inventories, InventoriesOf
  <2>15. Shape(r)' /\ NoClash(r)'
    <3>1. WellFormed(view[r])'
      BY <2>12 DEF WellFormed, IsProduct, ProductKeys, IsHistory, ToSet, StockKey, Root
    <3>2. IsProduct(entity[r])'
      BY <2>1, <2>10 DEF IsProduct, ProductKeys, IsHistory, ToSet, Root
    <3> QED BY <2>1, <2>9, <2>10, <3>1, <3>2 DEF Shape, NoClash, UpdatePhases
  <2>16. OwnWrites(r)'
    BY <2>3, <2>9, <2>11 DEF OwnWrites
  <2>17. UpdateSound(r)' /\ JobSound(r)' /\ CommitSound(r)'
    BY <1>a, <2>1, <2>10 DEF UpdateSound, JobSound, CommitSound, JobKinds, UpdatePhases
  <2>18. CreateSound(r)'
    BY <1>a, <2>1, <2>4, <2>9, <2>10, <2>11, <2>14 DEF CreateSound, Listed
  <2>19. RequestSound(r)'
    BY <2>15, <2>16, <2>17, <2>18 DEF RequestSound
  <2> QED BY <1>3, <2>10, <2>19, WorkKeeps DEF Works
<1> QED BY <1>1, <1>2, <1>3 DEF InsertProduct

\* What is asked for belongs to the new product, is of one kind, and has a
\* variant to belong to.
LEMMA RequestedKeys ==
  ASSUME NEW r, NEW k \in DOMAIN InventoryRequests(r)
  PROVE  /\ k = StockKey(NewProductId(r), k[3]) /\ k[1] = "stock" /\ k[2] = NewProductId(r)
         /\ IF Listed(command[r].variants) = <<>> THEN k[3] = Root
            ELSE k[3] # Root /\ \E i \in DOMAIN Listed(command[r].variants) : k[3] = <<r, attempt[r], i>>
<1>1. CASE Listed(command[r].variants) = <<>>
  <2>1. k = StockKey(NewProductId(r), Root)
    BY <1>1 DEF InventoryRequests
  <2> QED BY <1>1, <2>1, Keys
<1>2. CASE Listed(command[r].variants) # <<>>
  <2>1. PICK i \in DOMAIN Listed(command[r].variants) : k = StockKey(NewProductId(r), <<r, attempt[r], i>>)
    BY <1>2 DEF InventoryRequests
  <2> QED BY <1>2, <2>1, Keys, IdsAreNotRoot
<1> QED BY <1>1, <1>2

LEMMA InsertInventoriesKeeps ==
  ASSUME CatalogueInv, NEW r \in Requests, InsertInventories(r)
  PROVE  CatalogueInv'
<1> DEFINE asked == InventoryRequests(r)
           keys == DOMAIN asked
           added == [k \in keys |-> NewInventory(r, k, asked[k])]
<1>1. pc[r] = "stock" /\ ByRequest /\ Write(r, keys, added) /\ Goto(r, "commit")
      /\ UNCHANGED <<command, attempt, entity, at, job, answer, faults>>
  BY DEF InsertInventories, CatalogueInv
<1>2. /\ Shape(r) /\ JobSound(r) /\ CreateSound(r) /\ OwnWrites(r) /\ r \in open
      /\ command[r].kind = "create" /\ WellFormed(view[r])
      /\ {"kind", "product", "inventory", "variants"} \subseteq DOMAIN command[r]
      /\ Seen(r) = view[r]
  BY <1>1 DEF CatalogueInv, RequestSound, Shape, Seen
<1>3. Target(r) = NewProductId(r) /\ TargetKey(r) = ProductKey(NewProductId(r))
  BY <1>2 DEF Target, TargetKey
<1>4. \A k \in keys :
        /\ k = StockKey(Target(r), k[3]) /\ k[1] = "stock" /\ k[2] = Target(r)
        /\ IF Listed(command[r].variants) = <<>> THEN k[3] = Root
           ELSE k[3] # Root /\ k[3] \in DOMAIN entity[r].variants
  BY <1>1, <1>2, <1>3, RequestedKeys DEF CreateSound
<1>5. DOMAIN added = keys
  OBVIOUS
<1> HIDE DEF keys, added
<1>6. /\ DOMAIN view'[r] = DOMAIN view[r] \cup keys
      /\ \A k \in DOMAIN view[r] \ keys : view'[r][k] = view[r][k]
      /\ wrote'[r] = wrote[r] \cup keys /\ store' = store /\ r \in open'
  BY <1>1, <1>2, <1>5 DEF ByRequest, Write, Overlaid
<1>7. /\ pc'[r] = "commit" /\ command' = command /\ entity' = entity /\ attempt' = attempt
      /\ job' = job /\ OthersWait(r)
  BY <1>1 DEF ByRequest, Goto, OthersWait
<1>8. Target(r)' = Target(r) /\ TargetKey(r)' = TargetKey(r)
  BY <1>3, <1>7 DEF Target, TargetKey, ProductKey, NewProductId
<1>9. Inventories(r)' = keys
  BY <1>1, <1>2, <1>4, <1>6, <1>8 DEF Inventories, InventoriesOf, CreateSound
<1>10. TargetKey(r) \in wrote'[r] \cap DOMAIN view'[r] /\ view'[r][TargetKey(r)] = entity[r]
  <2>1. TargetKey(r) \notin keys
    BY <1>4, Keys DEF TargetKey
  <2> QED BY <1>1, <1>2, <1>6, <2>1 DEF CreateSound
<1>11. Shape(r)' /\ NoClash(r)'
  <2>1. WellFormed(view'[r])
    BY <1>2, <1>4, <1>6, Keys DEF WellFormed
  <2>2. WellFormed(view[r])'
    BY <2>1 DEF WellFormed, IsProduct, ProductKeys, IsHistory, ToSet, StockKey, Root
  <2> QED BY <1>2, <1>6, <1>7, <2>2 DEF Shape, NoClash, UpdatePhases
<1>12. OwnWrites(r)'
  BY <1>2, <1>4, <1>6, <1>8 DEF OwnWrites
<1>13. UpdateSound(r)' /\ JobSound(r)' /\ CreateSound(r)'
  BY <1>1, <1>2, <1>7 DEF UpdateSound, JobSound, CreateSound, JobKinds, UpdatePhases
<1>14. CommitSound(r)'
  <2>1. Agree(r)'
    BY <1>1, <1>2, <1>6, <1>8 DEF Agree, CreateSound, Inventories, InventoriesOf
  <2>2. OneKindSeen(r)'
    BY <1>4, <1>9 DEF OneKindSeen, Root
  <2>3. OwnersIn(r, view[r][TargetKey(r)])'
    BY <1>4, <1>8, <1>9, <1>10 DEF OwnersIn, Root
  <2> QED BY <1>8, <1>10, <2>1, <2>2, <2>3 DEF CommitSound
<1>15. RequestSound(r)'
  BY <1>11, <1>12, <1>13, <1>14 DEF RequestSound
<1> QED BY <1>1, <1>7, <1>15, WorkKeeps DEF Works

-----------------------------------------------------------------------------
\* The invariant, and what it is for.

LEMMA InitCatalogue ==
  ASSUME Init
  PROVE  CatalogueInv
<1>1. ByRequest /\ StoreSound /\ TransactionsInv
  BY InitialStoreAssumption
     DEF Init, TransactionsInit, ByRequest, StoreSound, TransactionsInv, WritersExclude, ViewsAreFresh
<1>2. ASSUME NEW r \in Requests PROVE RequestSound(r)
  <2>1. /\ r \notin open /\ wrote[r] = {} /\ pc[r] = "idle" /\ job[r] = NoJob
    BY DEF Init, TransactionsInit
  <2> QED BY <2>1, NoJobDoesNothing
          DEF RequestSound, Shape, NoClash, OwnWrites, UpdateSound, JobSound, CreateSound, CommitSound,
              UpdatePhases, JobKinds
<1> QED BY <1>1, <1>2 DEF CatalogueInv

LEMMA FaultsKeep ==
  ASSUME CatalogueInv, NEW r \in Requests, TransientError(r) \/ Lost(r)
  PROVE  CatalogueInv'
<1>1. ByRequest
  BY DEF CatalogueInv
<1>2. CASE TransientError(r)
  BY <1>1, <1>2, RunAgainEnds, EndsKeeps DEF TransientError
<1>3. CASE Lost(r)
  BY <1>1, <1>3, EndsKeeps DEF Lost, Answer, Goto, Forget, Ends, ByRequest, OthersWait
<1> QED BY <1>2, <1>3

LEMMA UnchangedKeeps ==
  ASSUME CatalogueInv, UNCHANGED vars
  PROVE  CatalogueInv'
<1>1. UNCHANGED txns /\ UNCHANGED request
  BY DEF vars
<1>2. ByRequest' /\ TransactionsInv'
  BY <1>1 DEF CatalogueInv, txns, request, ByRequest, TransactionsInv, WritersExclude, ViewsAreFresh
<1>3. StoreSound'
  BY <1>1, StoreKept DEF CatalogueInv, txns
<1>4. ASSUME NEW r \in Requests PROVE RequestSound(r)'
  BY <1>1, UnmovedSound DEF CatalogueInv, txns, request, Unmoved
<1> QED BY <1>2, <1>3, <1>4 DEF CatalogueInv

LEMMA NextCatalogue ==
  ASSUME CatalogueInv, [Next]_vars
  PROVE  CatalogueInv'
<1>1. CASE AllAnswered \/ UNCHANGED vars
  BY <1>1, UnchangedKeeps DEF AllAnswered
<1>2. ASSUME NEW r \in Requests, Step(r) PROVE CatalogueInv'
  BY <1>2, ReceiveKeeps, LoadProductKeeps, DropVariantsKeeps, AddNextVariantKeeps,
     EditNextVariantKeeps,
     SaveProductKeeps, DeleteInventoryKeeps, FindInventoryKeeps, SetStockKeeps, CheckKindsKeeps,
     InsertInventoryKeeps, PrepareProductKeeps, InsertProductKeeps, InsertInventoriesKeeps,
     CommitTransactionKeeps, FaultsKeep DEF Step
<1> QED BY <1>1, <1>2 DEF Next

THEOREM CatalogueInvariant == Spec => []CatalogueInv
<1>1. Init => CatalogueInv
  BY InitCatalogue
<1>2. CatalogueInv /\ [Next]_vars => CatalogueInv'
  BY NextCatalogue
<1> QED BY <1>1, <1>2, PTL DEF Spec

\* However requests interleave, fail and run again, a product never has an
\* inventory of its own beside one of a variant, although the services look
\* for the other kind outside their transactions.
THEOREM OneKindOfInventoryHolds == Spec => []OneKindOfInventory
<1>1. CatalogueInv => OneKindOfInventory
  BY DEF CatalogueInv, StoreSound, OneKindOfInventory
<1> QED BY <1>1, CatalogueInvariant, PTL

\* No committed inventory is without its product or its variant.
THEOREM InventoriesHaveOwnersHold == Spec => []InventoriesHaveOwners
<1>1. CatalogueInv => InventoriesHaveOwners
  BY DEF CatalogueInv, StoreSound, InventoriesHaveOwners
<1> QED BY <1>1, CatalogueInvariant, PTL

\* Two open transactions never write one document, and what a transaction sees
\* of the documents nobody has committed since is what is committed.
THEOREM TransactionsIsolated == Spec => [](WritersExclude /\ ViewsAreFresh)
<1>1. CatalogueInv => WritersExclude /\ ViewsAreFresh
  BY DEF CatalogueInv, TransactionsInv
<1> QED BY <1>1, CatalogueInvariant, PTL

-----------------------------------------------------------------------------
\* Variant skus.  The product that is being created shares none with the
\* products that were committed when they were compared, and what is committed
\* since is stale to its transaction.

Creating(r) == pc[r] \in {"insert", "stock", "commit"} /\ command[r].kind = "create"

NoneShared(r, product) == \A k \in ProductsIn(store) : ShareSku(product, store[k]) => k \in stale[r]

ComparedSound(r) ==
  Creating(r) => /\ NoneShared(r, entity[r])
                 /\ DOMAIN entity[r].variants # {} => r \in open

SkuInv == CatalogueInv /\ \A r \in Requests : ComparedSound(r)

\* A step of a request that neither commits nor goes on creating.
UpdateStep(r) == Ends(r) \/ (Works(r) /\ OthersWait(r) /\ command'[r].kind = "update")

\* What every step but a commit leaves of the others.
Spares(r) ==
  /\ OthersWait(r) /\ store' = store
  /\ \A q \in Requests \ {r} : stale'[q] = stale[q] /\ (q \in open' <=> q \in open)

LEMMA EndsSpares ==
  ASSUME ByRequest, NEW r \in Requests, Ends(r)
  PROVE  Spares(r) /\ ~Creating(r)'
  BY DEF ByRequest, Ends, Abort, Close, Spares, Creating

LEMMA WorkSpares ==
  ASSUME ByRequest, NEW r \in Requests, Works(r), OthersWait(r)
  PROVE  Spares(r) /\ stale'[r] = stale[r] /\ (r \in open => r \in open')
  BY DEF ByRequest, Works, Read, Write, txns, Spares

LEMMA SparedSound ==
  ASSUME NEW r \in Requests, Spares(r), NEW q \in Requests \ {r}, ComparedSound(q)
  PROVE  ComparedSound(q)'
  BY DEF Spares, OthersWait, ComparedSound, Creating, NoneShared, ProductsIn, ShareSku

LEMMA SparesKeeps ==
  ASSUME SkuInv, CatalogueInv', NEW r \in Requests, Spares(r), ComparedSound(r)'
  PROVE  SkuInv'
  BY SparedSound DEF SkuInv

LEMMA UpdateStepKeeps ==
  ASSUME SkuInv, CatalogueInv', NEW r \in Requests, UpdateStep(r)
  PROVE  SkuInv'
<1>1. ByRequest
  BY DEF SkuInv, CatalogueInv
<1>2. Spares(r) /\ ~Creating(r)'
  <2>1. CASE Ends(r)
    BY <1>1, <2>1, EndsSpares
  <2>2. CASE Works(r) /\ OthersWait(r) /\ command'[r].kind = "update"
    BY <1>1, <2>2, WorkSpares DEF Creating
  <2> QED BY <2>1, <2>2 DEF UpdateStep
<1>3. ComparedSound(r)'
  BY <1>2 DEF ComparedSound
<1> QED BY <1>2, <1>3, SparesKeeps

LEMMA LoadProductSteps ==
  ASSUME CatalogueInv, NEW r \in Requests, LoadProduct(r)
  PROVE  UpdateStep(r)
<1>1. ByRequest /\ Shape(r)
  BY DEF CatalogueInv, RequestSound
<1>2. CASE Refuse(r)
  BY <1>1, <1>2, RefuseEnds DEF UpdateStep
<1>3. CASE ~Refuse(r)
  <2> DEFINE doc == store[ProductKey(command[r].product)]
             cmd == Prepared(r, doc).command
  <2>1. /\ pc[r] = "load" /\ command[r].kind = "update"
        /\ ProductKey(command[r].product) \in DOMAIN store
        /\ command' = [command EXCEPT ![r] = cmd]
        /\ \E where : Goto(r, where)
        /\ \E x : entity' = [entity EXCEPT ![r] = x]
        /\ \E x : job' = [job EXCEPT ![r] = x]
        /\ Read(r) /\ UNCHANGED <<attempt, at>>
    BY <1>3, Zenon DEF LoadProduct
  <2>2. cmd.kind = "update"
    <3>1. IsProduct(doc)
      BY <2>1, Keys DEF CatalogueInv, StoreSound, WellFormed
    <3> HIDE DEF doc
    <3>2. Prepared(r, doc).command.kind = command[r].kind
      BY <1>1, <2>1, <3>1, PreparedKeeps DEF Shape
    <3> QED BY <2>1, <3>2
  <2> HIDE DEF cmd
  <2>3. OthersWait(r) /\ command'[r] = cmd
    BY <1>1, <2>1 DEF ByRequest, Goto, OthersWait
  <2> QED BY <2>1, <2>2, <2>3 DEF UpdateStep, Works
<1> QED BY <1>2, <1>3

LEMMA VariantStepSteps ==
  ASSUME CatalogueInv, NEW r \in Requests, DropVariants(r) \/ AddNextVariant(r) \/ EditNextVariant(r)
  PROVE  UpdateStep(r)
<1>1. pc[r] \in UpdatePhases /\ ByRequest /\ pc[r] \notin {"idle", "done"} /\ command[r].kind = "update"
  <2>1. pc[r] \in {"drop", "add", "edit"}
    BY DEF DropVariants, AddNextVariant, EditNextVariant
  <2>2. pc[r] \in UpdatePhases
    BY <2>1 DEF UpdatePhases
  <2> QED BY <2>2, AtWork DEF CatalogueInv
<1>2. CASE Refuse(r)
  BY <1>1, <1>2, RefuseEnds DEF UpdateStep
<1>3. CASE \E keys : Conflict(r, keys)
  BY <1>1, <1>3, ConflictEnds DEF UpdateStep
<1>4. CASE DropVariants(r) /\ ~Refuse(r) /\ ~\E keys : Conflict(r, keys)
  <2>1. /\ \E keys : Write(r, keys, EmptyStore)
        /\ \E where : Goto(r, where)
        /\ \E x : entity' = [entity EXCEPT ![r] = x]
        /\ UNCHANGED <<command, attempt, at, job>>
    BY <1>4, Zenon DEF DropVariants
  <2> QED BY <1>1, <2>1 DEF ByRequest, Goto, OthersWait, Works, UpdateStep
<1>5. CASE AddNextVariant(r) /\ ~Refuse(r)
  <2>1. /\ \E x : entity' = [entity EXCEPT ![r] = x]
        /\ \E x : job' = [job EXCEPT ![r] = x]
        /\ \E others, phase : Advance(r, others, phase)
        /\ UNCHANGED <<txns, command, attempt>>
    BY <1>5, Zenon DEF AddNextVariant
  <2> QED BY <1>1, <2>1 DEF ByRequest, Advance, Goto, OthersWait, Works, UpdateStep
<1>6. CASE EditNextVariant(r) /\ ~Refuse(r)
  <2> DEFINE edits == command[r].variants.edit
             edit == edits[at[r]]
             images == EditedImages(r, edit)
             product == UpdateVariant(entity[r], edit.id, edit.options, images.added,
                                      ToSet(Listed(edit.images.remove)), images.order)
  <2>1. /\ entity' = [entity EXCEPT ![r] = product]
        /\ command' = IF edit.images.order = Undefined THEN command
                      ELSE [command EXCEPT ![r].variants.edit[at[r]].images.order = images.order]
        /\ job' = [job EXCEPT ![r] =
                     JobFor(edit.inventory, StockKey(command[r].product, edit.id), FALSE)]
        /\ Advance(r, edits, "save")
        /\ UNCHANGED <<txns, attempt>>
    BY <1>6 DEF EditNextVariant
  <2>2. \A x : LET new == [command EXCEPT ![r].variants.edit[at[r]].images.order = x] IN
          /\ DOMAIN new = Requests /\ new[r].kind = command[r].kind
          /\ \A q \in Requests \ {r} : new[q] = command[q]
    BY <1>1, AtWork DEF ByRequest
  <2> HIDE DEF images, product, edits
  <2>3. /\ DOMAIN command' = Requests /\ command'[r].kind = "update"
        /\ \A q \in Requests \ {r} : command'[q] = command[q]
    BY <1>1, <2>1, <2>2 DEF ByRequest
  <2> QED BY <1>1, <2>1, <2>3 DEF ByRequest, Advance, Goto, OthersWait, Works, UpdateStep
<1> QED BY <1>2, <1>3, <1>4, <1>5, <1>6

LEMMA StockStepSteps ==
  ASSUME CatalogueInv, NEW r \in Requests,
         \/ DeleteInventory(r) \/ FindInventory(r) \/ SetStock(r) \/ CheckKinds(r) \/ InsertInventory(r)
         \/ SaveProduct(r)
  PROVE  UpdateStep(r)
<1>1. pc[r] \in UpdatePhases /\ ByRequest /\ pc[r] \notin {"idle", "done"} /\ command[r].kind = "update"
  <2>1. pc[r] \in UpdatePhases
    BY DEF DeleteInventory, FindInventory, SetStock, CheckKinds, InsertInventory, SaveProduct,
           CatalogueInv, RequestSound, JobSound, JobKinds, UpdatePhases
  <2> QED BY <2>1, AtWork DEF CatalogueInv
<1>2. CASE Refuse(r)
  BY <1>1, <1>2, RefuseEnds DEF UpdateStep
<1>3. CASE \E keys : Conflict(r, keys)
  BY <1>1, <1>3, ConflictEnds DEF UpdateStep
<1>4. CASE ~Refuse(r) /\ ~\E keys : Conflict(r, keys)
  <2>1. CASE FindInventory(r) \/ CheckKinds(r)
    <3>1. /\ \E x : job' = [job EXCEPT ![r] = x]
          /\ UNCHANGED <<txns, pc, command, attempt, entity, at>>
      BY <1>4, <2>1 DEF FindInventory, CheckKinds
    <3> QED BY <1>1, <3>1 DEF ByRequest, OthersWait, Works, UpdateStep
  <2>2. CASE DeleteInventory(r) \/ SetStock(r) \/ InsertInventory(r)
    <3>1. /\ \E keys, changed : Write(r, keys, changed)
          /\ Finished(r) /\ UNCHANGED <<pc, command, attempt, entity, at>>
      BY <1>4, <2>2, Zenon DEF DeleteInventory, SetStock, InsertInventory
    <3> QED BY <1>1, <3>1 DEF ByRequest, Finished, OthersWait, Works, UpdateStep
  <2>3. CASE SaveProduct(r)
    <3>1. /\ \E keys, changed : Write(r, keys, changed)
          /\ \E where : Goto(r, where)
          /\ UNCHANGED <<command, attempt, entity, at, job>>
      BY <1>4, <2>3, Zenon DEF SaveProduct
    <3> QED BY <1>1, <3>1 DEF ByRequest, Goto, OthersWait, Works, UpdateStep
  <2> QED BY <2>1, <2>2, <2>3
<1> QED BY <1>2, <1>3, <1>4

\* A received request is at its beginning or its end.
LEMMA ReceiveSpares ==
  ASSUME CatalogueInv, NEW r \in Requests, Receive(r)
  PROVE  Spares(r) /\ ~Creating(r)'
<1>1. ByRequest /\ UNCHANGED txns
  BY DEF CatalogueInv, Receive
<1>2. /\ pc' \in {[pc EXCEPT ![r] = "load"], [pc EXCEPT ![r] = "done"]}
      /\ \E x : command' \in {command, [command EXCEPT ![r] = x]}
      /\ \E x : attempt' \in {attempt, [attempt EXCEPT ![r] = x]}
      /\ \E x : entity' \in {entity, [entity EXCEPT ![r] = x]}
      /\ \E x : at' \in {at, [at EXCEPT ![r] = x]}
      /\ \E x : job' \in {job, [job EXCEPT ![r] = x]}
  BY DEF Receive, Goto, Answer, Forget
<1>3. OthersWait(r) /\ pc'[r] \in {"load", "done"}
  BY <1>1, <1>2 DEF ByRequest, OthersWait
<1> QED BY <1>1, <1>3 DEF txns, Spares, Creating

\* The comparison itself: a product that is not refused shares no variant.
LEMMA PrepareProductCompares ==
  ASSUME SkuInv, CatalogueInv', NEW r \in Requests, PrepareProduct(r)
  PROVE  SkuInv'
<1>1. ByRequest
  BY DEF SkuInv, CatalogueInv
<1>2. CASE Refuse(r)
  BY <1>1, <1>2, RefuseEnds, UpdateStepKeeps DEF UpdateStep
<1>3. CASE ~Refuse(r)
  <2> DEFINE product == NewProduct(r)
  <2>1. /\ DOMAIN product.variants # {} => \A k \in ProductsIn(store) : ~SharesVariant(product, store[k])
        /\ entity' = [entity EXCEPT ![r] = product]
        /\ Goto(r, "insert")
        /\ IF DOMAIN product.variants = {} THEN UNCHANGED txns ELSE Read(r)
        /\ UNCHANGED <<command, attempt, at, job>>
    BY <1>3, Zenon DEF PrepareProduct
  <2> HIDE DEF product
  <2>2. entity'[r] = product /\ OthersWait(r) /\ Works(r)
    BY <1>1, <2>1 DEF ByRequest, Goto, OthersWait, Works
  <2>3. Spares(r)
    BY <1>1, <2>2, WorkSpares
  <2>4. \A k \in ProductsIn(store) : ~ShareSku(product, store[k])
    BY <2>1 DEF SharesVariant, ShareSku
  <2>5. NoneShared(r, entity[r])'
    BY <2>2, <2>3, <2>4 DEF NoneShared, Spares, ProductsIn, ShareSku
  <2>6. DOMAIN product.variants # {} => r \in open'
    BY <2>1 DEF Read
  <2> QED BY <2>2, <2>3, <2>5, <2>6, SparesKeeps DEF ComparedSound
<1> QED BY <1>2, <1>3

\* The inserts leave the product as it was compared.
LEMMA InsertKeepsCompared ==
  ASSUME SkuInv, CatalogueInv', NEW r \in Requests, InsertProduct(r) \/ InsertInventories(r)
  PROVE  SkuInv'
<1>1. ByRequest /\ pc[r] \in {"insert", "stock"} /\ Creating(r)
  BY DEF SkuInv, CatalogueInv, RequestSound, Shape, Creating, InsertProduct, InsertInventories
<1>2. CASE Refuse(r)
  BY <1>1, <1>2, RefuseEnds, UpdateStepKeeps DEF UpdateStep
<1>3. CASE \E keys : Conflict(r, keys)
  BY <1>1, <1>3, ConflictEnds, UpdateStepKeeps DEF UpdateStep
<1>4. CASE ~Refuse(r) /\ ~\E keys : Conflict(r, keys)
  <2>1. /\ \E keys, changed : Write(r, keys, changed)
        /\ \E where : Goto(r, where)
        /\ UNCHANGED <<command, attempt, entity, at, job>>
    BY <1>4, Zenon DEF InsertProduct, InsertInventories
  <2>2. Works(r) /\ OthersWait(r)
    BY <1>1, <2>1 DEF ByRequest, Goto, OthersWait, Works
  <2>3. Spares(r) /\ stale'[r] = stale[r] /\ (r \in open => r \in open')
    BY <1>1, <2>2, WorkSpares
  <2>4. ComparedSound(r)
    BY DEF SkuInv
  <2>5. ComparedSound(r)'
    BY <1>1, <2>1, <2>3, <2>4 DEF ComparedSound, NoneShared, Spares, ProductsIn, ShareSku
  <2> QED BY <2>3, <2>5, SparesKeeps
<1> QED BY <1>2, <1>3, <1>4

\* What a commit writes is stale to every transaction that has compared.
LEMMA CommitKeepsCompared ==
  ASSUME SkuInv, CatalogueInv', NEW r \in Requests, CommitTransaction(r)
  PROVE  SkuInv'
<1>1. CatalogueInv /\ ByRequest /\ pc[r] = "commit" /\ Commit(r) /\ pc'[r] = "done" /\ OthersWait(r)
  BY DEF SkuInv, CatalogueInv, ByRequest, CommitTransaction, Answer, Goto, Forget, OthersWait
<1>2. ComparedSound(r)'
  BY <1>1 DEF ComparedSound, Creating
<1>3. ASSUME NEW q \in Requests \ {r}, Creating(q) PROVE ComparedSound(q)'
  <2>1. NoneShared(q, entity[q]) /\ (DOMAIN entity[q].variants # {} => q \in open)
    BY <1>3 DEF SkuInv, ComparedSound
  <2>2. /\ entity'[q] = entity[q]
        /\ q \in open => q \in open' /\ stale'[q] = stale[q] \cup wrote[r]
    BY <1>1 DEF ByRequest, OthersWait, Commit, Close
  <2>3. ASSUME NEW k \in ProductsIn(store'), ShareSku(entity[q], store'[k])
        PROVE  k \in stale'[q]
    <3>1. q \in open
      BY <2>1, <2>3 DEF ShareSku
    <3>2. k \in wrote[r] \/ (k \in DOMAIN store /\ store'[k] = store[k])
      BY <1>1, <2>3, CommittedKeys DEF ProductsIn
    <3>3. CASE k \in DOMAIN store /\ store'[k] = store[k]
      BY <2>1, <2>2, <2>3, <3>1, <3>3 DEF NoneShared, ProductsIn
    <3> QED BY <2>2, <3>1, <3>2, <3>3
  <2>4. NoneShared(q, entity[q])'
    BY <2>2, <2>3 DEF NoneShared, ProductsIn, ShareSku
  <2> QED BY <2>1, <2>2, <2>4 DEF ComparedSound
<1>4. ASSUME NEW q \in Requests \ {r}, ~Creating(q) PROVE ComparedSound(q)'
  BY <1>1, <1>4 DEF OthersWait, ComparedSound, Creating
<1> QED BY <1>2, <1>3, <1>4 DEF SkuInv

LEMMA FaultsEnd ==
  ASSUME ByRequest, NEW r \in Requests, TransientError(r) \/ Lost(r)
  PROVE  Ends(r)
<1>1. CASE TransientError(r)
  BY <1>1, RunAgainEnds DEF TransientError
<1>2. CASE Lost(r)
  BY <1>2 DEF Lost, Answer, Goto, Forget, Ends, ByRequest, OthersWait
<1> QED BY <1>1, <1>2

LEMMA NextSku ==
  ASSUME SkuInv, [Next]_vars
  PROVE  SkuInv'
<1>1. CatalogueInv /\ CatalogueInv'
  BY NextCatalogue DEF SkuInv
<1>2. CASE AllAnswered \/ UNCHANGED vars
  <2>1. UNCHANGED <<store, open, stale, pc, command, entity>>
    BY <1>2 DEF AllAnswered, vars, txns, request
  <2>2. \A r \in Requests : ComparedSound(r)'
    BY <2>1 DEF SkuInv, ComparedSound, Creating, NoneShared, ProductsIn, ShareSku
  <2> QED BY <1>1, <2>2 DEF SkuInv
<1>3. ASSUME NEW r \in Requests, Step(r) PROVE SkuInv'
  <2>1. CASE Receive(r)
    BY <1>1, <2>1, ReceiveSpares, SparesKeeps DEF ComparedSound
  <2>2. CASE \/ LoadProduct(r) \/ DropVariants(r) \/ AddNextVariant(r) \/ EditNextVariant(r) \/ SaveProduct(r)
             \/ DeleteInventory(r) \/ FindInventory(r) \/ SetStock(r) \/ CheckKinds(r) \/ InsertInventory(r)
    BY <1>1, <2>2, LoadProductSteps, VariantStepSteps, StockStepSteps, UpdateStepKeeps
  <2>3. CASE TransientError(r) \/ Lost(r)
    BY <1>1, <2>3, FaultsEnd, UpdateStepKeeps DEF CatalogueInv, UpdateStep
  <2> QED BY <1>1, <1>3, <2>1, <2>2, <2>3, PrepareProductCompares, InsertKeepsCompared,
             CommitKeepsCompared DEF Step
<1> QED BY <1>2, <1>3 DEF Next

\* A product is created with a variant sku that another product has only if
\* that product was committed while the new one was being created, however
\* many requests create and update products.
THEOREM SkusAreSharedByRacesOnly == Spec => SkusSharedByRacesOnly
<1> DEFINE OnlyRaces ==
      \A r \in Requests : Commits(r, "create") =>
        \A k \in ProductsIn(store) : ShareSku(entity[r], store[k]) => k \in stale[r]
<1>1. Init => SkuInv
  BY InitCatalogue DEF Init, SkuInv, ComparedSound, Creating
<1>2. SkuInv /\ [Next]_vars => SkuInv'
  BY NextSku
<1>3. SkuInv => [OnlyRaces]_vars
  BY DEF SkuInv, ComparedSound, NoneShared, Creating, Commits
<1>4. Spec => []SkuInv
  BY <1>1, <1>2, PTL DEF Spec
<1>5. SkusSharedByRacesOnly <=> [][OnlyRaces]_vars
  BY DEF SkusSharedByRacesOnly
<1> QED BY <1>3, <1>4, <1>5, PTL
-----------------------------------------------------------------------------
\* Types.  Where requests are, and what they answer.

Answers == {Undefined, "ok", "unknown", "refused", "failed"}

PhaseTypes ==
  /\ pc \in [Requests -> Phases]
  /\ attempt \in [Requests -> 0..MaxAttempts]
  /\ answer \in [Requests -> Answers]

LEMMA GotoTypes ==
  ASSUME PhaseTypes, NEW r, NEW where \in Phases, Goto(r, where), UNCHANGED <<attempt, answer>>
  PROVE  PhaseTypes'
  BY DEF PhaseTypes, Goto

LEMMA AnswerTypes ==
  ASSUME PhaseTypes, NEW r, NEW what \in Answers, Answer(r, what)
  PROVE  PhaseTypes'
  BY DEF PhaseTypes, Answer, Goto, Phases

LEMMA RefuseTypes ==
  ASSUME PhaseTypes, NEW r, Refuse(r)
  PROVE  PhaseTypes' /\ UNCHANGED faults
  BY AnswerTypes DEF Refuse, Answers

LEMMA RunAgainTypes ==
  ASSUME PhaseTypes, NEW r \in Requests, RunAgain(r)
  PROVE  PhaseTypes'
<1>1. CASE attempt[r] < MaxAttempts
  <2>1. /\ Goto(r, "load") /\ attempt' = [attempt EXCEPT ![r] = @ + 1] /\ answer' = answer
    BY <1>1 DEF RunAgain
  <2>2. attempt[r] + 1 \in 0..MaxAttempts
    BY <1>1, CatalogueAssumption DEF PhaseTypes
  <2> QED BY <2>1, <2>2 DEF PhaseTypes, Goto, Phases
<1>2. CASE ~(attempt[r] < MaxAttempts)
  BY <1>2, AnswerTypes DEF RunAgain, Answers
<1> QED BY <1>1, <1>2

LEMMA ConflictTypes ==
  ASSUME PhaseTypes, NEW r \in Requests, NEW keys, Conflict(r, keys)
  PROVE  PhaseTypes' /\ UNCHANGED faults
  BY RunAgainTypes DEF Conflict

LEMMA AdvanceTypes ==
  ASSUME PhaseTypes, NEW r, NEW others, NEW phase, Advance(r, others, phase),
         UNCHANGED <<attempt, answer>>
  PROVE  PhaseTypes'
<1>1. CASE UNCHANGED pc
  BY <1>1 DEF PhaseTypes
<1>2. CASE Goto(r, PhaseFrom(command[r], phase))
  <2>1. PhaseFrom(command[r], phase) \in Phases
    BY Phased DEF Phases, UpdatePhases
  <2> QED BY <1>2, <2>1, GotoTypes
<1> QED BY <1>1, <1>2 DEF Advance

LEMMA ReceiveTypes ==
  ASSUME PhaseTypes, NEW r, Receive(r)
  PROVE  PhaseTypes' /\ UNCHANGED faults
<1>1. CASE Answer(r, "refused")
  BY <1>1, AnswerTypes DEF Receive, Answers
<1>2. CASE Goto(r, "load") /\ attempt' = [attempt EXCEPT ![r] = 1] /\ answer' = answer
  <2>1. 1 \in 0..MaxAttempts
    BY CatalogueAssumption
  <2> QED BY <1>2, <2>1 DEF Receive, PhaseTypes, Goto, Phases
<1> QED BY <1>1, <1>2 DEF Receive

LEMMA UpdateTypes ==
  ASSUME PhaseTypes, NEW r \in Requests,
         \/ LoadProduct(r) \/ DropVariants(r) \/ AddNextVariant(r) \/ EditNextVariant(r) \/ SaveProduct(r)
  PROVE  PhaseTypes' /\ UNCHANGED faults
<1>1. CASE Refuse(r)
  BY <1>1, RefuseTypes
<1>2. CASE \E keys : Conflict(r, keys)
  BY <1>2, ConflictTypes
<1>3. CASE ~Refuse(r) /\ ~\E keys : Conflict(r, keys)
  <2>1. CASE LoadProduct(r) \/ DropVariants(r) \/ SaveProduct(r)
    <3>1. /\ \E phase : Goto(r, PhaseFrom(command[r], phase)) \/ Goto(r, "commit")
          /\ UNCHANGED <<attempt, answer, faults>>
      BY <1>3, <2>1, Zenon DEF LoadProduct, DropVariants, SaveProduct
    <3>2. \A phase : PhaseFrom(command[r], phase) \in Phases
      BY Phased DEF Phases, UpdatePhases
    <3> QED BY <3>1, <3>2, GotoTypes DEF Phases
  <2>2. CASE AddNextVariant(r) \/ EditNextVariant(r)
    <3>1. /\ \E others, phase : Advance(r, others, phase)
          /\ UNCHANGED <<attempt, answer, faults>>
      BY <1>3, <2>2, Zenon DEF AddNextVariant, EditNextVariant
    <3> QED BY <3>1, AdvanceTypes
  <2> QED BY <2>1, <2>2
<1> QED BY <1>1, <1>2, <1>3

LEMMA StockTypes ==
  ASSUME PhaseTypes, NEW r \in Requests,
         DeleteInventory(r) \/ FindInventory(r) \/ SetStock(r) \/ CheckKinds(r) \/ InsertInventory(r)
  PROVE  PhaseTypes' /\ UNCHANGED faults
<1>1. CASE Refuse(r)
  BY <1>1, RefuseTypes
<1>2. CASE \E keys : Conflict(r, keys)
  BY <1>2, ConflictTypes
<1>3. CASE ~Refuse(r) /\ ~\E keys : Conflict(r, keys)
  <2>1. UNCHANGED <<pc, attempt, answer, faults>>
    BY <1>3, Zenon DEF DeleteInventory, FindInventory, SetStock, CheckKinds, InsertInventory
  <2> QED BY <2>1 DEF PhaseTypes
<1> QED BY <1>1, <1>2, <1>3

LEMMA CreateTypes ==
  ASSUME PhaseTypes, NEW r \in Requests, PrepareProduct(r) \/ InsertProduct(r) \/ InsertInventories(r)
  PROVE  PhaseTypes' /\ UNCHANGED faults
<1>1. CASE Refuse(r)
  BY <1>1, RefuseTypes
<1>2. CASE \E keys : Conflict(r, keys)
  BY <1>2, ConflictTypes
<1>3. CASE ~Refuse(r) /\ ~\E keys : Conflict(r, keys)
  <2>1. /\ Goto(r, "insert") \/ Goto(r, "stock") \/ Goto(r, "commit")
        /\ UNCHANGED <<attempt, answer, faults>>
    BY <1>3, Zenon DEF PrepareProduct, InsertProduct, InsertInventories
  <2> QED BY <2>1, GotoTypes DEF Phases
<1> QED BY <1>1, <1>2, <1>3

CallTypes == PhaseTypes /\ faults \in 0..MaxFaults

LEMMA NextTypes ==
  ASSUME CallTypes, [Next]_vars
  PROVE  CallTypes'
<1> USE DEF CallTypes
<1>1. CASE AllAnswered \/ UNCHANGED vars
  BY <1>1 DEF AllAnswered, vars, request, PhaseTypes
<1>2. ASSUME NEW r \in Requests, Step(r) PROVE PhaseTypes' /\ faults' \in 0..MaxFaults
  <2>f. Fault => faults' \in 0..MaxFaults
    BY CatalogueAssumption DEF Fault
  <2>1. CASE CommitTransaction(r)
    <3>1. PICK what \in {"ok", "unknown"} : Answer(r, what)
      BY <2>1 DEF CommitTransaction
    <3>2. PhaseTypes'
      BY <3>1, AnswerTypes DEF Answers
    <3>3. faults' \in 0..MaxFaults
      BY <2>1, <2>f DEF CommitTransaction
    <3> QED BY <3>2, <3>3
  <2>2. CASE TransientError(r) \/ Lost(r)
    <3>1. PhaseTypes'
      BY <2>2, RunAgainTypes, AnswerTypes DEF TransientError, Lost, Answers
    <3>2. faults' \in 0..MaxFaults
      BY <2>2, <2>f DEF TransientError, Lost
    <3> QED BY <3>1, <3>2
  <2> QED BY <1>2, <2>1, <2>2, ReceiveTypes, UpdateTypes, StockTypes, CreateTypes DEF Step
<1> QED BY <1>1, <1>2 DEF Next

\* Requests move between their phases within their attempts and are answered;
\* none has a transaction before it begins or after its end.  A stored product
\* says that it has variants if it has some, though the flag is marked and
\* written apart from the variants, bears no marks, and remembers no more
\* prices than the history holds.
THEOREM TypeCorrect == Spec => []TypeOK
<1>1. Init => CallTypes
  BY CatalogueAssumption DEF Init, CallTypes, PhaseTypes, Phases, Answers
<1>2. CallTypes /\ [Next]_vars => CallTypes'
  BY NextTypes
<1>3. CatalogueInv => /\ open \subseteq Requests
                      /\ \A r \in Requests : r \in open => pc[r] \notin {"idle", "load", "done"}
  BY DEF CatalogueInv, ByRequest, RequestSound, Shape
<1>4. ASSUME CatalogueInv, NEW k \in ProductsIn(store)
      PROVE  /\ store[k].hasVariants = (DOMAIN store[k].variants # {})
             /\ store[k].marked = {} /\ Len(store[k].priceHistory) <= HistoryLength
  BY <1>4 DEF CatalogueInv, StoreSound, WellFormed, IsProduct, ProductKeys, IsHistory, ProductsIn
<1>5. CatalogueInv /\ CallTypes => TypeOK
  BY <1>3, <1>4 DEF TypeOK, CallTypes, PhaseTypes, Answers
<1>6. Spec => []CallTypes
  BY <1>1, <1>2, PTL DEF Spec
<1> QED BY <1>5, <1>6, CatalogueInvariant, PTL
-----------------------------------------------------------------------------
\* What an update makes of the fields.

\* What is stored of a product over the document it was read from.
LEMMA StoredParts ==
  ASSUME NEW doc, IsProduct(doc), NEW p
  PROVE  LET new == Stored(doc, p) IN
         /\ new.name = IF "name" \in p.marked THEN p.name ELSE doc.name
         /\ new.price = IF "price" \in p.marked THEN p.price ELSE doc.price
         /\ new.compareAtPrice = IF "compareAtPrice" \in p.marked
                                 THEN Given(p.compareAtPrice, doc.compareAtPrice) ELSE doc.compareAtPrice
         /\ new.images = IF "images" \in p.marked THEN p.images ELSE doc.images
         /\ new.variants = IF "variants" \in p.marked THEN p.variants ELSE doc.variants
         /\ \A f \in Fields :
              new.fields[f] = IF f \in p.marked THEN Given(p.fields[f], doc.fields[f]) ELSE doc.fields[f]
  BY DEF Stored, IsProduct, ProductKeys

LEMMA EntityParts ==
  ASSUME NEW doc, IsProduct(doc)
  PROVE  LET e == Entity(doc) IN
         /\ e.name = doc.name /\ e.price = doc.price /\ e.compareAtPrice = doc.compareAtPrice
         /\ e.images = doc.images /\ e.marked = {}
<1> DEFINE props == [key \in DOMAIN doc \ {"hasVariants", "marked"} |-> doc[key]]
           more == [hasVariants |-> DOMAIN props.variants # {}, marked |-> {}]
<1>1. /\ {"name", "price", "compareAtPrice", "images"} \subseteq DOMAIN props
      /\ \A key \in {"name", "price", "compareAtPrice", "images"} : props[key] = doc[key]
  BY DEF IsProduct, ProductKeys
<1>2. Entity(doc) = [key \in DOMAIN props \cup DOMAIN more |->
                       IF key \in DOMAIN more THEN more[key]
                       ELSE IF key = "fields"
                       THEN [f \in Fields |-> IF f = "productOptions" THEN Undefined ELSE props[key][f]]
                       ELSE props[key]]
  BY DEF Entity, New
<1>3. DOMAIN more = {"hasVariants", "marked"} /\ more.marked = {}
  OBVIOUS
<1> HIDE DEF props, more
<1> QED BY <1>1, <1>2, <1>3

\* What the parts of updateMultiple do, one after the other.
NamingDone(changes, p, q) ==
  /\ q.name = IF Has(changes, "name") THEN changes.name ELSE p.name
  /\ q.marked = p.marked \cup (IF Has(changes, "name") THEN {"name", "slug"} ELSE {})
  /\ q.price = p.price /\ q.compareAtPrice = p.compareAtPrice /\ q.fields = p.fields
  /\ q.images = p.images

LEMMA NamingDoes ==
  ASSUME NEW p, IsProduct(p), NEW changes, Naming(p, changes) # Refusal
  PROVE  NamingDone(changes, p, Naming(p, changes))
  BY DEF Naming, NamingDone, Marking, IsProduct, ProductKeys

SettingDone(changes, p, q) ==
  /\ q.fields = Changed(p, changes)
  /\ q.marked = p.marked \cup (Fields \cap DOMAIN changes)
  /\ q.name = p.name /\ q.price = p.price /\ q.compareAtPrice = p.compareAtPrice
  /\ q.images = p.images

LEMMA SettingDoes ==
  ASSUME NEW p, IsProduct(p), NEW changes, Setting(p, changes) # Refusal
  PROVE  SettingDone(changes, p, Setting(p, changes))
<1> DEFINE keys == Fields \cap DOMAIN changes
           q == Marking([p EXCEPT !.fields = Changed(p, changes)], keys)
<1>1. Setting(p, changes) = q
  BY DEF Setting
<1> HIDE DEF keys
<1>2. /\ q.fields = Changed(p, changes) /\ q.marked = p.marked \cup keys
      /\ q.name = p.name /\ q.price = p.price /\ q.compareAtPrice = p.compareAtPrice
      /\ q.images = p.images
  BY DEF Marking, IsProduct, ProductKeys
<1> QED BY <1>1, <1>2 DEF SettingDone, keys

OfPricing == {"price", "compareAtPrice", "priceHistory"}

PricingDone(changes, p, q) ==
  /\ q.name = p.name /\ q.fields = p.fields /\ q.images = p.images
  /\ p.marked \subseteq q.marked /\ q.marked \subseteq p.marked \cup OfPricing
  /\ {"price", "compareAtPrice"} \cap DOMAIN changes = {} => q = p
  /\ Has(changes, "price") =>
       /\ "price" \in q.marked
       /\ q.price.amount = Given(changes.price.amount, q.price.amount)
       /\ q.price.currency = Given(changes.price.currency, q.price.currency)
  /\ ~Has(changes, "compareAtPrice") => q.compareAtPrice = p.compareAtPrice
  /\ Has(changes, "compareAtPrice") =>
       IF changes.compareAtPrice = Null THEN q.compareAtPrice = Undefined
       ELSE {"price", "compareAtPrice"} \subseteq q.marked /\ q.compareAtPrice = changes.compareAtPrice /\ OnSale(q)

LEMMA MergedKeeps ==
  ASSUME NEW old, NEW change
  PROVE  LET price == Merged(old, change) IN
         /\ price.amount = Given(change.amount, price.amount)
         /\ price.currency = Given(change.currency, price.currency)
  BY DEF Merged, Given

\* The price of an update, and of an update after a markdown was removed.
LEMMA UpdatePriceDoes ==
  ASSUME NEW p, IsProduct(p), NEW change, UpdatePrice(p, change) # Refusal
  PROVE  LET q == UpdatePrice(p, change) IN
         /\ q.price = Merged(p.price, change) /\ q.marked = p.marked \cup {"price"}
         /\ q.name = p.name /\ q.compareAtPrice = p.compareAtPrice /\ q.fields = p.fields
         /\ q.images = p.images
<1> DEFINE price == Merged(p.price, change)
           q == Marking([p EXCEPT !.price = price], {"price"})
<1>1. UpdatePrice(p, change) = q
  BY DEF UpdatePrice
<1> HIDE DEF price
<1>2. /\ q.price = price /\ q.marked = p.marked \cup {"price"}
      /\ q.name = p.name /\ q.compareAtPrice = p.compareAtPrice /\ q.fields = p.fields
      /\ q.images = p.images
  BY DEF Marking, IsProduct, ProductKeys
<1> QED BY <1>1, <1>2 DEF price

LEMMA RepricedDoes ==
  ASSUME NEW p, IsProduct(p), NEW price, NEW original
  PROVE  LET q == Repriced(p, price, original) IN
         /\ q.price = price /\ q.compareAtPrice = original /\ q.marked = p.marked \cup OfPricing
         /\ q.name = p.name /\ q.fields = p.fields /\ q.images = p.images
  BY DEF Repriced, Marking, IsProduct, ProductKeys, OfPricing

LEMMA PricingDoes ==
  ASSUME NEW p, IsProduct(p), NEW changes, Pricing(p, changes) # Refusal
  PROVE  PricingDone(changes, p, Pricing(p, changes))
<1>1. CASE ~Has(changes, "compareAtPrice")
  <2>1. CASE ~Has(changes, "price")
    BY <1>1, <2>1 DEF Pricing, PricingDone, Has
  <2>2. CASE Has(changes, "price")
    <3>1. Pricing(p, changes) = UpdatePrice(p, changes.price)
      BY <1>1, <2>2 DEF Pricing
    <3> QED BY <1>1, <2>2, <3>1, UpdatePriceDoes, MergedKeeps DEF PricingDone, Has, OfPricing
  <2> QED BY <2>1, <2>2
<1>2. CASE Has(changes, "compareAtPrice") /\ changes.compareAtPrice = Null
  <2> DEFINE restored == RemoveMarkdown(p)
  <2>1. restored # Refusal
    BY <1>2 DEF Pricing
  <2>2. restored = Repriced(p, p.compareAtPrice, Undefined)
    BY <2>1 DEF RemoveMarkdown
  <2>3. /\ IsProduct(restored) /\ restored.compareAtPrice = Undefined
        /\ restored.marked = p.marked \cup OfPricing
        /\ restored.name = p.name /\ restored.fields = p.fields /\ restored.images = p.images
    BY <2>2, RepricedDoes, RepricedKeeps
  <2>4. CASE ~Has(changes, "price")
    <3>1. Pricing(p, changes) = restored
      BY <1>2, <2>4 DEF Pricing
    <3> HIDE DEF restored
    <3> QED BY <1>2, <2>3, <2>4, <3>1 DEF PricingDone, Has
  <2>5. CASE Has(changes, "price")
    <3>1. Pricing(p, changes) = UpdatePrice(restored, changes.price)
      BY <1>2, <2>1, <2>5 DEF Pricing
    <3> HIDE DEF restored
    <3> QED BY <1>2, <2>3, <2>5, <3>1, UpdatePriceDoes, MergedKeeps DEF PricingDone, Has, OfPricing
  <2> QED BY <2>4, <2>5
<1>3. CASE Has(changes, "compareAtPrice") /\ changes.compareAtPrice # Null
  <2> DEFINE sale == IF Has(changes, "price") THEN Merged(p.price, changes.price) ELSE p.price
             original == changes.compareAtPrice
  <2>1. Pricing(p, changes) = ApplyMarkdown(p, original, sale)
    BY <1>3 DEF Pricing
  <2>2. Has(changes, "price") => /\ sale.amount = Given(changes.price.amount, sale.amount)
                                 /\ sale.currency = Given(changes.price.currency, sale.currency)
    BY MergedKeeps
  <2> HIDE DEF sale, original
  <2>3. /\ Pricing(p, changes) = Repriced(p, sale, original)
        /\ IsPrice(original) /\ IsPrice(sale) /\ sale.currency = original.currency
        /\ ~(sale.amount >= original.amount)
    BY <2>1 DEF ApplyMarkdown
  <2>4. sale.amount < original.amount
    BY <2>3 DEF IsPrice
  <2> QED BY <1>3, <2>2, <2>3, <2>4, RepricedDoes DEF PricingDone, OnSale, OfPricing, Has, original
<1> QED BY <1>1, <1>2, <1>3

\* What a product is told by, as far as the fields of updateMultiple go.
FieldKeys == {"name", "price", "compareAtPrice"} \cup Fields

SameFields(p, q) ==
  /\ q.name = p.name /\ q.price = p.price /\ q.compareAtPrice = p.compareAtPrice
  /\ q.fields = p.fields
  /\ q.marked \cap FieldKeys = p.marked \cap FieldKeys

\* The part of what an update promises that updateMultiple sees to.
AsAsked(cmd, old, new) == FieldsAsAsked(cmd, old, new) /\ MarkdownStays(cmd, old, new)

LEMMA StoredAlike ==
  ASSUME NEW doc, IsProduct(doc), NEW p, NEW q, SameFields(p, q), NEW cmd, NEW new, new.domain = cmd.domain,
         AsAsked(cmd, doc, Stored(doc, p))
  PROVE  AsAsked(new, doc, Stored(doc, q))
<1> DEFINE a == Stored(doc, p)
           b == Stored(doc, q)
<1>1. \A key \in FieldKeys : key \in p.marked <=> key \in q.marked
  BY DEF SameFields
<1>2. /\ b.name = a.name /\ b.price = a.price /\ b.compareAtPrice = a.compareAtPrice
      /\ \A f \in Fields : b.fields[f] = a.fields[f]
  BY <1>1, StoredParts DEF SameFields, FieldKeys
<1>3. \A f \in Optional : f \in Fields
  BY DEF Fields
<1> HIDE DEF a, b
<1> QED BY <1>2, <1>3 DEF AsAsked, FieldsAsAsked, GivenIn, MarkdownStays, OnSale, a, b

\* updateMultiple, on a product that was just loaded.
LEMMA UpdateMultipleDoes ==
  ASSUME NEW doc, IsProduct(doc), NEW cmd, cmd.domain # Undefined, IsDomainUpdate(cmd.domain),
         UpdateMultiple(Entity(doc), cmd.domain) # Refusal
  PROVE  AsAsked(cmd, doc, Stored(doc, UpdateMultiple(Entity(doc), cmd.domain)))
<1> DEFINE changes == cmd.domain
           e == Entity(doc)
           named == Naming(e, changes)
           set == Setting(named, changes)
           p == UpdateMultiple(e, changes)
           new == Stored(doc, p)
<1>1. IsProduct(e) /\ e.name = doc.name /\ e.price = doc.price /\ e.compareAtPrice = doc.compareAtPrice
      /\ e.marked = {}
  BY EntityParts, EntityIsProduct
<1>2. named # Refusal /\ set # Refusal /\ p = Pricing(set, changes)
  BY DEF UpdateMultiple
<1>d. IsDomainUpdate(changes)
  OBVIOUS
<1>p. p # Refusal
  OBVIOUS
<1> HIDE DEF e, changes
<1>3. IsProduct(named) /\ NamingDone(changes, e, named)
  BY <1>1, <1>2, NamingDoes, NamingKeeps DEF Keeps
<1> HIDE DEF named
<1>4. IsProduct(set) /\ SettingDone(changes, named, set)
  BY <1>2, <1>3, SettingDoes, SettingKeeps DEF Keeps
<1> HIDE DEF set, p
<1>5. PricingDone(changes, set, p)
  BY <1>2, <1>4, <1>p, PricingDoes
<1>6. Changed(named, changes) = Changed(e, changes)
  BY <1>3 DEF NamingDone, Changed, UpdateSeo
<1>7. /\ p.name = IF Has(changes, "name") THEN changes.name ELSE doc.name
      /\ p.fields = Changed(e, changes)
  BY <1>1, <1>3, <1>4, <1>5, <1>6 DEF NamingDone, SettingDone, PricingDone
<1>8. /\ set.price = doc.price /\ set.compareAtPrice = doc.compareAtPrice
      /\ set.marked = (IF Has(changes, "name") THEN {"name", "slug"} ELSE {}) \cup (Fields \cap DOMAIN changes)
  BY <1>1, <1>3, <1>4 DEF NamingDone, SettingDone
<1>9. {"name", "price", "compareAtPrice", "priceHistory", "slug"} \cap Fields = {} /\ "seo" \notin Optional
  BY ProductEntityAssumption DEF Fields, ProductKeys
<1>10. /\ "name" \in p.marked <=> Has(changes, "name")
       /\ \A f \in Fields : f \in p.marked <=> Has(changes, f)
  BY <1>5, <1>8, <1>9 DEF PricingDone, OfPricing, Has
<1>11. /\ new.name = IF "name" \in p.marked THEN p.name ELSE doc.name
       /\ new.price = IF "price" \in p.marked THEN p.price ELSE doc.price
       /\ new.compareAtPrice = IF "compareAtPrice" \in p.marked
                               THEN Given(p.compareAtPrice, doc.compareAtPrice) ELSE doc.compareAtPrice
       /\ \A f \in Fields :
            new.fields[f] = IF f \in p.marked THEN Given(p.fields[f], doc.fields[f]) ELSE doc.fields[f]
  BY StoredParts
<1> HIDE DEF new
<1>12. new.name = IF Has(changes, "name") /\ changes.name # Null THEN changes.name ELSE doc.name
  BY <1>d, <1>7, <1>10, <1>11 DEF IsDomainUpdate, Has
<1>13. ASSUME NEW f \in Optional
       PROVE  new.fields[f] = IF Has(changes, f) /\ changes[f] # Null THEN changes[f] ELSE doc.fields[f]
  <2>1. f \in Fields /\ f # "seo"
    BY <1>9 DEF Fields
  <2>2. Has(changes, f) => p.fields[f] = IF changes[f] = Null THEN Undefined ELSE changes[f]
    BY <1>7, <2>1 DEF Changed
  <2>3. Has(changes, f) => changes[f] # Undefined
    BY <1>d DEF IsDomainUpdate, Has
  <2> QED BY <1>10, <1>11, <2>1, <2>2, <2>3 DEF Given
<1>14. Has(changes, "price") => /\ changes.price # Null
                                /\ new.price.amount = Given(changes.price.amount, new.price.amount)
                                /\ new.price.currency = Given(changes.price.currency, new.price.currency)
  BY <1>d, <1>5, <1>11 DEF PricingDone, IsDomainUpdate, Has
<1>15. {"price", "compareAtPrice"} \cap DOMAIN changes = {} => new.price = doc.price
  BY <1>5, <1>8, <1>11 DEF PricingDone
<1>16. /\ Has(changes, "compareAtPrice") /\ changes.compareAtPrice # Null =>
            new.compareAtPrice = changes.compareAtPrice /\ OnSale(new)
       /\ ~(Has(changes, "compareAtPrice") /\ changes.compareAtPrice # Null) =>
            new.compareAtPrice = doc.compareAtPrice
  <2>1. Has(changes, "compareAtPrice") => changes.compareAtPrice # Undefined
    BY <1>d DEF IsDomainUpdate, Has
  <2> QED BY <1>5, <1>8, <1>11, <2>1 DEF PricingDone, Given, OnSale
<1>17. ~Has(changes, "price") /\ ~Has(changes, "compareAtPrice") => (OnSale(doc) => OnSale(new))
  BY <1>15, <1>16 DEF OnSale, Has
<1>18. CASE cmd.domain # Undefined
  <2>1. FieldsAsAsked(cmd, doc, new)
    <3>1. GivenIn(cmd) = {f \in DOMAIN changes : changes[f] # Null}
      BY <1>18 DEF GivenIn, changes
    <3>2. \A f : f \in GivenIn(cmd) <=> Has(changes, f) /\ changes[f] # Null
      BY <3>1 DEF Has
    <3> QED BY <1>12, <1>13, <1>14, <1>15, <1>16, <1>18, <3>2 DEF FieldsAsAsked, changes
  <2>2. MarkdownStays(cmd, doc, new)
    BY <1>16, <1>17 DEF MarkdownStays, changes
  <2> QED BY <2>1, <2>2 DEF AsAsked, new, p, e, changes
<1> QED BY <1>18

LEMMA EntityAsAsked ==
  ASSUME NEW doc, IsProduct(doc), NEW cmd, cmd.domain = Undefined
  PROVE  AsAsked(cmd, doc, Stored(doc, Entity(doc)))
<1> DEFINE new == Stored(doc, Entity(doc))
<1>1. /\ new.name = doc.name /\ new.price = doc.price /\ new.compareAtPrice = doc.compareAtPrice
      /\ \A f \in Fields : new.fields[f] = doc.fields[f]
  BY EntityParts, StoredParts
<1>2. \A f \in Optional : f \in Fields
  BY DEF Fields
<1> HIDE DEF new
<1> QED BY <1>1, <1>2 DEF AsAsked, FieldsAsAsked, GivenIn, MarkdownStays, OnSale, new

\* The methods for images and variants leave those fields and their marks.
LEMMA OthersLeaveFields ==
  ASSUME NEW p, IsProduct(p)
  PROVE  /\ \A images : SameFields(p, Marking([p EXCEPT !.images = images], {"images"}))
         /\ \A variants : SameFields(p, Marking([p EXCEPT !.variants = variants], {"variants"}))
         /\ \A variants, flag :
              SameFields(p, Marking([p EXCEPT !.variants = variants, !.hasVariants = flag],
                                    {"variants", "hasVariants"}))
<1>1. {"images", "variants", "hasVariants"} \cap FieldKeys = {}
  BY ProductEntityAssumption DEF FieldKeys, Fields, ProductKeys
<1> HIDE DEF FieldKeys
<1> QED BY <1>1 DEF SameFields, Marking, IsProduct, ProductKeys

LEMMA ArrangeRootLeaves ==
  ASSUME NEW p, IsProduct(p), NEW added, NEW removed, NEW order,
         ArrangeRoot(p, added, removed, order) # Refusal
  PROVE  SameFields(p, ArrangeRoot(p, added, removed, order))
  BY OthersLeaveFields DEF ArrangeRoot

LEMMA VariantsLeave ==
  ASSUME NEW p, IsProduct(p)
  PROVE  /\ \A ids : RemoveVariants(p, ids) # Refusal => SameFields(p, RemoveVariants(p, ids))
         /\ \A id, v : AddVariant(p, id, v) # Refusal => SameFields(p, AddVariant(p, id, v))
         /\ \A id, options, added, removed, order :
              UpdateVariant(p, id, options, added, removed, order) # Refusal =>
                SameFields(p, UpdateVariant(p, id, options, added, removed, order))
<1>1. \A ids : RemoveVariants(p, ids) # Refusal => SameFields(p, RemoveVariants(p, ids))
  BY OthersLeaveFields DEF RemoveVariants
<1>2. \A id, v : AddVariant(p, id, v) # Refusal => SameFields(p, AddVariant(p, id, v))
  BY OthersLeaveFields DEF AddVariant
<1>3. ASSUME NEW id, NEW options, NEW added, NEW removed, NEW order,
             UpdateVariant(p, id, options, added, removed, order) # Refusal
      PROVE  SameFields(p, UpdateVariant(p, id, options, added, removed, order))
  <2>1. \E v : UpdateVariant(p, id, options, added, removed, order)
                 = Marking([p EXCEPT !.variants = [p.variants EXCEPT ![id] = v]], {"variants"})
    BY <1>3 DEF UpdateVariant
  <2> QED BY <2>1, OthersLeaveFields
<1> QED BY <1>1, <1>2, <1>3

\* A loaded product would be stored as asked.
LEMMA PreparedAsAsked ==
  ASSUME NEW r, NEW doc, IsProduct(doc),
         {"kind", "product", "inventory", "variants", "domain"} \subseteq DOMAIN command[r],
         command[r].domain = Undefined \/ IsDomainUpdate(command[r].domain),
         Prepared(r, doc).product # Refusal
  PROVE  /\ AsAsked(Prepared(r, doc).command, doc, Stored(doc, Prepared(r, doc).product))
         /\ "domain" \in DOMAIN Prepared(r, doc).command
         /\ Prepared(r, doc).command.domain = command[r].domain
<1> DEFINE cmd == command[r]
           updated == IF cmd.domain = Undefined THEN Entity(doc)
                      ELSE UpdateMultiple(Entity(doc), cmd.domain)
<1>1. updated # Refusal => IsProduct(updated) /\ AsAsked(cmd, doc, Stored(doc, updated))
  BY EntityIsProduct, EntityAsAsked, UpdateMultipleKeeps, UpdateMultipleDoes DEF Keeps
<1>2. CASE updated = Refusal \/ ~TouchesRootImages(cmd)
  <2>1. Prepared(r, doc) = [product |-> updated, command |-> cmd]
    BY <1>2 DEF Prepared
  <2> HIDE DEF updated
  <2> QED BY <1>1, <2>1
<1>3. CASE updated # Refusal /\ TouchesRootImages(cmd) /\ cmd.images.order = Undefined
  <2>1. Prepared(r, doc) = [product |-> Refusal, command |-> cmd]
    BY <1>3 DEF Prepared
  <2> QED BY <2>1
<1>4. CASE updated # Refusal /\ TouchesRootImages(cmd) /\ cmd.images.order # Undefined
  <2> DEFINE adds == Listed(cmd.images.add)
             ids == [i \in DOMAIN adds |-> <<r, attempt[r], i>>]
             order == Renamed(cmd.images.order, adds, ids)
             product == ArrangeRoot(updated, WithIds(adds, ids), ToSet(Listed(cmd.images.remove)), order)
             new == [cmd EXCEPT !.images.order = order]
  <2>1. Prepared(r, doc) = [product |-> product, command |-> new]
    BY <1>4 DEF Prepared
  <2>2. SameFields(updated, product)
    <3>1. product # Refusal
      BY <2>1
    <3> HIDE DEF updated, order, adds, ids
    <3> QED BY <1>1, <1>4, <3>1, ArrangeRootLeaves
  <2>3. \A o : LET c == [cmd EXCEPT !.images.order = o] IN "domain" \in DOMAIN c /\ c.domain = cmd.domain
    OBVIOUS
  <2>4. "domain" \in DOMAIN new /\ new.domain = cmd.domain
    <3> HIDE DEF order
    <3> QED BY <2>3
  <2> HIDE DEF product, new, updated
  <2>5. AsAsked(new, doc, Stored(doc, product))
    BY <1>1, <1>4, <2>2, <2>4, StoredAlike
  <2> QED BY <2>1, <2>4, <2>5
<1> QED BY <1>2, <1>3, <1>4

\* An update that may yet be stored would store what was asked over what is
\* committed by then, and one that is about to be committed does.
AloneKinds == {"name", "slug", "stock"}

IsExact(phase, cmd, keys, missed, db, p, seen) ==
  LET key == ProductKey(cmd.product) IN
  phase \notin {"idle", "done"} /\ cmd.kind = "update" =>
    /\ "domain" \in DOMAIN cmd /\ (cmd.domain = Undefined \/ IsDomainUpdate(cmd.domain))
    /\ \A k \in keys : k = key \/ k[1] \in AloneKinds
    /\ phase \in UpdatePhases => key \notin keys
    /\ phase \in UpdatePhases /\ key \notin missed =>
         key \in DOMAIN db /\ AsAsked(cmd, db[key], Stored(db[key], p))
    /\ phase = "commit" => key \in DOMAIN db /\ AsAsked(cmd, db[key], seen[key])

ExactSound(r) == IsExact(pc[r], command[r], wrote[r], stale[r], store, entity[r], view[r])

ExactInv == CatalogueInv /\ \A r \in Requests : ExactSound(r)

LEMMA ExactNext ==
  ASSUME NEW r, IsExact(pc'[r], command'[r], wrote'[r], stale'[r], store', entity'[r], view'[r])
  PROVE  ExactSound(r)'
  BY DEF ExactSound, IsExact, ProductKey, UpdatePhases, AloneKinds, IsDomainUpdate, AsAsked, FieldsAsAsked,
         GivenIn, MarkdownStays, OnSale, Stored, Given, Has, Fields

LEMMA SparedExact ==
  ASSUME NEW q \in Requests, Unmoved(q), store' = store, stale'[q] = stale[q], ExactSound(q)
  PROVE  ExactSound(q)'
  BY ExactNext DEF Unmoved, ExactSound

\* A step of an update that leaves the fields of its product.
Proceeds(r) ==
  /\ Works(r) /\ OthersWait(r)
  /\ pc[r] \in UpdatePhases /\ pc'[r] \in UpdatePhases
  /\ command'[r].kind = "update" /\ command'[r].product = command[r].product
  /\ "domain" \in DOMAIN command[r] =>
       "domain" \in DOMAIN command'[r] /\ command'[r].domain = command[r].domain
  /\ SameFields(entity[r], entity'[r])
  /\ \A k \in wrote'[r] \ wrote[r] : k[1] = "stock"

\* The store, and what the others have, in a step that does not commit.
LEMMA WorkLeaves ==
  ASSUME ByRequest, NEW r \in Requests, Works(r), OthersWait(r)
  PROVE  /\ store' = store /\ stale'[r] = stale[r]
         /\ \A q \in Requests \ {r} : Unmoved(q) /\ stale'[q] = stale[q]
  BY DEF ByRequest, Works, Read, Write, txns, OthersWait, Unmoved

LEMMA WorkExact ==
  ASSUME ExactInv, CatalogueInv', NEW r \in Requests, Works(r), OthersWait(r), ExactSound(r)'
  PROVE  ExactInv'
<1>1. ByRequest
  BY DEF ExactInv, CatalogueInv
<1>2. \A q \in Requests \ {r} : ExactSound(q)'
  BY <1>1, WorkLeaves, SparedExact DEF ExactInv
<1> QED BY <1>2 DEF ExactInv

LEMMA EndsExact ==
  ASSUME ExactInv, CatalogueInv', NEW r \in Requests, Ends(r)
  PROVE  ExactInv'
<1>1. ByRequest /\ ExactSound(r)
  BY DEF ExactInv, CatalogueInv
<1>2. ASSUME NEW q \in Requests \ {r} PROVE ExactSound(q)'
  <2>1. Unmoved(q) /\ store' = store /\ stale'[q] = stale[q]
    BY <1>1 DEF Ends, Abort, Close, OthersWait, Unmoved, ByRequest
  <2> QED BY <2>1, SparedExact DEF ExactInv
<1>3. ExactSound(r)'
  <2>1. /\ pc'[r] = "done" \/ (pc'[r] = "load" /\ pc[r] \notin {"idle", "done"})
        /\ command'[r] = command[r] /\ wrote'[r] = {}
    BY <1>1 DEF Ends, Abort, Close, ByRequest
  <2>2. IsExact(pc'[r], command'[r], wrote'[r], stale'[r], store', entity'[r], view'[r])
    BY <1>1, <2>1 DEF ExactSound, IsExact, UpdatePhases
  <2> QED BY <2>2, ExactNext
<1> QED BY <1>2, <1>3 DEF ExactInv

LEMMA ProceedsExact ==
  ASSUME ExactInv, CatalogueInv', NEW r \in Requests, Proceeds(r)
  PROVE  ExactInv'
<1> DEFINE key == ProductKey(command[r].product)
<1>1. ByRequest /\ ExactSound(r) /\ StoreSound /\ command[r].kind = "update" /\ pc[r] \in UpdatePhases
      /\ pc[r] \notin {"idle", "done"}
  BY AtWork DEF ExactInv, CatalogueInv, Proceeds
<1>2. store' = store /\ stale'[r] = stale[r]
  BY <1>1, WorkLeaves DEF Proceeds
<1>3. /\ "domain" \in DOMAIN command[r] /\ (command[r].domain = Undefined \/ IsDomainUpdate(command[r].domain))
      /\ \A k \in wrote[r] : k = key \/ k[1] \in AloneKinds
      /\ key \notin wrote[r]
      /\ key \notin stale[r] => key \in DOMAIN store /\ AsAsked(command[r], store[key], Stored(store[key], entity[r]))
  BY <1>1 DEF ExactSound, IsExact
<1>4. /\ pc'[r] \in UpdatePhases /\ pc'[r] # "commit"
      /\ command'[r].kind = "update" /\ ProductKey(command'[r].product) = key
      /\ "domain" \in DOMAIN command'[r] /\ command'[r].domain = command[r].domain
  BY <1>3 DEF Proceeds, UpdatePhases
<1>5. /\ \A k \in wrote'[r] : k = key \/ k[1] \in AloneKinds
      /\ key \notin wrote'[r]
  BY <1>3, Keys DEF Proceeds, AloneKinds
<1>6. ASSUME key \notin stale[r]
      PROVE  key \in DOMAIN store /\ AsAsked(command'[r], store[key], Stored(store[key], entity'[r]))
  <2>1. IsProduct(store[key])
    BY <1>1, <1>3, <1>6, Keys DEF StoreSound, WellFormed
  <2> HIDE DEF key
  <2> QED BY <1>3, <1>4, <1>6, <2>1, StoredAlike DEF Proceeds
<1> HIDE DEF key
<1>7. IsExact(pc'[r], command'[r], wrote'[r], stale'[r], store', entity'[r], view'[r])
  BY <1>2, <1>3, <1>4, <1>5, <1>6 DEF IsExact
<1> QED BY <1>7, ExactNext, WorkExact DEF Proceeds

LEMMA StockExact ==
  ASSUME ExactInv, CatalogueInv', NEW r \in Requests,
         \/ DeleteInventory(r) \/ FindInventory(r) \/ SetStock(r) \/ CheckKinds(r) \/ InsertInventory(r)
  PROVE  ExactInv'
<1>1. /\ ByRequest /\ pc[r] \in UpdatePhases /\ pc[r] \notin {"idle", "done"}
      /\ command[r].kind = "update"
      /\ JobSound(r)
  <2>1. pc[r] \in UpdatePhases
    BY DEF DeleteInventory, FindInventory, SetStock, CheckKinds, InsertInventory,
           ExactInv, CatalogueInv, RequestSound, JobSound, JobKinds, UpdatePhases
  <2> QED BY <2>1, AtWork DEF ExactInv, CatalogueInv
<1>2. CASE Refuse(r) \/ \E keys : Conflict(r, keys)
  BY <1>1, <1>2, RefuseEnds, ConflictEnds, EndsExact
<1>3. CASE ~Refuse(r) /\ ~\E keys : Conflict(r, keys)
  <2>1. CASE FindInventory(r) \/ CheckKinds(r)
    <3>1. /\ \E x : job' = [job EXCEPT ![r] = x]
          /\ UNCHANGED <<txns, pc, command, attempt, entity, at>>
      BY <1>3, <2>1 DEF FindInventory, CheckKinds
    <3>2. Proceeds(r)
      BY <1>1, <3>1 DEF ByRequest, txns, OthersWait, Works, Proceeds, SameFields
    <3> QED BY <3>2, ProceedsExact
  <2>2. CASE DeleteInventory(r) \/ SetStock(r) \/ InsertInventory(r)
    <3>1. /\ \E keys, changed : Write(r, keys, changed) /\ \A k \in keys : k[1] = "stock"
          /\ Finished(r) /\ UNCHANGED <<pc, command, attempt, entity, at>>
      <4>1. CASE DeleteInventory(r)
        <5>1. \A k \in OwnInventory(r, job[r].id) : k[1] = "stock"
          BY DEF OwnInventory, InventoriesOf
        <5>2. \E changed : Write(r, OwnInventory(r, job[r].id), changed)
          BY <1>3, <4>1, Zenon DEF DeleteInventory
        <5>3. Finished(r) /\ UNCHANGED <<pc, command, attempt, entity, at>>
          BY <1>3, <4>1, Zenon DEF DeleteInventory
        <5> QED BY <5>1, <5>2, <5>3
      <4>2. CASE SetStock(r)
        <5>1. \A k \in WithId(view[r], job[r].id) : k[1] = "stock"
          BY DEF WithId
        <5>2. \E changed : Write(r, WithId(view[r], job[r].id), changed)
          BY <1>3, <4>2, Zenon DEF SetStock
        <5>3. Finished(r) /\ UNCHANGED <<pc, command, attempt, entity, at>>
          BY <1>3, <4>2, Zenon DEF SetStock
        <5> QED BY <5>1, <5>2, <5>3
      <4>3. CASE InsertInventory(r)
        <5>1. \A k \in {job[r].key} : k[1] = "stock"
          BY <1>1, <4>3, Keys DEF InsertInventory, JobSound
        <5>2. \E changed : Write(r, {job[r].key}, changed)
          BY <1>3, <4>3, Zenon DEF InsertInventory
        <5>3. Finished(r) /\ UNCHANGED <<pc, command, attempt, entity, at>>
          BY <1>3, <4>3, Zenon DEF InsertInventory
        <5> QED BY <5>1, <5>2, <5>3
      <4> QED BY <2>2, <4>1, <4>2, <4>3
    <3>2. wrote'[r] \subseteq wrote[r] \cup {k \in wrote'[r] : k[1] = "stock"}
      BY <1>1, <3>1 DEF ByRequest, Write
    <3>3. Proceeds(r)
      BY <1>1, <3>1, <3>2 DEF ByRequest, Finished, OthersWait, Works, Proceeds, SameFields
    <3> QED BY <3>3, ProceedsExact
  <2> QED BY <2>1, <2>2
<1> QED BY <1>2, <1>3

LEMMA VariantExact ==
  ASSUME ExactInv, CatalogueInv', NEW r \in Requests, DropVariants(r) \/ AddNextVariant(r) \/ EditNextVariant(r)
  PROVE  ExactInv'
<1>1. /\ ByRequest /\ pc[r] \in UpdatePhases /\ pc[r] \notin {"idle", "done"}
      /\ command[r].kind = "update"
      /\ IsProduct(entity[r])
  <2>1. pc[r] \in {"drop", "add", "edit"}
    BY DEF DropVariants, AddNextVariant, EditNextVariant
  <2>2. pc[r] \in UpdatePhases
    BY <2>1 DEF UpdatePhases
  <2> QED BY <2>2, AtWork DEF ExactInv, CatalogueInv
<1>2. CASE Refuse(r) \/ \E keys : Conflict(r, keys)
  BY <1>1, <1>2, RefuseEnds, ConflictEnds, EndsExact
<1>3. CASE DropVariants(r) /\ ~Refuse(r) /\ ~\E keys : Conflict(r, keys)
  <2> DEFINE ids == command[r].variants.drop
             keys == VariantInventories(r, ToSet(ids))
             product == RemoveVariants(entity[r], ToSet(ids))
  <2>1. /\ product # Refusal
        /\ entity' = [entity EXCEPT ![r] = product]
        /\ Write(r, keys, EmptyStore)
        /\ Goto(r, PhaseFrom(command[r], "add"))
        /\ UNCHANGED <<command, attempt, at, job>>
    BY <1>3, Zenon DEF DropVariants
  <2>2. SameFields(entity[r], product)
    BY <1>1, <2>1, VariantsLeave
  <2>3. \A k \in keys : k[1] = "stock"
    BY Keys DEF VariantInventories
  <2> HIDE DEF product, keys
  <2>4. wrote'[r] = wrote[r] \cup keys /\ Works(r) /\ OthersWait(r)
    BY <1>1, <2>1 DEF ByRequest, Write, Works, Goto, OthersWait
  <2>5. pc'[r] \in UpdatePhases /\ command'[r] = command[r] /\ entity'[r] = product
    BY <1>1, <2>1, Phased DEF ByRequest, Goto
  <2>6. Proceeds(r)
    BY <1>1, <2>2, <2>3, <2>4, <2>5 DEF Proceeds
  <2> QED BY <2>6, ProceedsExact
<1>4. CASE AddNextVariant(r) /\ ~Refuse(r)
  <2>1. \E id, v, x, others :
          /\ AddVariant(entity[r], id, v) # Refusal
          /\ entity' = [entity EXCEPT ![r] = AddVariant(entity[r], id, v)]
          /\ job' = [job EXCEPT ![r] = x]
          /\ Advance(r, others, "edit")
          /\ UNCHANGED <<txns, command, attempt>>
    BY <1>4, Zenon DEF AddNextVariant
  <2>2. SameFields(entity[r], entity'[r])
    BY <1>1, <2>1, VariantsLeave DEF ByRequest
  <2>3. pc'[r] \in {pc[r], PhaseFrom(command[r], "edit")} /\ OthersWait(r)
    BY <1>1, <2>1 DEF ByRequest, Advance, Goto, OthersWait
  <2>4. Proceeds(r)
    BY <1>1, <2>1, <2>2, <2>3, Phased DEF Proceeds, Works, txns
  <2> QED BY <2>4, ProceedsExact
<1>5. CASE EditNextVariant(r) /\ ~Refuse(r)
  <2> DEFINE edits == command[r].variants.edit
             edit == edits[at[r]]
             images == EditedImages(r, edit)
             product == UpdateVariant(entity[r], edit.id, edit.options, images.added,
                                      ToSet(Listed(edit.images.remove)), images.order)
  <2>1. /\ product # Refusal
        /\ entity' = [entity EXCEPT ![r] = product]
        /\ command' = IF edit.images.order = Undefined THEN command
                      ELSE [command EXCEPT ![r].variants.edit[at[r]].images.order = images.order]
        /\ job' = [job EXCEPT ![r] =
                     JobFor(edit.inventory, StockKey(command[r].product, edit.id), FALSE)]
        /\ Advance(r, edits, "save")
        /\ UNCHANGED <<txns, attempt>>
    BY <1>5, Zenon DEF EditNextVariant
  <2>2. SameFields(entity[r], product)
    BY <1>1, <2>1, VariantsLeave
  <2>3. \A x : LET new == [command EXCEPT ![r].variants.edit[at[r]].images.order = x] IN
          /\ DOMAIN new = Requests /\ DOMAIN new[r] = DOMAIN command[r]
          /\ \A q \in Requests \ {r} : new[q] = command[q]
          /\ \A f \in {"kind", "product", "domain"} : new[r][f] = command[r][f]
    BY <1>1 DEF ByRequest
  <2> HIDE DEF images, product, edits
  <2>4. /\ DOMAIN command' = Requests /\ DOMAIN command'[r] = DOMAIN command[r]
        /\ \A q \in Requests \ {r} : command'[q] = command[q]
        /\ \A f \in {"kind", "product", "domain"} : command'[r][f] = command[r][f]
    BY <1>1, <2>1, <2>3 DEF ByRequest
  <2>5. OthersWait(r)
    <3>1. PhaseFrom(command[r], "save") = "save"
      BY Phased
    <3> QED BY <1>1, <2>1, <2>4, <3>1 DEF ByRequest, Advance, Goto, OthersWait, UpdatePhases
  <2>6. pc'[r] \in UpdatePhases
    <3>1. PhaseFrom(command[r], "save") = "save"
      BY Phased
    <3> QED BY <1>1, <2>1, <3>1 DEF ByRequest, Advance, Goto, UpdatePhases
  <2>7. entity'[r] = product /\ wrote'[r] = wrote[r] /\ Works(r)
    BY <1>1, <2>1 DEF ByRequest, txns, Works
  <2>8. Proceeds(r)
    BY <1>1, <2>2, <2>4, <2>5, <2>6, <2>7 DEF Proceeds
  <2> QED BY <2>8, ProceedsExact
<1> QED BY <1>2, <1>3, <1>4, <1>5

\* Requests that have only begun, and those that create.
LEMMA ReceiveExact ==
  ASSUME ExactInv, CatalogueInv', NEW r \in Requests, Receive(r)
  PROVE  ExactInv'
<1>1. ByRequest /\ UNCHANGED txns /\ r \notin open /\ wrote'[r] = {} /\ OthersWait(r)
  <2>1. ByRequest /\ Shape(r) /\ WritersExclude /\ UNCHANGED txns /\ pc[r] = "idle"
    BY DEF ExactInv, CatalogueInv, RequestSound, TransactionsInv, Receive
  <2> QED BY <2>1, ReceiveSpares DEF ExactInv, Shape, WritersExclude, txns, Spares
<1>2. PICK dto \in Dtos :
        IF Accepted(dto)
        THEN /\ Goto(r, "load")
             /\ command' = [command EXCEPT ![r] = Assembled(dto)]
             /\ attempt' = [attempt EXCEPT ![r] = 1]
             /\ UNCHANGED <<entity, at, job, answer>>
        ELSE Answer(r, "refused")
  BY DEF Receive
<1>3. CASE Accepted(dto)
  <2>1. pc'[r] = "load" /\ command'[r] = Assembled(dto)
    BY <1>1, <1>2, <1>3 DEF ByRequest, Goto
  <2>2. CASE dto.kind = "update"
    <3>1. /\ "domain" \in DOMAIN Assembled(dto)
          /\ Assembled(dto).domain = Undefined \/ IsDomainUpdate(Assembled(dto).domain)
      BY <2>2, DtosAssumption DEF Assembled, AssembleUpdate, IsUpdate
    <3>2. IsExact(pc'[r], command'[r], wrote'[r], stale'[r], store', entity'[r], view'[r])
      BY <1>1, <2>1, <3>1 DEF IsExact, UpdatePhases
    <3> QED BY <1>1, <3>2, ExactNext, WorkExact DEF Works
  <2>3. CASE dto.kind # "update"
    <3>1. command'[r].kind # "update"
      BY <2>1, <2>3 DEF Assembled, AssembleCreate
    <3>2. IsExact(pc'[r], command'[r], wrote'[r], stale'[r], store', entity'[r], view'[r])
      BY <3>1 DEF IsExact
    <3> QED BY <1>1, <3>2, ExactNext, WorkExact DEF Works
  <2> QED BY <2>2, <2>3
<1>4. CASE ~Accepted(dto)
  <2>1. pc'[r] = "done"
    BY <1>1, <1>2, <1>4 DEF ByRequest, Goto, Answer
  <2>2. IsExact(pc'[r], command'[r], wrote'[r], stale'[r], store', entity'[r], view'[r])
    BY <2>1 DEF IsExact
  <2> QED BY <1>1, <2>2, ExactNext, WorkExact DEF Works
<1> QED BY <1>3, <1>4

LEMMA CreateExact ==
  ASSUME ExactInv, CatalogueInv', NEW r \in Requests,
         PrepareProduct(r) \/ InsertProduct(r) \/ InsertInventories(r)
  PROVE  ExactInv'
<1>1. ByRequest /\ pc[r] \notin {"idle", "done"} /\ command[r].kind # "update"
  BY DEF ExactInv, CatalogueInv, RequestSound, Shape, PrepareProduct, InsertProduct, InsertInventories
<1>2. CASE Refuse(r) \/ \E keys : Conflict(r, keys)
  BY <1>1, <1>2, RefuseEnds, ConflictEnds, EndsExact
<1>3. CASE ~Refuse(r) /\ ~\E keys : Conflict(r, keys)
  <2>1. Works(r) /\ OthersWait(r) /\ command'[r] = command[r]
    <3>1. CASE PrepareProduct(r)
      <4>1. /\ \E x : entity' = [entity EXCEPT ![r] = x]
            /\ Goto(r, "insert")
            /\ UNCHANGED txns \/ Read(r)
            /\ UNCHANGED <<command, attempt, at, job>>
        BY <1>3, <3>1, Zenon DEF PrepareProduct
      <4> QED BY <1>1, <4>1 DEF ByRequest, Goto, OthersWait, Works
    <3>2. CASE InsertProduct(r) \/ InsertInventories(r)
      <4>1. /\ \E keys, changed : Write(r, keys, changed)
            /\ \E where : Goto(r, where)
            /\ UNCHANGED <<command, attempt, entity, at, job>>
        BY <1>3, <3>2, Zenon DEF InsertProduct, InsertInventories
      <4> QED BY <1>1, <4>1 DEF ByRequest, Goto, OthersWait, Works
    <3> QED BY <3>1, <3>2
  <2>2. IsExact(pc'[r], command'[r], wrote'[r], stale'[r], store', entity'[r], view'[r])
    BY <1>1, <2>1 DEF IsExact
  <2> QED BY <2>1, <2>2, ExactNext, WorkExact
<1> QED BY <1>2, <1>3

LEMMA LoadExact ==
  ASSUME ExactInv, CatalogueInv', NEW r \in Requests, LoadProduct(r)
  PROVE  ExactInv'
<1>1. /\ CatalogueInv /\ ByRequest /\ Shape(r) /\ StoreSound /\ ExactSound(r)
      /\ pc[r] = "load" /\ command[r].kind = "update"
  BY DEF ExactInv, CatalogueInv, RequestSound, LoadProduct
<1>2. CASE Refuse(r)
  BY <1>1, <1>2, RefuseEnds, EndsExact
<1>3. CASE ~Refuse(r)
  <2> DEFINE key == ProductKey(command[r].product)
             doc == store[key]
             prepared == Prepared(r, doc)
  <2>1. /\ key \in DOMAIN store /\ prepared.product # Refusal
        /\ entity' = [entity EXCEPT ![r] = prepared.product]
        /\ command' = [command EXCEPT ![r] = prepared.command]
        /\ \E x : job' = [job EXCEPT ![r] = x]
        /\ Goto(r, PhaseFrom(command[r], "drop"))
        /\ Read(r)
        /\ UNCHANGED <<attempt, at>>
    BY <1>3, Zenon DEF LoadProduct
  <2>2. IsProduct(doc)
    BY <1>1, <2>1, Keys DEF StoreSound, WellFormed
  <2>3. /\ {"kind", "product", "inventory", "variants", "domain"} \subseteq DOMAIN command[r]
        /\ command[r].domain = Undefined \/ IsDomainUpdate(command[r].domain)
    BY <1>1 DEF Shape, ExactSound, IsExact
  <2> HIDE DEF key, doc
  <2>4. /\ AsAsked(prepared.command, doc, Stored(doc, prepared.product))
        /\ "domain" \in DOMAIN prepared.command /\ prepared.command.domain = command[r].domain
        /\ prepared.command.kind = "update" /\ prepared.command.product = command[r].product
    BY <1>1, <2>1, <2>2, <2>3, PreparedAsAsked, PreparedKeeps
  <2> HIDE DEF prepared
  <2>5. /\ entity'[r] = prepared.product /\ command'[r] = prepared.command
        /\ pc'[r] = PhaseFrom(command[r], "drop") /\ OthersWait(r) /\ Works(r)
    BY <1>1, <2>1 DEF ByRequest, Goto, OthersWait, Works
  <2>6. wrote'[r] = {} /\ store' = store
    BY <1>1, <2>1, Begun
  <2>7. IsExact(pc'[r], command'[r], wrote'[r], stale'[r], store', entity'[r], view'[r])
    <3>1. ProductKey(command'[r].product) = key /\ store'[key] = doc
      BY <2>4, <2>5, <2>6 DEF key, doc
    <3>2. pc'[r] \in UpdatePhases /\ pc'[r] # "commit"
      BY <2>5, Phased DEF UpdatePhases
    <3> QED BY <2>1, <2>3, <2>4, <2>5, <2>6, <3>1, <3>2 DEF IsExact
  <2> QED BY <2>5, <2>7, ExactNext, WorkExact
<1> QED BY <1>2, <1>3

\* What is stored last is what it would have been all along.
LEMMA SaveExact ==
  ASSUME ExactInv, CatalogueInv', NEW r \in Requests, SaveProduct(r)
  PROVE  ExactInv'
<1> DEFINE key == ProductKey(command[r].product)
           names == Renamings(r)
           keys == {key} \cup names.taken \cup names.given
           changed == [k \in {key} \cup names.taken |->
                         IF k = key THEN Stored(view[r][key], entity[r]) ELSE command[r].product]
<1>1. /\ pc[r] \in UpdatePhases /\ pc[r] \notin {"idle", "done"} /\ ByRequest
      /\ ExactSound(r) /\ ViewsAreFresh
      /\ command[r].kind = "update" /\ TargetKey(r) = key /\ UpdateSound(r) /\ r \in open
      /\ Seen(r) = view[r]
  <2>1. pc[r] \in UpdatePhases
    BY DEF SaveProduct, UpdatePhases
  <2> QED BY <2>1, AtWork DEF ExactInv, CatalogueInv, TransactionsInv, TargetKey
<1>2. CASE Refuse(r) \/ Conflict(r, keys)
  BY <1>1, <1>2, RefuseEnds, ConflictEnds, EndsExact
<1>3. CASE /\ Write(r, keys, changed)
           /\ Goto(r, "commit")
           /\ UNCHANGED <<command, attempt, entity, at, job, answer, faults>>
  <2>1. key \notin stale[r] /\ key \notin wrote[r] /\ key \in DOMAIN store /\ view[r][key] = store[key]
    <3>1. key \notin stale[r]
      BY <1>3 DEF Write, Free
    <3>2. key \notin wrote[r] /\ key \in DOMAIN store
      BY <1>1, <3>1 DEF ExactSound, IsExact
    <3> QED BY <1>1, <3>1, <3>2 DEF ViewsAreFresh
  <2>2. /\ "domain" \in DOMAIN command[r] /\ (command[r].domain = Undefined \/ IsDomainUpdate(command[r].domain))
        /\ \A k \in wrote[r] : k = key \/ k[1] \in AloneKinds
        /\ AsAsked(command[r], store[key], Stored(store[key], entity[r]))
    BY <1>1, <2>1 DEF ExactSound, IsExact
  <2>3. \A k \in keys \ {key} : k[1] \in AloneKinds
    BY NameKeysOnly DEF Renamings, AloneKinds
  <2>4. key \in DOMAIN changed \cap keys /\ changed[key] = Stored(store[key], entity[r])
    BY <2>1
  <2> HIDE DEF changed, keys, key
  <2>5. wrote'[r] = wrote[r] \cup keys /\ store' = store /\ view'[r][key] = changed[key]
    BY <1>1, <1>3, <2>4 DEF ByRequest, Write, Overlaid
  <2>6. pc'[r] = "commit" /\ command'[r] = command[r] /\ OthersWait(r) /\ Works(r)
    BY <1>1, <1>3 DEF ByRequest, Goto, OthersWait, Works
  <2>7. IsExact(pc'[r], command'[r], wrote'[r], stale'[r], store', entity'[r], view'[r])
    <3>1. \A k \in wrote'[r] : k = key \/ k[1] \in AloneKinds
      BY <2>2, <2>3, <2>5
    <3> QED BY <2>1, <2>2, <2>4, <2>5, <2>6, <3>1 DEF IsExact, UpdatePhases, key
  <2> QED BY <2>6, <2>7, ExactNext, WorkExact
<1> QED BY <1>2, <1>3 DEF SaveProduct

\* A commit makes the updates that have read what it writes stale, and writes
\* no product that another is about to commit.
LEMMA CommitExact ==
  ASSUME ExactInv, CatalogueInv', NEW r \in Requests, CommitTransaction(r)
  PROVE  ExactInv'
<1>1. CatalogueInv /\ ByRequest /\ pc[r] = "commit" /\ Commit(r) /\ pc'[r] = "done" /\ OthersWait(r)
  BY DEF ExactInv, CatalogueInv, ByRequest, CommitTransaction, Answer, Goto, Forget, OthersWait
<1>2. ExactSound(r)'
  <2>1. IsExact(pc'[r], command'[r], wrote'[r], stale'[r], store', entity'[r], view'[r])
    BY <1>1 DEF IsExact
  <2> QED BY <2>1, ExactNext
<1>3. ASSUME NEW q \in Requests \ {r}, pc[q] \notin {"idle", "done"}, command[q].kind = "update"
      PROVE  ExactSound(q)'
  <2> DEFINE key == ProductKey(command[q].product)
  <2>1. /\ ExactSound(q) /\ Shape(q) /\ CommitSound(q) /\ WritersExclude
        /\ Target(q) = command[q].product
    BY <1>1, <1>3 DEF ExactInv, CatalogueInv, RequestSound, TransactionsInv, Target
  <2>2. Unmoved(q) /\ (q \in open => stale'[q] = stale[q] \cup wrote[r])
    BY <1>1 DEF ByRequest, OthersWait, Commit, Close, Unmoved
  <2>3. \A k \in DOMAIN store \ wrote[r] : k \in DOMAIN store' /\ store'[k] = store[k]
    BY <1>1, CommittedKeys
  <2>4. pc[q] \in UpdatePhases /\ key \notin stale'[q] => key \notin stale[q] \cup wrote[r]
    BY <2>1, <2>2 DEF Shape
  <2>5. pc[q] = "commit" => key \notin wrote[r]
    BY <2>1 DEF CommitSound, WritersExclude, TargetKey
  <2> HIDE DEF key
  <2>6. IsExact(pc'[q], command'[q], wrote'[q], stale'[q], store', entity'[q], view'[q])
    BY <1>3, <2>1, <2>2, <2>3, <2>4, <2>5 DEF ExactSound, IsExact, Unmoved, key
  <2> QED BY <2>6, ExactNext
<1>4. ASSUME NEW q \in Requests \ {r}, ~(pc[q] \notin {"idle", "done"} /\ command[q].kind = "update")
      PROVE  ExactSound(q)'
  <2>1. IsExact(pc'[q], command'[q], wrote'[q], stale'[q], store', entity'[q], view'[q])
    BY <1>1, <1>4 DEF OthersWait, IsExact
  <2> QED BY <2>1, ExactNext
<1> QED BY <1>2, <1>3, <1>4 DEF ExactInv

LEMMA NextExact ==
  ASSUME ExactInv, [Next]_vars
  PROVE  ExactInv'
<1>1. CatalogueInv /\ CatalogueInv'
  BY NextCatalogue DEF ExactInv
<1>2. CASE AllAnswered \/ UNCHANGED vars
  <2>1. UNCHANGED vars
    BY <1>2 DEF AllAnswered
  <2>2. \A r \in Requests : Unmoved(r) /\ store' = store /\ stale'[r] = stale[r]
    BY <2>1 DEF vars, txns, request, Unmoved
  <2> QED BY <1>1, <2>2, SparedExact DEF ExactInv
<1>3. ASSUME NEW r \in Requests, Step(r) PROVE ExactInv'
  <2>1. CASE TransientError(r) \/ Lost(r)
    BY <1>1, <2>1, FaultsEnd, EndsExact DEF CatalogueInv
  <2> QED BY <1>1, <1>3, <2>1, ReceiveExact, LoadExact, VariantExact, SaveExact, StockExact, CreateExact,
             CommitExact DEF Step
<1> QED BY <1>2, <1>3 DEF Next

THEOREM ExactInvariant == Spec => []ExactInv
<1>1. Init => ExactInv
  BY InitCatalogue DEF Init, TransactionsInit, ExactInv, ExactSound, IsExact
<1>2. ExactInv /\ [Next]_vars => ExactInv'
  BY NextExact
<1> QED BY <1>1, <1>2, PTL DEF Spec

\* Other documents than the product, its keys and inventories keep what they
\* have, and the product's fields become what was asked of them.
FieldsAreExact ==
  [][\A r \in Requests : CommitTransaction(r) /\ command[r].kind = "update" =>
       LET key == ProductKey(command[r].product) IN
       /\ FieldsAsAsked(command[r], store[key], store'[key])
       /\ \A k \in DOMAIN store \ {key} : k[1] \notin AloneKinds =>
            k \in DOMAIN store' /\ store'[k] = store[k]]_vars

LEMMA CommitsAsAsked ==
  ASSUME ExactInv, NEW r \in Requests, CommitTransaction(r), command[r].kind = "update"
  PROVE  LET key == ProductKey(command[r].product) IN
         /\ AsAsked(command[r], store[key], store'[key])
         /\ \A k \in DOMAIN store \ {key} : k[1] \notin AloneKinds =>
              k \in DOMAIN store' /\ store'[k] = store[k]
<1> DEFINE key == ProductKey(command[r].product)
<1>1. /\ CatalogueInv /\ pc[r] = "commit" /\ Commit(r) /\ TargetKey(r) = key
      /\ \A k \in wrote[r] : k = key \/ k[1] \in AloneKinds
      /\ AsAsked(command[r], store[key], view[r][key])
  BY DEF ExactInv, ExactSound, IsExact, CommitTransaction, TargetKey, Target
<1> HIDE DEF key
<1>2. store'[key] = view[r][key] /\ \A k \in DOMAIN store \ wrote[r] : k \in DOMAIN store' /\ store'[k] = store[k]
  BY <1>1, CommittedKeys
<1> QED BY <1>1, <1>2 DEF key

\* However requests interleave, an update that commits changes those fields of
\* the product it was given, as the product is at that moment, and no other
\* document but the keys of its name and inventories: what others have
\* committed since it read the product is not lost.
THEOREM FieldsChangeAsAsked == Spec => FieldsAreExact
<1> DEFINE Exact ==
      \A r \in Requests : CommitTransaction(r) /\ command[r].kind = "update" =>
        LET key == ProductKey(command[r].product) IN
        /\ FieldsAsAsked(command[r], store[key], store'[key])
        /\ \A k \in DOMAIN store \ {key} : k[1] \notin AloneKinds =>
             k \in DOMAIN store' /\ store'[k] = store[k]
<1>1. ExactInv => [Exact]_vars
  BY CommitsAsAsked DEF AsAsked
<1>2. FieldsAreExact <=> [][Exact]_vars
  BY DEF FieldsAreExact
<1> QED BY <1>1, <1>2, ExactInvariant, PTL

\* No step of a request that commits leaves what it was loaded with.
LEMMA MarkdownSteps ==
  ASSUME ExactInv, [Next]_vars, NEW r \in Requests, Commits(r, "update")
  PROVE  LET key == ProductKey(command[r].product) IN MarkdownStays(command[r], store[key], store'[key])
<1> DEFINE key == ProductKey(command[r].product)
<1>1. /\ CatalogueInv /\ pc[r] = "commit" /\ command[r].kind = "update"
      /\ key \in DOMAIN store /\ key \in wrote[r] /\ WritersExclude
  BY DEF Commits, ExactInv, ExactSound, IsExact, CatalogueInv, TransactionsInv, RequestSound, CommitSound,
         TargetKey, Target
<1> HIDE DEF key
<1>2. store'[key] = store[key] => MarkdownStays(command[r], store[key], store'[key])
  BY DEF MarkdownStays
<1>3. CASE AllAnswered \/ UNCHANGED vars
  BY <1>2, <1>3 DEF AllAnswered, vars, txns, key
<1>4. ASSUME NEW q \in Requests, Step(q) PROVE MarkdownStays(command[r], store[key], store'[key])
  <2>1. CASE CommitTransaction(q)
    <3>1. CASE q = r
      BY <1>1, <2>1, <3>1, CommitsAsAsked DEF AsAsked, key
    <3>2. CASE q # r
      <4>1. key \notin wrote[q]
        BY <1>1, <3>2 DEF WritersExclude
      <4> QED BY <1>1, <1>2, <2>1, <4>1, CommittedKeys DEF CommitTransaction
    <3> QED BY <3>1, <3>2
  <2>2. CASE ~CommitTransaction(q)
    <3>1. store' = store
      BY <1>4, <2>2, Zenon
      DEF Step, Receive, LoadProduct, DropVariants, AddNextVariant, EditNextVariant, SaveProduct, DeleteInventory,
          FindInventory, SetStock, CheckKinds, InsertInventory, PrepareProduct, InsertProduct, InsertInventories,
          TransientError, Lost, Conflict, Refuse, RunAgain, Abort, Read, Write, txns
    <3> QED BY <1>2, <3>1
  <2> QED BY <2>1, <2>2
<1> QED BY <1>3, <1>4 DEF Next, key

\* An update that commits never leaves a price at or above its markdown's
\* original, where it was below, but by a price given alone or a removal.
THEOREM MarkdownsAreKept == Spec => MarkdownsHold
<1> DEFINE Stay ==
      \A r \in Requests : Commits(r, "update") =>
        LET key == ProductKey(command[r].product) IN
        MarkdownStays(command[r], store[key], store'[key])
<1>1. ExactInv /\ [Next]_vars => Stay
  BY MarkdownSteps
<1>2. Spec => [][Next]_vars
  BY DEF Spec
<1>3. MarkdownsHold <=> [][Stay]_vars
  BY DEF MarkdownsHold
<1> HIDE DEF Stay
<1> QED BY <1>1, <1>2, <1>3, ExactInvariant, PTL

-----------------------------------------------------------------------------
\* The images of a request and its files.

\* g[i] is what the first i of n sequences make when they are put together.
IsFlattening(seqs, n, g) ==
  g = [i \in 1..n |-> IF i = 1 THEN seqs[i] ELSE g[i - 1] \o seqs[i]]

\* There is such a function, and it is the one that FlattenSeq defines.
LEMMA FlatteningExists ==
  ASSUME NEW seqs, NEW n \in Nat
  PROVE  \E g : IsFlattening(seqs, n, g)
<1> DEFINE G == {m \in 0..n : \E g : IsFlattening(seqs, m, g)}
<1>1. 0 \in G
  <2> DEFINE g == [i \in 1..0 |-> seqs[i]]
  <2>1. IsFlattening(seqs, 0, g)
    BY DEF IsFlattening
  <2> QED BY <2>1
<1>2. ASSUME NEW m \in 0..n - 1, m \in G PROVE m + 1 \in G
  <2>1. PICK g : IsFlattening(seqs, m, g)
    BY <1>2
  <2> DEFINE whole == IF m = 0 THEN seqs[m + 1] ELSE g[m] \o seqs[m + 1]
             h == [i \in 1..m + 1 |-> IF i = m + 1 THEN whole ELSE g[i]]
  <2>2. ASSUME NEW i \in 1..m + 1
        PROVE  h[i] = IF i = 1 THEN seqs[i] ELSE h[i - 1] \o seqs[i]
    <3>1. CASE i = m + 1
      BY <3>1
    <3>2. CASE i # m + 1
      <4>1. i \in 1..m /\ (i # 1 => i - 1 \in 1..m /\ i - 1 # m + 1)
        BY <3>2
      <4>2. g[i] = IF i = 1 THEN seqs[i] ELSE g[i - 1] \o seqs[i]
        BY <2>1, <4>1 DEF IsFlattening
      <4>3. h[i] = g[i] /\ (i # 1 => h[i - 1] = g[i - 1])
        BY <3>2, <4>1
      <4> QED BY <4>2, <4>3
    <3> QED BY <3>1, <3>2
  <2> HIDE DEF whole
  <2>3. IsFlattening(seqs, m + 1, h)
    BY <2>2 DEF IsFlattening
  <2> QED BY <2>3
<1>3. n \in G
  <2> HIDE DEF G
  <2> QED BY <1>1, <1>2, PrefixInduction
<1> QED BY <1>3

LEMMA FlattenIs ==
  ASSUME NEW seqs, NEW n \in Nat \ {0}, Len(seqs) = n
  PROVE  \E g : IsFlattening(seqs, n, g) /\ FlattenSeq(seqs) = g[n]
<1> DEFINE g == CHOOSE g : IsFlattening(seqs, n, g)
<1>1. IsFlattening(seqs, n, g)
  BY FlatteningExists
<1>2. FlattenSeq(seqs) = g[n]
  BY DEF FlattenSeq, IsFlattening
<1> QED BY <1>1, <1>2

\* f of every element of a sequence
Mapped(f, seq) == [k \in DOMAIN seq |-> f[seq[k]]]

\* What is made of the elements of two sequences is made of those of both.
LEMMA ConcatenationMaps ==
  ASSUME NEW F, NEW y \in Seq(DOMAIN F), NEW x \in Seq(DOMAIN F)
  PROVE  /\ y \o x \in Seq(DOMAIN F)
         /\ Mapped(F, y) \o Mapped(F, x) = Mapped(F, y \o x)
<1> DEFINE Image(z) == [k \in DOMAIN z |-> F[z[k]]]
           S == DOMAIN F
           T == {F[k] : k \in S}
<1>3. Image(x) \in Seq(T) /\ Image(y) \in Seq(T) /\ Len(Image(x)) = Len(x) /\ Len(Image(y)) = Len(y)
  <2>1. ASSUME NEW z \in Seq(S) PROVE Image(z) \in Seq(T) /\ Len(Image(z)) = Len(z)
    <3>1. DOMAIN z = 1..Len(z) /\ Len(z) \in Nat /\ \A k \in 1..Len(z) : z[k] \in S
      OBVIOUS
    <3>2. Image(z) = [k \in 1..Len(z) |-> F[z[k]]] /\ \A k \in 1..Len(z) : F[z[k]] \in T
      BY <3>1
    <3> QED BY <3>1, <3>2
  <2> QED BY <2>1
<1>4. /\ y \o x \in Seq(S) /\ DOMAIN (y \o x) = 1..Len(y) + Len(x)
      /\ \A k \in 1..Len(y) + Len(x) : (y \o x)[k] = IF k <= Len(y) THEN y[k] ELSE x[k - Len(y)]
  BY Concatenation
<1>5. /\ Image(y) \o Image(x) \in Seq(T) /\ DOMAIN (Image(y) \o Image(x)) = 1..Len(y) + Len(x)
      /\ \A k \in 1..Len(y) + Len(x) :
           (Image(y) \o Image(x))[k] = IF k <= Len(y) THEN Image(y)[k] ELSE Image(x)[k - Len(y)]
  <2> DEFINE Ix == Image(x)
             Iy == Image(y)
  <2>1. Ix \in Seq(T) /\ Iy \in Seq(T) /\ Len(Ix) = Len(x) /\ Len(Iy) = Len(y)
    BY <1>3
  <2> HIDE DEF Ix, Iy
  <2>2. /\ Iy \o Ix \in Seq(T) /\ DOMAIN (Iy \o Ix) = 1..Len(y) + Len(x)
        /\ \A k \in 1..Len(y) + Len(x) :
             (Iy \o Ix)[k] = IF k <= Len(y) THEN Iy[k] ELSE Ix[k - Len(y)]
    <3>1. /\ Iy \o Ix \in Seq(T) /\ DOMAIN (Iy \o Ix) = 1..Len(Iy) + Len(Ix)
          /\ \A k \in 1..Len(Iy) + Len(Ix) :
               (Iy \o Ix)[k] = IF k <= Len(Iy) THEN Iy[k] ELSE Ix[k - Len(Iy)]
      BY <2>1, Concatenation, Zenon
    <3> QED BY <2>1, <3>1
  <2> QED BY <2>2 DEF Ix, Iy
<1>6. ASSUME NEW k \in 1..Len(y) + Len(x) PROVE (Image(y) \o Image(x))[k] = Image(y \o x)[k]
  <2>1. CASE k <= Len(y)
    <3>1. k \in DOMAIN y
      BY <2>1
    <3> QED BY <1>4, <1>5, <2>1, <3>1
  <2>2. CASE ~(k <= Len(y))
    <3>1. k - Len(y) \in DOMAIN x
      BY <2>2
    <3> QED BY <1>4, <1>5, <2>2, <3>1
  <2> QED BY <2>1, <2>2
<1>7. Image(y) \o Image(x) = Image(y \o x)
  <2> DEFINE z == Image(y) \o Image(x)
             w == Image(y \o x)
  <2>1. z \in Seq(T) /\ DOMAIN z = 1..Len(y) + Len(x)
    BY <1>5
  <2>2. w = [k \in DOMAIN w |-> w[k]] /\ DOMAIN w = 1..Len(y) + Len(x)
    BY <1>4
  <2>3. \A k \in 1..Len(y) + Len(x) : z[k] = w[k]
    BY <1>6
  <2> HIDE DEF z, w
  <2>4. z = [k \in DOMAIN z |-> z[k]]
    BY <2>1
  <2>5. z = w
    BY <2>1, <2>2, <2>3, <2>4
  <2> QED BY <2>5 DEF z, w
<1> QED BY <1>4, <1>7 DEF Mapped

\* What is made of every element is made of the elements of the whole.
LEMMA FlattenMaps ==
  ASSUME NEW F, NEW n \in Nat, NEW s \in [1..n -> Seq(DOMAIN F)], NEW t,
         t = [i \in 1..n |-> Mapped(F, s[i])]
  PROVE  /\ FlattenSeq(s) \in Seq(DOMAIN F)
         /\ FlattenSeq(t) = Mapped(F, FlattenSeq(s))
<1>1. Len(s) = n /\ Len(t) = n
  OBVIOUS
<1>2. CASE n = 0
  <2>1. FlattenSeq(s) = s /\ FlattenSeq(t) = t
    BY <1>1, <1>2 DEF FlattenSeq
  <2>2. s \in Seq(DOMAIN F) /\ DOMAIN s = {} /\ DOMAIN t = {}
    BY <1>2
  <2>3. t = Mapped(F, s)
    BY <2>2 DEF Mapped
  <2> QED BY <2>1, <2>2, <2>3
<1>3. CASE n # 0
  <2>1. PICK g : IsFlattening(s, n, g) /\ FlattenSeq(s) = g[n]
    BY <1>1, <1>3, FlattenIs
  <2>2. PICK h : IsFlattening(t, n, h) /\ FlattenSeq(t) = h[n]
    BY <1>1, <1>3, FlattenIs
  <2> DEFINE G == {m \in 0..n : m = 0 \/ (g[m] \in Seq(DOMAIN F) /\ h[m] = Mapped(F, g[m]))}
  <2>3. ASSUME NEW m \in 0..n - 1, m \in G PROVE m + 1 \in G
    <3> DEFINE x == s[m + 1]
    <3>0. m + 1 \in 1..n /\ m + 1 \in 0..n /\ x \in Seq(DOMAIN F) /\ t[m + 1] = Mapped(F, x)
      OBVIOUS
    <3>1. CASE m = 0
      <4>1. g[m + 1] = x /\ h[m + 1] = t[m + 1]
        BY <2>1, <2>2, <3>0, <3>1 DEF IsFlattening
      <4> HIDE DEF x
      <4> QED BY <3>0, <4>1
    <3>2. CASE m # 0
      <4> DEFINE y == g[m]
      <4>1. g[m + 1] = y \o x /\ h[m + 1] = h[m] \o t[m + 1]
        <5>1. m + 1 # 1 /\ (m + 1) - 1 = m
          BY <3>2
        <5>2. g[m + 1] = g[(m + 1) - 1] \o s[m + 1] /\ h[m + 1] = h[(m + 1) - 1] \o t[m + 1]
          BY <2>1, <2>2, <3>0, <5>1 DEF IsFlattening
        <5> QED BY <5>1, <5>2
      <4>2. y \in Seq(DOMAIN F) /\ h[m] = Mapped(F, y)
        BY <2>3, <3>2
      <4> HIDE DEF x, y
      <4>3. y \o x \in Seq(DOMAIN F) /\ Mapped(F, y) \o Mapped(F, x) = Mapped(F, y \o x)
        <5>1. y \in Seq(DOMAIN F) /\ x \in Seq(DOMAIN F)
          BY <3>0, <4>2
        <5>2. /\ y \o x \in Seq(DOMAIN F)
              /\ Mapped(F, y) \o Mapped(F, x) = Mapped(F, y \o x)
          BY <5>1, ConcatenationMaps
        <5> QED BY <5>2
      <4> QED BY <3>0, <4>1, <4>2, <4>3
    <3> QED BY <3>1, <3>2
  <2>4. n \in G
    <3>1. 0 \in G
      OBVIOUS
    <3> HIDE DEF G
    <3> QED BY <2>3, <3>1, PrefixInduction
  <2> QED BY <1>3, <2>1, <2>2, <2>4
<1> QED BY <1>2, <1>3

\* An array is a sequence over every set its elements are in.
LEMMA ArrayIn ==
  ASSUME NEW x, IsArray(x), NEW S, ToSet(x) \subseteq S
  PROVE  x \in Seq(S) /\ DOMAIN x = 1..Len(x) /\ Len(x) \in Nat
<1>1. x \in Seq(ToSet(x))
  BY DEF IsArray
<1>2. DOMAIN x = 1..Len(x) /\ Len(x) \in Nat /\ x = [k \in 1..Len(x) |-> x[k]]
  BY <1>1
<1>3. \A k \in 1..Len(x) : x[k] \in S
  BY <1>2 DEF ToSet
<1> QED BY <1>2, <1>3

\* The image that a temporary id stands for.
ImageFor(dto, temp) ==
  LET index == IF temp \in UploadedIds(dto) THEN dto.uploadedMap[temp] ELSE 0 IN
  [temp |-> temp, url |-> IF index \in 1..dto.files THEN index ELSE NoFile]

\* resolveImages of ids that may not have been given
LEMMA ResolvedIs ==
  ASSUME NEW dto, NEW adds, Resolved(dto, Listed(adds)) # Undefined
  PROVE  Listed(Resolved(dto, adds)) =
           [k \in DOMAIN Listed(adds) |-> ImageFor(dto, Listed(adds)[k])]
<1>1. CASE adds = Undefined
  <2>1. Listed(adds) = <<>> /\ Resolved(dto, adds) = Undefined
    BY <1>1 DEF Listed, Resolved
  <2>2. [k \in DOMAIN <<>> |-> ImageFor(dto, <<>>[k])] = <<>>
    OBVIOUS
  <2> QED BY <2>1, <2>2 DEF Listed
<1>2. CASE adds # Undefined
  <2>1. Listed(adds) = adds
    BY <1>2 DEF Listed
  <2> QED BY <1>2, <2>1 DEF Listed, Resolved, ImageFor
<1> QED BY <1>1, <1>2

\* The images that an update is assembled with are those of its ids, in their order.
LEMMA ImagesAreAssembled ==
  ASSUME NEW dto \in Dtos, dto.kind = "update"
  PROVE  LET cmd == Assembled(dto) IN
         /\ RootAdds(cmd) = [k \in DOMAIN RootAdds(dto) |-> ImageFor(dto, RootAdds(dto)[k])]
         /\ DraftAdds(cmd) = [i \in DOMAIN DraftAdds(dto) |->
              [k \in DOMAIN DraftAdds(dto)[i] |-> ImageFor(dto, DraftAdds(dto)[i][k])]]
<1> DEFINE cmd == AssembleUpdate(dto)
           drafts == AddedVariants(dto)
<1>1. Assembled(dto) = cmd
  BY DEF Assembled
<1>2. IsUpdate(dto)
  BY DtosAssumption
<1>3. /\ Resolved(dto, RootAdds(dto)) # Undefined
      /\ \A i \in DOMAIN drafts : Resolved(dto, DraftAdds(dto)[i]) # Undefined
  BY UndefinedAssumption DEF ToSet, DraftAdds
<1>4. RootAdds(cmd) = [k \in DOMAIN RootAdds(dto) |-> ImageFor(dto, RootAdds(dto)[k])]
  <2>1. CASE dto.images = Undefined
    <3>1. cmd.images = Undefined
      BY <2>1 DEF AssembleUpdate
    <3>2. RootAdds(cmd) = <<>> /\ RootAdds(dto) = <<>>
      BY <2>1, <3>1 DEF RootAdds
    <3> QED BY <3>2
  <2>2. CASE dto.images # Undefined
    <3>1. cmd.images = WithAdds(dto, dto.images) /\ cmd.images # Undefined
      BY <2>2, UndefinedAssumption DEF AssembleUpdate
    <3>2. cmd.images.add = Resolved(dto, dto.images.add)
      BY <1>2, <2>2, <3>1 DEF WithAdds, IsUpdate
    <3>3. RootAdds(dto) = Listed(dto.images.add) /\ RootAdds(cmd) = Listed(cmd.images.add)
      BY <2>2, <3>1 DEF RootAdds
    <3> QED BY <1>3, <3>2, <3>3, ResolvedIs
  <2> QED BY <2>1, <2>2
<1>5. /\ DOMAIN AddedVariants(cmd) = DOMAIN drafts
      /\ \A i \in DOMAIN drafts : AddedVariants(cmd)[i].images = Resolved(dto, drafts[i].images)
  <2>1. CASE dto.variants = Undefined \/ dto.variants.add = Undefined
    <3>1. drafts = <<>>
      BY <2>1 DEF AddedVariants, Listed
    <3>2. cmd.variants = Undefined \/ cmd.variants.add = Undefined
      BY <2>1 DEF AssembleUpdate, AssembleVariants, ResolvedVariants
    <3>3. AddedVariants(cmd) = <<>>
      BY <3>2 DEF AddedVariants, Listed
    <3> QED BY <3>1, <3>3
  <2>2. CASE dto.variants # Undefined /\ dto.variants.add # Undefined
    <3>1. drafts = dto.variants.add
      BY <2>2 DEF AddedVariants, Listed
    <3>2. cmd.variants = ResolvedVariants(dto, dto.variants) /\ cmd.variants # Undefined
      BY <2>2, UndefinedAssumption DEF AssembleUpdate, AssembleVariants
    <3>3. cmd.variants.add = ResolvedDrafts(dto, drafts) /\ cmd.variants.add # Undefined
      BY <2>2, <3>1, <3>2, UndefinedAssumption DEF ResolvedVariants
    <3>4. AddedVariants(cmd) = ResolvedDrafts(dto, drafts)
      BY <3>2, <3>3 DEF AddedVariants, Listed
    <3>5. \A i \in DOMAIN drafts : "images" \in DOMAIN drafts[i]
      BY <1>2 DEF IsUpdate
    <3> HIDE DEF cmd, drafts
    <3> QED BY <3>4, <3>5 DEF ResolvedDrafts
  <2> QED BY <2>1, <2>2
<1>6. DraftAdds(cmd) = [i \in DOMAIN drafts |->
        [k \in DOMAIN DraftAdds(dto)[i] |-> ImageFor(dto, DraftAdds(dto)[i][k])]]
  <2>1. ASSUME NEW i \in DOMAIN drafts
        PROVE  Listed(AddedVariants(cmd)[i].images) =
                 [k \in DOMAIN DraftAdds(dto)[i] |-> ImageFor(dto, DraftAdds(dto)[i][k])]
    <3>1. DraftAdds(dto)[i] = Listed(drafts[i].images)
      BY DEF DraftAdds
    <3> HIDE DEF cmd, drafts
    <3> QED BY <1>3, <1>5, <3>1, ResolvedIs
  <2> HIDE DEF cmd, drafts
  <2> QED BY <1>5, <2>1 DEF DraftAdds
<1>7. DOMAIN DraftAdds(dto) = DOMAIN drafts
  BY DEF DraftAdds
<1> QED BY <1>1, <1>4, <1>6, <1>7

\* Updates that are accepted, name their files once and have new images have
\* one file for each of them.
LEMMA AssembledImages ==
  ASSUME NEW dto \in Dtos, dto.kind = "update", NamesEachFileOnce(dto), Accepted(dto)
  PROVE  LET cmd == Assembled(dto)
             added == RootAdds(cmd) \o FlattenSeq(DraftAdds(cmd))
             files == {added[i].url : i \in DOMAIN added} IN
         added # <<>> => files = 1..dto.files /\ Cardinality(files) = Len(added)
<1> DEFINE cmd == Assembled(dto)
           root == RootAdds(dto)
           s == DraftAdds(dto)
           n == Len(AddedVariants(dto))
           S == ToSet(root) \cup UNION {ToSet(s[i]) : i \in 1..n}
           F == [temp \in S |-> ImageFor(dto, temp)]
           used == UsedTempIds(dto)
           ids == UploadedIds(dto)
           added == RootAdds(cmd) \o FlattenSeq(DraftAdds(cmd))
           files == {added[i].url : i \in DOMAIN added}
<1>1. /\ IsArray(root) /\ n \in Nat /\ DOMAIN s = 1..n
      /\ \A i \in 1..n : IsArray(s[i])
  <2>1. IsUpdate(dto)
    BY DtosAssumption
  <2>2. n \in Nat /\ DOMAIN AddedVariants(dto) = 1..n
    BY <2>1, ArrayIn DEF IsUpdate
  <2> QED BY <2>1, <2>2 DEF IsUpdate, DraftAdds
<1>2. /\ root \in Seq(S) /\ DOMAIN root = 1..Len(root)
      /\ \A i \in 1..n : s[i] \in Seq(S)
  <2>1. ToSet(root) \subseteq S /\ \A i \in 1..n : ToSet(s[i]) \subseteq S
    OBVIOUS
  <2> HIDE DEF S
  <2> QED BY <1>1, <2>1, ArrayIn
<1>3. s \in [1..n -> Seq(S)]
  <2>1. s = [i \in DOMAIN s |-> s[i]]
    BY DEF DraftAdds
  <2> QED BY <1>1, <1>2, <2>1
<1>4. /\ RootAdds(cmd) = Mapped(F, root)
      /\ DraftAdds(cmd) = [i \in 1..n |-> Mapped(F, s[i])]
  <2>1. ASSUME NEW seq \in Seq(S)
        PROVE  [k \in DOMAIN seq |-> ImageFor(dto, seq[k])] = Mapped(F, seq)
    <3>1. \A k \in DOMAIN seq : seq[k] \in S
      <4> HIDE DEF S
      <4> QED OBVIOUS
    <3> HIDE DEF S
    <3> QED BY <3>1 DEF Mapped
  <2> HIDE DEF S, F
  <2> QED BY <1>1, <1>2, <2>1, ImagesAreAssembled
<1>5. /\ FlattenSeq(s) \in Seq(S)
      /\ FlattenSeq(DraftAdds(cmd)) = Mapped(F, FlattenSeq(s))
  <2>1. DOMAIN F = S
    OBVIOUS
  <2> HIDE DEF F, S, s, n, cmd
  <2> QED BY <1>1, <1>3, <1>4, <2>1, FlattenMaps
<1>6. used \in Seq(S) /\ added = Mapped(F, used)
  <2>1. used = root \o FlattenSeq(s) /\ added = Mapped(F, root) \o Mapped(F, FlattenSeq(s))
    BY <1>4, <1>5 DEF UsedTempIds
  <2>2. DOMAIN F = S
    OBVIOUS
  <2> HIDE DEF F, S, s, root, used, added
  <2> QED BY <1>2, <1>5, <2>1, <2>2, ConcatenationMaps
<1> HIDE DEF used, added
<1> SUFFICES ASSUME added # <<>> PROVE files = 1..dto.files /\ Cardinality(files) = Len(added)
  BY DEF added
<1>7. /\ Len(used) \in Nat /\ DOMAIN used = 1..Len(used) /\ used # <<>>
      /\ DOMAIN added = 1..Len(used) /\ Len(added) = Len(used)
  <2>1. Len(used) \in Nat /\ DOMAIN used = 1..Len(used)
    BY <1>6
  <2>2. DOMAIN added = 1..Len(used) /\ added = [k \in 1..Len(used) |-> F[used[k]]]
    BY <1>6, <2>1 DEF Mapped
  <2>3. Len(added) = Len(used)
    BY <2>1, <2>2
  <2> QED BY <2>1, <2>2, <2>3
<1>8. /\ Len(used) = Cardinality(ids) /\ ToSet(used) = ids /\ Cardinality(ids) = dto.files
  BY <1>7 DEF Accepted, AcceptsUpdate, MapFitsImages, used
<1>9. ids # {} /\ dto.uploadedMap \in [ids -> 1..dto.files] /\ IsInjective(dto.uploadedMap)
  <2>1. ids # {}
    <3>1. 1 \in DOMAIN used
      BY <1>6, <1>7
    <3> QED BY <1>8, <3>1 DEF ToSet
  <2> QED BY <2>1 DEF NamesEachFileOnce
<1>10. {dto.uploadedMap[temp] : temp \in ids} = 1..dto.files
  <2>1. dto.files \in Nat /\ IsFiniteSet(1..dto.files) /\ Cardinality(1..dto.files) = dto.files
    BY <1>7, <1>8, FS_Interval
  <2>2. dto.uploadedMap \in Injection(ids, 1..dto.files)
    BY <1>9 DEF Injection
  <2>3. dto.uploadedMap \in Surjection(ids, 1..dto.files)
    BY <1>8, <2>1, <2>2, FS_Injection
  <2> QED BY <1>9, <2>3 DEF Surjection
<1>11. \A k \in DOMAIN added : used[k] \in ids /\ added[k].url = dto.uploadedMap[used[k]]
  <2> TAKE k \in DOMAIN added
  <2>1. used[k] \in ids /\ used[k] \in S
    BY <1>6, <1>7, <1>8 DEF ToSet
  <2>2. added[k] = ImageFor(dto, used[k])
    BY <1>6, <1>7, <2>1 DEF Mapped
  <2>3. dto.uploadedMap[used[k]] \in 1..dto.files
    BY <1>9, <2>1
  <2> QED BY <2>1, <2>2, <2>3 DEF ImageFor
<1>12. files = {dto.uploadedMap[temp] : temp \in ids}
  <2>1. \A temp \in ids : \E k \in DOMAIN added : used[k] = temp
    BY <1>7, <1>8 DEF ToSet
  <2> HIDE DEF ids
  <2> QED BY <1>11, <2>1
<1>13. Cardinality(1..dto.files) = dto.files
  BY <1>7, <1>8, FS_Interval
<1> QED BY <1>7, <1>8, <1>10, <1>12, <1>13

\* The index check of the schema and the assembler give every new image of an
\* update a file of its own, and every file an image.
THEOREM ImagesGetFiles == Spec => ImagesHaveFiles
<1>1. \A r \in Requests : \A dto \in Dtos :
        dto.kind = "update" /\ NamesEachFileOnce(dto) /\ Receives(r, dto) =>
          LET cmd == command'[r]
              added == RootAdds(cmd) \o FlattenSeq(DraftAdds(cmd))
              files == {added[i].url : i \in DOMAIN added} IN
          added # <<>> => files = 1..dto.files /\ Cardinality(files) = Len(added)
  <2> SUFFICES ASSUME NEW r \in Requests, NEW dto \in Dtos,
                      dto.kind = "update", NamesEachFileOnce(dto), Receives(r, dto)
               PROVE  LET cmd == command'[r]
                          added == RootAdds(cmd) \o FlattenSeq(DraftAdds(cmd))
                          files == {added[i].url : i \in DOMAIN added} IN
                      added # <<>> => files = 1..dto.files /\ Cardinality(files) = Len(added)
    OBVIOUS
  <2>1. Accepted(dto) /\ command'[r] = Assembled(dto)
    BY DEF Receives
  <2> QED BY <2>1, AssembledImages
<1> QED BY <1>1, PTL DEF ImagesHaveFiles

=============================================================================
