------------------------------ MODULE Catalogue ------------------------------
(***************************************************************************)
(* Creating and updating products with their inventories: the two services *)
(* and the inventory services they call, each request in a transaction     *)
(* whose callback runs again when the transaction was in the way of        *)
(* another.  An update loads the product, changes it in memory while it    *)
(* reads and writes inventories, and stores it last; some of the           *)
(* inventory reads do not belong to the transaction.                       *)
(***************************************************************************)
EXTENDS Transactions, ProductRequests

CONSTANTS
  Dtos,         \* requests that may come
  Slug,         \* the slug of each name
  MaxAttempts,  \* runs of a transaction's callback within its time limit
  MaxFaults     \* transient errors and lost requests

ASSUME CatalogueAssumption == MaxAttempts \in Nat \ {0} /\ MaxFaults \in Nat

ASSUME DtosAssumption == \A dto \in Dtos : dto.kind = "update" => IsUpdate(dto)

\* Undefined is neither an object nor an array.
ASSUME UndefinedAssumption ==
  \A dto \in Dtos : dto.kind = "update" =>
    /\ dto.images # Undefined => WithAdds(dto, dto.images) # Undefined
    /\ dto.variants # Undefined => ResolvedVariants(dto, dto.variants) # Undefined
    /\ ResolvedDrafts(dto, AddedVariants(dto)) # Undefined
    /\ \A adds \in {RootAdds(dto)} \cup ToSet(DraftAdds(dto)) : Resolved(dto, adds) # Undefined

VARIABLES
  pc,       \* where each request is
  command,  \* its command, whose order arrays the service writes to
  attempt,  \* which run of the callback this is
  entity,   \* the product in memory
  at,       \* which of the added or edited variants is next
  job,      \* the inventory operation under way
  answer,
  faults

request == <<pc, command, attempt, entity, at, job, answer>>
vars == <<txns, request, faults>>

\* In a reference: the product itself, and not a variant of it.
Root == <<>>

ProductKey(p) == <<"product", p>>
StockKey(p, v) == <<"stock", p, v>>
SkuKey(sku) == <<"sku", sku>>
NameKeys(name) == {<<"name", name>>, <<"slug", Slug[name]>>}

InventoriesOf(db, p) == {k \in DOMAIN db : k[1] = "stock" /\ k[2] = p}

\* commonValidationSaveInventory: a product has one inventory of its own, or
\* its variants have.
OtherKindIn(db, key) ==
  \E k \in InventoriesOf(db, key[2]) : IF key[3] = Root THEN k[3] # Root ELSE k[3] = Root

\* Every inventory is the only kind its product has, and belongs to a product
\* and a variant that are there.
OneKindIn(db) == \A k \in DOMAIN db : k[1] = "stock" => ~OtherKindIn(db, k)

OwnedIn(db) ==
  \A k \in DOMAIN db : k[1] = "stock" =>
    /\ ProductKey(k[2]) \in DOMAIN db
    /\ k[3] # Root => k[3] \in DOMAIN db[ProductKey(k[2])].variants

IsHistory(prices) == prices \in Seq(ToSet(prices)) /\ Len(prices) <= HistoryLength

\* A product as the entity keeps it, in memory and in a document.
IsProduct(p) ==
  /\ ProductKeys \subseteq DOMAIN p
  /\ Root \notin DOMAIN p.variants
  /\ p.hasVariants = (DOMAIN p.variants # {})
  /\ IsHistory(p.priceHistory)

\* References that are references, and products without marks.
WellFormed(db) ==
  \A k \in DOMAIN db : /\ k[1] = "stock" => k = StockKey(k[2], k[3])
                       /\ k[1] = "product" => IsProduct(db[k]) /\ db[k].marked = {}

ASSUME InitialStoreAssumption ==
  WellFormed(InitialStore) /\ OneKindIn(InitialStore) /\ OwnedIn(InitialStore)

NoJob == [do |-> "nothing"]

\* One of create, update and remove, for the inventory of a reference; known
\* if the service that creates it is handed the product.
JobFor(inventory, key, known) ==
  IF inventory = Undefined THEN NoJob
  ELSE [do |-> inventory.do, key |-> key, known |-> known, id |-> inventory.id,
        stock |-> inventory.stock, ready |-> FALSE]

Init ==
  /\ TransactionsInit
  /\ pc = [r \in Requests |-> "idle"]
  /\ command = [r \in Requests |-> Undefined]
  /\ attempt = [r \in Requests |-> 0]
  /\ entity = [r \in Requests |-> Undefined]
  /\ at = [r \in Requests |-> 1]
  /\ job = [r \in Requests |-> NoJob]
  /\ answer = [r \in Requests |-> Undefined]
  /\ faults = 0

-----------------------------------------------------------------------------
\* How a request goes on and ends.

Goto(r, where) == pc' = [pc EXCEPT ![r] = where]

Forget(r) ==
  /\ entity' = [entity EXCEPT ![r] = Undefined]
  /\ at' = [at EXCEPT ![r] = 1]
  /\ job' = [job EXCEPT ![r] = NoJob]

Answer(r, what) ==
  /\ Goto(r, "done")
  /\ answer' = [answer EXCEPT ![r] = what]
  /\ Forget(r)
  /\ UNCHANGED <<command, attempt>>

\* The callback throws: the transaction is aborted and the error is answered.
Refuse(r) == Answer(r, "refused") /\ Abort(r) /\ UNCHANGED faults

\* A transient error: the callback runs again, on the command as it is now.
RunAgain(r) ==
  /\ Abort(r)
  /\ IF attempt[r] < MaxAttempts
     THEN /\ Goto(r, "load")
          /\ attempt' = [attempt EXCEPT ![r] = @ + 1]
          /\ Forget(r)
          /\ UNCHANGED <<command, answer>>
     ELSE Answer(r, "failed")

\* A write whose keys another transaction has is such an error.
Conflict(r, keys) == ~Free(r, keys) /\ RunAgain(r) /\ UNCHANGED faults

Receive(r) ==
  /\ pc[r] = "idle"
  /\ \E dto \in Dtos :
       IF Accepted(dto)
       THEN /\ Goto(r, "load")
            /\ command' = [command EXCEPT ![r] = Assembled(dto)]
            /\ attempt' = [attempt EXCEPT ![r] = 1]
            /\ UNCHANGED <<entity, at, job, answer>>
       ELSE Answer(r, "refused")
  /\ UNCHANGED <<txns, faults>>

-----------------------------------------------------------------------------
\* The inventory services.

\* saveInventory and updateInventory look the inventory up without the session.
WithId(db, id) == {k \in DOMAIN db : k[1] = "stock" /\ db[k].id = id}

Finished(r) == job' = [job EXCEPT ![r] = NoJob]

\* An inventory is deleted by its id, if it is the product's.
OwnInventory(r, id) == WithId(view[r], id) \cap InventoriesOf(view[r], command[r].product)

\* deleteInventoryPermanentById
DeleteInventory(r) ==
  /\ job[r].do = "remove"
  /\ LET keys == OwnInventory(r, job[r].id) IN
     \/ keys = {} /\ Refuse(r)
     \/ Conflict(r, keys)
     \/ /\ keys # {}
        /\ Write(r, keys, EmptyStore)
        /\ Finished(r)
        /\ UNCHANGED <<pc, command, attempt, entity, at, answer, faults>>

\* updateInventory of the entity: without a stock nothing is marked, and
\* toUpdateObject throws.
MarksNothing(inventory) == inventory.stock = Undefined

\* updateInventory: the entity is read without the session.
FindInventory(r) ==
  /\ job[r].do = "update" /\ ~job[r].ready
  /\ IF WithId(store, job[r].id) = {} \/ MarksNothing(job[r])
     THEN Refuse(r)
     ELSE /\ job' = [job EXCEPT ![r].ready = TRUE]
          /\ UNCHANGED <<txns, pc, command, attempt, entity, at, answer, faults>>

\* Its $set has the marked fields only, and does not ask whose inventory it is.
SetStock(r) ==
  /\ job[r].do = "update" /\ job[r].ready
  /\ LET keys == WithId(view[r], job[r].id) IN
     \/ keys = {} /\ Refuse(r)
     \/ Conflict(r, keys)
     \/ /\ keys # {}
        /\ Write(r, keys, [k \in keys |-> [view[r][k] EXCEPT !.stock = job[r].stock]])
        /\ Finished(r)
        /\ UNCHANGED <<pc, command, attempt, entity, at, answer, faults>>

\* saveInventory: the product is read in the session, the inventories are not.
\* saveInventoryForKnownProduct has the product.
KnowsVariant(r, key) ==
  LET product == IF job[r].known THEN entity[r] ELSE view[r][ProductKey(key[2])] IN
  key[3] = Root \/ key[3] \in DOMAIN product.variants

\* Mutant: inventories of the other kind are not looked for.
CheckVariantOnly(r) ==
  /\ job[r].do = "create" /\ ~job[r].ready
  /\ IF ~KnowsVariant(r, job[r].key) THEN Refuse(r)
     ELSE /\ job' = [job EXCEPT ![r].ready = TRUE]
          /\ UNCHANGED <<txns, pc, command, attempt, entity, at, answer, faults>>

CheckKinds(r) ==
  /\ job[r].do = "create" /\ ~job[r].ready
  /\ IF ~KnowsVariant(r, job[r].key) \/ OtherKindIn(store, job[r].key)
     THEN Refuse(r)
     ELSE /\ job' = [job EXCEPT ![r].ready = TRUE]
          /\ UNCHANGED <<txns, pc, command, attempt, entity, at, answer, faults>>

\* The unique index on the reference refuses a second inventory.
NewInventory(r, key, stock) == [id |-> <<r, attempt[r], key>>, stock |-> stock]

InsertInventory(r) ==
  /\ job[r].do = "create" /\ job[r].ready
  /\ LET key == job[r].key IN
     \/ Conflict(r, {key})
     \/ Free(r, {key}) /\ key \in DOMAIN view[r] /\ Refuse(r)
     \/ /\ key \notin DOMAIN view[r]
        /\ Write(r, {key}, [k \in {key} |-> NewInventory(r, key, job[r].stock)])
        /\ Finished(r)
        /\ UNCHANGED <<pc, command, attempt, entity, at, answer, faults>>

-----------------------------------------------------------------------------
\* ProductUpdateUseCase

HasChanges(variants, kind) == variants # Undefined /\ variants[kind] # Undefined

\* What updateProductWithInventories refuses before it looks at the product.
KindsClash(cmd) ==
  /\ ChangesRootStock(cmd.inventory)
  /\ HasChanges(cmd.variants, "add") \/ HasChanges(cmd.variants, "edit")

\* The first of the phases from the given one that has something to do.
PhaseFrom(cmd, phase) ==
  CASE phase = "drop" /\ HasChanges(cmd.variants, "drop") -> "drop"
    [] phase \in {"drop", "add"} /\ HasChanges(cmd.variants, "add")
         /\ cmd.variants.add # <<>> -> "add"
    [] phase # "save" /\ HasChanges(cmd.variants, "edit") /\ cmd.variants.edit # <<>> -> "edit"
    [] OTHER -> "save"

\* The next of the added or edited variants, or the phase after them.
Advance(r, others, phase) ==
  IF at[r] < Len(others)
  THEN at' = [at EXCEPT ![r] = @ + 1] /\ UNCHANGED pc
  ELSE at' = [at EXCEPT ![r] = 1] /\ Goto(r, PhaseFrom(command[r], phase))

\* The new images, with an id each.
WithIds(adds, ids) == [i \in DOMAIN adds |-> [id |-> ids[i], url |-> adds[i].url]]

\* The id of each new image takes the place of its temporary id, where indexOf
\* finds that, in the array of the command itself.
Renamed(order, adds, ids) ==
  FoldLeftDomain(
    LAMBDA named, i :
      IF Contains(named, adds[i].temp)
      THEN [named EXCEPT ![SelectInSeq(named, LAMBDA x : x = adds[i].temp)] = ids[i]]
      ELSE named,
    order, adds)

\* Whether the root's images are touched: an order alone changes nothing.
TouchesRootImages(cmd) == cmd.images # Undefined /\ (Some(cmd.images.add) \/ Some(cmd.images.remove))

\* updateMultiple and the root images: the product, and the command's order.
Prepared(r, doc) ==
  LET cmd == command[r]
      updated == IF cmd.domain = Undefined THEN Entity(doc)
                 ELSE UpdateMultiple(Entity(doc), cmd.domain) IN
  IF updated = Refusal \/ ~TouchesRootImages(cmd)
  THEN [product |-> updated, command |-> cmd]
  ELSE IF cmd.images.order = Undefined
  THEN [product |-> Refusal, command |-> cmd]
  ELSE LET adds == Listed(cmd.images.add)
           ids == [i \in DOMAIN adds |-> <<r, attempt[r], i>>]
           order == Renamed(cmd.images.order, adds, ids) IN
       [product |-> ArrangeRoot(updated, WithIds(adds, ids), ToSet(Listed(cmd.images.remove)), order),
        command |-> [cmd EXCEPT !.images.order = order]]

\* findProductById and everything up to the first operation on an inventory
LoadProduct(r) ==
  /\ pc[r] = "load" /\ command[r].kind = "update"
  /\ LET key == ProductKey(command[r].product) IN
     IF KindsClash(command[r]) \/ key \notin DOMAIN store
     THEN Refuse(r)
     ELSE LET prepared == Prepared(r, store[key]) IN
          IF prepared.product = Refusal THEN Refuse(r)
          ELSE /\ entity' = [entity EXCEPT ![r] = prepared.product]
               /\ command' = [command EXCEPT ![r] = prepared.command]
               /\ job' = [job EXCEPT ![r] =
                            JobFor(command[r].inventory, StockKey(command[r].product, Root), FALSE)]
               /\ Goto(r, PhaseFrom(command[r], "drop"))
               /\ Read(r)
               /\ UNCHANGED <<attempt, at, answer, faults>>

\* deleteManyVariantInventoriesPermanent: those there are of the variants
VariantInventories(r, ids) == {StockKey(command[r].product, v) : v \in ids} \cap DOMAIN view[r]

\* Mutant: the inventories stay.
DropVariantsOnly(r) ==
  /\ pc[r] = "drop" /\ job[r] = NoJob
  /\ LET product == RemoveVariants(entity[r], ToSet(command[r].variants.drop)) IN
     IF product = Refusal THEN Refuse(r)
     ELSE /\ entity' = [entity EXCEPT ![r] = product]
          /\ Goto(r, PhaseFrom(command[r], "add"))
          /\ UNCHANGED <<txns, command, attempt, at, job, answer, faults>>

\* The inventories of the variants must all have been there.
DropVariants(r) ==
  /\ pc[r] = "drop" /\ job[r] = NoJob
  /\ LET ids == command[r].variants.drop
         keys == VariantInventories(r, ToSet(ids))
         product == RemoveVariants(entity[r], ToSet(ids)) IN
     \/ Conflict(r, keys)
     \/ /\ Free(r, keys)
        /\ Cardinality(keys) # Len(ids) \/ product = Refusal
        /\ Refuse(r)
     \/ /\ Cardinality(keys) = Len(ids) /\ product # Refusal
        /\ entity' = [entity EXCEPT ![r] = product]
        /\ Write(r, keys, EmptyStore)
        /\ Goto(r, PhaseFrom(command[r], "add"))
        /\ UNCHANGED <<command, attempt, at, job, answer, faults>>

AddNextVariant(r) ==
  /\ pc[r] = "add" /\ job[r] = NoJob
  /\ LET draft == command[r].variants.add[at[r]]
         adds == Listed(draft.images)
         images == WithIds(adds, [i \in DOMAIN adds |-> <<r, attempt[r], at[r], i>>])
         id == <<r, attempt[r], at[r]>>
         new == NewVariant(SkuOf(draft.sku), draft.name, draft.options, images)
         product == AddVariant(entity[r], id, new) IN
     IF SkuOf(draft.sku) = Refusal \/ product = Refusal THEN Refuse(r)
     ELSE /\ entity' = [entity EXCEPT ![r] = product]
          /\ job' = [job EXCEPT ![r] =
                       JobFor(draft.inventory, StockKey(command[r].product, id), TRUE)]
          /\ Advance(r, command[r].variants.add, "edit")
          /\ UNCHANGED <<txns, command, attempt, answer, faults>>

\* An edit of a variant: the images it would have and the order they are to
\* have, or Refusal.
EditedImages(r, edit) ==
  LET adds == Listed(edit.images.add)
      ids == [i \in DOMAIN adds |-> <<r, attempt[r], at[r], i>>]
      order == Renamed(Listed(edit.images.order), adds, ids)
      images == entity[r].variants[edit.id].images IN
  IF \/ order = <<>> /\ (adds # <<>> \/ Len(images) + Len(adds) > Len(Listed(edit.images.remove)))
     \/ \E i \in DOMAIN adds : ids[i] \notin ToSet(order)
  THEN Refusal
  ELSE [added |-> WithIds(adds, ids), order |-> order]

EditNextVariant(r) ==
  /\ pc[r] = "edit" /\ job[r] = NoJob
  /\ LET edits == command[r].variants.edit
         edit == edits[at[r]]
         images == EditedImages(r, edit)
         product == UpdateVariant(entity[r], edit.id, edit.options, images.added,
                                  ToSet(Listed(edit.images.remove)), images.order) IN
     IF edit.id \notin DOMAIN entity[r].variants \/ images = Refusal \/ product = Refusal
     THEN Refuse(r)
     ELSE /\ entity' = [entity EXCEPT ![r] = product]
          /\ command' = IF edit.images.order = Undefined THEN command
                        ELSE [command EXCEPT ![r].variants.edit[at[r]].images.order = images.order]
          /\ job' = [job EXCEPT ![r] =
                       JobFor(edit.inventory, StockKey(command[r].product, edit.id), FALSE)]
          /\ Advance(r, edits, "save")
          /\ UNCHANGED <<txns, attempt, answer, faults>>

\* The keys of the unique indexes that a new name takes and gives up.
Renamings(r) ==
  LET old == NameKeys(view[r][ProductKey(command[r].product)].name)
      new == NameKeys(entity[r].name) IN
  [taken |-> new \ old, given |-> old \ new]

\* updateProduct of the repository.  An entity without marks is refused.
SaveProduct(r) ==
  /\ pc[r] = "save" /\ job[r] = NoJob
  /\ LET key == ProductKey(command[r].product)
         names == Renamings(r)
         keys == {key} \cup names.taken \cup names.given
         changed == [k \in {key} \cup names.taken |->
                       IF k = key THEN Stored(view[r][key], entity[r]) ELSE command[r].product] IN
     IF entity[r].marked = {} THEN Refuse(r)
     ELSE \/ Conflict(r, keys)
          \/ Free(r, keys) /\ names.taken \cap DOMAIN view[r] # {} /\ Refuse(r)
          \/ /\ names.taken \cap DOMAIN view[r] = {}
             /\ Write(r, keys, changed)
             /\ Goto(r, "commit")
             /\ UNCHANGED <<command, attempt, entity, at, job, answer, faults>>

Fault == faults < MaxFaults /\ faults' = faults + 1

\* The reply to the commit may be lost, however often the driver asks again:
\* the client gets an error, which is "unknown" here, for what was committed.
CommitTransaction(r) ==
  /\ pc[r] = "commit"
  /\ Commit(r)
  /\ \/ Answer(r, "ok") /\ UNCHANGED faults
     \/ Answer(r, "unknown") /\ Fault

-----------------------------------------------------------------------------
\* ProductCreateUseCase

\* Drafts of variants as entities, by the ids they get.
VariantsOf(r, drafts) ==
  [id \in {<<r, attempt[r], i>> : i \in DOMAIN drafts} |->
     LET draft == drafts[id[3]]
         images == Listed(draft.images) IN
     NewVariant(SkuOf(draft.sku), draft.name, draft.options,
                [i \in DOMAIN images |-> [id |-> <<r, attempt[r], id[3], i>>, url |-> images[i]]])]

\* mapToEntity, which makes a draft of it
NewProduct(r) ==
  LET cmd == command[r]
      draft == cmd.product
      images == Listed(cmd.images) IN
  New([sku |-> SkuOf(draft.sku), name |-> draft.name, price |-> draft.price,
       compareAtPrice |-> Undefined, priceHistory |-> <<>>, status |-> "draft", fields |-> draft.fields,
       images |-> [i \in DOMAIN images |-> [id |-> <<r, attempt[r], i>>, url |-> images[i]]],
       variants |-> VariantsOf(r, Listed(cmd.variants))])

\* validateInternalUniqueness: skus and names among the variants and the product
UniqueWithin(product) ==
  \A v \in DOMAIN product.variants :
    LET variant == product.variants[v] IN
    /\ variant.sku # product.sku /\ variant.name # product.name
    /\ \A w \in DOMAIN product.variants \ {v} :
         product.variants[w].sku # variant.sku /\ product.variants[w].name # variant.name

\* Mutant: the variants of the other product are not compared.
SharesWithRoot(product, other) ==
  \E v \in DOMAIN product.variants :
    other.sku = product.variants[v].sku \/ other.name = product.variants[v].name

\* What findConflictingProducts looks for in another product.
SharesVariant(product, other) ==
  \E v \in DOMAIN product.variants :
    LET variant == product.variants[v] IN
    \/ other.sku = variant.sku \/ other.name = variant.name
    \/ \E w \in DOMAIN other.variants :
         other.variants[w].sku = variant.sku \/ other.variants[w].name = variant.name

\* A sku of the product or a variant that ProductSkuVO has refused
BadSku(product) == Refusal \in {product.sku} \cup {product.variants[v].sku : v \in DOMAIN product.variants}

ProductsIn(db) == {k \in DOMAIN db : k[1] = "product"}

\* Everything before saveProduct.  Only a product with variants is compared
\* with others, and only then the transaction has begun.
PrepareProduct(r) ==
  /\ pc[r] = "load" /\ command[r].kind = "create"
  /\ LET product == NewProduct(r)
         variants == DOMAIN product.variants IN
     IF \/ BadSku(product)
        \/ variants # {} /\ command[r].inventory # Undefined
        \/ variants # {} /\ ~UniqueWithin(product)
        \/ variants # {} /\ \E k \in ProductsIn(store) : SharesVariant(product, store[k])
     THEN Refuse(r)
     ELSE /\ entity' = [entity EXCEPT ![r] = product]
          /\ Goto(r, "insert")
          /\ IF variants = {} THEN UNCHANGED txns ELSE Read(r)
          /\ UNCHANGED <<command, attempt, at, job, answer, faults>>

NewProductId(r) == <<r, attempt[r]>>

\* saveProduct, with the unique indexes of the model
InsertProduct(r) ==
  /\ pc[r] = "insert"
  /\ LET key == ProductKey(NewProductId(r))
         keys == {key, SkuKey(entity[r].sku)} \cup NameKeys(entity[r].name) IN
     \/ Conflict(r, keys)
     \/ Free(r, keys) /\ keys \cap DOMAIN Seen(r) # {} /\ Refuse(r)
     \/ /\ keys \cap DOMAIN Seen(r) = {}
        /\ Write(r, keys, [k \in keys |-> IF k = key THEN entity[r] ELSE NewProductId(r)])
        /\ Goto(r, "stock")
        /\ UNCHANGED <<command, attempt, entity, at, job, answer, faults>>

\* The inventories asked for, by reference.
InventoryRequests(r) ==
  LET drafts == Listed(command[r].variants)
      ofVariants == {i \in DOMAIN drafts : drafts[i].inventory # Undefined} IN
  IF drafts # <<>>
  THEN [k \in {StockKey(NewProductId(r), <<r, attempt[r], i>>) : i \in ofVariants} |->
          drafts[k[3][3]].inventory.stock]
  ELSE [k \in IF command[r].inventory = Undefined THEN {} ELSE {StockKey(NewProductId(r), Root)} |->
          command[r].inventory.stock]

\* saveInventory or saveBulkInventories.  What they check cannot fail: the
\* product's id is new, it has the variants, and nobody else can have written
\* an inventory for it.
InsertInventories(r) ==
  /\ pc[r] = "stock"
  /\ LET asked == InventoryRequests(r)
         keys == DOMAIN asked IN
     Write(r, keys, [k \in keys |-> NewInventory(r, k, asked[k])])
  /\ Goto(r, "commit")
  /\ UNCHANGED <<command, attempt, entity, at, job, answer, faults>>

-----------------------------------------------------------------------------
\* Faults.

\* A transient error of the database, at any point of a transaction.
TransientError(r) ==
  /\ pc[r] \notin {"idle", "done"}
  /\ Fault
  /\ RunAgain(r)

\* Any other error, or the end of the process: the transaction is aborted.
Lost(r) ==
  /\ pc[r] \notin {"idle", "done"}
  /\ Fault
  /\ Answer(r, "failed")
  /\ Abort(r)

AllAnswered == (\A r \in Requests : pc[r] = "done") /\ UNCHANGED vars

Step(r) ==
  \/ Receive(r)
  \/ LoadProduct(r) \/ DropVariants(r) \/ AddNextVariant(r) \/ EditNextVariant(r) \/ SaveProduct(r)
  \/ DeleteInventory(r) \/ FindInventory(r) \/ SetStock(r) \/ CheckKinds(r) \/ InsertInventory(r)
  \/ PrepareProduct(r) \/ InsertProduct(r) \/ InsertInventories(r)
  \/ CommitTransaction(r)
  \/ TransientError(r) \/ Lost(r)

Next == (\E r \in Requests : Step(r)) \/ AllAnswered

Spec == Init /\ [][Next]_vars

-----------------------------------------------------------------------------
\* What the code promises.

Phases == {"idle", "load", "drop", "add", "edit", "save", "insert", "stock", "commit", "done"}

TypeOK ==
  /\ open \subseteq Requests
  /\ pc \in [Requests -> Phases]
  /\ attempt \in [Requests -> 0..MaxAttempts]
  /\ answer \in [Requests -> {Undefined, "ok", "unknown", "refused", "failed"}]
  /\ faults \in 0..MaxFaults
  /\ \A r \in Requests : r \in open => pc[r] \notin {"idle", "load", "done"}
  /\ \A k \in ProductsIn(store) :
       /\ store[k].hasVariants = (DOMAIN store[k].variants # {})
       /\ store[k].marked = {} /\ Len(store[k].priceHistory) <= HistoryLength

\* A product has one inventory of its own or inventories of its variants, not
\* both, although what else there is is read outside the transaction.
OneKindOfInventory == OneKindIn(store)

\* Every inventory belongs to a product that is there, and to a variant that
\* is, although variants and inventories are removed in different documents.
InventoriesHaveOwners == OwnedIn(store)

Commits(r, kind) == pc[r] = "commit" /\ answer'[r] \in {"ok", "unknown"} /\ command[r].kind = kind

\* Two products with a variant of one sku.
ShareSku(product, other) ==
  \E v \in DOMAIN product.variants, w \in DOMAIN other.variants :
    product.variants[v].sku = other.variants[w].sku

\* No index keeps variant skus apart: a product is created with a variant
\* that another product has only if that product was written while the new one
\* was being created.
SkusSharedByRacesOnly ==
  [][\A r \in Requests : Commits(r, "create") =>
       \A k \in ProductsIn(store) : ShareSku(entity[r], store[k]) => k \in stale[r]]_vars

GivenIn(cmd) == IF cmd.domain = Undefined THEN {} ELSE {f \in DOMAIN cmd.domain : cmd.domain[f] # Null}

\* The fields of updateMultiple: those given change, the others do not.
FieldsAsAsked(cmd, old, new) ==
  LET given == GivenIn(cmd) IN
  /\ new.name = IF "name" \in given THEN cmd.domain.name ELSE old.name
  /\ \A f \in Optional : new.fields[f] = IF f \in given THEN cmd.domain[f] ELSE old.fields[f]
  /\ "price" \in given => /\ new.price.amount = Given(cmd.domain.price.amount, new.price.amount)
                          /\ new.price.currency = Given(cmd.domain.price.currency, new.price.currency)
  /\ "compareAtPrice" \in given => new.compareAtPrice = cmd.domain.compareAtPrice
  /\ "compareAtPrice" \notin given => new.compareAtPrice = old.compareAtPrice
  /\ cmd.domain = Undefined \/ {"price", "compareAtPrice"} \cap DOMAIN cmd.domain = {} => new.price = old.price

\* Images that were there and not removed, and the new ones.  An order that
\* names an image twice may leave another out.
ImagesAsAsked(images, old, new) ==
  LET removed == ToSet(Listed(images.remove))
      added == {new[i].url : i \in {j \in DOMAIN new : new[j].id \notin IdsOf(old)}}
      asked == {image.url : image \in ToSet(Listed(images.add))} IN
  /\ IdsOf(new) \cap removed = {} /\ added \subseteq asked
  /\ IsInjective(Listed(images.order)) =>
       IdsOf(old) \ removed \subseteq IdsOf(new) /\ added = asked

\* The variants dropped, added and edited as asked, the others as they were.  Of
\* two edits of one variant in a request, the later may undo the earlier.
VariantsAsAsked(variants, old, new) ==
  LET edits == Listed(variants.edit)
      dropped == ToSet(Listed(variants.drop))
      added == DOMAIN new \ DOMAIN old IN
  /\ DOMAIN old \ DOMAIN new = dropped
  /\ {new[v].sku : v \in added} = {SkuOf(draft.sku) : draft \in ToSet(Listed(variants.add))}
  /\ \A v \in (DOMAIN old \ dropped) \ {edit.id : edit \in ToSet(edits)} : new[v] = old[v]
  /\ \A i \in {k \in DOMAIN edits : \A j \in DOMAIN edits : edits[j].id = edits[k].id => j = k} :
       /\ ImagesAsAsked(edits[i].images, old[edits[i].id].images, new[edits[i].id].images)
       /\ new[edits[i].id].options = Given(edits[i].options, old[edits[i].id].options)

\* An update that is committed has changed the product as it is at that moment
\* in what was asked, and in nothing else, whatever others changed since it was
\* read.  (A cleared field keeps its value: undefined is never stored.)
UpdatesAreExact ==
  [][\A r \in Requests : Commits(r, "update") =>
       LET cmd == command[r]
           key == ProductKey(cmd.product)
           old == store[key]
           new == store'[key] IN
       /\ FieldsAsAsked(cmd, old, new)
       /\ IF TouchesRootImages(cmd) THEN ImagesAsAsked(cmd.images, old.images, new.images)
          ELSE new.images = old.images
       /\ IF cmd.variants # Undefined THEN VariantsAsAsked(cmd.variants, old.variants, new.variants)
          ELSE new.variants = old.variants
       /\ \A k \in DOMAIN store \ {key} : k[1] \notin {"name", "slug", "stock"} =>
            k \in DOMAIN store' /\ store'[k] = store[k]]_vars

OnSale(product) ==
  product.compareAtPrice # Undefined =>
    /\ product.price.currency = product.compareAtPrice.currency
    /\ product.price.amount < product.compareAtPrice.amount

MarkdownStays(cmd, old, new) ==
  OnSale(old) /\ ~OnSale(new) =>
    IF Has(cmd.domain, "compareAtPrice") THEN cmd.domain.compareAtPrice = Null
    ELSE Has(cmd.domain, "price")

\* A price below its markdown's original stays so, except that a price given
\* alone is not compared with it, and that removing a markdown restores the
\* price and leaves the original.
MarkdownsHold ==
  [][\A r \in Requests : Commits(r, "update") =>
       LET key == ProductKey(command[r].product) IN
       MarkdownStays(command[r], store[key], store'[key])]_vars

\* The files of an update are named once each.
NamesEachFileOnce(dto) ==
  UploadedIds(dto) # {} => /\ dto.uploadedMap \in [UploadedIds(dto) -> 1..dto.files]
                           /\ IsInjective(dto.uploadedMap)

Receives(r, dto) ==
  /\ pc[r] = "idle" /\ pc'[r] = "load"
  /\ Accepted(dto) /\ command'[r] = Assembled(dto)

\* If the files an accepted update brings are named once each, every image it
\* adds to the product or with a new variant has a file of its own, and no file
\* is left over.  (Images added to a variant that is there are not checked.)
ImagesHaveFiles ==
  [][\A r \in Requests : \A dto \in Dtos :
       dto.kind = "update" /\ NamesEachFileOnce(dto) /\ Receives(r, dto) =>
         LET cmd == command'[r]
             added == RootAdds(cmd) \o FlattenSeq(DraftAdds(cmd))
             files == {added[i].url : i \in DOMAIN added} IN
         added # <<>> => files = 1..dto.files /\ Cardinality(files) = Len(added)]_vars

=============================================================================
