---------------------------- MODULE ProductEntity ----------------------------
(***************************************************************************)
(* The product aggregate: what the methods of ProductEntity and            *)
(* ProductVariantEntity do to a product in memory, and what of it reaches  *)
(* the document.  A method that throws gives Refusal.  Variants are a      *)
(* function of their ids, since no code looks at their order; images are a *)
(* sequence, since theirs is shown.                                        *)
(***************************************************************************)
EXTENDS Integers, Sequences, FiniteSets

CONSTANTS
  Undefined,      \* undefined, or a key that is not there
  Null,           \* null: clear the field
  Refusal,        \* the method has thrown
  Optional,       \* optional fields that are set or cleared as a whole
  Skus,           \* what ProductSkuVO makes of the skus it accepts
  Unfit,          \* pairs of a field and a value its value object refuses
  HistoryLength   \* prices that priceHistory keeps

\* What a product has, in memory and in a document.
ProductKeys ==
  {"sku", "name", "price", "compareAtPrice", "priceHistory", "status", "fields", "images",
   "variants", "hasVariants", "marked"}

ASSUME ProductEntityAssumption ==
  /\ HistoryLength \in Nat \ {0}
  /\ Optional \cap (ProductKeys \cup {"seo", "slug"}) = {}

Currencies == {"LEU", "EUR"}
SeoKeys == {"title", "description", "keywords", "cannonicalUrl"}
Fields == Optional \cup {"seo"}

Has(changes, key) == key \in DOMAIN changes
Given(value, otherwise) == IF value = Undefined THEN otherwise ELSE value

\* ProductSkuVO: trimmed and in upper case, or refused.
SkuOf(text) == IF text \in DOMAIN Skus THEN Skus[text] ELSE Refusal

\* constructor: hasVariants is computed, productOptions is not assigned.
\* marked is the change tracker, which nothing has marked yet.
New(props) ==
  LET more == [hasVariants |-> DOMAIN props.variants # {}, marked |-> {}] IN
  [key \in DOMAIN props \cup DOMAIN more |->
     IF key \in DOMAIN more THEN more[key]
     ELSE IF key = "fields"
     THEN [f \in Fields |-> IF f = "productOptions" THEN Undefined ELSE props[key][f]]
     ELSE props[key]]

\* fromPersistanceToEntity: all that is stored but hasVariants.
Entity(doc) == New([key \in DOMAIN doc \ {"hasVariants", "marked"} |-> doc[key]])

Marking(p, keys) == [p EXCEPT !.marked = @ \cup keys]

Deleted(p) == p.status = "deleted"

-----------------------------------------------------------------------------
\* Prices.

\* More than 20 % of the price there is.
LargeChange(old, new) == 5 * (IF new > old THEN new - old ELSE old - new) > old

\* A price of which only one part may be given, over the one there is.
Merged(old, change) ==
  [amount |-> Given(change.amount, IF old = Undefined THEN Undefined ELSE old.amount),
   currency |-> Given(change.currency, IF old = Undefined THEN Undefined ELSE old.currency)]

\* validate of PriceVO, with amounts in the smallest unit
IsPrice(price) == price.amount \in Nat /\ price.currency \in Currencies

UpdatePrice(p, change) ==
  LET price == Merged(p.price, change) IN
  IF \/ Deleted(p)
     \/ ~IsPrice(price)
     \/ /\ p.status = "active"
        /\ p.price # Undefined
        /\ LargeChange(p.price.amount, price.amount)
  THEN Refusal
  ELSE Marking([p EXCEPT !.price = price], {"price"})

\* Mutant: one price too many is kept.
RememberOneMore(history, price) ==
  LET kept == IF Len(history) < HistoryLength THEN 1 ELSE Len(history) - HistoryLength + 1 IN
  Append(SubSeq(history, kept, Len(history)), price)

\* The last HistoryLength prices, the new one among them.
Remember(history, price) ==
  LET kept == IF Len(history) < HistoryLength THEN 1 ELSE Len(history) - HistoryLength + 2 IN
  Append(SubSeq(history, kept, Len(history)), price)

Repriced(p, price, original) ==
  Marking([p EXCEPT !.price = price, !.compareAtPrice = original,
                    !.priceHistory = Remember(@, price)],
          {"compareAtPrice", "price", "priceHistory"})

\* Mutant: the prices are not compared.
MarkdownOfAnySize(p, original, sale) ==
  IF \/ Deleted(p)
     \/ ~IsPrice(original) \/ ~IsPrice(sale)
     \/ sale.currency # original.currency
  THEN Refusal
  ELSE Repriced(p, sale, original)

ApplyMarkdown(p, original, sale) ==
  IF \/ Deleted(p)
     \/ ~IsPrice(original) \/ ~IsPrice(sale)
     \/ sale.currency # original.currency
     \/ sale.amount >= original.amount
  THEN Refusal
  ELSE Repriced(p, sale, original)

RemoveMarkdown(p) ==
  IF Deleted(p) \/ p.compareAtPrice = Undefined THEN Refusal
  ELSE Repriced(p, p.compareAtPrice, Undefined)

-----------------------------------------------------------------------------
\* updateMultiple.  changes is a function of the keys that are given.

\* compareAtPrice and price of updateMultiple
Pricing(p, changes) ==
  IF ~Has(changes, "compareAtPrice")
  THEN IF Has(changes, "price") THEN UpdatePrice(p, changes.price) ELSE p
  ELSE IF changes.compareAtPrice = Null
  THEN LET restored == RemoveMarkdown(p) IN
       IF restored = Refusal \/ ~Has(changes, "price") THEN restored
       ELSE UpdatePrice(restored, changes.price)
  ELSE LET sale == IF Has(changes, "price") THEN Merged(p.price, changes.price) ELSE p.price IN
       IF sale = Undefined THEN Refusal ELSE ApplyMarkdown(p, changes.compareAtPrice, sale)

\* updateName: the slug follows the name.
Naming(p, changes) ==
  IF ~Has(changes, "name") THEN p
  ELSE IF Deleted(p) THEN Refusal
  ELSE Marking([p EXCEPT !.name = changes.name], {"name", "slug"})

\* updateSeo: parts over the parts there are, or all of them at once.
UpdateSeo(p, change) ==
  IF p.fields["seo"] # Undefined
  THEN [k \in SeoKeys |-> IF k \in DOMAIN change THEN change[k] ELSE p.fields["seo"][k]]
  ELSE IF DOMAIN change = SeoKeys THEN change ELSE Refusal

\* What the update and clear methods of the optional fields would leave there.
Changed(p, changes) ==
  [f \in Fields |-> IF ~Has(changes, f) THEN p.fields[f]
                    ELSE IF changes[f] = Null THEN Undefined
                    ELSE IF f = "seo" THEN UpdateSeo(p, changes[f]) ELSE changes[f]]

\* All of them but updateProductOptions ask first whether the product is deleted.
Setting(p, changes) ==
  LET keys == Fields \cap DOMAIN changes
      value == Changed(p, changes) IN
  IF \E f \in keys : \/ <<f, value[f]>> \in Unfit
                     \/ value[f] = Refusal
                     \/ Deleted(p) /\ (f = "productOptions" => value[f] = Undefined)
  THEN Refusal
  ELSE Marking([p EXCEPT !.fields = value], keys)

UpdateMultiple(p, changes) ==
  LET named == Naming(p, changes)
      set == IF named = Refusal THEN Refusal ELSE Setting(named, changes) IN
  IF set = Refusal THEN Refusal ELSE Pricing(set, changes)

-----------------------------------------------------------------------------
\* Images.

IdsOf(images) == {images[i].id : i \in DOMAIN images}

\* Every array method that the code guards with ?.length
Some(seq) == seq # Undefined /\ seq # <<>>

Listed(seq) == IF seq = Undefined THEN <<>> ELSE seq

Rearranged(images, added, removed) ==
  SelectSeq(images, LAMBDA image : image.id \notin removed) \o added

\* The images in the order of their ids; the last of those with one id.
InOrder(images, order) ==
  [i \in DOMAIN order |-> images[CHOOSE j \in DOMAIN images :
     /\ images[j].id = order[i]
     /\ \A k \in DOMAIN images : images[k].id = order[i] => k <= j]]

\* removeImages and addImage, then reorderImages, which looks every id of the
\* order up and then compares lengths.
ArrangeRoot(p, added, removed, order) ==
  LET images == Rearranged(p.images, added, removed) IN
  IF \/ Deleted(p)
     \/ \E i \in DOMAIN order : order[i] \notin IdsOf(images)
     \/ Len(order) # Len(images)
  THEN Refusal
  ELSE Marking([p EXCEPT !.images = InOrder(images, order)], {"images"})

\* The variant's methods.  This reorderImages refuses an id that comes twice.
ArrangeVariant(v, added, removed, order) ==
  LET images == Rearranged(v.images, added, removed)
      asked == {order[i] : i \in DOMAIN order} IN
  IF (added # <<>> \/ removed # {}) /\ order = <<>> THEN Refusal
  ELSE IF images = <<>> \/ order = <<>> THEN [v EXCEPT !.images = images]
  ELSE IF Cardinality(asked) # Len(order) \/ asked # IdsOf(images) THEN Refusal
  ELSE [v EXCEPT !.images = InOrder(images, order)]

-----------------------------------------------------------------------------
\* Variants.

\* The constructor.  The schemas have refused what its validate refuses.
NewVariant(sku, name, options, images) ==
  [sku |-> sku, name |-> name, options |-> options, images |-> images]

AddVariant(p, id, v) ==
  IF \/ Deleted(p)
     \/ \E w \in DOMAIN p.variants : p.variants[w].sku = v.sku
  THEN Refusal
  ELSE Marking([p EXCEPT !.variants = [w \in DOMAIN @ \cup {id} |-> IF w = id THEN v ELSE @[w]],
                         !.hasVariants = TRUE],
               {"variants", "hasVariants"})

RemoveVariants(p, ids) ==
  IF DOMAIN p.variants = {} \/ ~(ids \subseteq DOMAIN p.variants) THEN Refusal
  ELSE Marking([p EXCEPT !.variants = [w \in DOMAIN @ \ ids |-> @[w]],
                         !.hasVariants = DOMAIN p.variants # ids],
               {"variants", "hasVariants"})

\* updateFromCommand: null is taken for undefined, and clears nothing.
UpdateFromCommand(v, options) ==
  IF options \in {Undefined, Null} THEN v
  ELSE IF <<"productOptions", options>> \in Unfit THEN Refusal
  ELSE [v EXCEPT !.options = options]

\* updateVariant: the images first
UpdateVariant(p, id, options, added, removed, order) ==
  IF id \notin DOMAIN p.variants THEN Refusal
  ELSE LET arranged == ArrangeVariant(p.variants[id], added, removed, order)
           v == IF arranged = Refusal THEN Refusal ELSE UpdateFromCommand(arranged, options) IN
       IF v = Refusal THEN Refusal ELSE Marking([p EXCEPT !.variants[id] = v], {"variants"})

-----------------------------------------------------------------------------
\* What is stored.

\* Mutant: the whole entity is stored, and not what was marked of it.
StoredWhole(doc, p) ==
  [p EXCEPT !.marked = {}]

\* mapPartialToPersistence and $set: of the fields that were marked, those
\* that are not undefined.
Stored(doc, p) ==
  LET changed(key, value, old) == IF key \in p.marked THEN value ELSE old
      given(key, value, old) == changed(key, Given(value, old), old) IN
  [doc EXCEPT !.name = changed("name", p.name, @),
              !.price = changed("price", p.price, @),
              !.compareAtPrice = given("compareAtPrice", p.compareAtPrice, @),
              !.priceHistory = changed("priceHistory", p.priceHistory, @),
              !.images = changed("images", p.images, @),
              !.variants = changed("variants", p.variants, @),
              !.hasVariants = changed("hasVariants", p.hasVariants, @),
              !.fields = [f \in Fields |-> given(f, p.fields[f], @[f])]]

=============================================================================
