---------------------------- MODULE MCCatalogue ----------------------------
(***************************************************************************)
(* An instance of Catalogue: a product with an inventory of its own, one   *)
(* with variants, and requests that get in each other's way.               *)
(***************************************************************************)
EXTENDS Catalogue

CONSTANTS r1, r2, p1, p2, v1, v2, a, b, c, t1, t2, i1, j1, plain, striped, empty, acme

MCSlug == [name \in {"drill", "Drill!", "saw", "axe", "bit"} |->
             IF name = "Drill!" THEN "drill" ELSE name]

MCSkus == [text \in {"S1", "S2", "S3", "s3", "S4", "S5", "S6", "S7", "S9", "drill", "Drill!", "axe", "bit"} |->
             CASE text = "s3" -> "S3"
               [] text \in {"drill", "Drill!"} -> "DRILL"
               [] text = "axe" -> "AXE"
               [] text = "bit" -> "BIT"
               [] OTHER -> text]

MCOptional == {"brand", "productOptions"}

MCUnfit == {<<"productOptions", empty>>}

Euro(amount) == [amount |-> amount, currency |-> "EUR"]

NoFields == [f \in Fields |-> Undefined]

Image(id) == [id |-> id, url |-> 9]

Variant(sku, images) == [sku |-> sku, name |-> sku, options |-> plain, images |-> images]

\* p1 has its own inventory, p2 is reduced and has variants, one with an inventory.
MCStore ==
  (ProductKey(p1) :> [sku |-> "P1", name |-> "drill", price |-> Euro(100), compareAtPrice |-> Undefined,
                      priceHistory |-> <<>>, status |-> "active", images |-> <<Image(a), Image(b)>>,
                      variants |-> EmptyStore, hasVariants |-> FALSE, marked |-> {},
                      fields |-> [NoFields EXCEPT !["productOptions"] = plain]])
  @@ (ProductKey(p2) :> [sku |-> "P2", name |-> "saw", price |-> Euro(80), compareAtPrice |-> Euro(100),
                         priceHistory |-> <<Euro(80)>>, status |-> "active", images |-> <<>>,
                         variants |-> (v1 :> Variant("S1", <<Image(c)>>)) @@ (v2 :> Variant("S2", <<>>)),
                         hasVariants |-> TRUE, marked |-> {}, fields |-> NoFields])
  @@ (StockKey(p1, Root) :> [id |-> i1, stock |-> 3]) @@ (StockKey(p2, v1) :> [id |-> j1, stock |-> 3])
  @@ (SkuKey("P1") :> p1) @@ (SkuKey("P2") :> p2)
  @@ [k \in NameKeys("drill") |-> p1] @@ [k \in NameKeys("saw") |-> p2]

Update(product) ==
  [kind |-> "update", product |-> product, domain |-> Undefined, images |-> Undefined,
   inventory |-> Undefined, variants |-> Undefined, uploadedMap |-> Undefined, files |-> 0]

Fieldwise(product, changes) == [Update(product) EXCEPT !.domain = changes]

Changing(inventory, dto) == [dto EXCEPT !.inventory = inventory]

Creating(stock) == [do |-> "create", id |-> Undefined, stock |-> stock]
Removing(id) == [do |-> "remove", id |-> id, stock |-> Undefined]
Stocking(id, stock) == [do |-> "update", id |-> id, stock |-> stock]

Images(add, remove, order) == [add |-> add, remove |-> remove, order |-> order]
NoImages == Undefined

Draft(sku, images, inventory) ==
  [sku |-> sku, name |-> sku, options |-> Undefined, images |-> images, inventory |-> inventory]

Edit(id, options, images, inventory) ==
  [id |-> id, options |-> options, images |-> images, inventory |-> inventory]

Varying(product, drop, add, edit) ==
  [Update(product) EXCEPT !.variants = [drop |-> drop, add |-> add, edit |-> edit]]

Uploading(map, files, dto) == [dto EXCEPT !.uploadedMap = map, !.files = files]

PriceOnly(amount) == [amount |-> amount, currency |-> Undefined]

FieldUpdates ==
  {Fieldwise(p1, [brand |-> acme, name |-> "Drill!"]),
   Fieldwise(p1, [productOptions |-> striped, name |-> "axe"]),
   Fieldwise(p2, [price |-> PriceOnly(90), compareAtPrice |-> Null]),
   Fieldwise(p1, [compareAtPrice |-> Euro(120)]),
   Fieldwise(p2, [compareAtPrice |-> Euro(70)]),
   Fieldwise(p2, [price |-> PriceOnly(96)]),
   Fieldwise(p2, [price |-> PriceOnly(40)])}

StockUpdates ==
  {Changing(Removing(i1), Fieldwise(p1, [brand |-> acme])),
   Changing(Stocking(i1, 5), Fieldwise(p2, [brand |-> acme])),
   Changing(Creating(2), Fieldwise(p1, [brand |-> acme])),
   Changing(Creating(2), Fieldwise(p2, [brand |-> acme])),
   Changing(Stocking(i1, 4), Update(p1)),
   Changing(Creating(2), Varying(p2, Undefined, <<>>, Undefined))}

\* Updates of a product that another request may have created
NewProductUpdates ==
  UNION {{Fieldwise(<<r, 1>>, [brand |-> acme]),
          Varying(<<r, 1>>, Undefined, <<Draft("S6", Undefined, Creating(1))>>, Undefined),
          Changing(Stocking(<<r, 1, StockKey(p2, v2)>>, 8), Fieldwise(p2, [brand |-> acme]))} : r \in Requests}

ImageUpdates ==
  {Uploading(t1 :> 1, 1, [Update(p1) EXCEPT !.images = Images(<<t1>>, <<a>>, <<t1, b>>)]),
   Uploading((t1 :> 2) @@ (t2 :> 1), 2,
             [Varying(p1, Undefined, <<Draft("S9", <<t1>>, Undefined)>>, Undefined)
                EXCEPT !.images = Images(<<t2>>, Undefined, <<b, a, t2>>)]),
   Uploading(t1 :> 1, 1, [Update(p1) EXCEPT !.images = Images(Undefined, <<a>>, <<b>>)]),
   [Update(p1) EXCEPT !.images = Images(Undefined, Undefined, <<b, a>>)],
   Uploading(t1 :> 1, 1, [Update(p1) EXCEPT !.images = Images(<<t1, t2>>, <<a>>, <<t1, t2, b>>)]),
   Uploading(t1 :> 1, 1, [Update(p1) EXCEPT !.images = Images(<<t1, t1>>, <<a>>, <<t1, t1, b>>)]),
   Uploading(t1 :> 1, 1, [Update(p1) EXCEPT !.images = Images(<<t1>>, Undefined, <<b, b, t1>>)]),
   Uploading(t1 :> 1, 1,
             Varying(p2, Undefined, Undefined,
                     <<Edit(v1, striped, Images(<<t1>>, <<c>>, <<t1>>), Undefined)>>))}

VariantUpdates ==
  {Varying(p2, <<v1>>, <<Draft("S3", Undefined, Creating(1))>>, Undefined),
   Varying(p2, <<v2>>, Undefined, Undefined),
   Varying(p1, Undefined, <<Draft("S1", Undefined, Creating(1)), Draft("S2", Undefined, Undefined)>>, Undefined),
   Varying(p2, Undefined, <<Draft("S1", Undefined, Undefined)>>, Undefined),
   Varying(p2, Undefined, Undefined, <<Edit(v2, Undefined, NoImages, Creating(7))>>),
   Varying(p2, Undefined, Undefined,
           <<Edit(v2, striped, NoImages, Undefined),
             Edit(v1, Undefined, Images(Undefined, <<c>>, Undefined), Removing(j1))>>),
   Varying(p2, Undefined, Undefined,
           <<Edit(v2, striped, NoImages, Undefined), Edit(v2, plain, NoImages, Undefined)>>),
   Changing(Removing(i1), Varying(p1, Undefined, <<Draft("S4", Undefined, Creating(1))>>, Undefined))}

Create(name, variants, inventory) ==
  [kind |-> "create", inventory |-> inventory, variants |-> variants, variantFiles |-> <<>>, files |-> <<1>>,
   product |-> [sku |-> name, name |-> name, price |-> Euro(10), images |-> Undefined,
                fields |-> [NoFields EXCEPT !["productOptions"] = plain]]]

Creations ==
  {Create("bit", <<Draft("S3", Undefined, Creating(1)), Draft("S4", Undefined, Creating(1))>>, Undefined),
   Create("axe", <<Draft("s3", Undefined, Undefined)>>, Undefined),
   Create("axe", Undefined, Creating(4)),
   Create("bit", <<Draft("?", Undefined, Undefined)>>, Undefined),
   Create("Drill!", Undefined, Undefined),
   Create("bit", <<Draft("S5", Undefined, Undefined)>>, Creating(4)),
   [Create("axe", <<Draft("S7", Undefined, Undefined)>>, Undefined) EXCEPT !.variantFiles = <<<<2>>>>],
   [Create("axe", <<Draft("S7", Undefined, Undefined)>>, Undefined) EXCEPT !.variantFiles = <<<<2>>, <<3>>>>]}

MCDtos ==
  FieldUpdates \cup StockUpdates \cup NewProductUpdates \cup ImageUpdates \cup VariantUpdates \cup Creations

RequestSymmetry == Permutations(Requests)

=============================================================================
