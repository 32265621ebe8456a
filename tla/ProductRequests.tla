--------------------------- MODULE ProductRequests ---------------------------
(***************************************************************************)
(* From a product request to the command the services get: what the        *)
(* schemas and the controller refuse, and how the assemblers tie uploaded  *)
(* files to images.  An update names its images by temporary ids and says  *)
(* in uploadedMap which file each of them is, by index.                    *)
(***************************************************************************)
EXTENDS ProductEntity, SequencesExt

\* ProductDomainUpdateSchema: what is given has a value, and only what can be
\* cleared may be null.
IsDomainUpdate(changes) ==
  \A f \in DOMAIN changes : changes[f] # Undefined /\ (f \in {"name", "price"} => changes[f] # Null)

IsArray(seq) == seq \in Seq(ToSet(seq))

\* Where an image has no file.
NoFile == 0

-----------------------------------------------------------------------------
\* Updates.

AddedVariants(dto) == IF dto.variants = Undefined THEN <<>> ELSE Listed(dto.variants.add)
EditedVariants(dto) == IF dto.variants = Undefined THEN <<>> ELSE Listed(dto.variants.edit)

RootAdds(dto) == IF dto.images = Undefined THEN <<>> ELSE Listed(dto.images.add)

DraftAdds(dto) == [i \in DOMAIN AddedVariants(dto) |-> Listed(AddedVariants(dto)[i].images)]

\* The temporary ids in root images and in those of new variants.
UsedTempIds(dto) == RootAdds(dto) \o FlattenSeq(DraftAdds(dto))

\* UpdateProductRequestSchema, of the parts that name images to add
IsUpdate(dto) ==
  /\ dto.domain = Undefined \/ IsDomainUpdate(dto.domain)
  /\ dto.images # Undefined => "add" \in DOMAIN dto.images
  /\ IsArray(RootAdds(dto)) /\ IsArray(AddedVariants(dto))
  /\ \A i \in DOMAIN AddedVariants(dto) :
       "images" \in DOMAIN AddedVariants(dto)[i] /\ IsArray(DraftAdds(dto)[i])

UploadedIds(dto) == IF dto.uploadedMap = Undefined THEN {} ELSE DOMAIN dto.uploadedMap

\* Mutant: an id may be used twice.
MapNamesImages(dto) ==
  UsedTempIds(dto) # <<>> =>
    dto.uploadedMap # Undefined /\ ToSet(UsedTempIds(dto)) = UploadedIds(dto)

\* Every temporary id is used once and every uploaded one is used.
MapFitsImages(dto) ==
  LET used == UsedTempIds(dto) IN
  used # <<>> =>
    /\ dto.uploadedMap # Undefined
    /\ Len(used) = Cardinality(UploadedIds(dto))
    /\ ToSet(used) = UploadedIds(dto)

ChangesRootStock(inventory) == inventory # Undefined /\ inventory.do \in {"create", "update"}

\* superRefine of UpdateProductRequestSchema, and the file count of the
\* controller.
AcceptsUpdate(dto) ==
  /\ \E key \in {"domain", "images", "inventory", "variants"} : dto[key] # Undefined
  /\ MapFitsImages(dto)
  /\ ~( /\ ChangesRootStock(dto.inventory)
        /\ AddedVariants(dto) # <<>> \/ EditedVariants(dto) # <<>>)
  /\ Cardinality(UploadedIds(dto)) = dto.files

\* resolveImages
Resolved(dto, temps) ==
  IF temps = Undefined THEN Undefined
  ELSE [i \in DOMAIN temps |->
          LET index == IF temps[i] \in UploadedIds(dto) THEN dto.uploadedMap[temps[i]] ELSE 0 IN
          [temp |-> temps[i], url |-> IF index \in 1..dto.files THEN index ELSE NoFile]]

WithAdds(dto, images) == [images EXCEPT !.add = Resolved(dto, @)]

\* A variant update always gets an images record, with or without images.
ResolvedEdit(dto, edit) ==
  [edit EXCEPT !.images =
     WithAdds(dto, IF @ = Undefined
                   THEN [add |-> Undefined, remove |-> Undefined, order |-> Undefined] ELSE @)]

ResolvedDrafts(dto, drafts) ==
  [i \in DOMAIN drafts |-> [drafts[i] EXCEPT !.images = Resolved(dto, @)]]

ResolvedVariants(dto, variants) ==
  [drop |-> variants.drop,
   add |-> IF variants.add = Undefined THEN Undefined ELSE ResolvedDrafts(dto, variants.add),
   edit |-> IF variants.edit = Undefined THEN Undefined
            ELSE [i \in DOMAIN variants.edit |-> ResolvedEdit(dto, variants.edit[i])]]

AssembleVariants(dto) ==
  IF dto.variants = Undefined
     \/ \A key \in {"add", "edit", "drop"} : dto.variants[key] = Undefined
  THEN Undefined
  ELSE ResolvedVariants(dto, dto.variants)

AssembleUpdate(dto) ==
  [kind |-> "update", product |-> dto.product, domain |-> dto.domain,
   images |-> IF dto.images = Undefined THEN Undefined ELSE WithAdds(dto, dto.images),
   inventory |-> dto.inventory, variants |-> AssembleVariants(dto)]

-----------------------------------------------------------------------------
\* Creations: files that are there replace the images of the body, by field
\* name; one for a variant that is not there fails.
AcceptsCreate(dto) ==
  dto.variants # Undefined => DOMAIN dto.variantFiles \subseteq DOMAIN dto.variants

Pictured(files, images) == IF files = <<>> THEN images ELSE files

AssembleCreate(dto) ==
  [kind |-> "create", product |-> dto.product, inventory |-> dto.inventory,
   images |-> Pictured(dto.files, dto.product.images),
   variants |-> IF dto.variants = Undefined THEN Undefined
                ELSE [i \in DOMAIN dto.variants |->
                        IF i \in DOMAIN dto.variantFiles
                        THEN [dto.variants[i] EXCEPT !.images = dto.variantFiles[i]]
                        ELSE dto.variants[i]]]

-----------------------------------------------------------------------------
Accepted(dto) == IF dto.kind = "update" THEN AcceptsUpdate(dto) ELSE AcceptsCreate(dto)

Assembled(dto) == IF dto.kind = "update" THEN AssembleUpdate(dto) ELSE AssembleCreate(dto)

=============================================================================
