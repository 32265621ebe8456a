CONSTANTS
  Undefined = Undefined
  Null = Null
  Refusal = Refusal
  p1 = p1
  p2 = p2
  v1 = v1
  v2 = v2
  a = a
  b = b
  c = c
  t1 = t1
  t2 = t2
  i1 = i1
  j1 = j1
  plain = plain
  striped = striped
  empty = empty
  acme = acme
  r1 = r1
  r2 = r2
  Requests = {r1, r2}
  Optional <- MCOptional
  Unfit <- MCUnfit
  Skus <- MCSkus
  Slug <- MCSlug
  InitialStore <- MCStore
  Dtos <- MCDtos
  HistoryLength = 2
  MaxAttempts = 2
  MaxFaults = 1
SYMMETRY RequestSymmetry
SPECIFICATION Spec
INVARIANTS TypeOK OneKindOfInventory InventoriesHaveOwners
PROPERTIES SkusSharedByRacesOnly UpdatesAreExact MarkdownsHold ImagesHaveFiles
