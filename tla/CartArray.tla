----------------------------- MODULE CartArray -----------------------------
(***************************************************************************)
(* CartEntity on the items array it really keeps: lookups by itemKey,      *)
(* push, splice, and the loop of mergeItems, for the cart of an account    *)
(* and the guest cart that is merged into it.  It justifies CartItems,     *)
(* which looks at the quantity of each line and forgets the array.         *)
(***************************************************************************)
EXTENDS CartItems, SequencesExt

CONSTANTS
  MaxQuantity     \* bound: larger quantities are not explored

ASSUME CartArrayAssumption == MaxQuantity \in Nat \ {0}

VARIABLES
  account,    \* items array of the account cart
  guest       \* items array of the guest cart

arrays == <<account, guest>>

Entries == [line : Lines, quantity : 1 .. MaxQuantity]

ArrayInit == account = << >> /\ guest = << >>

-----------------------------------------------------------------------------

Has(array, l) == \E i \in DOMAIN array : array[i].line = l

\* findIndex on the itemKey: the first entry of the line.
IndexOf(array, l) ==
  CHOOSE i \in DOMAIN array :
    array[i].line = l /\ \A j \in 1 .. i - 1 : array[j].line # l

QuantityOf(array, l) == IF Has(array, l) THEN array[IndexOf(array, l)].quantity ELSE 0

SetQuantity(array, l, q) == [array EXCEPT ![IndexOf(array, l)].quantity = q]

\* addItem throws when the array is full; the guard is its other outcome.
Add(array, l, q) ==
  IF Has(array, l)
  THEN SetQuantity(array, l, QuantityOf(array, l) + q)
  ELSE Append(array, [line |-> l, quantity |-> q])

CanPush(array, l) == Has(array, l) \/ Len(array) < MaxCartItems

\* Mutant: the quantities of a shared line are added up.
MergeAddsUp(array, entry) ==
  IF Has(array, entry.line)
  THEN SetQuantity(array, entry.line, QuantityOf(array, entry.line) + entry.quantity)
  ELSE IF Len(array) >= MaxCartItems THEN array ELSE Append(array, entry)

\* One round of the loop of mergeItems.
MergeEntry(array, entry) ==
  IF Has(array, entry.line)
  THEN SetQuantity(array, entry.line, entry.quantity)
  ELSE IF Len(array) >= MaxCartItems THEN array ELSE Append(array, entry)

Merge(array, incoming) == FoldLeft(MergeEntry, array, incoming)

-----------------------------------------------------------------------------

\* What one call may make of an items array.
Edits(array) ==
  {Add(array, l, q) : l \in {k \in Lines : CanPush(array, k)}, q \in 1 .. MaxQuantity}
    \cup {RemoveAt(array, IndexOf(array, l)) : l \in {k \in Lines : Has(array, k)}}
    \cup {SetQuantity(array, l, q) : l \in {k \in Lines : Has(array, k)}, q \in 1 .. MaxQuantity}
    \cup {<< >>}

EditAccount ==
  /\ account' \in Edits(account) \cap Seq(Entries)
  /\ UNCHANGED guest

EditGuest ==
  /\ guest' \in Edits(guest) \cap Seq(Entries)
  /\ UNCHANGED account

MergeGuest ==
  /\ account' = Merge(account, guest)
  /\ UNCHANGED guest

ArrayNext == EditAccount \/ EditGuest \/ MergeGuest

ArraySpec == ArrayInit /\ [][ArrayNext]_arrays

-----------------------------------------------------------------------------
\* Properties.

View(array) == [l \in Lines |-> QuantityOf(array, l)]

\* No itemKey ever has two entries, so find and findIndex, which stop at the
\* first one, see the whole line (CartEntity.itemKey), and the lengths the array
\* checks compare with MAX_CART_ITEMS are the lines CartItems counts; the loop
\* of mergeItems reaches one of the outcomes of CartItems!MergeItems, whichever
\* the order of the arrays.
LoopMergesAsSpecified ==
  /\ \A array \in {account, guest} : Cardinality(InCart(View(array))) = Len(array)
  /\ View(Merge(account, guest)) \in MergeItems(View(account), View(guest))

=============================================================================
