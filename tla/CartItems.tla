----------------------------- MODULE CartItems -----------------------------
(***************************************************************************)
(* The contents of one cart: CartEntity of modules/cart/domain, without    *)
(* its storage.  An items array never holds two entries with one itemKey   *)
(* (productId:variantId), so it is modelled as the quantity of every line, *)
(* 0 for a line that is not in the cart.  The order of the array matters   *)
(* in one place only, which guest lines survive when a merge fills the     *)
(* cart, and there the model takes any choice (CartArray relates the two). *)
(***************************************************************************)
EXTENDS Naturals, FiniteSets

CONSTANTS
  Lines,          \* the itemKeys a cart line can have
  MaxCartItems    \* MAX_CART_ITEMS

ASSUME CartItemsAssumption ==
  /\ IsFiniteSet(Lines)
  /\ MaxCartItems \in Nat \ {0}

Items == [Lines -> Nat]

Empty == [l \in Lines |-> 0]

\* The lines an items array has an entry for.
InCart(items) == {l \in Lines : items[l] > 0}

HasRoom(items) == Cardinality(InCart(items)) < MaxCartItems

\* Mutant: the limit is off by one.
CanAddOneMore(items, l) == items[l] > 0 \/ Cardinality(InCart(items)) <= MaxCartItems

\* addItem accumulates on an existing line and needs room for a new one.
CanAdd(items, l) == items[l] > 0 \/ HasRoom(items)

AddItem(items, l, q) == [items EXCEPT ![l] = @ + q]

RemoveItem(items, l) == [items EXCEPT ![l] = 0]

UpdateQuantity(items, l, q) == [items EXCEPT ![l] = q]

\* The incoming quantity replaces the one of a line both carts have; lines
\* only the incoming cart has are appended while there is room, the rest is
\* dropped without an error.
MergeItems(items, incoming) ==
  LET shared == InCart(incoming) \cap InCart(items)
      fresh  == InCart(incoming) \ InCart(items)
      Fits(new) == Cardinality(InCart(items) \cup new) <= MaxCartItems
      choices == {kept \in SUBSET fresh :
                    Fits(kept) /\ \A l \in fresh \ kept : ~Fits(kept \cup {l})}
  IN  {[l \in Lines |-> IF l \in shared \cup kept THEN incoming[l] ELSE items[l]] :
         kept \in choices}

\* The contents that call c, a record with the fields kind, line and qty,
\* may leave of items; incoming is what a merge brings.
Effects(c, items, incoming) ==
  CASE c.kind = "add"    -> {AddItem(items, c.line, c.qty)}
    [] c.kind = "set"    -> {UpdateQuantity(items, c.line, c.qty)}
    [] c.kind = "remove" -> {RemoveItem(items, c.line)}
    [] c.kind = "clear"  -> {Empty}
    [] c.kind = "merge"  -> MergeItems(items, incoming)

=============================================================================
