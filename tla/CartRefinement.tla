--------------------------- MODULE CartRefinement ---------------------------
(***************************************************************************)
(* Cart implements AtomicCart: forget ids, versions, snapshots, retries    *)
(* and the history; a call has acted once its save has landed.             *)
(***************************************************************************)
EXTENDS Cart

ItemsOf(cart) == IF cart = NoCart THEN NoCart ELSE cart.items

PhaseOf(label) ==
  CASE label = "idle" -> "idle"
    [] label \in {"drop", "ok"} -> "applied"
    [] label \in {"refused", "conflict"} -> "refused"
    [] OTHER -> "pending"

Contents == [o \in Owners |-> ItemsOf(carts[o])]

Phase == [r \in Requests |-> PhaseOf(pc[r])]

Held == [r \in Requests |-> ItemsOf(taken[r])]

Abstract == INSTANCE AtomicCart WITH contents <- Contents, phase <- Phase, held <- Held

\* Each call takes effect at most once, atomically, on the contents its cart
\* has at that moment: no interleaving of read-mutate-save blocks, retries,
\* concurrent inserts, merges and deletions loses or repeats an update.
CallsAreAtomic == Abstract!Spec

=============================================================================
