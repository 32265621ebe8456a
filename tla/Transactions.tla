----------------------------- MODULE Transactions -----------------------------
(***************************************************************************)
(* The database under the product services, from how they use it: a map    *)
(* of keys to documents, and transactions that read a snapshot, see their  *)
(* own writes, and are refused a key that another transaction has written  *)
(* or has committed since the snapshot.  Reads without a session see what  *)
(* is committed.  A unique index is a key per value, held by the document  *)
(* that has the value.                                                     *)
(***************************************************************************)
EXTENDS Naturals, FiniteSets

CONSTANTS
  Requests,     \* requests under way, each with a session of its own
  InitialStore  \* the documents that are there at first

VARIABLES
  store,   \* committed documents: a function of the keys that are there
  open,    \* requests in a transaction
  view,    \* what each transaction sees
  wrote,   \* the keys each transaction has written
  stale    \* the keys others have committed since its snapshot

txns == <<store, open, view, wrote, stale>>

EmptyStore == [k \in {} |-> k]

TransactionsInit ==
  /\ store = InitialStore
  /\ open = {}
  /\ view = [r \in Requests |-> EmptyStore]
  /\ wrote = [r \in Requests |-> {}]
  /\ stale = [r \in Requests |-> {}]

\* base with the documents of changed put in under keys, or taken out where
\* changed has none.
Overlaid(base, keys, changed) ==
  [k \in (DOMAIN base \ keys) \cup (DOMAIN changed \cap keys) |->
     IF k \in keys THEN changed[k] ELSE base[k]]

\* What a request reads: the first command of a transaction takes the snapshot.
Seen(r) == IF r \in open THEN view[r] ELSE store

Read(r) ==
  /\ open' = open \cup {r}
  /\ view' = [view EXCEPT ![r] = Seen(r)]
  /\ UNCHANGED <<store, wrote, stale>>

\* No other transaction stands in the way of a write to keys.
Free(r, keys) ==
  \A k \in keys : /\ k \notin stale[r]
                  /\ \A q \in Requests \ {r} : k \notin wrote[q]

Write(r, keys, changed) ==
  /\ Free(r, keys)
  /\ open' = open \cup {r}
  /\ view' = [view EXCEPT ![r] = Overlaid(Seen(r), keys, changed)]
  /\ wrote' = [wrote EXCEPT ![r] = @ \cup keys]
  /\ UNCHANGED <<store, stale>>

Close(r) ==
  /\ open' = open \ {r}
  /\ view' = [view EXCEPT ![r] = EmptyStore]
  /\ wrote' = [wrote EXCEPT ![r] = {}]

Abort(r) ==
  /\ Close(r)
  /\ stale' = [stale EXCEPT ![r] = {}]
  /\ UNCHANGED store

Commit(r) ==
  /\ Close(r)
  /\ store' = Overlaid(store, wrote[r], view[r])
  /\ stale' = [q \in Requests |-> IF q \in open \ {r} THEN stale[q] \cup wrote[r] ELSE {}]

-----------------------------------------------------------------------------
\* What snapshot isolation comes to.

\* No key is written by two transactions, or by one that has missed a commit.
WritersExclude ==
  \A r \in Requests :
    /\ wrote[r] \cap stale[r] = {}
    /\ r \notin open => wrote[r] = {}
    /\ \A q \in Requests \ {r} : wrote[r] \cap wrote[q] = {}

\* What a transaction sees of a key that is not stale is what is committed.
ViewsAreFresh ==
  \A r \in open : \A k \in (DOMAIN store \cup DOMAIN view[r]) \ (stale[r] \cup wrote[r]) :
    k \in DOMAIN store \cap DOMAIN view[r] /\ store[k] = view[r][k]

=============================================================================
