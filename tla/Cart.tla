-------------------------------- MODULE Cart --------------------------------
(***************************************************************************)
(* The cart module of the server (modules/cart): requests that run         *)
(* CartService calls concurrently against the carts collection.  Every     *)
(* database round trip is a step of its own, so requests interleave at     *)
(* each await; between two awaits the code is synchronous and belongs to   *)
(* the step before it.  A save filters on the id and the version that were *)
(* read (optimistic concurrency) and is retried MaxSaveAttempts times.     *)
(* Mongo, its unique owner indexes and its TTL index are external.         *)
(***************************************************************************)
EXTENDS CartItems

CONSTANTS
  Users, Guests,      \* cart owners: accounts and anonymous sessions
  Requests,           \* one per HTTP request; each makes one call
  Calls,              \* the calls a request may make
  StockLevels,        \* units on hand a line can have
  MaxSaveAttempts,    \* MAX_SAVE_ATTEMPTS
  NoCart              \* the owner has no cart document

Owners == Users \cup Guests

Kinds == {"add", "set", "remove", "clear", "merge"}

\* line, qty and guest are there in every call and used by the kinds that
\* need them; the owner of a merge is the account the guest cart goes to.
CallRecords ==
  [kind : Kinds, owner : Owners, line : Lines, qty : Nat \ {0}, guest : Guests]

CartDocs == [id : Nat, version : Nat, items : Items]

ASSUME CartAssumption ==
  /\ Calls \subseteq CallRecords /\ Calls # {}
  /\ \A c \in Calls : c.kind = "merge" => c.owner \in Users
  /\ Users \cap Guests = {}
  /\ StockLevels \subseteq Nat /\ StockLevels # {}
  /\ MaxSaveAttempts \in Nat \ {0}
  /\ NoCart \notin CartDocs /\ NoCart \notin Items

VARIABLES
  carts,      \* the collection, by owner: a document or NoCart
  nextId,     \* the id generator: every id below it has been used
  stock,      \* units on hand per line, 0 when product or inventory is gone
  pc,         \* where each request is; see the type invariant
  call,       \* the call each request makes
  avail,      \* availableQuantity, as the request read it
  taken,      \* the guest cart as a merge read it, NoCart when there was none
  snap,       \* the cart entity the request works on, as it was read
  tries,      \* conflicts the request has met
  \* history variables, which no action reads
  writes,     \* writes[o]: how often o's stored cart was changed or deleted
  seen,       \* seen[r]: writes[o] when r last read its cart
  begun,      \* begun[r]: writes[o] when r began
  released    \* ids of the guest carts that expired or whose items landed

vars == <<carts, nextId, stock, pc, call, avail, taken, snap, tries,
          writes, seen, begun, released>>

catalog == <<stock, avail>>
history == <<writes, seen, begun, released>>

Answers == {"ok", "refused", "conflict"}

TypeOK ==
  /\ carts \in [Owners -> CartDocs \cup {NoCart}]
  /\ nextId \in Nat
  /\ stock \in [Lines -> Nat]
  /\ pc \in [Requests -> {"idle", "check", "take", "load", "insert", "refetch", "save", "drop"}
                           \cup Answers]
  /\ call \in [Requests -> Calls]
  /\ avail \in [Requests -> Nat]
  /\ taken \in [Requests -> CartDocs \cup {NoCart}]
  /\ snap \in [Requests -> CartDocs \cup {NoCart}]
  /\ tries \in [Requests -> 0 .. MaxSaveAttempts]
  /\ writes \in [Owners -> Nat]
  /\ seen \in [Requests -> Nat]
  /\ begun \in [Requests -> Nat]
  /\ released \in SUBSET Nat

Init ==
  /\ carts = [o \in Owners |-> NoCart]
  /\ nextId = 0
  /\ stock \in [Lines -> StockLevels]
  /\ pc = [r \in Requests |-> "idle"]
  /\ call = [r \in Requests |-> CHOOSE c \in Calls : TRUE]
  /\ avail = [r \in Requests |-> 0]
  /\ taken = [r \in Requests |-> NoCart]
  /\ snap = [r \in Requests |-> NoCart]
  /\ tries = [r \in Requests |-> 0]
  /\ writes = [o \in Owners |-> 0]
  /\ seen = [r \in Requests |-> 0]
  /\ begun = [r \in Requests |-> 0]
  /\ released = {}

-----------------------------------------------------------------------------
\* Helpers.

Goto(r, label) == pc' = [pc EXCEPT ![r] = label]

\* The step a call starts with.
FirstStep(c) ==
  CASE c.kind \in {"add", "set"} -> "check"
    [] c.kind = "merge" -> "take"
    [] OTHER -> "load"

\* After a merge the session no longer carries the guest id, so no new call
\* is made for that guest; calls that are under way go on.
SessionHolds(c) ==
  \A r \in Requests :
    call[r].kind = "merge" /\ pc[r] \in Answers =>
      c.owner # call[r].guest /\ (c.kind = "merge" => c.guest # call[r].guest)

\* Mutant: only the units asked for, not the line total, have to fit.
AcceptsDelta(c, items, available) ==
  CASE c.kind = "add" -> c.qty <= available /\ CanAdd(items, c.line)
    [] c.kind \in {"set", "remove"} -> items[c.line] > 0
    [] OTHER -> TRUE

\* Does the entity accept the call?  Only addItem looks at the stock again,
\* for the line total that accumulating makes.
Accepts(c, items, available) ==
  CASE c.kind = "add" -> items[c.line] + c.qty <= available /\ CanAdd(items, c.line)
    [] c.kind \in {"set", "remove"} -> items[c.line] > 0
    [] OTHER -> TRUE

\* Guest had no cart, or an empty one: mergeGuestCart only makes sure that
\* the account has a cart.
NothingToMerge(r) == call[r].kind = "merge" /\ taken[r] = NoCart

\* r has read its cart, cart.
Loaded(r, cart) ==
  /\ snap' = [snap EXCEPT ![r] = cart]
  /\ seen' = [seen EXCEPT ![r] = writes[call[r].owner]]
  /\ Goto(r, IF NothingToMerge(r) THEN "ok"
             ELSE IF Accepts(call[r], cart.items, avail[r]) THEN "save"
             ELSE "refused")
  /\ UNCHANGED <<catalog, call, taken, tries, writes, begun, released>>

\* Mutant: the save is not pinned to the document.
MatchesVersion(r) ==
  LET stored == carts[call[r].owner] IN
  stored # NoCart /\ stored.version = snap[r].version

\* The filter of save: the id and the version that were read.
Matches(r) ==
  LET stored == carts[call[r].owner] IN
  stored # NoCart /\ stored.id = snap[r].id /\ stored.version = snap[r].version
\* Mutant: the bound on the attempts is dropped.
RetryForever(r) == "load"

\* Mutant: the block is run again on the copy that has just failed.
RetryWithoutReading(r) == IF tries[r] + 1 < MaxSaveAttempts THEN "save" ELSE "conflict"

\* retryOnConflict runs the block again from its read, or gives up and throws
\* the last conflict.
AfterConflict(r) == IF tries[r] + 1 < MaxSaveAttempts THEN "load" ELSE "conflict"

-----------------------------------------------------------------------------
\* The steps of a request.

Begin(r) ==
  /\ pc[r] = "idle"
  /\ \E c \in Calls :
       /\ SessionHolds(c)
       /\ call' = [call EXCEPT ![r] = c]
       /\ Goto(r, FirstStep(c))
       /\ begun' = [begun EXCEPT ![r] = writes[c.owner]]
  /\ UNCHANGED <<carts, nextId, catalog, taken, snap, tries, writes, seen, released>>

\* checkAvailability and assertAvailable, and for updateQuantity the stock
\* check.  The product and inventory lookups are one read: a product, variant
\* or inventory that is missing refuses the call as stock 0 does.
CheckAvailability(r) ==
  LET c == call[r] IN
  /\ pc[r] = "check"
  /\ avail' = [avail EXCEPT ![r] = stock[c.line]]
  /\ Goto(r, IF stock[c.line] = 0 \/ (c.kind = "set" /\ c.qty > stock[c.line])
             THEN "refused" ELSE "load")
  /\ UNCHANGED <<carts, nextId, stock, call, taken, snap, tries, history>>

\* Mutant: the guest cart is deleted before its items have landed.
TakeAndDelete(r) ==
  LET guestCart == carts[call[r].guest] IN
  /\ pc[r] = "take"
  /\ taken' = [taken EXCEPT ![r] = guestCart]
  /\ carts' = [carts EXCEPT ![call[r].guest] = NoCart]
  /\ Goto(r, "load")
  /\ UNCHANGED <<nextId, catalog, call, snap, tries, history>>

\* mergeGuestCart reads the guest cart.
TakeGuestCart(r) ==
  LET guestCart == carts[call[r].guest] IN
  /\ pc[r] = "take"
  /\ taken' = [taken EXCEPT ![r] = IF guestCart # NoCart /\ guestCart.items # Empty
                                   THEN guestCart ELSE NoCart]
  /\ Goto(r, "load")
  /\ UNCHANGED <<carts, nextId, catalog, call, snap, tries, history>>

\* findOrCreate, for addItem and mergeGuestCart: the upsert finds the cart of
\* the owner, or it has nothing to update and goes on to insert.
FindCart(r) ==
  LET cart == carts[call[r].owner] IN
  /\ pc[r] = "load"
  /\ call[r].kind \in {"add", "merge"}
  /\ IF cart # NoCart
     THEN Loaded(r, cart)
     ELSE /\ Goto(r, "insert")
          /\ UNCHANGED <<catalog, call, taken, snap, tries, history>>
  /\ UNCHANGED <<carts, nextId>>

\* The upsert inserts an empty cart under the id that was generated.
InsertCart(r) ==
  LET newCart == [id |-> nextId, version |-> 0, items |-> Empty] IN
  /\ pc[r] = "insert"
  /\ carts[call[r].owner] = NoCart
  /\ carts' = [carts EXCEPT ![call[r].owner] = newCart]
  /\ nextId' = nextId + 1
  /\ Loaded(r, newCart)

\* Mutant: the insert is tried again instead of reading the cart that won.
InsertAgain(r) ==
  /\ pc[r] = "insert"
  /\ carts[call[r].owner] # NoCart
  /\ UNCHANGED vars

\* A concurrent insert came first: the unique index turns this one away with
\* a duplicate key error.
InsertCollides(r) ==
  /\ pc[r] = "insert"
  /\ carts[call[r].owner] # NoCart
  /\ Goto(r, "refetch")
  /\ UNCHANGED <<carts, nextId, catalog, call, taken, snap, tries, history>>

\* The winning insert is the cart we wanted, unless it is gone already.
Refetch(r) ==
  LET cart == carts[call[r].owner] IN
  /\ pc[r] = "refetch"
  /\ IF cart # NoCart
     THEN Loaded(r, cart)
     ELSE /\ Goto(r, "refused")
          /\ UNCHANGED <<catalog, call, taken, snap, tries, history>>
  /\ UNCHANGED <<carts, nextId>>

\* requireCart, for updateQuantity and removeItem, and the lookup of
\* clearCart, which is satisfied when there is no cart.
RequireCart(r) ==
  LET cart == carts[call[r].owner] IN
  /\ pc[r] = "load"
  /\ call[r].kind \in {"set", "remove", "clear"}
  /\ IF cart # NoCart
     THEN Loaded(r, cart)
     ELSE /\ Goto(r, IF call[r].kind = "clear" THEN "ok" ELSE "refused")
          /\ UNCHANGED <<catalog, call, taken, snap, tries, history>>
  /\ UNCHANGED <<carts, nextId>>

\* save finds the revision that was read and replaces its items.
Save(r) ==
  LET o == call[r].owner
      incoming == IF call[r].kind = "merge" THEN taken[r].items ELSE Empty
  IN
  /\ pc[r] = "save"
  /\ Matches(r)
  /\ \E new \in Effects(call[r], snap[r].items, incoming) :
       carts' = [carts EXCEPT ![o] = [id |-> snap[r].id,
                                      version |-> snap[r].version + 1,
                                      items |-> new]]
  /\ Goto(r, IF call[r].kind = "merge" THEN "drop" ELSE "ok")
  /\ writes' = [writes EXCEPT ![o] = @ + 1]
  /\ released' = IF call[r].kind = "merge" THEN released \cup {taken[r].id} ELSE released
  /\ UNCHANGED <<nextId, catalog, call, taken, snap, tries, seen, begun>>

\* save matches nothing: the cart was changed or deleted meanwhile.
Conflict(r) ==
  /\ pc[r] = "save"
  /\ ~Matches(r)
  /\ tries' = [tries EXCEPT ![r] = @ + 1]
  /\ Goto(r, AfterConflict(r))
  /\ UNCHANGED <<carts, nextId, catalog, call, taken, snap, history>>

\* The merge has landed: delete the guest cart by its id.
DropGuestCart(r) ==
  LET g == call[r].guest IN
  /\ pc[r] = "drop"
  /\ IF carts[g] # NoCart /\ carts[g].id = taken[r].id
     THEN /\ carts' = [carts EXCEPT ![g] = NoCart]
          /\ writes' = [writes EXCEPT ![g] = @ + 1]
     ELSE UNCHANGED <<carts, writes>>
  /\ Goto(r, "ok")
  /\ UNCHANGED <<nextId, catalog, call, taken, snap, tries, seen, begun, released>>

-----------------------------------------------------------------------------
\* The environment.

\* The TTL index sweeps a guest cart.
Expire(g) ==
  /\ carts[g] # NoCart
  /\ carts' = [carts EXCEPT ![g] = NoCart]
  /\ writes' = [writes EXCEPT ![g] = @ + 1]
  /\ released' = released \cup {carts[g].id}
  /\ UNCHANGED <<nextId, catalog, pc, call, taken, snap, tries, seen, begun>>

\* Orders, restocking and the removal of products, seen from the cart.
StockChanges(l, n) ==
  /\ stock' = [stock EXCEPT ![l] = n]
  /\ UNCHANGED <<carts, nextId, pc, call, avail, taken, snap, tries, history>>

\* Every request has its answer: the system may rest.
AllAnswered ==
  /\ \A r \in Requests : pc[r] \in Answers
  /\ UNCHANGED vars

Step(r) ==
  \/ CheckAvailability(r) \/ TakeGuestCart(r)
  \/ FindCart(r) \/ InsertCart(r) \/ InsertCollides(r) \/ Refetch(r) \/ RequireCart(r)
  \/ Save(r) \/ Conflict(r) \/ DropGuestCart(r)

Next ==
  \/ \E r \in Requests : Begin(r) \/ Step(r)
  \/ \E g \in Guests : Expire(g)
  \/ \E l \in Lines, n \in StockLevels : StockChanges(l, n)
  \/ AllAnswered

Spec == Init /\ [][Next]_vars

\* Node runs every promise continuation and Mongo answers every round trip;
\* nothing forces a request to come, stock to change or a cart to expire.
Fairness == \A r \in Requests : WF_vars(Step(r))

FairSpec == Spec /\ Fairness
-----------------------------------------------------------------------------
\* Properties.

\* No stored cart ever holds more than MAX_CART_ITEMS lines, although every
\* check of the limit looks at a copy that may be stale and a merge appends
\* many lines at once (CartEntity.addItem, mergeItems, CartRepository.save).
CartCapacity ==
  \A o \in Owners :
    carts[o] # NoCart => Cardinality(InCart(carts[o].items)) <= MaxCartItems

\* An add or a quantity change that lands leaves its line at no more units
\* than the request was told are available, whatever other requests added to
\* the line since that lookup and however often the save was retried
\* (CartService.addItem: "the line total is what has to fit in stock").
StockHonoured ==
  [][\A r \in Requests :
       /\ pc[r] = "save" /\ pc'[r] = "ok"
       /\ call[r].kind \in {"add", "set"}
       => carts'[call[r].owner].items[call[r].line] <= avail[r]]_vars

\* A cart document disappears only when its TTL swept it or when a merge has
\* saved its items in an account, also when the merge meets conflicts and
\* gives up; account carts never disappear (CartService.mergeGuestCart:
\* "deleting first would lose the guest's items outright").
NoCartVanishes ==
  \A i \in 0 .. nextId - 1 :
    i \in released \/ \E o \in Owners : carts[o] # NoCart /\ carts[o].id = i

\* A request meets no conflict of its own making: each one is paid for by a
\* change another actor made to that owner's cart since the request began, so
\* a 409 needs MAX_SAVE_ATTEMPTS of them (CartService.retryOnConflict
\* "re-reads current state").
ConflictNeedsWriters ==
  \A r \in Requests : tries[r] + begun[r] <= writes[call[r].owner]

\* Every request that came is answered: retries end.
EveryCallAnswered ==
  \A r \in Requests : pc[r] # "idle" ~> pc[r] \in Answers

\* What a merge deletes is what it merged: nothing the guest put in the cart
\* while the merge was under way is lost (guest-session-handover.port.ts:
\* "whatever they accumulated under their guest session should follow them
\* into their account").
GuestItemsFollow ==
  [][\A r \in Requests :
       LET g == call[r].guest IN
       /\ pc[r] = "drop" /\ pc'[r] = "ok"
       /\ carts[g] # NoCart /\ carts[g].id = taken[r].id
       => carts[g].items = taken[r].items]_vars

=============================================================================
