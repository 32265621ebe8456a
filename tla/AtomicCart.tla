----------------------------- MODULE AtomicCart -----------------------------
(***************************************************************************)
(* What the cart promises its callers: every call takes effect at most     *)
(* once, at a single instant between its start and its answer, on the      *)
(* contents the cart has at that instant.  There are no ids, no versions,  *)
(* no stale copies and no retries here; Cart is shown to implement it.     *)
(***************************************************************************)
EXTENDS CartItems

CONSTANTS
  Users, Guests,  \* cart owners: accounts and anonymous sessions
  Requests,       \* one per HTTP request
  Calls,          \* the calls a request may make, records as Cart has them
  StockLevels,    \* units on hand a line can have
  NoCart          \* the owner has no cart document

Owners == Users \cup Guests

VARIABLES
  contents,   \* contents[o]: what o's cart holds, NoCart when it has none
  stock,      \* stock[l]: units on hand, 0 when product or inventory is gone
  phase,      \* phase[r]: idle, pending, applied or refused
  call,       \* call[r]: the call r makes
  avail,      \* avail[r]: the units on hand r was told of
  held        \* held[r]: the guest contents a merge has read

vars == <<contents, stock, phase, call, avail, held>>

\* May call c act on a cart holding items, when it was told available units?
Permitted(c, items, available) ==
  CASE c.kind = "add" -> items[c.line] + c.qty <= available /\ CanAdd(items, c.line)
    [] c.kind = "set" -> c.qty <= available /\ items[c.line] > 0
    [] c.kind = "remove" -> items[c.line] > 0
    [] OTHER -> TRUE

Init ==
  /\ contents = [o \in Owners |-> NoCart]
  /\ stock \in [Lines -> StockLevels]
  /\ phase = [r \in Requests |-> "idle"]
  /\ call = [r \in Requests |-> CHOOSE c \in Calls : TRUE]
  /\ avail = [r \in Requests |-> 0]
  /\ held = [r \in Requests |-> NoCart]

Start(r) ==
  /\ phase[r] = "idle"
  /\ phase' = [phase EXCEPT ![r] = "pending"]
  /\ \E c \in Calls : call' = [call EXCEPT ![r] = c]
  /\ UNCHANGED <<contents, stock, avail, held>>

\* The stock is looked up; a call that asks for too much ends here.
Consult(r) ==
  /\ phase[r] = "pending"
  /\ avail' = [avail EXCEPT ![r] = stock[call[r].line]]
  /\ phase' \in {phase, [phase EXCEPT ![r] = "refused"]}
  /\ UNCHANGED <<contents, stock, call, held>>

\* A merge looks at the guest cart; an empty one counts as none.
Capture(r) ==
  LET guestItems == contents[call[r].guest] IN
  /\ phase[r] = "pending"
  /\ call[r].kind = "merge"
  /\ held' = [held EXCEPT ![r] = IF guestItems = Empty THEN NoCart ELSE guestItems]
  /\ UNCHANGED <<contents, stock, phase, call, avail>>

\* The instant at which call r acts on its owner's cart.
Apply(r) ==
  LET c == call[r] IN
  /\ phase[r] = "pending"
  /\ contents[c.owner] # NoCart
  /\ Permitted(c, contents[c.owner], avail[r])
  /\ c.kind = "merge" => held[r] # NoCart
  /\ \E new \in Effects(c, contents[c.owner], held[r]) :
       contents' = [contents EXCEPT ![c.owner] = new]
  /\ phase' = [phase EXCEPT ![r] = "applied"]
  /\ UNCHANGED <<stock, call, avail, held>>

\* Nothing to do: clearing a cart that does not exist, or a merge whose
\* guest had nothing, which only makes sure the account has a cart.
ApplyNothing(r) ==
  LET c == call[r] IN
  /\ phase[r] = "pending"
  /\ \/ c.kind = "clear" /\ contents[c.owner] = NoCart /\ contents' = contents
     \/ /\ c.kind = "merge" /\ held[r] = NoCart
        /\ contents' = [contents EXCEPT ![c.owner] = IF @ = NoCart THEN Empty ELSE @]
  /\ phase' = [phase EXCEPT ![r] = "applied"]
  /\ UNCHANGED <<stock, call, avail, held>>

Refuse(r) ==
  /\ phase[r] = "pending"
  /\ phase' = [phase EXCEPT ![r] = "refused"]
  /\ UNCHANGED <<contents, stock, call, avail, held>>

\* A first add or a merge brings an empty cart into being; if r is then
\* turned away, or fails later, the empty cart stays.
Open(r) ==
  /\ phase[r] = "pending"
  /\ contents[call[r].owner] = NoCart
  /\ contents' = [contents EXCEPT ![call[r].owner] = Empty]
  /\ phase' \in {phase, [phase EXCEPT ![r] = "refused"]}
  /\ UNCHANGED <<stock, call, avail, held>>

\* Guest carts expire, and are deleted by the merge that moved them.
Vanish(g) ==
  /\ contents' = [contents EXCEPT ![g] = NoCart]
  /\ UNCHANGED <<stock, phase, call, avail, held>>

StockChanges(l, n) ==
  /\ stock' = [stock EXCEPT ![l] = n]
  /\ UNCHANGED <<contents, phase, call, avail, held>>

Next ==
  \/ \E r \in Requests :
       Start(r) \/ Consult(r) \/ Capture(r) \/ Apply(r) \/ ApplyNothing(r)
         \/ Refuse(r) \/ Open(r)
  \/ \E g \in Guests : Vanish(g)
  \/ \E l \in Lines, n \in StockLevels : StockChanges(l, n)

Spec == Init /\ [][Next]_vars

=============================================================================
