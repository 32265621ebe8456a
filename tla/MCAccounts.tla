------------------------------ MODULE MCAccounts ------------------------------
(***************************************************************************)
(* An instance of Accounts for TLC: one account and everything that can be *)
(* done to it.                                                             *)
(***************************************************************************)
EXTENDS Accounts, TLC

CONSTANTS ann, old, new, weak, t1

Call(kind, p, t) == [kind |-> kind, user |-> ann, password |-> p, token |-> t]

SmallCalls ==
  {Call("register", old, t1), Call("login", old, t1), Call("login", new, t1),
   Call("forgot", old, t1), Call("reset", weak, t1)} \cup
  {Call(kind, new, t) : kind \in {"reset", "verify"}, t \in Tokens}

SmallSymmetry == Permutations(Requests)

=============================================================================
