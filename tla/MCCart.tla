------------------------------- MODULE MCCart -------------------------------
(***************************************************************************)
(* Instances of Cart for TLC.                                              *)
(***************************************************************************)
EXTENDS CartRefinement, TLC

CONSTANTS ann, visitor, l1, l2

Call(kind, owner, line, qty) ==
  [kind |-> kind, owner |-> owner, line |-> line, qty |-> qty, guest |-> visitor]

\* One account on two devices: all kinds of calls on one cart.
AccountCalls ==
  {Call("add", ann, l1, 1), Call("add", ann, l2, 1), Call("set", ann, l1, 2),
   Call("remove", ann, l1, 1), Call("clear", ann, l1, 1)}

\* A guest who logs in, perhaps twice, while other requests are under way.
HandoverCalls ==
  {Call("add", visitor, l1, 1), Call("add", visitor, l2, 1), Call("add", ann, l1, 2),
   Call("merge", ann, l1, 1)}

AllCalls == AccountCalls \cup HandoverCalls

RequestSymmetry == Permutations(Requests)

=============================================================================
