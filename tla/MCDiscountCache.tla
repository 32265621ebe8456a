--------------------------- MODULE MCDiscountCache ---------------------------
(***************************************************************************)
(* An instance of DiscountCache for TLC.                                   *)
(***************************************************************************)
EXTENDS DiscountCache, TLC

CONSTANTS tea, cup

\* tea may be redeemed once, cup as often as anybody likes.
SmallLimits == [d \in Discounts |-> IF d = tea THEN 1 ELSE NoLimit]

\* Under way without an end in sight; ending at once; not begun yet.
SmallWindows ==
  {[opens |-> 0, closes |-> Far], [opens |-> 0, closes |-> 0], [opens |-> 1, closes |-> 2]}

=============================================================================
