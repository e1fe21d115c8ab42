----------------------------- MODULE MCCheckout -----------------------------
(* Instances of Checkout for TLC. *)
EXTENDS Checkout, TLC

\* Every cart draws one unit through each category.
MCDraw == [t \in Tokens |-> [c \in Categories |-> 1]]

\* Two instants to a month.
CONSTANTS m1, m2
MCCalendar == [time \in 0..MaxTime |-> IF time < 2 THEN m1 ELSE m2]

Symmetric == Permutations(Handlers) \cup Permutations(Tokens)
=============================================================================
