-------------------------- MODULE MCReceiptPrinting --------------------------
(* Instances of ReceiptPrinting for TLC. *)
EXTENDS ReceiptPrinting

CONSTANTS d1, d2

\* The saved printer is another one at the second press.
MCPreferred == [p \in Presses |-> IF p = 1 THEN {d1} ELSE {d2}]

\* Presses are bounded, and a handler may wait for a screen that is gone.
Quiet == UNCHANGED vars
MCSpec == Init /\ [][Next \/ Quiet]_vars /\ Fairness
=============================================================================
