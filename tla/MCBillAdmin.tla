----------------------------- MODULE MCBillAdmin -----------------------------
(* Instance of the administration in Billing for TLC; no cart is checked out. *)
EXTENDS Billing

CONSTANTS h1, h2, i1, i2

Edit(first, second, cash, upi) ==
  [lines |-> <<[item |-> i1, total |-> first], [item |-> i2, total |-> second]>>,
   cash |-> cash, upi |-> upi]

MCOpening == Edit(1, 1, 2, 0)

\* Paid otherwise, a dearer line, an overpaid and a pending one, a line short, an item twice.
MCEdits == {Edit(1, 1, 1, 1), Edit(2, 1, 3, 0), Edit(2, 1, 2, 2), Edit(1, 1, 1, 0),
            [lines |-> <<[item |-> i1, total |-> 2]>>, cash |-> 2, upi |-> 0],
            [lines |-> Edit(1, 1, 0, 0).lines \o <<[item |-> i1, total |-> 2]>>, cash |-> 4, upi |-> 0]}

\* Each handler may serve administrators and devices.
Everyone == {[h \in Handlers |-> {"edit", "cancel", "report", "reprint"}]}

\* Nothing is for sale.
NoDraw == <<>>
OneMonth == [time \in 0..MaxTime |-> "month"]

MCSpec == BillingInit /\ [][Administering]_billingVars
=============================================================================
