--------------------------- MODULE MCRetailerLedger ---------------------------
(* Instances of RetailerLedger for TLC. *)
EXTENDS RetailerLedger

CONSTANTS h1, h2, b1, b2, p1

MCShopOf == [s \in SaleIds |-> IF s = 2 THEN b2 ELSE b1]

MCOwing == {<<0, 0>>, <<2, 0>>, <<1, 2>>}

\* One handler serves everything, one request after the other ...
Alone == [h \in Handlers |-> IF h = h1 THEN Kinds ELSE {}]
\* ... or several at a time, of the kinds that lock what they read.
Together == [h \in Handlers |-> IF h = h1 THEN {"settle", "cancel", "payout"}
                                            ELSE {"purchase", "payout"}]
MCCrews == {Alone, Together}

ASSUME CrewsAreSafe == SafeCrews
=============================================================================
