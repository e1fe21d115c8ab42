----------------------------- MODULE MCShopStock -----------------------------
(* Instances of ShopStock for TLC. *)
EXTENDS ShopStock

CONSTANTS h1, h2

Scenario(first, second, adjusts, backdates, row, until) ==
  [serves |-> [h \in Handlers |-> IF h = h1 THEN first ELSE second],
   adjusts |-> adjusts, backdates |-> backdates, policyRow |-> row, until |-> until]

Adjust(stock, used, moved) == [stock |-> stock, used |-> used, moved |-> moved]

\* Requests that lock the stock before they check it, in both lock orders.
Lockers ==
  {Scenario({"add", "use"}, {"transfer", "retailer"}, {}, {}, TRUE, 2),
   Scenario({"set", "use"}, {"transfer"},
            {Adjust(1, None, None), Adjust(1, 2, None), Adjust(None, None, 0)}, {}, TRUE, 2)}

\* Reads that meet at the first look at a night, and the adds beside them.
Readers == {Scenario({"loss", "add"}, {"loss"}, {}, {}, TRUE, 4)}

\* The policy's row is created by whoever misses it.
FirstRequests == {Scenario({"add"}, {"add", "retailer"}, {}, {}, FALSE, 2)}

\* A shop that bills while its stock grows.
Billers == {Scenario({"bill"}, {"add"}, {}, {0, 3}, TRUE, 2)}

MCScenarios == Lockers \cup Readers \cup FirstRequests \cup Billers

\* What the theorems assume of the scenarios.
ASSUME ScenariosAreSafe == SafeScenarios /\ OneGoal
=============================================================================
