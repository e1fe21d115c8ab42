------------------------------ MODULE MCOffice ------------------------------
EXTENDS Office

CONSTANTS hall, annex, mutton

\* Two branches with a retailer each, an item, and a search that does not find it.
MCItems == {"hen"}
MCShops == {"north", "south"}
MCRetailers == {"ravi", "selvi"}
MCShopOf == [r \in MCRetailers |-> IF r = "ravi" THEN "north" ELSE "south"]
MCSearches == {Blank, "h"}
MCFound == [q \in MCSearches |-> IF q = Blank THEN MCItems ELSE {}]

\* Two shops that sell the same item; the day begins with a price in one of them.
MCBoardShops == {hall, annex}
MCBoardItems == {mutton}
MCDayPrices == {1, 2}
MCMaxCalls == [loads |-> 2, saves |-> 2]
MCSells == [s \in MCBoardShops |-> MCBoardItems]

-----------------------------------------------------------------------------
MCInit ==
  /\ OfficeInit
  /\ price = [s \in MCBoardShops |-> [i \in MCBoardItems |-> IF s = hall THEN 1 ELSE NoPrice]]
  \* The screens that are not used are as they begin.
  /\ which # "prices" => selected = hall
  /\ which # "items" => shop = "north"
  /\ branch = [s \in MCShops |-> MCItems]
  /\ priced = [r \in MCRetailers |-> IF r = "ravi" THEN MCItems ELSE {}]
  /\ which # "dates" => picker = Dates!OfficeStockPage /\ filter = Dates!Fresh(3)

MCSpec == MCInit /\ [][Board \/ Allocation \/ Filter]_officeVars /\ WF_officeVars(Answered)
=============================================================================
