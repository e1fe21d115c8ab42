----------------------------- MODULE MCCounter -----------------------------
EXTENDS Counter
MCGoods == {"chicken", "eggs"}
MCPieces == {"eggs"}
MCCatalogue == [g \in MCGoods |-> IF g = "eggs" THEN "pieces" ELSE "weighed"]
MCPrices == {18100, 19000}
MCTyped == {124, 18100}
MCKinds == {"walk-in", "retailer"}
=============================================================================
