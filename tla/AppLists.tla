------------------------------ MODULE AppLists ------------------------------
(***************************************************************************)
(* How each screen of the app loads what it lists (XLoads, XMore), and     *)
(* what it lets the user do meanwhile (XFilters, XList): a record for      *)
(* ListScreen.  Screens that load alike have the same record.              *)
(***************************************************************************)
EXTENDS ListScreen, TLC

-----------------------------------------------------------------------------
(* The administrator's screens.                                            *)

\* The retailers: search and filter are part of the request; once the header's button was
\* used, every new request is made a second time as a refresh.
DirectoryLoads == [PlainList EXCEPT !.echo = "refreshed", !.back = "loading", !.forgets = "success",
  !.fails = TRUE]

DirectoryList == [DirectoryLoads EXCEPT !.hides = "always",
  !.locks = [ask |-> {}, pull |-> {"refreshing"}, button |-> {"refreshing"}, retry |-> {}]]

\* Those the stock is bought from; searched on the device.
PurchasersLoads == PlainList

PurchasersList == [PurchasersLoads EXCEPT !.locks = [pull |-> {"refreshing"}]]

\* The loss of weight of each item.
WeightLossLoads == PlainList

WeightLossList == [WeightLossLoads EXCEPT !.hides = "always", !.locks = [pull |-> {"refreshing"}]]

\* The sales of one retailer, with his balance.
RetailerBillsLoads == [PlainList EXCEPT !.forgets = "success", !.fails = TRUE]

RetailerBillsList == [RetailerBillsLoads EXCEPT !.hides = "always",
  !.locks = [pull |-> {"refreshing"}, button |-> {}, retry |-> {}]]

\* Where stock is transferred to; searched on the device.
TransferShopsLoads == PlainList

TransferShopsList == [TransferShopsLoads EXCEPT !.locks = [pull |-> {"refreshing"}]]

\* The transfers to a shop, asked for at every letter typed and every filter.
TransferHistoryLoads == [PlainList EXCEPT !.clears = "load", !.ends = {"loading"}]

TransferHistoryList == [TransferHistoryLoads EXCEPT !.hides = "always", !.locks = [ask |-> {}]]

\* The sales of all retailers; filtered on the device.
RetailersSalesLoads == [PlainList EXCEPT !.back = "loading", !.forgets = "success", !.fails = TRUE]

RetailersSalesList == [RetailersSalesLoads EXCEPT !.hides = "always",
  !.locks = [pull |-> {"refreshing"}, button |-> {"refreshing"}, retry |-> {}]]

\* A retailer's own prices in a branch on a day.
RetailerPricesLoads == [PlainList EXCEPT !.echo = "refreshed", !.forgets = "success"]

RetailerPricesList == [RetailerPricesLoads EXCEPT !.hides = "always",
  !.locks = [ask |-> {}, pull |-> {"refreshing"}, button |-> {"refreshing"}]]

\* The retailers of the branch chosen above the prices.
PricedRetailersLoads == [PlainList EXCEPT !.ends = {"loading"}, !.forgets = "success", !.refresh = "loading"]

PricedRetailersList == [PricedRetailersLoads EXCEPT !.locks = [ask |-> {}, button |-> {}]]

\* A retailer's balance and branches.
RetailerDetailLoads == [PlainList EXCEPT !.refresh = "loading", !.back = "loading", !.forgets = "success",
  !.fails = TRUE]

RetailerDetailList == [RetailerDetailLoads EXCEPT !.hides = "always",
  !.locks = [button |-> {"loading"}, retry |-> {}]]

\* The stock bought from a retailer.
RetailerPurchasesLoads == [PlainList EXCEPT !.refresh = "loading", !.back = "loading", !.forgets = "success",
  !.fails = TRUE]

RetailerPurchasesList == [RetailerPurchasesLoads EXCEPT !.hides = "always",
  !.locks = [button |-> {"loading"}, retry |-> {}]]

\* The branches a retailer may be billed in.
RetailerBranchesLoads == [PlainList EXCEPT !.back = "loading", !.forgets = "success", !.fails = TRUE]

RetailerBranchesList == [RetailerBranchesLoads EXCEPT !.hides = "always", !.locks = [retry |-> {}]]

\* One sale.
RetailerSaleLoads == [PlainList EXCEPT !.back = "loading", !.forgets = "success", !.fails = TRUE]

RetailerSaleList == [RetailerSaleLoads EXCEPT !.hides = "always", !.locks = [retry |-> {}]]

\* The retailers in the order they are listed in.
RetailersOrderLoads == [PlainList EXCEPT !.refresh = "loading"]

RetailersOrderList == [RetailersOrderLoads EXCEPT !.hides = "empty", !.locks = [button |-> {"loading"}]]

\* The items of a branch in the order they are listed in.
ShopItemsOrderLoads == [PlainList EXCEPT !.refresh = "loading"]

ShopItemsOrderList == [ShopItemsOrderLoads EXCEPT !.hides = "always", !.locks = [button |-> {"loading"}]]

\* The expenses of a branch in the order they are listed in.
ShopExpensesOrderLoads == [PlainList EXCEPT !.refresh = "loading"]

ShopExpensesOrderList == [ShopExpensesOrderLoads EXCEPT !.hides = "empty", !.locks = [button |-> {"loading"}]]

\* The categories of billing items.
ItemCategoriesLoads == [PlainList EXCEPT !.forgets = "success"]

ItemCategoriesList == [ItemCategoriesLoads EXCEPT !.hides = "always",
  !.locks = [pull |-> {"refreshing"}, button |-> {"refreshing"}, retry |-> {}]]

\* What money is spent on.
ExpenseItemsLoads == [PlainList EXCEPT !.back = "loading"]

ExpenseItemsMore == [ExpenseItemsLoads EXCEPT !.waits = {"loading", "more"}]

ExpenseItemsSearch == [ExpenseItemsMore EXCEPT !.locks = [ask |-> {}]]

ExpenseItemsList == [ExpenseItemsSearch EXCEPT !.hides = "empty",
  !.locks = @ @@ [pull |-> {"refreshing"}, button |-> {"refreshing"}, end |-> {}]]

\* What a branch may spend money on, and the candidates for it.
BranchExpensesLoads == PlainList

BranchExpensesMore == [BranchExpensesLoads EXCEPT !.waits = {"loading", "more"}]

BranchExpensesSearch == [BranchExpensesMore EXCEPT !.locks = [ask |-> {}]]

BranchExpensesList == [BranchExpensesSearch EXCEPT !.hides = "empty",
  !.locks = @ @@ [pull |-> {"refreshing"}, button |-> {"refreshing"}, end |-> {}]]

\* The money spent, by branch and period.
ExpenseHistoryLoads == PlainList

ExpenseHistoryMore == [ExpenseHistoryLoads EXCEPT !.waits = {"loading", "more"}]

ExpenseHistoryFilters == [ExpenseHistoryMore EXCEPT !.locks = [ask |-> {}]]

ExpenseHistoryList == [ExpenseHistoryFilters EXCEPT !.hides = "empty",
  !.locks = @ @@ [pull |-> {"refreshing"}, button |-> {"refreshing"}, end |-> {}]]

\* Sales and bills of the chosen branch and period, with the first page of bills.
DashboardLoads == [PlainList EXCEPT !.ask = "first", !.latest = TRUE, !.endsLatest = TRUE, !.lands = {"more"},
  !.forgets = "success"]

DashboardMore == [DashboardLoads EXCEPT !.waits = {"more", "page"}]

DashboardList == [DashboardMore EXCEPT !.locks = [ask |-> {}, pull |-> {"refreshing"}, button |-> {"refreshing"}, end |-> {}]]

\* Categories and branches, with every return to the screen.
InventoryBaseLoads == [PlainList EXCEPT !.back = "loading"]

InventoryBaseList == [InventoryBaseLoads EXCEPT !.locks = [pull |-> {"refreshing"}, button |-> {"refreshing"}]]

\* The stock items; a refresh loads categories and branches first.  A search whose rows are
\* listed is not made again.
InventoryItemsLoads == [PlainList EXCEPT !.refresh = "loading", !.back = "loading", !.skips = TRUE, !.latest = TRUE,
  !.endsLatest = TRUE, !.ends = {"loading", "more"}, !.waits = {"loading", "more"},
  !.counts = TRUE, !.checks = "latest"]

InventoryItemsList == [InventoryItemsLoads EXCEPT !.locks = [ask |-> {}, pull |-> {}, end |-> {}]]

\* The stock of a branch.
BranchStockLoads == [PlainList EXCEPT !.latest = TRUE, !.endsLatest = TRUE, !.clears = "query", !.stops = {"more"},
  !.refresh = "loading", !.ends = {"loading", "more"}]

BranchStockMore == [BranchStockLoads EXCEPT !.waits = {"loading", "more"}, !.checks = "listed"]

BranchStockList == [BranchStockMore EXCEPT !.locks = [ask |-> {}, pull |-> {}, end |-> {}]]

\* The movements in a branch and period: dropped while others are loading, asked for again when
\* those were not the ones wanted.
BranchMovementsLoads == [PlainList EXCEPT !.single = TRUE, !.clears = "query", !.ends = {"loading"}]

BranchMovementsList == [BranchMovementsLoads EXCEPT !.locks = [ask |-> {}]]

\* The pages of billing items in the catalogue: one request at a time, a new one aborts the one
\* before.
ItemRowsLoads == [PlainList EXCEPT !.latest = TRUE, !.endsLatest = TRUE,
  !.stops = {"loading", "refreshing", "more"}]

ItemRowsMore == [ItemRowsLoads EXCEPT !.counts = TRUE, !.checks = "latest"]

ItemRowsSearch == [ItemRowsMore EXCEPT !.locks = [ask |-> {}]]

ItemRowsList == [ItemRowsSearch EXCEPT !.hides = "empty",
  !.locks = @ @@ [ask |-> {}, pull |-> {"refreshing"}, button |-> {"refreshing"}, end |-> {}]]

\* The items of a branch: switching the branch empties the page.
BranchItemRows == [ItemRowsMore EXCEPT !.clears = "query"]

BranchItemsList == [BranchItemRows EXCEPT !.hides = "empty",
  !.locks = [ask |-> {}, pull |-> {"refreshing"}, button |-> {"refreshing"}, end |-> {}]]

\* The items a branch may import.
ImportRows == BranchItemRows

ImportList == [ImportRows EXCEPT !.hides = "empty",
  !.locks = [ask |-> {}, pull |-> {"refreshing"}, button |-> {"refreshing"}, end |-> {}]]

\* The counts above them, asked for after the rows; a failure is not shown.
ItemCountsLoads == [PlainList EXCEPT !.latest = TRUE, !.endsLatest = TRUE, !.clears = "query", !.tells = {},
  !.refresh = "loading"]

ItemCountsList == [ItemCountsLoads EXCEPT !.locks = [ask |-> {}, button |-> {}]]

\* The categories a branch's items may be filtered by.
BranchCategoriesLoads == [PlainList EXCEPT !.back = "loading", !.latest = TRUE, !.endsLatest = TRUE]

BranchCategoriesList == BranchCategoriesLoads

\* The categories an item may be given; aborted when its editor is left.
EditorCategoriesLoads == [PlainList EXCEPT !.back = "loading", !.refresh = "loading", !.latest = TRUE,
  !.endsLatest = TRUE, !.forgets = "success"]

EditorCategoriesList == [EditorCategoriesLoads EXCEPT !.locks = [button |-> {"loading"}, retry |-> {}]]

\* The branches of the items' workspaces.
ItemShopsLoads == [PlainList EXCEPT !.refresh = "loading", !.latest = TRUE, !.endsLatest = TRUE,
  !.forgets = "success", !.locks = [button |-> {"loading"}]]

\* The prices of a branch on a day of the past.
PriceHistoryLoads == [PlainList EXCEPT !.refresh = "loading", !.clears = "load", !.ends = {"loading"}]

PriceHistoryDays == [PriceHistoryLoads EXCEPT !.locks = [ask |-> {}]]

PriceHistoryList == [PriceHistoryDays EXCEPT !.hides = "always",
  !.locks = @ @@ [button |-> {"loading"}, pull |-> {"loading"}]]

\* The items whose stock use is assumed.
AssumptionsLoads == [PlainList EXCEPT !.latest = TRUE, !.endsLatest = TRUE,
  !.stops = {"loading", "refreshing", "more"}]

AssumptionsList == [AssumptionsLoads EXCEPT !.hides = "always",
  !.locks = [ask |-> {}, pull |-> {"refreshing"}, button |-> {"refreshing"}]]

\* The report shown before it is shared.
OverallReportLoads == PlainList

OverallReportList == [OverallReportLoads EXCEPT !.hides = "empty",
  !.locks = [pull |-> {"refreshing"}, button |-> {"refreshing", "loading"}]]

\* The shared images an item may use.
ImageTemplatesLoads == [PlainList EXCEPT !.tells = {}, !.ends = {"loading"}]

ImageTemplatesList == [ImageTemplatesLoads EXCEPT !.hides = "always"]

\* The bill shown over the dashboard.
BillPreviewLoads == [PlainList EXCEPT !.clears = "load", !.ends = {"loading"}]

BillPreviewList == [BillPreviewLoads EXCEPT !.hides = "always", !.locks = [ask |-> {}]]

\* The retailers a report may be about: those of its branches, branch by branch.
ReportRetailersLoads == [PlainList EXCEPT !.latest = TRUE, !.endsLatest = TRUE, !.forgets = "never"]

ReportRetailersList == [ReportRetailersLoads EXCEPT !.hides = "always", !.locks = [ask |-> {}]]

\* The purchasers a report may be about.
ReportPurchasersLoads == [PlainList EXCEPT !.latest = TRUE, !.endsLatest = TRUE, !.forgets = "never"]

ReportPurchasersList == [ReportPurchasersLoads EXCEPT !.locks = [ask |-> {}]]

-----------------------------------------------------------------------------
(* The shop's screens.                                                     *)

\* The bills of the shop by filter and page number.  A return is silent; it is also set off by
\* every new request once bills are listed.
ShopBillsLoads == [PlainList EXCEPT !.back = "silent", !.echo = "loaded", !.latest = TRUE, !.endsLatest = TRUE,
  !.tells = {"ask"}]

ShopBillsFilters == [ShopBillsLoads EXCEPT !.locks = [ask |-> {}]]

ShopBillsList == [ShopBillsFilters EXCEPT !.hides = "screen",
  !.locks = @ @@ [turn |-> {"loading"}, pull |-> {"refreshing"}, button |-> {"refreshing"}]]

\* The shop's stock.
ShopInventoryLoads == [PlainList EXCEPT !.back = "loading", !.latest = TRUE, !.endsLatest = TRUE]

ShopInventoryMore == [ShopInventoryLoads EXCEPT !.waits = Spinners]

ShopInventoryList == [ShopInventoryMore EXCEPT !.hides = "empty",
  !.locks = [pull |-> {"refreshing"}, button |-> {"refreshing"}, end |-> {}]]

\* The shop's movements, usages, transfers and purchases of a period.
ShopMovementsLoads == [PlainList EXCEPT !.refresh = "loading", !.latest = TRUE, !.endsLatest = TRUE,
  !.clears = "query", !.ends = {"loading"}]

ShopMovementsList == [ShopMovementsLoads EXCEPT !.hides = "never", !.locks = [ask |-> {}, pull |-> {}]]

\* What the shop may spend money on.
ShopExpensesLoads == [PlainList EXCEPT !.back = "loading"]

ShopExpensesMore == [ShopExpensesLoads EXCEPT !.waits = {"loading", "more"}]

ShopExpensesList == [ShopExpensesMore EXCEPT !.hides = "screen", !.locks = [pull |-> {"refreshing"}, end |-> {}]]

\* The shop's spendings of a period.
ShopSpendingsLoads == [PlainList EXCEPT !.ends = {"loading"}]

ShopSpendingsMore == [ShopSpendingsLoads EXCEPT !.waits = {"loading", "more"}]

ShopSpendingsList == [ShopSpendingsMore EXCEPT !.hides = "never", !.locks = [ask |-> {}, end |-> {}]]

\* The sales to retailers; filtered on the device.
ShopSalesLoads == [PlainList EXCEPT !.back = "loading"]

ShopSalesList == [ShopSalesLoads EXCEPT !.hides = "screen",
  !.locks = [pull |-> {"refreshing"}, button |-> {"loading", "refreshing"}]]

\* The retailers a filter may name: when they cannot be loaded, those of the sales.
RetailerChoicesLoads == [PlainList EXCEPT !.empties = TRUE, !.tells = {}, !.ends = {"loading"}]

\* The credit of the retailer stock is bought from; a failure is not shown.
PurchaseWalletLoads == [PlainList EXCEPT !.latest = TRUE, !.endsLatest = TRUE, !.empties = TRUE, !.tells = {}]

PurchaseWalletList == [PurchaseWalletLoads EXCEPT !.locks = [ask |-> {}]]

\* The retailers it may be bought from, with every opening.
PurchaseRetailersLoads == [PlainList EXCEPT !.back = "loading", !.latest = TRUE, !.endsLatest = TRUE]

\* An item's stock, fetched anew when its sheet opens; without a spinner, and on failure its row of the list is shown.
StockItemLoads == [PlainList EXCEPT !.ask = "silent", !.back = "silent", !.latest = TRUE, !.endsLatest = TRUE,
  !.clears = "query", !.tells = {}, !.locks = [ask |-> {}]]

\* What a retailer may buy, at his prices.
RetailerCatalogLoads == [PlainList EXCEPT !.refresh = "loading", !.back = "loading"]

RetailerCatalogList == [RetailerCatalogLoads EXCEPT !.hides = "always", !.locks = [button |-> {"loading"}]]

\* The retailers of the shop, with the sales they have to pay.
ShopRetailersLoads == [PlainList EXCEPT !.refresh = "loading", !.back = "loading"]

ShopRetailersList == [ShopRetailersLoads EXCEPT !.hides = "always", !.locks = [button |-> {"loading"}]]

\* The shop's retailers in their order.
RetailersArrangedLoads == PlainList

RetailersArrangedList == [RetailersArrangedLoads EXCEPT !.hides = "empty"]

\* One bill.
BillDetailLoads == [PlainList EXCEPT !.refresh = "loading", !.back = "loading"]

BillDetailList == [BillDetailLoads EXCEPT !.hides = "always", !.locks = [button |-> {"loading"}]]

\* One sale, with the wallet of its retailer.
SaleDetailLoads == [PlainList EXCEPT !.refresh = "loading", !.back = "loading", !.locks = [button |-> {"loading"}]]

\* Items and prices of the till; a return is silent, and rows once shown stay.
BootstrapLoads == [PlainList EXCEPT !.ask = "first", !.refresh = "loading", !.back = "silent", !.latest = TRUE,
  !.endsLatest = TRUE, !.ends = {"loading"}]

BootstrapList == [BootstrapLoads EXCEPT !.hides = "screen",
  !.locks = [pull |-> {"loading"}, button |-> {"loading"}]]

-----------------------------------------------------------------------------
(* The super administrator's screens.                                      *)

\* The audit log.
AuditLoads == [PlainList EXCEPT !.dedups = FALSE]

AuditMore == [AuditLoads EXCEPT !.waits = {"more"}]

AuditList == [AuditMore EXCEPT !.hides = "empty",
  !.locks = [pull |-> {"refreshing"}, button |-> {"refreshing", "more"}, end |-> {}]]

\* The administrators of the organisations.
TenantAdminsLoads == [PlainList EXCEPT !.dedups = FALSE]

TenantAdminsMore == [TenantAdminsLoads EXCEPT !.waits = {"loading", "more"}]

TenantAdminsList == [TenantAdminsMore EXCEPT !.hides = "empty",
  !.locks = [ask |-> {}, pull |-> {"refreshing"}, button |-> {"refreshing", "more"}, end |-> {}]]

\* The organisations an administrator may belong to; a failure is not shown.
AdminOrgsLoads == [PlainList EXCEPT !.ask = "silent", !.tells = {}, !.ends = {"refreshing"},
  !.locks = [pull |-> {"refreshing"}, button |-> {"refreshing", "more"}]]

\* The roles an administrator may be given, in the sheet opened for him.
AdminRolesLoads == [PlainList EXCEPT !.empties = TRUE, !.tells = {}, !.ends = {"loading"}]

AdminRolesList == [AdminRolesLoads EXCEPT !.hides = "always", !.locks = [ask |-> {}]]

\* The organisations.
OrgsLoads == [PlainList EXCEPT !.back = "loading"]

OrgsList == [OrgsLoads EXCEPT !.hides = "empty",
  !.locks = [pull |-> {"refreshing"}, button |-> {"refreshing"}]]

\* The branches of an organisation; its button loads the organisation first.
OrgBranchesLoads == PlainList

OrgBranchesList == [OrgBranchesLoads EXCEPT !.locks = [button |-> {"refreshing"}]]

\* The bills of the organisations, by organisation, branch and period.
BillingLoads == PlainList

BillingList == [BillingLoads EXCEPT !.hides = "always",
  !.locks = [ask |-> {}, pull |-> {"refreshing"}, button |-> {"refreshing"}]]

\* The branches its filter may name; without a spinner and without a message.
BillingBranchesLoads == [PlainList EXCEPT !.ask = "silent", !.empties = TRUE, !.tells = {}]

BillingBranchesList == [BillingBranchesLoads EXCEPT !.locks = [ask |-> {}]]

\* The images shared by all organisations.
TemplatesLoads == [PlainList EXCEPT !.back = "loading"]

TemplatesList == [TemplatesLoads EXCEPT !.hides = "empty",
  !.locks = [pull |-> {"refreshing"}, button |-> {"refreshing"}]]

\* Counts and the latest organisations.
OverviewLoads == [PlainList EXCEPT !.back = "loading"]

OverviewList == [OverviewLoads EXCEPT !.hides = "always",
  !.locks = [pull |-> {"refreshing"}, button |-> {"refreshing"}]]

-----------------------------------------------------------------------------
Lists == {
  DirectoryList, PurchasersList, WeightLossList, RetailerBillsList, TransferShopsList,
  TransferHistoryList, RetailersSalesList, RetailerPricesList, PricedRetailersList,
  RetailerDetailList, RetailerPurchasesList, RetailerBranchesList, RetailerSaleList,
  RetailersOrderList, ShopItemsOrderList, ShopExpensesOrderList, ItemCategoriesList,
  ExpenseItemsList, BranchExpensesList, ExpenseHistoryList, DashboardList, InventoryBaseList,
  InventoryItemsList, BranchStockList, BranchMovementsList, ItemRowsList, BranchItemsList,
  ImportList, ItemCountsList, BranchCategoriesList, EditorCategoriesList, ItemShopsLoads,
  PriceHistoryList, AssumptionsList, OverallReportList, ImageTemplatesList, BillPreviewList,
  ReportRetailersList, ReportPurchasersList, ShopBillsList, ShopInventoryList,
  ShopMovementsList, ShopExpensesList, ShopSpendingsList, ShopSalesList, RetailerChoicesLoads,
  PurchaseWalletList, PurchaseRetailersLoads, StockItemLoads, RetailerCatalogList,
  ShopRetailersList, RetailersArrangedList, BillDetailList, SaleDetailLoads, BootstrapList,
  AuditList, TenantAdminsList, AdminOrgsLoads, AdminRolesList, OrgsList, OrgBranchesList,
  BillingList, BillingBranchesList, TemplatesList, OverviewList}

(***************************************************************************)
(* A list shows what it was asked for.  Screens whose loads and pages are  *)
(* not ordered fail to; each set below is one way to fail.                 *)
(***************************************************************************)

\* Any answer of a first page is listed, the one of an older query as well if it comes last.
LastAnswerWins == {DirectoryList, TransferHistoryList, RetailerPricesList, PricedRetailersList,
  ExpenseItemsList, BranchExpensesList, ExpenseHistoryList, PriceHistoryList, ShopSpendingsList,
  TenantAdminsList, BillingList, BillingBranchesList,
  BillPreviewList, AdminRolesList}
\* A page of the period before is appended.
AppendsOldPages == {DashboardList}
\* After a search that failed, the next page is asked for with the new search and the old cursor.
FollowsOldCursor == {ItemRowsList}
\* A return to the search whose rows are listed leaves the load of another one running.
LeavesLoadRunning == {InventoryItemsList}
\* The load that counts is the silent one, and its failure is not shown.
FailsSilently == {ShopBillsList}
\* A page asked for before a refresh is appended to the refreshed first page.
AppendsAfterRefresh == {ExpenseItemsList, BranchExpensesList, ExpenseHistoryList, DashboardList,
  BranchStockList, ShopInventoryList, ShopExpensesList, ShopSpendingsList, AuditList, TenantAdminsList}
\* The next page aborts a first page that is on its way, and leaves its spinner on.
AbortsFirstPage == {ItemRowsList, BranchItemsList, ImportList}

\* Once every load has been answered and no failure is shown, what is listed, and the cursor it
\* was found with, belong to the query the user sees above it (search, branch, period, page).
ListsWhatIsAsked ==
  (calls = {} /\ ~failed /\ screen \notin LastAnswerWins \cup AppendsOldPages \cup FollowsOldCursor
                                        \cup LeavesLoadRunning \cup FailsSilently)
  => \A i \in DOMAIN rows : rows[i].query = query /\ rows[i].origin = query

\* Once every load has been answered and no failure is shown, the pages listed follow each other:
\* none is missing between two that are shown and none is shown twice.
PagesInOrder ==
  (calls = {} /\ ~failed /\ screen \notin AppendsAfterRefresh)
  => \A i \in DOMAIN rows : rows[i].page = i

\* Whatever is loaded, aborted, overtaken or fails, and in any order: the spinners stop.
SpinnersStop == (turning # {} /\ screen \notin AbortsFirstPage) ~> turning = {}

-----------------------------------------------------------------------------
(* What a record must have for its list to be in order: the screens not    *)
(* named above do.                                                         *)

Fixed(s) == {"ask", "turn"} \cap DOMAIN s.locks = {}
Pageless(s) == "end" \notin DOMAIN s.locks

\* A list whose query changes lists the answer to the latest one: one load at a time, whose failure
\* is shown; or only the latest load counts, and what was listed before is taken away when the query
\* changes, or with a failure, or the failure is shown.
OrdersQueries(s) ==
  \/ Fixed(s)
  \/ s.single /\ ~s.latest /\ Pageless(s) /\ s.forgets = "start" /\ {"ask", "refresh", "back"} \subseteq s.tells
  \/ /\ s.latest /\ ~s.skips /\ ~s.single
     /\ \/ s.clears \in {"query", "load"} /\ (Pageless(s) \/ s.checks \in {"latest", "listed"})
        \/ s.clears = "never" /\ Pageless(s) /\ (s.empties \/ {"ask", "refresh", "back"} \subseteq s.tells)

\* A list in pages: the next page counts as a load, and only the latest load counts.
OrdersPages(s) ==
  \/ Pageless(s)
  \/ s.latest /\ s.counts /\ s.checks = "latest" /\ ~s.single /\ (s.skips => s.clears = "never")

\* The spinners its first pages turn on, with the gestures it offers.
FirstSpinners(s) == Spinners \cap
  ({IF s.ask = "first" THEN "loading" ELSE s.ask, s.back}
     \cup IF {"pull", "button"} \cap DOMAIN s.locks # {} \/ s.echo = "refreshed" THEN {s.refresh} ELSE {})

\* The end of a load turns off what it turned on; where only the latest load does, it also does so
\* for the page it overtook, and no page overtakes a first page.
EndsSpinners(s) ==
  /\ FirstSpinners(s) \subseteq s.ends \ {"more"}
  /\ s.endsLatest /\ s.counts /\ ~Pageless(s) =>
       FirstSpinners(s) \subseteq s.waits /\ "more" \in s.stops \cup s.ends

\* Every list not named above has such a record; one that loads one at a time asks for a query once.
ScreensAreOrdered ==
  \A s \in Screens :
    /\ s.single => Pageless(s) /\ ~s.skips /\ s.echo = "never"
    /\ s \notin LastAnswerWins \cup AppendsOldPages \cup FollowsOldCursor \cup LeavesLoadRunning \cup FailsSilently
         => OrdersQueries(s)
    /\ s \notin AppendsAfterRefresh => OrdersPages(s)
    /\ s \notin AbortsFirstPage => EndsSpinners(s)

=============================================================================
