------------------------------ MODULE AppForms ------------------------------
(***************************************************************************)
(* How each editor of the app saves (XSave) and what it lets the user do   *)
(* meanwhile (XForm): a record for FormScreen.  Editors that behave alike  *)
(* have the same record.                                                   *)
(***************************************************************************)
EXTENDS FormScreen

-----------------------------------------------------------------------------
(* The administrator's editors.                                            *)

\* A purchaser; the editor cannot be reopened on another record, but closed and opened anew.
PurchaserCreateSave == Plain

PurchaserCreateForm == PurchaserCreateSave

PurchaserEditSave == Plain

PurchaserEditForm == PurchaserEditSave

\* An item's loss of weight, edited in its row: the row that is saved is locked, the others are not.
WeightLossRowSave == [Plain EXCEPT !.flag = "last", !.then = {"patch"}]

WeightLossRowForm == [WeightLossRowSave EXCEPT !.switches = TRUE, !.closes = FALSE]

\* The cancellation of a sale, from the retailer's bills and from all sales.
BillCancelSave == [Plain EXCEPT !.presses = TRUE, !.again = TRUE]

RetailerSaleCancelSave == [Plain EXCEPT !.presses = TRUE, !.again = TRUE]

RetailerSaleCancelForm == RetailerSaleCancelSave

\* Where stock is transferred to: created, edited, deleted.
TransferCreateSave == Plain

TransferCreateForm == TransferCreateSave

TransferEditSave == Plain

TransferEditForm == TransferEditSave

TransferDeleteSave == Plain

TransferDeleteForm == TransferDeleteSave

\* A retailer's opening balance, a payment out of the wallet, a bill, a sale: Cancel waits for
\* the save, the cross and the back button do not; opening turns the flag off.
OutstandingBalanceSave == [Plain EXCEPT !.forgets = TRUE, !.then = {"patch"}]

OutstandingBalanceForm == OutstandingBalanceSave

WalletPayoutSave == [Plain EXCEPT !.forgets = TRUE, !.then = {"patch"}]

WalletPayoutForm == WalletPayoutSave

ShopBillEditSave == [Plain EXCEPT !.forgets = TRUE, !.then = {"aside"},
  !.fails = {"stays", "aside"}]

ShopBillEditForm == ShopBillEditSave

RetailerSaleEditSave == [Plain EXCEPT !.forgets = TRUE, !.then = {"patch"}]

RetailerSaleEditForm == RetailerSaleEditSave

\* The settlement of all sales of a retailer.
BulkSettleSave == [Plain EXCEPT !.forgets = TRUE, !.late = TRUE]

BulkSettleForm == BulkSettleSave

\* How far back a branch may date its bills.
BackdatePolicySave == [Plain EXCEPT !.presses = TRUE, !.then = {"patch"}]

BackdatePolicyForm == BackdatePolicySave

\* A retailer's price of an item, saved from its row.
RetailerPriceRowSave == [Plain EXCEPT !.presses = TRUE, !.again = TRUE, !.flag = "last",
  !.then = {"patch"}]

RetailerPriceRowForm == RetailerPriceRowSave

\* All prices that were changed, reviewed and saved.
RetailerPricesAllSave == Plain

RetailerPricesAllForm == [RetailerPricesAllSave EXCEPT !.closes = FALSE]

\* The branches a retailer is billed in.
BranchAllocationSave == [Plain EXCEPT !.fresh = TRUE, !.then = {"aside"}]

BranchAllocationForm == BranchAllocationSave

\* A retailer; the end of a save leaves whatever screen is shown by then.
RetailerEditorSave == [Plain EXCEPT !.fresh = TRUE, !.then = {"aside"}]

RetailerEditorForm == RetailerEditorSave

RetailerDeleteSave == [Plain EXCEPT !.fresh = TRUE, !.then = {"aside"}]

\* The payment of a sale.
RetailerSalePaymentSave == [Plain EXCEPT !.ends = "own", !.then = {"patch"}, !.fresh = TRUE]

RetailerSalePaymentForm == RetailerSalePaymentSave

\* The order of the retailers, saved whenever one is dropped; the administrator's and the shop's.
RetailersOrderDragSave == [Plain EXCEPT !.presses = TRUE, !.again = TRUE, !.ahead = TRUE,
  !.then = {"nothing"}, !.fails = {"reload"}]

RetailersOrderDragForm == RetailersOrderDragSave

ShopRetailersOrderDragSave == [Plain EXCEPT !.presses = TRUE, !.again = TRUE, !.ahead = TRUE,
  !.then = {"nothing"}, !.fails = {"reload"}]

ShopRetailersOrderDragForm == ShopRetailersOrderDragSave

\* The order of a branch's items and expenses, saved as a whole.
ItemsOrderSave == [Plain EXCEPT !.then = {"nothing"}, !.fresh = TRUE]

ItemsOrderForm == [ItemsOrderSave EXCEPT !.ahead = TRUE]

ExpensesOrderSave == [Plain EXCEPT !.then = {"nothing"}, !.fresh = TRUE]

ExpensesOrderForm == [ExpensesOrderSave EXCEPT !.ahead = TRUE]

\* The categories of billing items.
CategoryCreateSave == [Plain EXCEPT !.then = {"patch"}]

CategoryCreateForm == [CategoryCreateSave EXCEPT !.again = TRUE]

CategoryRenameSave == [Plain EXCEPT !.flag = "last", !.then = {"patch"}]

CategoryRenameForm == [CategoryRenameSave EXCEPT !.again = TRUE, !.switches = TRUE,
  !.closes = FALSE]

CategoryDeleteSave == [Plain EXCEPT !.presses = TRUE, !.flag = "last", !.then = {"patch"}]

\* What money is spent on, with an image that is uploaded afterwards.
ExpenseItemEditorSave == [Plain EXCEPT !.calls = 2, !.fresh = TRUE, !.then = {"aside"}]

ExpenseItemEditorForm == ExpenseItemEditorSave

ExpenseItemDeleteSave == [Plain EXCEPT !.fresh = TRUE, !.then = {"aside"}]

\* Money spent, corrected.
ExpenseHistoryEditSave == Plain

ExpenseHistoryEditForm == [ExpenseHistoryEditSave EXCEPT !.closes = FALSE]

\* An expense deleted, imported, switched on and off in a branch, removed from it.
ExpenseItemRowSave == [Plain EXCEPT !.presses = TRUE, !.again = TRUE]

ExpenseImportSave == [Plain EXCEPT !.presses = TRUE]

ExpenseImportForm == ExpenseImportSave

ExpenseToggleSave == [Plain EXCEPT !.presses = TRUE, !.flag = "last", !.then = {"patch"}]

ExpenseToggleForm == ExpenseToggleSave

ExpenseRemoveSave == [Plain EXCEPT !.presses = TRUE, !.flag = "last"]

\* The categories of stock items.
StockCategoryCreateSave == Plain

StockCategoryCreateForm == StockCategoryCreateSave

StockCategoryRenameSave == Plain

StockCategoryRenameForm == [StockCategoryRenameSave EXCEPT !.again = TRUE, !.switches = TRUE]

\* Deletions, behind a question and nothing else.
StockCategoryDeleteSave == [Plain EXCEPT !.presses = TRUE, !.again = TRUE]

StockItemDeleteSave == [Plain EXCEPT !.presses = TRUE, !.again = TRUE]

\* An item given to a branch, switched on and off there.
StockAllocateSave == [Plain EXCEPT !.presses = TRUE, !.then = {"patch"}]

StockToggleSave == [Plain EXCEPT !.presses = TRUE, !.then = {"patch"}]

StockToggleForm == StockToggleSave

\* A quantity of a branch's stock, edited in its cell: the cell is closed when the save starts.
StockValueSave == [Plain EXCEPT !.presses = TRUE, !.again = TRUE, !.then = {"patch"}]

StockValueForm == StockValueSave

\* The rate an item is bought at, edited in its row.
PurchaseRateSave == [Plain EXCEPT !.flag = "last", !.then = {"patch"}]

PurchaseRateForm == [PurchaseRateSave EXCEPT !.switches = TRUE]

\* Billing items deleted and imported.
ItemDeleteSave == [Plain EXCEPT !.then = {"patch"}]

ItemDeleteForm == [ItemDeleteSave EXCEPT !.closes = FALSE]

ItemImportSave == [Plain EXCEPT !.presses = TRUE, !.flag = "each", !.then = {"patch", "aside"}]

\* The stock an item is assumed to use: each row saves for itself.
AssumptionSave == [Plain EXCEPT !.presses = TRUE, !.flag = "last", !.then = {"aside"}]

\* A stock item, with an image that is uploaded afterwards.
StockItemEditorSave == [Plain EXCEPT !.calls = 2, !.fresh = TRUE, !.then = {"aside"}]

StockItemEditorForm == StockItemEditorSave

StockItemEditorDeleteSave == [Plain EXCEPT !.fresh = TRUE, !.then = {"aside"}]

\* The branches of the organisation.
BranchCreateSave == [Plain EXCEPT !.late = TRUE]

BranchCreateForm == BranchCreateSave

BranchEditSave == [Plain EXCEPT !.then = {"patch"}]

BranchEditForm == BranchEditSave

BranchDeleteSave == [Plain EXCEPT !.late = TRUE]

BranchDeleteForm == BranchDeleteSave

BranchToggleSave == [Plain EXCEPT !.presses = TRUE, !.flag = "last", !.then = {"patch"}]

BranchToggleForm == BranchToggleSave

\* A bill cancelled on the dashboard, an item taken off a branch.
DashboardBillCancelSave == [Plain EXCEPT !.presses = TRUE, !.again = TRUE, !.fails = {"stays", "aside"}]

ItemDeallocateSave == [Plain EXCEPT !.presses = TRUE, !.again = TRUE]

-----------------------------------------------------------------------------
(* The shop's editors.                                                     *)

\* Money spent in the shop.
ShopExpenseSave == Plain

ShopExpenseForm == [ShopExpenseSave EXCEPT !.closes = FALSE]

\* Stock used, moved or purchased.
ShopMovementSave == [Plain EXCEPT !.then = {"patch", "list", "aside"},
  !.fails = {"stays", "aside"}]

ShopMovementForm == ShopMovementSave

\* The payment of a sale in the shop.
ShopSalePaymentSave == [Plain EXCEPT !.presses = TRUE, !.then = {"patch"}]

\* The retailer stock used, and the stock bought from a retailer.
RetailerStockSave == [Plain EXCEPT !.forgets = TRUE, !.then = {"list", "aside"},
  !.fails = {"stays", "row"}]

RetailerStockForm == RetailerStockSave

RetailerPurchaseSave == [Plain EXCEPT !.forgets = TRUE, !.then = {"aside"}]

RetailerPurchaseForm == RetailerPurchaseSave

-----------------------------------------------------------------------------
(* The super administrator's editors.                                      *)

\* The administrators of the organisations.
TenantAdminCreateSave == [Plain EXCEPT !.again = TRUE, !.late = TRUE]

TenantAdminCreateForm == TenantAdminCreateSave

TenantAdminManageSave == [Plain EXCEPT !.forgets = TRUE, !.then = {"row", "reload"}, !.ends = "none"]

TenantAdminManageForm == TenantAdminManageSave

\* The organisations; the keyboard's key creates one without asking whether one is created.
OrgCreateSave == [Plain EXCEPT !.again = TRUE]

OrgToggleSave == [Plain EXCEPT !.presses = TRUE]

OrgEditSave == [Plain EXCEPT !.fresh = TRUE, !.then = {"aside"}]

OrgEditForm == OrgEditSave

\* The images shared by all organisations.
TemplateCreateSave == Plain

TemplateCreateForm == TemplateCreateSave

\* One row is remembered as busy, saved or switched on or off, until any of them ends; the end of
\* an edit, not of a switch, closes whichever row is open.
TemplateEditSave == [Plain EXCEPT !.flag = "last"]

TemplateEditForm == [TemplateEditSave EXCEPT !.closes = FALSE, !.switches = TRUE, !.waits = TRUE]

TemplateRowForm == [TemplateEditForm EXCEPT !.toggles = TRUE]

\* An organisation deleted with all it has.
HardDeleteSave == [Plain EXCEPT !.fresh = TRUE, !.then = {"aside"}]

HardDeleteForm == HardDeleteSave

-----------------------------------------------------------------------------
AppEditors == {
  PurchaserCreateForm, PurchaserEditForm, WeightLossRowForm, BillCancelSave,
  RetailerSaleCancelForm, TransferCreateForm, TransferEditForm, TransferDeleteForm,
  OutstandingBalanceForm, WalletPayoutForm, ShopBillEditForm, RetailerSaleEditForm,
  BulkSettleForm, BackdatePolicyForm, RetailerPriceRowForm, RetailerPricesAllForm,
  BranchAllocationForm, RetailerEditorForm, RetailerDeleteSave, RetailerSalePaymentForm,
  RetailersOrderDragForm, ShopRetailersOrderDragForm, ItemsOrderForm, ExpensesOrderForm,
  CategoryCreateForm, CategoryRenameForm, CategoryDeleteSave, ExpenseItemEditorForm,
  ExpenseItemDeleteSave, ExpenseHistoryEditForm, ExpenseItemRowSave, ExpenseImportForm,
  ExpenseToggleForm, ExpenseRemoveSave, StockCategoryCreateForm, StockCategoryRenameForm,
  StockCategoryDeleteSave, StockItemDeleteSave, StockAllocateSave, StockToggleForm,
  StockValueForm, PurchaseRateForm, ItemDeleteForm, ItemImportSave, AssumptionSave,
  StockItemEditorForm, StockItemEditorDeleteSave, BranchCreateForm, BranchEditForm,
  BranchDeleteForm, BranchToggleForm, DashboardBillCancelSave, ItemDeallocateSave,
  ShopExpenseForm, ShopMovementForm, ShopSalePaymentSave, RetailerStockForm,
  RetailerPurchaseForm, TenantAdminCreateForm, TenantAdminManageForm, OrgCreateSave,
  OrgToggleSave, OrgEditForm, TemplateCreateForm, TemplateRowForm, HardDeleteForm}

\* Once every save has ended, each record is listed with the change the server has of it, unless
\* the user was told that its last save (or the load that follows) failed, or another save that may
\* answer for it ran beside it: saves of other records and editors that were dismissed, reopened
\* or left meanwhile never make the list wrong.
ShowsWhatIsSaved ==
  saves = {} => \A r \in Records \ (told \cup crossed) : shown[r] = server[r]

\* Whatever fails or is opened meanwhile, a form does not stay busy.
SavesEnd == saving # {} ~> saving = {}
=============================================================================
