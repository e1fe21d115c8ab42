------------------------------- MODULE Billing -------------------------------
(***************************************************************************)
(* Both halves of services/billing.py, each by itself: how carts become    *)
(* bills (Checkout), and what is done to one bill afterwards (BillAdmin).  *)
(***************************************************************************)
EXTENDS Checkout

CONSTANTS Crews, Items, Edits, Opening, AdminWindow, MaxRequests   \* of the administration

VARIABLES
  age, issued,   \* BillAdmin's now and bill
  lines, payment, receipt, audit, txn, requests, reports, crew, flaws

Bills == INSTANCE BillAdmin WITH Window <- AdminWindow, now <- age, bill <- issued

adminVars == <<age, issued, lines, payment, receipt, audit, txn, requests, reports, crew, flaws>>
billingVars == <<vars, adminVars>>

ASSUME BillingAssumption == Bills!BillAdminAssumption /\ Bills!OpeningSettled

-----------------------------------------------------------------------------
CheckingOut == Next /\ UNCHANGED adminVars

Administering == Bills!Next /\ UNCHANGED vars

BillingInit == Init /\ Bills!Init

BillingSpec == BillingInit /\ [][CheckingOut \/ Administering]_billingVars

-----------------------------------------------------------------------------
\* A bill, its lines, its payment and its receipt agree, whichever edit, cancellation or
\* report of a device is committed last, up to what is written over it unseen (BillAdmin).
BillInv == Bills!BillInv

\* A cancelled bill stays so, and the last edit of the audit log is what the bill says unless two
\* edits crossed (BillAdmin).
AuditTellsLast == Bills!AuditTellsLast
=============================================================================
