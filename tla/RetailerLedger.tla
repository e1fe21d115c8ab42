--------------------------- MODULE RetailerLedger ---------------------------
(***************************************************************************)
(* The account of one wholesale customer (a "retailer"): the opening       *)
(* balance and the wallet credit kept in his row, his sales with what is   *)
(* paid and due on each, the payment rows, the stock purchases that fill   *)
(* the wallet and settle sales, and the payouts                            *)
(* (backend/app/services: retailer_sales.py,                               *)
(* retailer_inventory_purchases.py, retailer_wallet_payouts.py,            *)
(* retailers.py).                                                          *)
(*                                                                         *)
(* A handler is one transaction at READ COMMITTED in one SQLAlchemy        *)
(* session.  What makes the interleavings interesting:                     *)
(*   - some rows are read with a plain SELECT, others FOR UPDATE;          *)
(*   - a session keeps what it read first: SELECT ... FOR UPDATE of a row  *)
(*     it still holds waits for the lock but does not refresh the object;  *)
(*   - a flush writes the columns that differ from what was read;          *)
(*   - inserting a sale takes FOR KEY SHARE on the retailer's row, which   *)
(*     conflicts with FOR UPDATE; sales of one month are saved one at a    *)
(*     time, under the lock of the month's sequence row.                   *)
(* Writes become visible at the commit, so they are made by it.            *)
(***************************************************************************)
EXTENDS Integers, Sequences, FiniteSets, Functions

CONSTANTS
  Handlers,     \* request handlers of the API processes
  Crews,        \* who may serve which kind of request: [Handlers -> SUBSET Kinds]
  Shops,        \* branches
  SaleIds,      \* sales, numbered in the order of their created_at
  ShopOf,       \* branch of each sale
  Purchases,    \* inventory purchases from the retailer
  Amounts,      \* sums of money in a request
  Opening,      \* opening balance the retailer comes with
  Owing,        \* totals of the unpaid sales he may come with, 0 for no sale
  MaxRequests,  \* bound: requests served
  None          \* no handler, no object, no purchase

VARIABLES
  opening,      \* retailers.opening_balance
  credit,       \* retailers.credit_balance, the wallet
  sales,        \* retailer_sales
  payments,     \* retailer_payments; a row is known by its sale and request
  purchases,    \* retailer_inventory_purchases
  paidOut,      \* sum of retailer_wallet_payouts
  openingSet,   \* opening balance as last entered by an admin
  openingPaid,  \* sum settled against it since (audit_logs)
  retailerLock, \* holder of the retailer's row FOR UPDATE
  shareLock,    \* holder of the retailer's row FOR KEY SHARE
  sequenceLock, \* holder of the month's sale sequence row FOR UPDATE
  saleLock,     \* holder of each sale FOR UPDATE
  purchaseLock, \* holder of each purchase FOR UPDATE
  txn,          \* transaction of each handler
  requests,     \* requests served so far
  crew          \* the crew on duty

tables == <<opening, credit, sales, payments, purchases, paidOut, openingSet, openingPaid>>
locks == <<retailerLock, shareLock, sequenceLock, saleLock, purchaseLock>>
vars == <<tables, locks, txn, requests, crew>>

Kinds == {"create", "pay", "edit", "cancel", "settle",
          "payout", "purchase", "void", "balance"}

ASSUME LedgerAssumption ==
  /\ None \notin Handlers \cup Purchases
  /\ Crews \subseteq [Handlers -> SUBSET Kinds]
  /\ SaleIds \subseteq Nat /\ IsFiniteSet(SaleIds) /\ IsFiniteSet(Purchases)
  /\ ShopOf \in [SaleIds -> Shops]
  /\ Amounts \subseteq Nat \ {0}
  /\ Opening \in Nat
  /\ Owing \subseteq [SaleIds -> Nat]
  /\ MaxRequests \in Nat

-----------------------------------------------------------------------------
(* Rows.                                                                   *)

\* _sale_status
SaleStatus(total, paid) ==
  IF paid >= total THEN "settled" ELSE IF paid > 0 THEN "partial" ELSE "open"

Sale(total, paid) == [status |-> SaleStatus(total, paid),
                      total |-> total, paid |-> paid, due |-> total - paid]
NoSale == [status |-> "none", total |-> 0, paid |-> 0, due |-> 0]

\* The sale after `amount` more (or, negative, less) is paid on it.
PaidMore(sale, amount) == Sale(sale.total, sale.paid + amount)

Pending(sale) == sale.status \in {"open", "partial"} /\ sale.due > 0

\* UPDATE writes the columns the session changed and leaves the others.
Update(row, seen, want) ==
  [c \in DOMAIN row |-> IF want[c] # seen[c] THEN want[c] ELSE row[c]]

Payment(s, request, money, wallet, purchase) ==
  [sale |-> s, by |-> request, money |-> money, wallet |-> wallet, purchase |-> purchase]

Total(rows) == SumFunction([p \in rows |-> p.money + p.wallet])
WalletPart(rows) == SumFunction([p \in rows |-> p.wallet])

\* The payment of the sale's invoice is its first.
Invoice(rows) == CHOOSE p \in rows : \A q \in rows : p.by <= q.by

\* What is due on some of the sales.
DueOn(owed, some) == SumFunction([s \in some |-> owed[s].due])

\* Faulty: newest sale first.
Younger(owed, s) == {r \in DOMAIN owed : r > s}

\* Oldest sale first, each takes what it owes of what is left of the pool.
Older(owed, s) == {r \in DOMAIN owed : r < s}
Share(pool, owed, s) ==
  LET left == pool - DueOn(owed, Older(owed, s))
  IN IF left <= 0 THEN 0 ELSE IF left < owed[s].due THEN left ELSE owed[s].due
Owed(owed) == DueOn(owed, DOMAIN owed)

-----------------------------------------------------------------------------
(* Requests and the statements their handlers run, up to the commit.       *)

Sums == {0} \cup Amounts

Requests ==
       [kind : {"create", "edit"}, sale : SaleIds, total : Amounts, money : Sums, wallet : Sums]
  \cup [kind : {"pay"}, sale : SaleIds, money : Sums, wallet : Sums]
  \cup [kind : {"cancel"}, sale : SaleIds]
  \cup [kind : {"settle"}, shops : {Shops} \cup {{b} : b \in Shops}, money : Amounts]
  \cup [kind : {"payout"}, money : Amounts]
  \cup [kind : {"purchase"}, id : Purchases, shops : {{b} : b \in Shops}, total : Amounts]
  \cup [kind : {"void"}, id : Purchases]
  \cup [kind : {"balance"}, total : Sums]

Script == [
  create   |-> <<"sequence", "retailer", "insert", "lock", "commit">>,
  pay      |-> <<"sale", "payments", "retailer", "lock", "commit">>,
  edit     |-> <<"sale", "payments", "retailer", "lock", "commit">>,
  cancel   |-> <<"sale", "payments", "retailer", "commit">>,
  settle   |-> <<"retailer", "lock", "lock_sales", "commit">>,
  payout   |-> <<"lock", "commit">>,
  purchase |-> <<"lock", "lock_sales", "commit">>,
  void     |-> <<"purchase", "retailer", "lock", "payments", "sales", "commit">>,
  balance  |-> <<"retailer", "sales", "commit">> ]

NoRow == [s \in {} |-> NoSale]
Idle == [op |-> None, step |-> 0, by |-> 0, retailer |-> None, sales |-> NoRow, rows |-> {}]
Step(h) == IF txn[h].op = None THEN "idle" ELSE Script[txn[h].op.kind][txn[h].step]

Init ==
  /\ opening = Opening
  /\ \E due \in Owing :
       /\ sales = [s \in SaleIds |-> IF due[s] = 0 THEN NoSale ELSE Sale(due[s], 0)]
       /\ payments = {Payment(s, 0, 0, 0, None) : s \in {s \in SaleIds : due[s] # 0}}
  /\ credit = 0
  /\ purchases = [p \in Purchases |-> [status |-> "none", total |-> 0]]
  /\ paidOut = 0
  /\ openingSet = opening
  /\ openingPaid = 0
  /\ retailerLock = None
  /\ shareLock = None
  /\ sequenceLock = None
  /\ saleLock = [s \in SaleIds |-> None]
  /\ purchaseLock = [p \in Purchases |-> None]
  /\ txn = [h \in Handlers |-> Idle]
  /\ requests = 0
  /\ crew \in Crews

Serve(h, op) ==
  /\ Step(h) = "idle"
  /\ op.kind \in crew[h]
  /\ requests < MaxRequests
  /\ requests' = requests + 1
  /\ txn' = [txn EXCEPT ![h] = [Idle EXCEPT !.op = op, !.step = 1, !.by = requests + 1]]
  /\ UNCHANGED <<tables, locks, crew>>

\* The statement is done; `session` is the transaction with what it loaded.
Advance(h, session) ==
  /\ txn' = [txn EXCEPT ![h] = [session EXCEPT !.step = @ + 1]]
  /\ UNCHANGED <<tables, requests, crew>>

LoadSale(h) ==
  /\ Step(h) = "sale"
  /\ Advance(h, [txn[h] EXCEPT !.sales = [s \in {txn[h].op.sale} |-> sales[s]]])
  /\ UNCHANGED locks

\* The rows of the sale or, for a void, those the purchase settled sales with.
LoadPayments(h) ==
  LET op == txn[h].op
      mine == IF op.kind = "void" THEN {p \in payments : p.purchase = op.id}
                                  ELSE {p \in payments : p.sale = op.sale}
  IN /\ Step(h) = "payments"
     /\ Advance(h, [txn[h] EXCEPT !.rows = mine])
     /\ UNCHANGED locks

TheRetailer == [opening |-> opening, credit |-> credit]

LoadRetailer(h) ==
  /\ Step(h) = "retailer"
  /\ Advance(h, [txn[h] EXCEPT !.retailer = TheRetailer])
  /\ UNCHANGED locks

\* A void reads the sales of its rows, a new balance all unpaid sales.
LoadSales(h) ==
  LET mine == IF txn[h].op.kind = "void" THEN {p.sale : p \in txn[h].rows}
              ELSE {s \in SaleIds : sales[s].status \in {"open", "partial"}}
  IN /\ Step(h) = "sales"
     /\ Advance(h, [txn[h] EXCEPT !.sales = [s \in mine |-> sales[s]]])
     /\ UNCHANGED locks

\* Only a request that moves wallet money locks the retailer's row.
MovesWallet(t) ==
  CASE t.op.kind \in {"create", "pay"} -> t.op.wallet > 0
    [] t.op.kind = "edit" -> t.op.wallet > 0 \/ WalletPart(t.rows) > 0
    [] OTHER -> TRUE

SkipLock(h) ==
  /\ Step(h) = "lock"
  /\ ~ MovesWallet(txn[h])
  /\ Advance(h, txn[h])
  /\ UNCHANGED locks

\* Faulty: the row is read without FOR UPDATE.
ReadRetailerUnlocked(h) ==
  /\ Step(h) = "lock"
  /\ MovesWallet(txn[h])
  /\ Advance(h, [txn[h] EXCEPT !.retailer = IF @ = None THEN TheRetailer ELSE @])
  /\ UNCHANGED locks

\* SELECT ... FOR UPDATE returns the object the session holds, unrefreshed.
LockRetailer(h) ==
  /\ Step(h) = "lock"
  /\ MovesWallet(txn[h])
  /\ retailerLock = None
  /\ shareLock \in {None, h}
  /\ retailerLock' = h
  /\ Advance(h, [txn[h] EXCEPT !.retailer = IF @ = None THEN TheRetailer ELSE @])
  /\ UNCHANGED <<shareLock, sequenceLock, saleLock, purchaseLock>>

\* The unpaid sales of the branches in question, locked and read.
LockSales(h) ==
  LET mine == {s \in SaleIds : Pending(sales[s]) /\ ShopOf[s] \in txn[h].op.shops}
  IN /\ Step(h) = "lock_sales"
     /\ \A s \in mine : saleLock[s] = None
     /\ saleLock' = [s \in SaleIds |-> IF s \in mine THEN h ELSE saleLock[s]]
     /\ Advance(h, [txn[h] EXCEPT !.sales = [s \in mine |-> sales[s]]])
     /\ UNCHANGED <<retailerLock, shareLock, sequenceLock, purchaseLock>>

LockPurchase(h) ==
  /\ Step(h) = "purchase"
  /\ purchaseLock[txn[h].op.id] = None
  /\ purchaseLock' = [purchaseLock EXCEPT ![txn[h].op.id] = h]
  /\ Advance(h, txn[h])
  /\ UNCHANGED <<retailerLock, shareLock, sequenceLock, saleLock>>

\* _sync_printed_sale_sequence
LockSequence(h) ==
  /\ Step(h) = "sequence"
  /\ sequenceLock = None
  /\ sequenceLock' = h
  /\ Advance(h, txn[h])
  /\ UNCHANGED <<retailerLock, shareLock, saleLock, purchaseLock>>

\* The foreign key of the new sale locks the retailer's row FOR KEY SHARE.
InsertSale(h) ==
  /\ Step(h) = "insert"
  /\ retailerLock = None
  /\ shareLock' = h
  /\ Advance(h, txn[h])
  /\ UNCHANGED <<retailerLock, sequenceLock, saleLock, purchaseLock>>

-----------------------------------------------------------------------------
(* The commits.                                                            *)

\* Commit or rollback: the transaction's locks go.
EndRequest(h) ==
  /\ retailerLock' = IF retailerLock = h THEN None ELSE retailerLock
  /\ shareLock' = IF shareLock = h THEN None ELSE shareLock
  /\ sequenceLock' = IF sequenceLock = h THEN None ELSE sequenceLock
  /\ saleLock' = [s \in SaleIds |-> IF saleLock[s] = h THEN None ELSE saleLock[s]]
  /\ purchaseLock' = [p \in Purchases |-> IF purchaseLock[p] = h THEN None ELSE purchaseLock[p]]
  /\ txn' = [txn EXCEPT ![h] = Idle]
  /\ UNCHANGED <<requests, crew>>

\* _debit_retailer_wallet trusts the object in the session.
WalletCovers(t, available) == t.op.wallet > 0 => t.op.wallet <= available

Paid(op) == op.money + op.wallet

\* Faulty: a sale settled out of a purchase may be cancelled and edited.
ModifiableAlways(t) == t.sales[t.op.sale].status \notin {"none", "cancelled"}

\* _assert_sale_admin_modifiable
Modifiable(t) ==
  /\ t.sales[t.op.sale].status \notin {"none", "cancelled"}
  /\ \A p \in t.rows : p.purchase = None

\* The checks read what the session loaded, so they can wait for the commit.
Accepted(t) ==
  LET op == t.op IN
  CASE op.kind = "create" ->
         /\ sales[op.sale].status = "none"
         /\ Paid(op) <= op.total
         /\ WalletCovers(t, t.retailer.credit)
    [] op.kind = "pay" ->
         /\ t.sales[op.sale].status \in {"open", "partial"}
         /\ Paid(op) \in 1..t.sales[op.sale].due
         /\ WalletCovers(t, t.retailer.credit)
    [] op.kind = "edit" ->
         /\ Modifiable(t)
         /\ Paid(op) \in 1..op.total
         /\ WalletCovers(t, t.retailer.credit + WalletPart(t.rows))
    [] op.kind = "cancel" -> Modifiable(t)
    [] op.kind = "settle" -> op.money <= t.retailer.opening + Owed(t.sales)
    [] op.kind = "payout" -> op.money <= t.retailer.credit
    [] op.kind = "purchase" -> purchases[op.id].status = "none"
    [] op.kind = "void" -> purchases[op.id].status = "active"
    [] op.kind = "balance" -> op.total >= Owed(t.sales)

Committing(h, kind) ==
  /\ Step(h) = "commit"
  /\ txn[h].op.kind = kind
  /\ Accepted(txn[h])
  /\ EndRequest(h)

\* UPDATE of a sale's row waits for the holder of its lock.
Writable(h, s) == saleLock[s] \in {None, h}

WriteSale(h, want) ==
  LET s == txn[h].op.sale IN
  /\ Writable(h, s)
  /\ sales' = [sales EXCEPT ![s] = Update(@, txn[h].sales[s], want)]

CommitSale(h) ==
  LET t == txn[h]  op == t.op IN
  /\ Committing(h, "create")
  /\ sales' = [sales EXCEPT ![op.sale] = Sale(op.total, Paid(op))]
  /\ payments' = payments \cup {Payment(op.sale, t.by, op.money, op.wallet, None)}
  /\ credit' = IF op.wallet > 0 THEN t.retailer.credit - op.wallet ELSE credit
  /\ UNCHANGED <<opening, purchases, paidOut, openingSet, openingPaid>>

CommitPayment(h) ==
  LET t == txn[h]  op == t.op IN
  /\ Committing(h, "pay")
  /\ WriteSale(h, PaidMore(t.sales[op.sale], Paid(op)))
  /\ payments' = payments \cup {Payment(op.sale, t.by, op.money, op.wallet, None)}
  /\ credit' = IF op.wallet > 0 THEN t.retailer.credit - op.wallet ELSE credit
  /\ UNCHANGED <<opening, purchases, paidOut, openingSet, openingPaid>>

\* All payments but the invoice's are deleted, the wallet gets back what they
\* took of it, and the invoice's payment becomes the new one.
CommitEdit(h) ==
  LET t == txn[h]  op == t.op
      first == Invoice(t.rows)
      kept == {p \in payments : p.sale = op.sale => \A q \in t.rows : q.by # p.by}
  IN /\ Committing(h, "edit")
     /\ WriteSale(h, Sale(op.total, Paid(op)))
     /\ payments' = kept \cup {Payment(op.sale, first.by, op.money, op.wallet, None)}
     /\ credit' = IF MovesWallet(t) THEN t.retailer.credit + WalletPart(t.rows) - op.wallet
                                    ELSE credit
     /\ UNCHANGED <<opening, purchases, paidOut, openingSet, openingPaid>>

\* A cancelled sale keeps its amounts and its payments.
CommitCancel(h) ==
  LET t == txn[h] IN
  /\ Committing(h, "cancel")
  /\ WriteSale(h, [t.sales[t.op.sale] EXCEPT !.status = "cancelled"])
  /\ UNCHANGED <<opening, credit, payments, purchases, paidOut, openingSet, openingPaid>>

\* What the pool pays on the sales in `owed`, oldest first.
PayOldestFirst(owed, pool) ==
  sales' = [s \in SaleIds |-> IF s \in DOMAIN owed /\ Share(pool, owed, s) > 0
                              THEN PaidMore(owed[s], Share(pool, owed, s)) ELSE sales[s]]
PaidSales(owed, pool) == {s \in DOMAIN owed : Share(pool, owed, s) > 0}

Least(a, b) == IF a < b THEN a ELSE b

\* The opening balance first, then the sales.
CommitSettlement(h) ==
  LET t == txn[h]
      onOpening == Least(t.op.money, t.retailer.opening)
      pool == t.op.money - onOpening
  IN /\ Committing(h, "settle")
     /\ opening' = IF onOpening > 0 THEN t.retailer.opening - onOpening ELSE opening
     /\ openingPaid' = openingPaid + onOpening
     /\ PayOldestFirst(t.sales, pool)
     /\ payments' = payments \cup {Payment(s, t.by, Share(pool, t.sales, s), 0, None) :
                                     s \in PaidSales(t.sales, pool)}
     /\ UNCHANGED <<credit, purchases, paidOut, openingSet>>

CommitPayout(h) ==
  LET t == txn[h] IN
  /\ Committing(h, "payout")
  /\ credit' = t.retailer.credit - t.op.money
  /\ paidOut' = paidOut + t.op.money
  /\ UNCHANGED <<opening, sales, payments, purchases, openingSet, openingPaid>>

\* The purchase fills the wallet, which then settles sales of the branch.
CommitPurchase(h) ==
  LET t == txn[h]
      applied == Least(t.op.total, Owed(t.sales))
  IN /\ Committing(h, "purchase")
     /\ purchases' = [purchases EXCEPT ![t.op.id] = [status |-> "active", total |-> t.op.total]]
     /\ credit' = t.retailer.credit + t.op.total - applied
     /\ PayOldestFirst(t.sales, t.op.total)
     /\ payments' = payments \cup {Payment(s, t.by, 0, Share(t.op.total, t.sales, s), t.op.id) :
                                     s \in PaidSales(t.sales, t.op.total)}
     /\ UNCHANGED <<opening, paidOut, openingSet, openingPaid>>

\* The settlements of the purchase are reversed, then its amount taken back.
CommitVoid(h) ==
  LET t == txn[h]
      undone(s) == PaidMore(t.sales[s], - Total({p \in t.rows : p.sale = s}))
      left == t.retailer.credit + WalletPart(t.rows) - purchases[t.op.id].total
  IN /\ Committing(h, "void")
     /\ \A s \in DOMAIN t.sales : Writable(h, s)
     /\ purchases' = [purchases EXCEPT ![t.op.id].status = "void"]
     /\ sales' = [s \in SaleIds |-> IF s \in DOMAIN t.sales
                                    THEN Update(sales[s], t.sales[s], undone(s)) ELSE sales[s]]
     /\ payments' = payments \ t.rows
     /\ credit' = IF left # t.retailer.credit THEN left ELSE credit
     /\ UNCHANGED <<opening, paidOut, openingSet, openingPaid>>

\* An admin enters the outstanding balance; the opening balance is the rest.
CommitBalance(h) ==
  LET t == txn[h]
      rest == t.op.total - Owed(t.sales)
  IN /\ Committing(h, "balance")
     /\ retailerLock = None
     /\ opening' = IF rest # t.retailer.opening THEN rest ELSE opening
     /\ openingSet' = rest
     /\ openingPaid' = 0
     /\ UNCHANGED <<credit, sales, payments, purchases, paidOut>>

\* Besides the checks above: the price of the day and the sale number for a
\* sale, the age of 24 hours for an edit and a cancel, the stock for a void.
RefuseRequest(h) ==
  /\ Step(h) = "commit"
  /\ Accepted(txn[h]) => txn[h].op.kind \in {"create", "edit", "cancel", "void"}
  /\ EndRequest(h)
  /\ UNCHANGED tables

\* The process dies, the connection drops or PostgreSQL breaks a deadlock.
Crash(h) ==
  /\ Step(h) # "idle"
  /\ EndRequest(h)
  /\ UNCHANGED tables

-----------------------------------------------------------------------------
Statement(h) ==
  \/ LoadSale(h) \/ LoadPayments(h) \/ LoadRetailer(h) \/ LoadSales(h)
  \/ SkipLock(h) \/ LockRetailer(h) \/ LockSales(h) \/ LockPurchase(h)
  \/ LockSequence(h) \/ InsertSale(h)

Commit(h) ==
  \/ CommitSale(h) \/ CommitPayment(h) \/ CommitEdit(h) \/ CommitCancel(h)
  \/ CommitSettlement(h) \/ CommitPayout(h) \/ CommitPurchase(h) \/ CommitVoid(h)
  \/ CommitBalance(h)

\* The bound is reached and every handler is idle.
Quiescent ==
  /\ requests = MaxRequests
  /\ \A h \in Handlers : Step(h) = "idle"
  /\ UNCHANGED vars

Next ==
  \/ \E h \in Handlers, op \in Requests : Serve(h, op)
  \/ \E h \in Handlers : Statement(h) \/ Commit(h) \/ RefuseRequest(h) \/ Crash(h)
  \/ Quiescent

Spec == Init /\ [][Next]_vars

-----------------------------------------------------------------------------
(* What the ledger promises.                                               *)

TypeOK ==
  /\ opening \in Int /\ credit \in Int /\ paidOut \in Nat
  /\ openingSet \in Int /\ openingPaid \in Nat
  /\ \A s \in SaleIds :
       /\ sales[s].status \in {"none", "open", "partial", "settled", "cancelled"}
       /\ sales[s].total \in Nat /\ sales[s].paid \in Nat /\ sales[s].due \in Nat
  /\ \A p \in payments : p.sale \in SaleIds /\ p.money \in Nat /\ p.wallet \in Nat
  /\ \A p \in Purchases : purchases[p].status \in {"none", "active", "void"}
  /\ {retailerLock, shareLock, sequenceLock} \subseteq Handlers \cup {None}
  /\ saleLock \in [SaleIds -> Handlers \cup {None}]
  /\ purchaseLock \in [Purchases -> Handlers \cup {None}]
  /\ \A h \in Handlers : Step(h) # "idle" => txn[h].by \in 1..requests

\* Requests that lock the retailer and the sales before they use what they read of them, and
\* a cancellation, which writes nothing it has read.
Locking == {"settle", "cancel", "payout", "purchase"}

\* Whether nobody is beside the handler that serves ...
Solo(c) == \A g, h \in Handlers : g # h => c[g] = {} \/ c[h] = {}

\* ... or the requests beside one another lock; a settlement reads the opening balance ahead
\* of its lock, so one handler serves these.
Apart(c) ==
  \A g, h \in Handlers : g # h => c[g] \subseteq Locking /\ ~ ("settle" \in c[g] /\ "settle" \in c[h])

\* The crews the ledger is right for.
SafeCrews == \A c \in Crews : Solo(c) \/ Apart(c)

\* What is paid on a sale is the sum of its payment rows and never more than
\* its total; what is due and the status follow from it.
SaleLedger ==
  \A s \in SaleIds :
    LET sale == sales[s] IN
    /\ sale.paid = Total({p \in payments : p.sale = s})
    /\ sale.paid \in 0..sale.total
    /\ sale.due = sale.total - sale.paid
    /\ sale.status \notin {"none", "cancelled"} => sale.status = SaleStatus(sale.total, sale.paid)

Active == {p \in Purchases : purchases[p].status = "active"}

\* The wallet holds what purchases brought in, less the payouts and less what
\* payments took from it: no update of it is lost, no credit is spent twice.
WalletLedger ==
  credit = SumFunction([p \in Active |-> purchases[p].total]) - WalletPart(payments) - paidOut

\* The opening balance is what was entered less what was settled against it.
OpeningLedger == opening = openingSet - openingPaid /\ opening >= 0

\* The three accounts of a retailer agree with the rows that were written: no payment,
\* payout, edit or void that runs beside another one is lost or counts twice.
LedgerInv == TypeOK /\ SaleLedger /\ WalletLedger /\ OpeningLedger

\* A cancelled sale stays cancelled, with its amounts, through later voids of
\* purchases, settlements and new payments.
CancelIsFinal ==
  [][\A s \in SaleIds : sales[s].status = "cancelled" => sales'[s] = sales[s]]_vars

\* "FIFO settle: opening balance first, then oldest open/partial sales": a
\* settlement that pays on a sale leaves no older one of its scope unpaid and
\* no opening balance.
OldestFirst ==
  [][\A h \in Handlers : Commit(h) /\ txn[h].op.kind \in {"settle", "purchase"} =>
       \A s \in DOMAIN txn[h].sales : sales'[s].paid > sales[s].paid =>
         /\ \A r \in DOMAIN txn[h].sales : r < s => sales'[r].status = "settled"
         /\ txn[h].op.kind = "settle" => opening' = 0]_vars
=============================================================================
