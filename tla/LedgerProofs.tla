----------------------------- MODULE LedgerProofs -----------------------------
(***************************************************************************)
(* The ledger of a retailer is right (LedgerInv), a cancelled sale stays   *)
(* cancelled (CancelIsFinal) and the oldest debt is paid first             *)
(* (OldestFirst), for any handlers, shops, sales, purchases, amounts and   *)
(* number of requests.                                                     *)
(*                                                                         *)
(* The code does not promise this of every mix of requests: a payment, an  *)
(* edit or a void uses what a plain SELECT read before its lock, so it     *)
(* must run alone.  SafeCrews is what the theorems assume of the crews:    *)
(* one handler serves, or those beside one another serve settlements       *)
(* (one of them), cancellations, payouts and purchases.                    *)
(*                                                                         *)
(* LedgerIndInv adds to the ledger what each transaction knows: from the   *)
(* statement that read a row on, the copy in the session is the row, for   *)
(* it is locked or nobody else writes it (KnowsRetailer, KnowsSales,       *)
(* KnowsRows).  A commit therefore writes what it means to write           *)
(* (UpdateFresh), changes the sums of the payment rows by the rows it adds *)
(* or deletes (AddRow, SplitRows, PoolPays), and disturbs no other's copy  *)
(* (Guarantee, EndKeeps).                                                  *)
(***************************************************************************)
EXTENDS RetailerLedger, SumFacts

(***************************************************************************)
(* Rows.                                                                   *)
(***************************************************************************)
Statuses == {"none", "open", "partial", "settled", "cancelled"}
SaleRow == [status : Statuses, total : Nat, paid : Nat, due : Nat]
PaymentRow == [sale : SaleIds, by : Nat, money : Nat, wallet : Nat, purchase : Purchases \cup {None}]
PurchaseRow == [status : {"none", "active", "void"}, total : Nat]
RetailerRow == [opening : Int, credit : Int]

\* The payment rows of a sale and of a purchase.
OfSale(rows, s) == {p \in rows : p.sale = s}
OfPurchase(rows, id) == {p \in rows : p.purchase = id}

\* What a request carries.
LEMMA OpFields ==
  ASSUME NEW op \in Requests
  PROVE  /\ op.kind \in Kinds
         /\ op.kind \in {"create", "pay", "edit", "cancel"} => op.sale \in SaleIds
         /\ op.kind \in {"create", "edit"} => op.total \in Nat
         /\ op.kind \in {"create", "pay", "edit"} => op.money \in Nat /\ op.wallet \in Nat
         /\ op.kind \in {"settle", "payout"} => op.money \in Nat
         /\ op.kind \in {"purchase", "void"} => op.id \in Purchases
         /\ op.kind \in {"purchase", "balance"} => op.total \in Nat
<1>1. Amounts \subseteq Nat /\ Sums \subseteq Nat
  BY LedgerAssumption DEF Sums
<1> QED BY <1>1 DEF Requests, Kinds

\* A sale that is paid no more than its total.
LEMMA SaleMade ==
  ASSUME NEW total \in Nat, NEW paid \in 0..total
  PROVE  /\ Sale(total, paid) \in SaleRow
         /\ Sale(total, paid).total = total
         /\ Sale(total, paid).paid = paid
         /\ Sale(total, paid).due = total - paid
         /\ Sale(total, paid).status = SaleStatus(total, paid)
         /\ Sale(total, paid).status \in {"open", "partial", "settled"}
BY DEF Sale, SaleStatus, SaleRow, Statuses

\* The write of a row the session knows writes what it wants.
LEMMA UpdateFresh ==
  ASSUME NEW row \in SaleRow, NEW want \in SaleRow
  PROVE  Update(row, row, want) = want
<1>1. DOMAIN row = {"status", "total", "paid", "due"} /\ DOMAIN want = DOMAIN row
  BY DEF SaleRow
<1>2. \A c \in DOMAIN row : (IF want[c] # row[c] THEN want[c] ELSE row[c]) = want[c]
  OBVIOUS
<1>3. Update(row, row, want) = [c \in DOMAIN want |-> want[c]]
  BY <1>1, <1>2, Zenon DEF Update
<1>4. want = [c \in DOMAIN want |-> want[c]]
  BY DEF SaleRow
<1> QED BY <1>3, <1>4, Zenon

\* A cancellation writes the status only, whatever it has read.
LEMMA UpdateCancel ==
  ASSUME NEW row \in SaleRow, NEW seen \in SaleRow, seen.status # "cancelled"
  PROVE  /\ Update(row, seen, [seen EXCEPT !.status = "cancelled"]) \in SaleRow
         /\ Update(row, seen, [seen EXCEPT !.status = "cancelled"]) = [row EXCEPT !.status = "cancelled"]
<1> DEFINE want == [seen EXCEPT !.status = "cancelled"]
           new == [row EXCEPT !.status = "cancelled"]
<1>1. /\ DOMAIN row = {"status", "total", "paid", "due"}
      /\ want.status = "cancelled" /\ want.total = seen.total /\ want.paid = seen.paid
      /\ want.due = seen.due
  BY DEF SaleRow
<1>2. /\ DOMAIN new = DOMAIN row
      /\ new.status = "cancelled" /\ new.total = row.total /\ new.paid = row.paid
      /\ new.due = row.due /\ new \in SaleRow
  BY DEF SaleRow, Statuses
<1> HIDE DEF want, new
<1>3. ASSUME NEW c \in DOMAIN row
      PROVE  (IF want[c] # seen[c] THEN want[c] ELSE row[c]) = new[c]
  BY <1>1, <1>2
<1>4. Update(row, seen, want) = [c \in DOMAIN new |-> new[c]]
  BY <1>2, <1>3, Zenon DEF Update
<1>5. new = [c \in DOMAIN new |-> new[c]]
  BY <1>2 DEF SaleRow
<1>6. Update(row, seen, want) = new
  BY <1>4, <1>5, Zenon
<1> QED BY <1>2, <1>6 DEF want, new

-----------------------------------------------------------------------------
(* Sums of payment rows.                                                   *)

\* Sums of rows are natural numbers.
LEMMA RowSums ==
  ASSUME NEW rows \in SUBSET PaymentRow, IsFiniteSet(rows)
  PROVE  Total(rows) \in Nat /\ WalletPart(rows) \in Nat
<1> DEFINE t == [p \in rows |-> p.money + p.wallet]
           w == [p \in rows |-> p.wallet]
<1>1. \A p \in rows : p.money \in Nat /\ p.wallet \in Nat
  BY DEF PaymentRow
<1>2. (\A x \in DOMAIN t : t[x] \in Nat) /\ (\A x \in DOMAIN w : w[x] \in Nat)
  BY <1>1
<1>3. IsFiniteSet(DOMAIN t) /\ IsFiniteSet(DOMAIN w)
  OBVIOUS
<1> HIDE DEF t, w
<1>4. SumFunction(t) \in Nat /\ SumFunction(w) \in Nat
  BY <1>2, <1>3, SumIsNat
<1> QED BY <1>4 DEF Total, WalletPart, t, w

\* No rows, no sum.
LEMMA NoRowSums == Total({}) = 0 /\ WalletPart({}) = 0
<1> DEFINE t == [p \in {} |-> p.money + p.wallet]
           w == [p \in {} |-> p.wallet]
<1>1. DOMAIN t = {} /\ DOMAIN w = {}
  OBVIOUS
<1> HIDE DEF t, w
<1>2. SumFunction(t) = 0 /\ SumFunction(w) = 0
  BY <1>1, SumOfNothing
<1> QED BY <1>2 DEF Total, WalletPart, t, w

\* One row more.
LEMMA AddRow ==
  ASSUME NEW rows \in SUBSET PaymentRow, IsFiniteSet(rows), NEW row \in PaymentRow, row \notin rows
  PROVE  /\ Total(rows \cup {row}) = Total(rows) + row.money + row.wallet
         /\ WalletPart(rows \cup {row}) = WalletPart(rows) + row.wallet
<1> DEFINE all == rows \cup {row}
           t == [p \in rows |-> p.money + p.wallet]
           w == [p \in rows |-> p.wallet]
           tt == [p \in all |-> p.money + p.wallet]
           ww == [p \in all |-> p.wallet]
<1>1. \A p \in all : p.money \in Nat /\ p.wallet \in Nat
  BY DEF PaymentRow
<1>2. /\ DOMAIN t = rows /\ DOMAIN w = rows
      /\ DOMAIN tt = DOMAIN t \cup {row} /\ DOMAIN ww = DOMAIN w \cup {row}
      /\ \A p \in rows : t[p] \in Int /\ tt[p] = t[p] /\ w[p] \in Int /\ ww[p] = w[p]
      /\ tt[row] = row.money + row.wallet /\ ww[row] = row.wallet
      /\ tt[row] \in Int /\ ww[row] \in Int
      /\ row.money \in Nat /\ row.wallet \in Nat
  BY <1>1
<1> HIDE DEF t, w, tt, ww
<1>3. SumFunction(tt) = SumFunction(t) + tt[row]
  BY <1>2, SumAdd
<1>4. SumFunction(ww) = SumFunction(w) + ww[row]
  BY <1>2, SumAdd
<1>5. SumFunction(t) = Total(rows) /\ SumFunction(w) = WalletPart(rows)
  BY Zenon DEF t, w, Total, WalletPart
<1>6. SumFunction(tt) = Total(all) /\ SumFunction(ww) = WalletPart(all)
  BY Zenon DEF tt, ww, Total, WalletPart
<1>7. Total(rows) \in Nat
  BY RowSums
<1> HIDE DEF all
<1>8. Total(all) = Total(rows) + row.money + row.wallet
  BY <1>2, <1>3, <1>5, <1>6, <1>7
<1>9. WalletPart(all) = WalletPart(rows) + row.wallet
  BY <1>2, <1>4, <1>5, <1>6
<1> QED BY <1>8, <1>9 DEF all

\* Some rows and the others.
LEMMA SplitRows ==
  ASSUME NEW rows \in SUBSET PaymentRow, IsFiniteSet(rows), NEW part \in SUBSET rows
  PROVE  /\ Total(rows) = Total(part) + Total(rows \ part)
         /\ WalletPart(rows) = WalletPart(part) + WalletPart(rows \ part)
<1> DEFINE rest == rows \ part
           t == [p \in rows |-> p.money + p.wallet]
           w == [p \in rows |-> p.wallet]
           t1 == [p \in part |-> p.money + p.wallet]
           w1 == [p \in part |-> p.wallet]
           t2 == [p \in rest |-> p.money + p.wallet]
           w2 == [p \in rest |-> p.wallet]
<1>1. \A p \in rows : p.money \in Nat /\ p.wallet \in Nat
  BY DEF PaymentRow
<1>2. Joins(t, t1, t2)
  BY <1>1 DEF Joins
<1>3. Joins(w, w1, w2)
  BY <1>1 DEF Joins
<1> HIDE DEF t, w, t1, w1, t2, w2
<1>4. SumFunction(t) = SumFunction(t1) + SumFunction(t2)
  BY <1>2, SumJoin
<1>5. SumFunction(w) = SumFunction(w1) + SumFunction(w2)
  BY <1>3, SumJoin
<1> QED BY <1>4, <1>5, Zenon DEF Total, WalletPart, t, w, t1, w1, t2, w2

\* Rows that took nothing of the wallet.
LEMMA NoWallet ==
  ASSUME NEW rows \in SUBSET PaymentRow, IsFiniteSet(rows), \A p \in rows : p.wallet = 0
  PROVE  WalletPart(rows) = 0
<1> DEFINE T == {r \in SUBSET rows : WalletPart(r) # 0}
<1>1. SUFFICES ASSUME T # {} PROVE FALSE
  OBVIOUS
<1>2. PICK U \in T : \A V \in T : V \subseteq U => V = U
  <2>1. T \subseteq SUBSET rows OBVIOUS
  <2> HIDE DEF T
  <2> QED BY <1>1, <2>1, MinimalSubset
<1>3. U # {}
  BY <1>2, NoRowSums
<1>4. PICK p \in U : TRUE
  BY <1>3
<1> DEFINE V == U \ {p}
<1>5. V \in SUBSET rows /\ V \subseteq U /\ V # U /\ V \cup {p} = U /\ p \notin V
  OBVIOUS
<1>6. WalletPart(V) = 0
  BY <1>2, <1>5
<1>7. V \in SUBSET PaymentRow /\ IsFiniteSet(V) /\ p \in PaymentRow /\ p.wallet = 0
  BY <1>5, FS_Subset
<1> HIDE DEF V
<1>8. WalletPart(V \cup {p}) = WalletPart(V) + p.wallet
  BY <1>5, <1>7, AddRow
<1>9. WalletPart(U) = 0
  <2>1. WalletPart(V \cup {p}) = 0
    BY <1>6, <1>7, <1>8
  <2> QED BY <1>5, <2>1, Zenon
<1> QED BY <1>2, <1>9

\* A sale with payments has a first one.
LEMMA InvoiceIn ==
  ASSUME NEW rows \in SUBSET PaymentRow, IsFiniteSet(rows), rows # {}
  PROVE  Invoice(rows) \in rows
<1> DEFINE T == {r \in SUBSET rows : r # {} /\ ~ \E p \in r : \A q \in r : p.by <= q.by}
<1>1. SUFFICES ASSUME T # {} PROVE FALSE
  <2>1. \E p \in rows : \A q \in rows : p.by <= q.by
    BY <1>1
  <2> QED BY <2>1, Zenon DEF Invoice
<1>2. PICK U \in T : \A V \in T : V \subseteq U => V = U
  <2>1. T \subseteq SUBSET rows OBVIOUS
  <2> HIDE DEF T
  <2> QED BY <1>1, <2>1, MinimalSubset
<1>3. PICK p \in U : TRUE
  BY <1>2
<1> DEFINE V == U \ {p}
<1>4. \A q \in U : q.by \in Nat
  BY <1>2 DEF PaymentRow
<1>5. V # {}
  BY <1>2, <1>4
<1>6. V \in SUBSET rows /\ V \subseteq U /\ V # U
  BY <1>2
<1>7. PICK q \in V : \A r \in V : q.by <= r.by
  BY <1>2, <1>5, <1>6
<1>8. CASE q.by <= p.by
  BY <1>2, <1>7, <1>8
<1>9. CASE p.by < q.by
  <2>1. \A r \in U : p.by <= r.by
    BY <1>4, <1>7, <1>9
  <2> QED BY <1>2, <2>1
<1> QED BY <1>4, <1>8, <1>9

-----------------------------------------------------------------------------
(* A pool that pays the oldest sale first.                                 *)

\* The sales a session knows.
Loaded == UNION {[D -> SaleRow] : D \in SUBSET SaleIds}

\* What is due on some sales is a natural number.
LEMMA DueSum ==
  ASSUME NEW owed \in Loaded, NEW U \in SUBSET DOMAIN owed
  PROVE  /\ IsFiniteSet(U)
         /\ DueOn(owed, U) \in Nat
         /\ \A s \in U : owed[s].due \in Nat
<1>1. IsFiniteSet(U) /\ \A s \in U : owed[s].due \in Nat
  <2>1. PICK D \in SUBSET SaleIds : owed \in [D -> SaleRow]
    BY DEF Loaded
  <2>2. U \subseteq SaleIds
    BY <2>1
  <2>3. IsFiniteSet(U)
    BY <2>2, LedgerAssumption, FS_Subset
  <2>4. \A s \in U : owed[s] \in SaleRow
    BY <2>1
  <2> QED BY <2>3, <2>4 DEF SaleRow
<1> DEFINE f == [s \in U |-> owed[s].due]
<1>2. IsFiniteSet(DOMAIN f) /\ \A s \in DOMAIN f : f[s] \in Nat
  BY <1>1
<1> HIDE DEF f
<1>3. SumFunction(f) \in Nat
  BY <1>2, SumIsNat
<1> QED BY <1>1, <1>3 DEF DueOn, f

\* Nothing is due on no sales.
LEMMA NothingDue ==
  ASSUME NEW owed
  PROVE  DueOn(owed, {}) = 0
<1> DEFINE f == [s \in {} |-> owed[s].due]
<1>1. DOMAIN f = {}
  OBVIOUS
<1> HIDE DEF f
<1>2. SumFunction(f) = 0
  BY <1>1, SumOfNothing
<1> QED BY <1>2 DEF DueOn, f

\* One sale more.
LEMMA DueMore ==
  ASSUME NEW owed \in Loaded, NEW U \in SUBSET DOMAIN owed, NEW s \in DOMAIN owed, s \notin U
  PROVE  DueOn(owed, U \cup {s}) = DueOn(owed, U) + owed[s].due
<1> DEFINE f == [r \in U |-> owed[r].due]
           g == [r \in U \cup {s} |-> owed[r].due]
<1>1. U \cup {s} \in SUBSET DOMAIN owed
  OBVIOUS
<1>2. IsFiniteSet(U) /\ \A r \in U \cup {s} : owed[r].due \in Nat
  BY <1>1, DueSum
<1>3. /\ IsFiniteSet(DOMAIN f) /\ s \notin DOMAIN f /\ DOMAIN g = DOMAIN f \cup {s}
      /\ \A r \in DOMAIN f : f[r] \in Int /\ g[r] = f[r]
      /\ g[s] \in Int /\ g[s] = owed[s].due
  BY <1>2
<1> HIDE DEF f, g
<1>4. SumFunction(g) = SumFunction(f) + g[s]
  BY <1>3, SumAdd
<1> QED BY <1>3, <1>4, Zenon DEF DueOn, f, g

\* More sales owe no less.
LEMMA DueGrows ==
  ASSUME NEW owed \in Loaded, NEW V \in SUBSET DOMAIN owed, NEW U \in SUBSET V
  PROVE  DueOn(owed, U) <= DueOn(owed, V)
<1> DEFINE all == [s \in V |-> owed[s].due]
           part == [s \in U |-> owed[s].due]
           rest == [s \in V \ U |-> owed[s].due]
<1>1. IsFiniteSet(V) /\ \A s \in V : owed[s].due \in Nat
  BY DueSum
<1>2. Joins(all, part, rest)
  BY <1>1 DEF Joins
<1> HIDE DEF all, part, rest
<1>3. SumFunction(all) = SumFunction(part) + SumFunction(rest)
  BY <1>2, SumJoin
<1>4. SumFunction(all) = DueOn(owed, V) /\ SumFunction(part) = DueOn(owed, U) /\ SumFunction(rest) = DueOn(owed, V \ U)
  BY Zenon DEF DueOn, all, part, rest
<1>5. DueOn(owed, U) \in Nat /\ DueOn(owed, V \ U) \in Nat
  BY DueSum
<1> QED BY <1>3, <1>4, <1>5

\* A sale's share is no more than it owes.
LEMMA ShareFits ==
  ASSUME NEW owed \in Loaded, NEW pool \in Nat, NEW s \in DOMAIN owed
  PROVE  Share(pool, owed, s) \in 0..owed[s].due
<1>1. Older(owed, s) \in SUBSET DOMAIN owed
  BY DEF Older
<1>2. DueOn(owed, Older(owed, s)) \in Nat /\ owed[s].due \in Nat
  BY <1>1, DueSum
<1> DEFINE left == pool - DueOn(owed, Older(owed, s))
<1>3. left \in Int
  BY <1>2
<1>4. Share(pool, owed, s) = IF left <= 0 THEN 0 ELSE IF left < owed[s].due THEN left ELSE owed[s].due
  BY DEF Share
<1> HIDE DEF left
<1> QED BY <1>2, <1>3, <1>4

\* When the pool reaches a sale, it has paid the older ones in full.
LEMMA ShareOldestFirst ==
  ASSUME NEW owed \in Loaded, NEW pool \in Nat, NEW s \in DOMAIN owed, NEW r \in DOMAIN owed, r < s,
         Share(pool, owed, s) > 0
  PROVE  pool > 0 /\ Share(pool, owed, r) = owed[r].due
<1>1. r \in Nat /\ s \in Nat /\ \A q \in DOMAIN owed : q \in Nat
  BY LedgerAssumption DEF Loaded
<1> DEFINE S == Older(owed, s)
           R == Older(owed, r)
<1>2. R \cup {r} \in SUBSET S /\ r \notin R /\ S \in SUBSET DOMAIN owed /\ R \in SUBSET DOMAIN owed
  BY <1>1 DEF Older
<1>3. DueOn(owed, R \cup {r}) = DueOn(owed, R) + owed[r].due
  <2> HIDE DEF R
  <2> QED BY <1>2, DueMore
<1>4. DueOn(owed, R \cup {r}) <= DueOn(owed, S)
  <2> HIDE DEF R, S
  <2> QED BY <1>2, DueGrows
<1>5. DueOn(owed, R) \in Nat /\ owed[r].due \in Nat /\ DueOn(owed, S) \in Nat /\ owed[s].due \in Nat
  <2>1. DueOn(owed, R) \in Nat /\ DueOn(owed, S) \in Nat
    BY <1>2, DueSum
  <2>2. DOMAIN owed \in SUBSET DOMAIN owed
    OBVIOUS
  <2> QED BY <2>1, <2>2, DueSum
<1> DEFINE ds == DueOn(owed, S)
           dr == DueOn(owed, R)
<1>6. Share(pool, owed, s) = IF pool - ds <= 0 THEN 0 ELSE IF pool - ds < owed[s].due THEN pool - ds ELSE owed[s].due
  BY DEF Share
<1>7. Share(pool, owed, r) = IF pool - dr <= 0 THEN 0 ELSE IF pool - dr < owed[r].due THEN pool - dr ELSE owed[r].due
  BY DEF Share
<1>8. dr \in Nat /\ ds \in Nat /\ dr + owed[r].due <= ds
  BY <1>3, <1>4, <1>5
<1> HIDE DEF ds, dr
<1> QED BY <1>5, <1>6, <1>7, <1>8

\* What is paid out of a pool comes out of it.
LEMMA PoolNotEmpty ==
  ASSUME NEW owed \in Loaded, NEW pool \in Nat, NEW s \in DOMAIN owed, Share(pool, owed, s) > 0
  PROVE  pool > 0
<1>1. Older(owed, s) \in SUBSET DOMAIN owed
  BY DEF Older
<1> DEFINE ds == DueOn(owed, Older(owed, s))
<1>2. ds \in Nat
  BY <1>1, DueSum
<1>3. Share(pool, owed, s) = IF pool - ds <= 0 THEN 0 ELSE IF pool - ds < owed[s].due THEN pool - ds ELSE owed[s].due
  BY DEF Share
<1> HIDE DEF ds
<1> QED BY <1>2, <1>3

\* Some sales have a newest one.
LEMMA Newest ==
  ASSUME NEW nums, nums \subseteq Nat, IsFiniteSet(nums), nums # {}
  PROVE  \E m \in nums : \A n \in nums : n <= m
<1> DEFINE T == {r \in SUBSET nums : r # {} /\ ~ \E m \in r : \A n \in r : n <= m}
<1>1. SUFFICES ASSUME T # {} PROVE FALSE
  BY Zenon
<1>2. PICK U \in T : \A V \in T : V \subseteq U => V = U
  <2>1. T \subseteq SUBSET nums /\ IsFiniteSet(nums)
    OBVIOUS
  <2> HIDE DEF T
  <2> QED BY ONLY <1>1, <2>1, MinimalSubset
<1>3. PICK p \in U : TRUE
  BY <1>2
<1> DEFINE V == U \ {p}
<1>4. \A q \in U : q \in Nat
  BY <1>2
<1>5. V # {}
  BY <1>2, <1>4
<1>6. V \in SUBSET nums /\ V \subseteq U /\ V # U
  BY <1>2
<1>7. PICK q \in V : \A r \in V : r <= q
  BY <1>2, <1>5, <1>6
<1>8. CASE p <= q
  BY <1>2, <1>7, <1>8
<1>9. CASE q < p
  <2>1. \A r \in U : r <= p
    BY <1>4, <1>7, <1>9
  <2> QED BY <1>2, <2>1
<1> QED BY <1>4, <1>8, <1>9

\* The rows a pool writes.
PoolRows(owed, pool, by, id, some) ==
  {Payment(s, by, 0, Share(pool, owed, s), id) : s \in {s \in some : Share(pool, owed, s) > 0}}

\* They are rows, one for each sale that gets something.
LEMMA PoolRowsMade ==
  ASSUME NEW owed \in Loaded, NEW pool \in Nat, NEW by \in Nat, NEW id \in Purchases \cup {None},
         NEW U \in SUBSET DOMAIN owed
  PROVE  /\ PoolRows(owed, pool, by, id, U) \in SUBSET PaymentRow
         /\ IsFiniteSet(PoolRows(owed, pool, by, id, U))
         /\ \A p \in PoolRows(owed, pool, by, id, U) : p.by = by /\ p.sale \in U
<1> DEFINE paid == {s \in U : Share(pool, owed, s) > 0}
<1>1. IsFiniteSet(paid)
  BY DueSum, FS_Subset
<1>2. IsFiniteSet(PoolRows(owed, pool, by, id, U))
  <2> DEFINE made(s) == Payment(s, by, 0, Share(pool, owed, s), id)
             row == [s \in paid |-> made(s)]
  <2>1. PoolRows(owed, pool, by, id, U) = {row[s] : s \in paid}
    BY DEF PoolRows
  <2> HIDE DEF made, paid
  <2>2. row \in Surjection(paid, {row[s] : s \in paid})
    BY DEF Surjection
  <2> QED BY <1>1, <2>1, <2>2, FS_Surjection
<1>3. ASSUME NEW s \in U
      PROVE  LET row == Payment(s, by, 0, Share(pool, owed, s), id)
             IN row \in PaymentRow /\ row.by = by /\ row.sale = s
  <2>1. Share(pool, owed, s) \in Nat
    <3>1. owed[s].due \in Nat /\ Share(pool, owed, s) \in 0..owed[s].due
      BY DueSum, ShareFits
    <3> QED BY <3>1
  <2>2. s \in SaleIds
    BY DEF Loaded
  <2> QED BY <2>1, <2>2 DEF Payment, PaymentRow
<1> QED BY <1>2, <1>3 DEF PoolRows

\* The wallet pays all that is due, or all it has.
LEMMA PoolPays ==
  ASSUME NEW owed \in Loaded, NEW pool \in Nat, NEW by \in Nat, NEW id \in Purchases \cup {None},
         NEW rows \in SUBSET PaymentRow, IsFiniteSet(rows), \A p \in rows : p.by # by
  PROVE  WalletPart(rows \cup PoolRows(owed, pool, by, id, DOMAIN owed))
           = WalletPart(rows) + Least(pool, Owed(owed))
<1> DEFINE D == DOMAIN owed
           Initial(U) == \A s \in U : \A r \in D : r < s => r \in U
           some(U) == PoolRows(owed, pool, by, id, U)
           Pays(U) == WalletPart(rows \cup some(U)) = WalletPart(rows) + Least(pool, DueOn(owed, U))
           T == {U \in SUBSET D : Initial(U) /\ ~ Pays(U)}
<1>1. D \subseteq Nat /\ IsFiniteSet(D)
  <2>1. D \subseteq SaleIds
    BY DEF Loaded
  <2> QED BY <2>1, LedgerAssumption, FS_Subset
<1>2. SUFFICES ASSUME T # {} PROVE FALSE
  <2>1. D \notin T
    BY <1>2, Zenon
  <2>2. Pays(D)
    BY <2>1
  <2> QED BY <2>2, Zenon DEF Owed
<1>3. PICK U \in T : \A V \in T : V \subseteq U => V = U
  <2>1. T \subseteq SUBSET D /\ IsFiniteSet(D)
    BY <1>1
  <2> HIDE DEF T, D
  <2> QED BY <1>2, <2>1, MinimalSubset
<1>4. U \in SUBSET D /\ Initial(U) /\ ~ Pays(U)
  BY <1>3
<1>5. WalletPart(rows) \in Nat
  BY RowSums
<1>6. U # {}
  <2>1. some({}) = {}
    BY DEF PoolRows
  <2>2. rows \cup some({}) = rows
    BY <2>1
  <2>3. DueOn(owed, {}) = 0
    BY NothingDue
  <2>4. Least(pool, 0) = 0
    BY DEF Least
  <2>5. WalletPart(rows) = WalletPart(rows) + 0
    BY <1>5
  <2>6. Pays({})
    BY <2>2, <2>3, <2>4, <2>5, Zenon
  <2> HIDE DEF Pays
  <2> QED BY <1>4, <2>6
<1>7. PICK m \in U : \A n \in U : n <= m
  <2>1. U \subseteq Nat /\ IsFiniteSet(U)
    BY <1>1, <1>4, FS_Subset
  <2> HIDE DEF T, D
  <2> QED BY <1>6, <2>1, Newest
<1> DEFINE V == U \ {m}
<1>8. V \in SUBSET D /\ V \subseteq U /\ V # U /\ m \in D /\ m \notin V /\ V \cup {m} = U /\ m \in Nat
  BY <1>1, <1>4
<1>9. Initial(V)
  BY <1>1, <1>4, <1>7
<1>10. Pays(V)
  BY <1>3, <1>8, <1>9
<1>11. Older(owed, m) = V
  BY <1>1, <1>4, <1>7, <1>8 DEF Older
<1> DEFINE due == DueOn(owed, V)
           share == Share(pool, owed, m)
           row == Payment(m, by, 0, share, id)
<1>12. DueOn(owed, U) = due + owed[m].due
  <2>1. V \in SUBSET DOMAIN owed /\ m \in DOMAIN owed /\ m \notin V
    BY <1>8
  <2> HIDE DEF V
  <2>2. DueOn(owed, V \cup {m}) = DueOn(owed, V) + owed[m].due
    BY <2>1, DueMore
  <2> QED BY <1>8, <2>2, Zenon
<1>13. due \in Nat /\ owed[m].due \in Nat
  <2>1. V \in SUBSET DOMAIN owed /\ U \in SUBSET DOMAIN owed /\ m \in U
    BY <1>8, <1>4
  <2> HIDE DEF V
  <2> QED BY <2>1, DueSum
<1>14. share = IF pool - due <= 0 THEN 0 ELSE IF pool - due < owed[m].due THEN pool - due ELSE owed[m].due
  BY <1>11, Zenon DEF Share
<1>15. some(V) \in SUBSET PaymentRow /\ IsFiniteSet(some(V)) /\ \A p \in some(V) : p.sale \in V
  <2>1. V \in SUBSET DOMAIN owed
    BY <1>8
  <2> HIDE DEF V
  <2> QED BY <2>1, PoolRowsMade
<1>16. rows \cup some(V) \in SUBSET PaymentRow /\ IsFiniteSet(rows \cup some(V))
  BY <1>15, FS_Union
<1>17. CASE share > 0
  <2>1. some(U) = some(V) \cup {row}
    <3> HIDE DEF V, row
    <3>1. {s \in U : Share(pool, owed, s) > 0} = {s \in V : Share(pool, owed, s) > 0} \cup {m}
      BY <1>8, <1>17
    <3> QED BY <3>1 DEF PoolRows, row
  <2>2. row \in PaymentRow /\ row.sale = m /\ row.by = by /\ row.wallet = share
    <3>1. share \in Nat
      BY <1>13, <1>14
    <3>2. m \in SaleIds
      BY <1>8 DEF Loaded
    <3> HIDE DEF share
    <3> QED BY <3>1, <3>2 DEF PaymentRow, Payment
  <2>3. row \notin rows \cup some(V)
    <3> HIDE DEF row, V
    <3> QED BY <2>2, <1>8, <1>15
  <2> HIDE DEF row, V, share, some
  <2>4. WalletPart((rows \cup some(V)) \cup {row}) = WalletPart(rows \cup some(V)) + row.wallet
    BY <1>16, <2>2, <2>3, AddRow
  <2>5. (rows \cup some(V)) \cup {row} = rows \cup some(U)
    BY <2>1
  <2>6. WalletPart(rows \cup some(U)) = WalletPart(rows) + Least(pool, due) + share
    <3>1. WalletPart(rows \cup some(V)) = WalletPart(rows) + Least(pool, due)
      BY <1>10
    <3> QED BY <2>2, <2>4, <2>5, <3>1, Zenon
  <2>7. Least(pool, due) + share = Least(pool, due + owed[m].due)
    <3> HIDE DEF due
    <3> QED BY <1>13, <1>14 DEF Least
  <2>8. Least(pool, due) \in Int /\ share \in Int
    <3> HIDE DEF due
    <3> QED BY <1>13, <1>14 DEF Least
  <2>9. WalletPart(rows \cup some(U)) = WalletPart(rows) + Least(pool, due + owed[m].due)
    <3> HIDE DEF due
    <3> QED BY <1>5, <2>6, <2>7, <2>8
  <2> HIDE DEF due
  <2> QED BY <1>4, <1>12, <2>9, Zenon
<1>18. CASE ~ share > 0
  <2>1. some(U) = some(V)
    <3> HIDE DEF V
    <3>1. {s \in U : Share(pool, owed, s) > 0} = {s \in V : Share(pool, owed, s) > 0}
      BY <1>8, <1>18
    <3> QED BY <3>1, Zenon DEF PoolRows
  <2>2. Least(pool, due) = Least(pool, due + owed[m].due)
    <3> HIDE DEF due, share
    <3> QED BY <1>13, <1>14, <1>18 DEF Least
  <2> HIDE DEF V, due, share, some
  <2> QED BY <1>4, <1>10, <1>12, <2>1, <2>2, Zenon DEF due
<1> QED BY <1>17, <1>18

-----------------------------------------------------------------------------
(* The inductive invariant.                                                *)

Txn == [op : Requests \cup {None}, step : Nat, by : Nat, retailer : RetailerRow \cup {None},
        sales : Loaded, rows : SUBSET PaymentRow]

\* The tables ...
Tables ==
  /\ opening \in Int /\ credit \in Int /\ paidOut \in Nat
  /\ openingSet \in Int /\ openingPaid \in Nat
  /\ sales \in [SaleIds -> SaleRow]
  /\ payments \in SUBSET PaymentRow /\ IsFiniteSet(payments)
  /\ purchases \in [Purchases -> PurchaseRow]

\* ... and what the running transactions hold.
Held ==
  /\ retailerLock \in Handlers \cup {None}
  /\ shareLock \in Handlers \cup {None}
  /\ sequenceLock \in Handlers \cup {None}
  /\ saleLock \in [SaleIds -> Handlers \cup {None}]
  /\ purchaseLock \in [Purchases -> Handlers \cup {None}]
  /\ txn \in [Handlers -> Txn]
  /\ requests \in Nat
  /\ crew \in Crews

\* A sale that counts has a payment that no purchase made, the one of its invoice.
Invoiced ==
  \A s \in SaleIds : sales[s].status \notin {"none", "cancelled"} =>
    \E p \in payments : p.sale = s /\ p.purchase = None

\* There are no payments ahead of a sale, nor of a request.
Recorded == \A p \in payments : sales[p.sale].status # "none" /\ p.by <= requests

\* Where no request runs beside a cancellation, it spares the sales that purchases settled.
Spared ==
  Solo(crew) => \A p \in payments : p.purchase # None => sales[p.sale].status # "cancelled"

Running(h) == txn[h].op # None
Kind(h) == txn[h].op.kind
Past(h, n) == txn[h].step > n

Serving(h) ==
  /\ txn[h].op \in Requests
  /\ Kind(h) \in crew[h]
  /\ txn[h].step \in 1..Len(Script[Kind(h)])
  /\ txn[h].by \in 1..requests

\* The payments a request will write are no other's.
OwnNumber(h) ==
  /\ \A p \in payments : p.by # txn[h].by
  /\ \A g \in Handlers : g # h /\ Running(g) => txn[g].by # txn[h].by

\* What a session has read of the retailer, and will use, is what the tables hold.
KnowsRetailer(h) ==
  /\ Kind(h) \in {"payout", "purchase"} =>
       IF Past(h, 1) THEN retailerLock = h /\ txn[h].retailer.credit = credit
                     ELSE txn[h].retailer = None
  /\ Kind(h) = "settle" /\ Past(h, 1) => txn[h].retailer.opening = opening
  /\ Kind(h) \in {"create", "void"} /\ Past(h, 2) => txn[h].retailer = TheRetailer
  /\ Kind(h) \in {"pay", "edit"} /\ Past(h, 3) => txn[h].retailer = TheRetailer
  /\ Kind(h) = "balance" /\ Past(h, 1) => txn[h].retailer = TheRetailer

\* So is what it has read of the sales ...
KnowsSales(h) ==
  /\ Kind(h) \in {"pay", "edit"} /\ Past(h, 1) =>
       txn[h].sales = [s \in {txn[h].op.sale} |-> sales[s]]
  /\ Kind(h) = "cancel" /\ Past(h, 1) => DOMAIN txn[h].sales = {txn[h].op.sale}
  /\ (Kind(h) = "settle" /\ Past(h, 3)) \/ (Kind(h) = "purchase" /\ Past(h, 2)) =>
       \A s \in DOMAIN txn[h].sales :
         saleLock[s] = h /\ txn[h].sales[s] = sales[s] /\ Pending(sales[s])
  /\ Kind(h) = "void" /\ Past(h, 5) =>
       txn[h].sales = [s \in {p.sale : p \in txn[h].rows} |-> sales[s]]

\* ... and of the payments.
KnowsRows(h) ==
  /\ Kind(h) = "edit" /\ Past(h, 2) => txn[h].rows = OfSale(payments, txn[h].op.sale)
  /\ Kind(h) = "cancel" /\ Past(h, 2) /\ Solo(crew) =>
       txn[h].rows = OfSale(payments, txn[h].op.sale)
  /\ Kind(h) = "void" /\ Past(h, 4) => txn[h].rows = OfPurchase(payments, txn[h].op.id)

Session(h) ==
  Serving(h) /\ OwnNumber(h) /\ KnowsRetailer(h) /\ KnowsSales(h) /\ KnowsRows(h)

Books == SaleLedger /\ WalletLedger /\ OpeningLedger /\ Invoiced /\ Recorded /\ Spared

LedgerIndInv ==
  /\ Tables /\ Held /\ Books
  /\ \A h \in Handlers : Running(h) => Session(h)

\* Where in its script each statement is.
LEMMA Where ==
  ASSUME NEW k \in Kinds, NEW n \in 1..Len(Script[k])
  PROVE  /\ Script[k][n] # "idle"
         /\ Script[k][n] = "sequence" => k = "create" /\ n = 1
         /\ Script[k][n] = "insert" => k = "create" /\ n = 3
         /\ Script[k][n] = "sale" => k \in {"pay", "edit", "cancel"} /\ n = 1
         /\ Script[k][n] = "payments" =>
              \/ k \in {"pay", "edit", "cancel"} /\ n = 2
              \/ k = "void" /\ n = 4
         /\ Script[k][n] = "retailer" =>
              \/ k \in {"pay", "edit", "cancel"} /\ n = 3
              \/ k \in {"create", "void"} /\ n = 2
              \/ k \in {"settle", "balance"} /\ n = 1
         /\ Script[k][n] = "lock" =>
              \/ k \in {"create", "pay", "edit"} /\ n = 4
              \/ k = "void" /\ n = 3
              \/ k = "settle" /\ n = 2
              \/ k \in {"payout", "purchase"} /\ n = 1
         /\ Script[k][n] = "lock_sales" => (k = "settle" /\ n = 3) \/ (k = "purchase" /\ n = 2)
         /\ Script[k][n] = "purchase" => k = "void" /\ n = 1
         /\ Script[k][n] = "sales" => (k = "void" /\ n = 5) \/ (k = "balance" /\ n = 2)
         /\ Script[k][n] = "commit" =>
              \/ k \in {"create", "pay", "edit"} /\ n = 5
              \/ k \in {"cancel", "settle"} /\ n = 4
              \/ k = "payout" /\ n = 2
              \/ k \in {"purchase", "balance"} /\ n = 3
              \/ k = "void" /\ n = 6
         /\ Script[k][n] # "commit" => n + 1 \in 1..Len(Script[k])
<1>1. CASE k = "create" BY <1>1 DEF Script
<1>2. CASE k = "pay" BY <1>2 DEF Script
<1>3. CASE k = "edit" BY <1>3 DEF Script
<1>4. CASE k = "cancel" BY <1>4 DEF Script
<1>5. CASE k = "settle" BY <1>5 DEF Script
<1>6. CASE k = "payout" BY <1>6 DEF Script
<1>7. CASE k = "purchase" BY <1>7 DEF Script
<1>8. CASE k = "void" BY <1>8 DEF Script
<1>9. CASE k = "balance" BY <1>9 DEF Script
<1> QED BY <1>1, <1>2, <1>3, <1>4, <1>5, <1>6, <1>7, <1>8, <1>9 DEF Kinds

\* A script begins somewhere.
LEMMA Begins == ASSUME NEW k \in Kinds PROVE 1 \in 1..Len(Script[k])
<1>1. CASE k = "create" BY <1>1 DEF Script
<1>2. CASE k = "pay" BY <1>2 DEF Script
<1>3. CASE k = "edit" BY <1>3 DEF Script
<1>4. CASE k = "cancel" BY <1>4 DEF Script
<1>5. CASE k = "settle" BY <1>5 DEF Script
<1>6. CASE k = "payout" BY <1>6 DEF Script
<1>7. CASE k = "purchase" BY <1>7 DEF Script
<1>8. CASE k = "void" BY <1>8 DEF Script
<1>9. CASE k = "balance" BY <1>9 DEF Script
<1> QED BY <1>1, <1>2, <1>3, <1>4, <1>5, <1>6, <1>7, <1>8, <1>9 DEF Kinds

\* A running transaction is at a statement of its script.
LEMMA AtStep ==
  ASSUME NEW h, Running(h), Serving(h)
  PROVE  /\ Kind(h) \in Kinds /\ txn[h].step \in Nat
         /\ Step(h) = Script[Kind(h)][txn[h].step]
BY OpFields DEF Running, Serving, Kind, Step

\* A handler that is not idle runs.
LEMMA NotIdle == ASSUME NEW h, Step(h) # "idle" PROVE Running(h)
BY DEF Step, Running

\* Where a request runs beside another, both lock what they read.
LEMMA TwoRun ==
  ASSUME SafeCrews, LedgerIndInv, NEW g \in Handlers, NEW h \in Handlers, g # h, Running(g), Running(h)
  PROVE  /\ Kind(g) \in Locking /\ Kind(h) \in Locking
         /\ ~ (Kind(g) = "settle" /\ Kind(h) = "settle")
         /\ ~ Solo(crew)
<1>1. Kind(g) \in crew[g] /\ Kind(h) \in crew[h]
  BY DEF LedgerIndInv, Session, Serving
<1>2. ~ Solo(crew)
  BY <1>1 DEF Solo
<1>3. Apart(crew)
  BY <1>2 DEF SafeCrews, LedgerIndInv, Held
<1> QED BY <1>1, <1>2, <1>3 DEF Apart

-----------------------------------------------------------------------------
(* The initial accounts.                                                   *)

\* A sale without payments, or with one of nothing.
LEMMA FirstRow ==
  ASSUME NEW s \in SaleIds
  PROVE  /\ Payment(s, 0, 0, 0, None) \in PaymentRow
         /\ Total({Payment(s, 0, 0, 0, None)}) = 0
<1> DEFINE row == Payment(s, 0, 0, 0, None)
<1>1. row \in PaymentRow /\ row.money = 0 /\ row.wallet = 0
  BY DEF Payment, PaymentRow
<1> HIDE DEF row
<1>2. IsFiniteSet({}) /\ {} \in SUBSET PaymentRow /\ row \notin {} /\ {} \cup {row} = {row}
  BY FS_EmptySet
<1>3. Total({} \cup {row}) = Total({}) + row.money + row.wallet
  BY <1>1, <1>2, AddRow
<1>4. Total({row}) = 0
  BY <1>1, <1>2, <1>3, NoRowSums
<1> QED BY <1>1, <1>4 DEF row

\* The retailer comes with unpaid sales, whose invoices were paid with nothing.
LEMMA InitBooks == Init => Tables /\ Held /\ Books
<1> SUFFICES ASSUME Init PROVE Tables /\ Held /\ Books
  OBVIOUS
<1>1. PICK due \in Owing :
        /\ sales = [s \in SaleIds |-> IF due[s] = 0 THEN NoSale ELSE Sale(due[s], 0)]
        /\ payments = {Payment(s, 0, 0, 0, None) : s \in {s \in SaleIds : due[s] # 0}}
  BY DEF Init
<1>2. \A s \in SaleIds : due[s] \in Nat
  BY LedgerAssumption
<1>3. NoSale \in SaleRow
  BY DEF NoSale, SaleRow, Statuses
<1>4. \A s \in SaleIds : due[s] # 0 =>
        /\ sales[s] = Sale(due[s], 0)
        /\ Sale(due[s], 0) \in SaleRow
        /\ Sale(due[s], 0).total = due[s] /\ Sale(due[s], 0).paid = 0 /\ Sale(due[s], 0).due = due[s]
        /\ Sale(due[s], 0).status = SaleStatus(due[s], 0)
        /\ Sale(due[s], 0).status \in {"open", "partial", "settled"}
  <2>1. ASSUME NEW s \in SaleIds PROVE 0 \in 0..due[s] /\ due[s] - 0 = due[s]
    BY <1>2
  <2> QED BY <1>1, <1>2, <2>1, SaleMade
<1>5. \A s \in SaleIds : due[s] = 0 => sales[s] = NoSale
  BY <1>1
<1>6. sales \in [SaleIds -> SaleRow]
  <2>1. \A s \in SaleIds : sales[s] \in SaleRow
    BY <1>3, <1>4, <1>5
  <2>2. sales = [s \in SaleIds |-> sales[s]]
    BY <1>1
  <2> QED BY <2>1, <2>2
<1>7. \A p \in payments : \E s \in SaleIds : due[s] # 0 /\ p = Payment(s, 0, 0, 0, None)
  BY <1>1
<1>8. \A s \in SaleIds : due[s] # 0 => Payment(s, 0, 0, 0, None) \in payments
  BY <1>1
<1>9. \A s \in SaleIds : LET row == Payment(s, 0, 0, 0, None)
                         IN row.sale = s /\ row.by = 0 /\ row.wallet = 0 /\ row.purchase = None
  BY DEF Payment
<1>10. payments \in SUBSET PaymentRow
  BY <1>7, FirstRow
<1>11. IsFiniteSet(payments)
  <2> DEFINE some == {s \in SaleIds : due[s] # 0}
             made(s) == Payment(s, 0, 0, 0, None)
             row == [s \in some |-> made(s)]
  <2>1. payments = {row[s] : s \in some}
    BY <1>1
  <2>2. IsFiniteSet(some)
    BY LedgerAssumption, FS_Subset
  <2> HIDE DEF made, some
  <2>3. row \in Surjection(some, {row[s] : s \in some})
    BY DEF Surjection
  <2> QED BY <2>1, <2>2, <2>3, FS_Surjection
<1>12. Tables
  BY <1>6, <1>10, <1>11, LedgerAssumption DEF Init, Tables, PurchaseRow
<1>13. Held
  <2>1. Idle \in Txn
    <3>1. NoRow \in Loaded
      BY DEF NoRow, Loaded
    <3> QED BY <3>1 DEF Idle, Txn
  <2> QED BY <2>1 DEF Init, Held
<1>14. SaleLedger
  <2>1. ASSUME NEW s \in SaleIds
        PROVE  sales[s].paid = Total({p \in payments : p.sale = s})
    <3>1. CASE due[s] = 0
      <4>1. {p \in payments : p.sale = s} = {}
        BY <1>7, <1>9, <3>1
      <4>2. sales[s].paid = 0
        BY <1>5, <3>1 DEF NoSale
      <4> QED BY <4>1, <4>2, NoRowSums, Zenon
    <3>2. CASE due[s] # 0
      <4>1. {p \in payments : p.sale = s} = {Payment(s, 0, 0, 0, None)}
        BY <1>7, <1>8, <1>9, <3>2
      <4> QED BY <1>4, <3>2, <4>1, FirstRow
    <3> QED BY <3>1, <3>2
  <2>2. ASSUME NEW s \in SaleIds
        PROVE  LET sale == sales[s] IN
               /\ sale.paid \in 0..sale.total
               /\ sale.due = sale.total - sale.paid
               /\ sale.status \notin {"none", "cancelled"} => sale.status = SaleStatus(sale.total, sale.paid)
    <3>1. CASE due[s] = 0
      BY <1>5, <3>1 DEF NoSale
    <3>2. CASE due[s] # 0
      <4>1. sales[s].total = due[s] /\ sales[s].paid = 0 /\ sales[s].due = due[s] /\ sales[s].status = SaleStatus(due[s], 0)
        BY <1>4, <3>2
      <4> QED BY <1>2, <4>1
    <3> QED BY <3>1, <3>2
  <2> QED BY <2>1, <2>2 DEF SaleLedger
<1>15. WalletLedger
  <2>1. WalletPart(payments) = 0
    <3>1. \A p \in payments : p.wallet = 0
      BY <1>7, <1>9
    <3> QED BY <1>10, <1>11, <3>1, NoWallet
  <2>2. Active = {}
    BY DEF Init, Active
  <2> DEFINE in == [p \in Active |-> purchases[p].total]
  <2>3. DOMAIN in = {}
    BY <2>2
  <2> HIDE DEF in
  <2>4. SumFunction(in) = 0
    BY <2>3, SumOfNothing
  <2>5. credit = 0 /\ paidOut = 0
    BY DEF Init
  <2> QED BY <2>1, <2>4, <2>5 DEF WalletLedger, in
<1>16. OpeningLedger
  BY LedgerAssumption DEF Init, OpeningLedger
<1>17. Invoiced
  BY <1>4, <1>5, <1>8, <1>9 DEF Invoiced, NoSale
<1>18. Recorded /\ Spared
  <2>1. \A p \in payments : sales[p.sale].status \notin {"none", "cancelled"} /\ p.by = 0
    BY <1>4, <1>7, <1>9
  <2> QED BY <2>1 DEF Init, Recorded, Spared
<1> QED BY <1>12, <1>13, <1>14, <1>15, <1>16, <1>17, <1>18 DEF Books

\* No request runs.
LEMMA InitLedger == Init => LedgerIndInv
<1>1. Init => \A h \in Handlers : ~ Running(h)
  BY DEF Init, Running, Idle
<1> QED BY <1>1, InitBooks DEF LedgerIndInv

-----------------------------------------------------------------------------
(* A request does not disturb what another has read.                       *)

\* A transaction that stays where it is keeps what it knows, when its locks and, if it does not
\* lock, the tables are left alone.
LEMMA OthersKnow ==
  ASSUME LedgerIndInv, NEW h \in Handlers, NEW g \in Handlers, g # h, Running(g),
         txn'[g] = txn[g], crew' = crew, requests' \in Nat, requests <= requests',
         retailerLock = g => retailerLock' = g /\ credit' = credit,
         Kind(g) = "settle" => opening' = opening,
         \A s \in SaleIds : saleLock[s] = g => saleLock'[s] = g /\ sales'[s] = sales[s],
         Solo(crew) \/ Kind(g) \notin Locking => UNCHANGED tables,
         \A p \in payments' : p.by # txn[g].by,
         \A f \in Handlers : f # g /\ Running(f)' => txn'[f].by # txn[g].by
  PROVE  Running(g)' /\ Session(g)'
<1>1. Session(g) /\ txn[g] \in Txn /\ requests \in Nat
  BY DEF LedgerIndInv, Held
<1>2. Running(g)' /\ Kind(g)' = Kind(g) /\ \A n : Past(g, n)' <=> Past(g, n)
  BY DEF Running, Kind, Past
<1>3. Serving(g)'
  BY <1>1, <1>2 DEF Session, Serving, Kind
<1>4. OwnNumber(g)'
  BY DEF OwnNumber
<1>5. KnowsRetailer(g)'
  <2>1. KnowsRetailer(g)
    BY <1>1 DEF Session
  <2>2. CASE Kind(g) \in {"payout", "purchase"}
    BY <1>2, <2>1, <2>2 DEF KnowsRetailer
  <2>3. CASE Kind(g) = "settle"
    BY <1>2, <2>1, <2>3 DEF KnowsRetailer
  <2>4. CASE Kind(g) \notin Locking
    <3>1. opening' = opening /\ credit' = credit
      BY <2>4 DEF tables
    <3> QED BY <1>2, <2>1, <2>4, <3>1 DEF KnowsRetailer, TheRetailer, Locking
  <2>5. CASE Kind(g) = "cancel"
    BY <1>2, <2>5 DEF KnowsRetailer
  <2> QED BY <2>2, <2>3, <2>4, <2>5 DEF Locking
<1>6. KnowsSales(g)'
  <2>1. KnowsSales(g)
    BY <1>1 DEF Session
  <2>2. CASE Kind(g) \in {"settle", "purchase"}
    <3>1. DOMAIN txn[g].sales \subseteq SaleIds
      BY <1>1 DEF Txn, Loaded
    <3> QED BY <1>2, <2>1, <2>2, <3>1 DEF KnowsSales, Pending
  <2>3. CASE Kind(g) \notin Locking
    <3>1. sales' = sales
      BY <2>3 DEF tables
    <3> QED BY <1>2, <2>1, <2>3, <3>1 DEF KnowsSales, Locking
  <2>4. CASE Kind(g) \in {"cancel", "payout"}
    BY <1>2, <2>1, <2>4 DEF KnowsSales
  <2> QED BY <2>2, <2>3, <2>4 DEF Locking
<1>7. KnowsRows(g)'
  <2>1. KnowsRows(g)
    BY <1>1 DEF Session
  <2>2. CASE Kind(g) \notin Locking
    <3>1. payments' = payments
      BY <2>2 DEF tables
    <3> QED BY <1>2, <2>1, <2>2, <3>1 DEF KnowsRows, Locking
  <2>3. CASE Kind(g) = "cancel"
    <3>1. Solo(crew) => payments' = payments
      BY DEF tables
    <3>2. Solo(crew)' <=> Solo(crew)
      BY DEF Solo
    <3> QED BY <1>2, <2>1, <2>3, <3>1, <3>2 DEF KnowsRows
  <2>4. CASE Kind(g) \in {"settle", "purchase", "payout"}
    BY <1>2, <2>4 DEF KnowsRows
  <2> QED BY <2>2, <2>3, <2>4 DEF Locking
<1> QED BY <1>2, <1>3, <1>4, <1>5, <1>6, <1>7 DEF Session

\* What a statement does to its transaction.
LEMMA Advances ==
  ASSUME LedgerIndInv, NEW h \in Handlers, Running(h), Step(h) # "commit",
         NEW t \in Txn, t.op = txn[h].op, t.step = txn[h].step, t.by = txn[h].by,
         Advance(h, t)
  PROVE  /\ txn' \in [Handlers -> Txn]
         /\ txn'[h].op = txn[h].op /\ txn'[h].step = txn[h].step + 1 /\ txn'[h].by = txn[h].by
         /\ txn'[h].retailer = t.retailer /\ txn'[h].sales = t.sales /\ txn'[h].rows = t.rows
         /\ \A g \in Handlers : g # h => txn'[g] = txn[g]
         /\ Serving(h)' /\ OwnNumber(h)'
         /\ UNCHANGED <<tables, requests, crew>>
<1> DEFINE next == [t EXCEPT !.step = @ + 1]
<1>1. txn \in [Handlers -> Txn] /\ Session(h) /\ requests \in Nat
  BY DEF LedgerIndInv, Held
<1>2. Serving(h) /\ OwnNumber(h)
  BY <1>1 DEF Session
<1>3. Kind(h) \in Kinds /\ txn[h].step + 1 \in 1..Len(Script[Kind(h)])
  BY <1>2, AtStep, Where DEF Serving
<1>4. next \in Txn /\ next.op = txn[h].op /\ next.step = txn[h].step + 1 /\ next.by = txn[h].by
      /\ next.retailer = t.retailer /\ next.sales = t.sales /\ next.rows = t.rows
  BY DEF Txn
<1>5. txn' = [txn EXCEPT ![h] = next] /\ UNCHANGED <<tables, requests, crew>>
  BY DEF Advance
<1> HIDE DEF next
<1>6. txn' \in [Handlers -> Txn] /\ txn'[h] = next /\ \A g \in Handlers : g # h => txn'[g] = txn[g]
  BY <1>1, <1>4, <1>5
<1>7. Serving(h)'
  BY <1>2, <1>3, <1>4, <1>5, <1>6 DEF Serving, Kind
<1>8. OwnNumber(h)'
  <2>1. payments' = payments
    BY <1>5 DEF tables
  <2>2. \A g \in Handlers : g # h => (Running(g)' <=> Running(g))
    BY <1>6 DEF Running
  <2> QED BY <1>2, <1>4, <1>6, <2>1, <2>2 DEF OwnNumber
<1> QED BY <1>4, <1>5, <1>6, <1>7, <1>8

-----------------------------------------------------------------------------
(* What each statement reads, and what stays known.                        *)

\* The other transactions keep their locks.
LocksKept(h) ==
  \A g \in Handlers : g # h =>
    /\ retailerLock = g => retailerLock' = g
    /\ \A s \in SaleIds : saleLock[s] = g => saleLock'[s] = g

Advanced(h) ==
  /\ UNCHANGED <<tables, requests, crew>>
  /\ Held' /\ Running(h) /\ Session(h)'
  /\ txn'[h].by = txn[h].by
  /\ \A g \in Handlers : g # h => txn'[g] = txn[g]
  /\ LocksKept(h)

\* Where a statement is in the script, and what is known by then.
LEMMA Stands ==
  ASSUME LedgerIndInv, NEW h \in Handlers, Step(h) # "idle"
  PROVE  /\ Running(h) /\ Session(h) /\ Serving(h)
         /\ KnowsRetailer(h) /\ KnowsSales(h) /\ KnowsRows(h)
         /\ Kind(h) \in Kinds /\ txn[h] \in Txn /\ txn[h].op \in Requests
         /\ txn[h].step \in 1..Len(Script[Kind(h)])
         /\ Step(h) = Script[Kind(h)][txn[h].step]
         /\ txn[h].step \in Nat
<1>1. Running(h) /\ Session(h) /\ txn[h] \in Txn
  BY NotIdle DEF LedgerIndInv, Held
<1> QED BY <1>1, AtStep DEF Session, Serving

\* SELECT of the sale of a payment, an edit or a cancellation.
LEMMA AdvancedLoadSale ==
  ASSUME LedgerIndInv, NEW h \in Handlers, LoadSale(h)
  PROVE  Advanced(h)
<1>1. Step(h) = "sale"
  BY DEF LoadSale
<1>2. Kind(h) \in {"pay", "edit", "cancel"} /\ txn[h].step = 1 /\ Running(h) /\ txn[h] \in Txn
      /\ txn[h].op.sale \in SaleIds
  BY <1>1, Stands, Where, OpFields DEF Kind
<1> DEFINE seen == [s \in {txn[h].op.sale} |-> sales[s]]
           t == [txn[h] EXCEPT !.sales = seen]
<1>3. seen \in Loaded
  <2>1. sales \in [SaleIds -> SaleRow]
    BY DEF LedgerIndInv, Tables
  <2> DEFINE D == {txn[h].op.sale}
  <2>2. D \in SUBSET SaleIds /\ seen \in [D -> SaleRow]
    BY <1>2, <2>1
  <2> HIDE DEF D, seen
  <2> QED BY <2>2 DEF Loaded
<1>4. t \in Txn /\ t.op = txn[h].op /\ t.step = txn[h].step /\ t.by = txn[h].by
      /\ t.retailer = txn[h].retailer /\ t.sales = seen /\ t.rows = txn[h].rows
  BY <1>2, <1>3 DEF Txn
<1>5. Advance(h, t) /\ UNCHANGED locks
  BY DEF LoadSale
<1> HIDE DEF t
<1>6. /\ txn' \in [Handlers -> Txn]
      /\ txn'[h].op = txn[h].op /\ txn'[h].step = 2 /\ txn'[h].by = txn[h].by
      /\ txn'[h].retailer = txn[h].retailer /\ txn'[h].sales = seen /\ txn'[h].rows = txn[h].rows
      /\ \A g \in Handlers : g # h => txn'[g] = txn[g]
      /\ Serving(h)' /\ OwnNumber(h)'
      /\ UNCHANGED <<tables, requests, crew>>
  BY <1>1, <1>2, <1>4, <1>5, Advances
<1>7. KnowsRetailer(h)'
  BY <1>2, <1>6 DEF KnowsRetailer, Kind, Past
<1>8. KnowsSales(h)'
  BY <1>2, <1>6 DEF KnowsSales, Kind, Past, tables
<1>9. KnowsRows(h)'
  BY <1>2, <1>6 DEF KnowsRows, Kind, Past
<1>10. Held' /\ LocksKept(h)
  BY <1>5, <1>6 DEF LedgerIndInv, Held, LocksKept, locks
<1> QED BY <1>2, <1>6, <1>7, <1>8, <1>9, <1>10 DEF Advanced, Session

\* SELECT of a sale's or a purchase's payments.
LEMMA AdvancedLoadPayments ==
  ASSUME LedgerIndInv, NEW h \in Handlers, LoadPayments(h)
  PROVE  Advanced(h)
<1>1. Step(h) = "payments"
  BY DEF LoadPayments
<1>2. /\ \/ Kind(h) \in {"pay", "edit", "cancel"} /\ txn[h].step = 2
         \/ Kind(h) = "void" /\ txn[h].step = 4
      /\ Running(h) /\ txn[h] \in Txn
      /\ KnowsRetailer(h) /\ KnowsSales(h)
  BY <1>1, Stands, Where
<1> DEFINE mine == IF txn[h].op.kind = "void" THEN {p \in payments : p.purchase = txn[h].op.id}
                                              ELSE {p \in payments : p.sale = txn[h].op.sale}
           t == [txn[h] EXCEPT !.rows = mine]
<1>3. mine \in SUBSET PaymentRow
  BY DEF LedgerIndInv, Tables
<1>4. t \in Txn /\ t.op = txn[h].op /\ t.step = txn[h].step /\ t.by = txn[h].by
      /\ t.retailer = txn[h].retailer /\ t.sales = txn[h].sales /\ t.rows = mine
  <2> HIDE DEF mine
  <2> QED BY <1>2, <1>3 DEF Txn
<1>5. Advance(h, t) /\ UNCHANGED locks
  BY DEF LoadPayments
<1> HIDE DEF t
<1>6. /\ txn' \in [Handlers -> Txn]
      /\ txn'[h].op = txn[h].op /\ txn'[h].step = txn[h].step + 1 /\ txn'[h].by = txn[h].by
      /\ txn'[h].retailer = txn[h].retailer /\ txn'[h].sales = txn[h].sales /\ txn'[h].rows = mine
      /\ \A g \in Handlers : g # h => txn'[g] = txn[g]
      /\ Serving(h)' /\ OwnNumber(h)'
      /\ UNCHANGED <<tables, requests, crew>>
  <2> HIDE DEF mine
  <2> QED BY <1>1, <1>2, <1>4, <1>5, Advances
<1>7. KnowsRetailer(h)'
  <2> HIDE DEF mine
  <2> QED BY <1>2, <1>6 DEF KnowsRetailer, Kind, Past, tables, TheRetailer
<1>8. KnowsSales(h)'
  <2> HIDE DEF mine
  <2> QED BY <1>2, <1>6 DEF KnowsSales, Kind, Past, tables
<1>9. KnowsRows(h)'
  <2>1. payments' = payments /\ (Solo(crew)' <=> Solo(crew))
    BY <1>6 DEF tables, Solo
  <2> QED BY <1>2, <1>6, <2>1 DEF KnowsRows, Kind, Past, OfSale, OfPurchase
<1>10. Held' /\ LocksKept(h)
  <2> HIDE DEF mine
  <2> QED BY <1>5, <1>6 DEF LedgerIndInv, Held, LocksKept, locks
<1> QED BY <1>2, <1>6, <1>7, <1>8, <1>9, <1>10 DEF Advanced, Session

\* Plain SELECT of the retailer's row.
LEMMA AdvancedLoadRetailer ==
  ASSUME LedgerIndInv, NEW h \in Handlers, LoadRetailer(h)
  PROVE  Advanced(h)
<1>1. Step(h) = "retailer"
  BY DEF LoadRetailer
<1>2. /\ \/ Kind(h) \in {"pay", "edit", "cancel"} /\ txn[h].step = 3
         \/ Kind(h) \in {"create", "void"} /\ txn[h].step = 2
         \/ Kind(h) \in {"settle", "balance"} /\ txn[h].step = 1
      /\ Running(h) /\ txn[h] \in Txn
      /\ KnowsSales(h) /\ KnowsRows(h)
  BY <1>1, Stands, Where
<1> DEFINE t == [txn[h] EXCEPT !.retailer = TheRetailer]
<1>3. TheRetailer \in RetailerRow /\ TheRetailer.opening = opening
  BY DEF LedgerIndInv, Tables, TheRetailer, RetailerRow
<1>4. t \in Txn /\ t.op = txn[h].op /\ t.step = txn[h].step /\ t.by = txn[h].by
      /\ t.retailer = TheRetailer /\ t.sales = txn[h].sales /\ t.rows = txn[h].rows
  BY <1>2, <1>3 DEF Txn
<1>5. Advance(h, t) /\ UNCHANGED locks
  BY DEF LoadRetailer
<1> HIDE DEF t
<1>6. /\ txn' \in [Handlers -> Txn]
      /\ txn'[h].op = txn[h].op /\ txn'[h].step = txn[h].step + 1 /\ txn'[h].by = txn[h].by
      /\ txn'[h].retailer = TheRetailer /\ txn'[h].sales = txn[h].sales /\ txn'[h].rows = txn[h].rows
      /\ \A g \in Handlers : g # h => txn'[g] = txn[g]
      /\ Serving(h)' /\ OwnNumber(h)'
      /\ UNCHANGED <<tables, requests, crew>>
  BY <1>1, <1>2, <1>4, <1>5, Advances
<1>7. KnowsRetailer(h)'
  <2>1. TheRetailer' = TheRetailer /\ opening' = opening
    BY <1>6 DEF TheRetailer, tables
  <2> QED BY <1>2, <1>3, <1>6, <2>1 DEF KnowsRetailer, Kind, Past
<1>8. KnowsSales(h)'
  BY <1>2, <1>6 DEF KnowsSales, Kind, Past, tables
<1>9. KnowsRows(h)'
  <2>1. payments' = payments /\ (Solo(crew)' <=> Solo(crew))
    BY <1>6 DEF tables, Solo
  <2> QED BY <1>2, <1>6, <2>1 DEF KnowsRows, Kind, Past
<1>10. Held' /\ LocksKept(h)
  BY <1>5, <1>6 DEF LedgerIndInv, Held, LocksKept, locks
<1> QED BY <1>2, <1>6, <1>7, <1>8, <1>9, <1>10 DEF Advanced, Session

\* SELECT of the sales of a void or of a new balance.
LEMMA AdvancedLoadSales ==
  ASSUME LedgerIndInv, NEW h \in Handlers, LoadSales(h)
  PROVE  Advanced(h)
<1>1. Step(h) = "sales"
  BY DEF LoadSales
<1>2. /\ \/ Kind(h) = "void" /\ txn[h].step = 5
         \/ Kind(h) = "balance" /\ txn[h].step = 2
      /\ Running(h) /\ txn[h] \in Txn
      /\ KnowsRetailer(h) /\ KnowsRows(h)
  BY <1>1, Stands, Where
<1> DEFINE mine == IF txn[h].op.kind = "void" THEN {p.sale : p \in txn[h].rows}
                   ELSE {s \in SaleIds : sales[s].status \in {"open", "partial"}}
           seen == [s \in mine |-> sales[s]]
           t == [txn[h] EXCEPT !.sales = seen]
<1>3. seen \in Loaded
  <2>1. mine \in SUBSET SaleIds
    BY <1>2 DEF Txn, PaymentRow
  <2>2. sales \in [SaleIds -> SaleRow]
    BY DEF LedgerIndInv, Tables
  <2> HIDE DEF mine
  <2> QED BY <2>1, <2>2 DEF Loaded
<1>4. t \in Txn /\ t.op = txn[h].op /\ t.step = txn[h].step /\ t.by = txn[h].by
      /\ t.retailer = txn[h].retailer /\ t.sales = seen /\ t.rows = txn[h].rows
  <2> HIDE DEF seen
  <2> QED BY <1>2, <1>3 DEF Txn
<1>5. Advance(h, t) /\ UNCHANGED locks
  BY DEF LoadSales
<1> HIDE DEF t
<1>6. /\ txn' \in [Handlers -> Txn]
      /\ txn'[h].op = txn[h].op /\ txn'[h].step = txn[h].step + 1 /\ txn'[h].by = txn[h].by
      /\ txn'[h].retailer = txn[h].retailer /\ txn'[h].sales = seen /\ txn'[h].rows = txn[h].rows
      /\ \A g \in Handlers : g # h => txn'[g] = txn[g]
      /\ Serving(h)' /\ OwnNumber(h)'
      /\ UNCHANGED <<tables, requests, crew>>
  <2> HIDE DEF seen
  <2> QED BY <1>1, <1>2, <1>4, <1>5, Advances
<1>7. KnowsRetailer(h)'
  <2> HIDE DEF seen
  <2> QED BY <1>2, <1>6 DEF KnowsRetailer, Kind, Past, tables, TheRetailer
<1>8. KnowsSales(h)'
  <2>1. CASE Kind(h) = "void"
    <3>1. seen = [s \in {p.sale : p \in txn[h].rows} |-> sales[s]]
      BY <2>1 DEF Kind
    <3> HIDE DEF seen
    <3>2. sales' = sales
      BY <1>6 DEF tables
    <3> QED BY <2>1, <1>6, <3>1, <3>2 DEF KnowsSales, Kind
  <2>2. CASE Kind(h) = "balance"
    <3> HIDE DEF seen
    <3> QED BY <2>2, <1>6 DEF KnowsSales, Kind
  <2> QED BY <1>2, <2>1, <2>2
<1>9. KnowsRows(h)'
  <2>1. payments' = payments /\ (Solo(crew)' <=> Solo(crew))
    BY <1>6 DEF tables, Solo
  <2> HIDE DEF seen
  <2> QED BY <1>2, <1>6, <2>1 DEF KnowsRows, Kind, Past
<1>10. Held' /\ LocksKept(h)
  <2> HIDE DEF seen
  <2> QED BY <1>5, <1>6 DEF LedgerIndInv, Held, LocksKept, locks
<1> QED BY <1>2, <1>6, <1>7, <1>8, <1>9, <1>10 DEF Advanced, Session

\* No wallet money is moved, so the row stays unlocked.
LEMMA AdvancedSkipLock ==
  ASSUME LedgerIndInv, NEW h \in Handlers, SkipLock(h)
  PROVE  Advanced(h)
<1>1. Step(h) = "lock" /\ ~ MovesWallet(txn[h])
  BY DEF SkipLock
<1>2. /\ Kind(h) \in {"create", "pay", "edit"} /\ txn[h].step = 4
      /\ Running(h) /\ txn[h] \in Txn
      /\ KnowsRetailer(h) /\ KnowsSales(h) /\ KnowsRows(h)
  <2>1. Kind(h) \in {"create", "pay", "edit"}
    <3>1. Kind(h) \in Kinds
      BY <1>1, Stands
    <3> QED BY <1>1, <3>1 DEF MovesWallet, Kind, Kinds
  <2> QED BY <1>1, <2>1, Stands, Where
<1>3. Advance(h, txn[h]) /\ UNCHANGED locks
  BY DEF SkipLock
<1>4. /\ txn' \in [Handlers -> Txn]
      /\ txn'[h].op = txn[h].op /\ txn'[h].step = 5 /\ txn'[h].by = txn[h].by
      /\ txn'[h].retailer = txn[h].retailer /\ txn'[h].sales = txn[h].sales /\ txn'[h].rows = txn[h].rows
      /\ \A g \in Handlers : g # h => txn'[g] = txn[g]
      /\ Serving(h)' /\ OwnNumber(h)'
      /\ UNCHANGED <<tables, requests, crew>>
  BY <1>1, <1>2, <1>3, Advances
<1>5. KnowsRetailer(h)'
  BY <1>2, <1>4 DEF KnowsRetailer, Kind, Past, tables, TheRetailer
<1>6. KnowsSales(h)'
  BY <1>2, <1>4 DEF KnowsSales, Kind, Past, tables
<1>7. KnowsRows(h)'
  BY <1>2, <1>4 DEF KnowsRows, Kind, Past, tables
<1>8. Held' /\ LocksKept(h)
  BY <1>3, <1>4 DEF LedgerIndInv, Held, LocksKept, locks
<1> QED BY <1>2, <1>4, <1>5, <1>6, <1>7, <1>8 DEF Advanced, Session

\* SELECT ... FOR UPDATE of the retailer's row: nobody changed it since it was read.
LEMMA AdvancedLockRetailer ==
  ASSUME LedgerIndInv, NEW h \in Handlers, LockRetailer(h)
  PROVE  Advanced(h)
<1>1. Step(h) = "lock" /\ retailerLock = None /\ retailerLock' = h
      /\ UNCHANGED <<shareLock, sequenceLock, saleLock, purchaseLock>>
  BY DEF LockRetailer
<1>2. /\ \/ Kind(h) \in {"create", "pay", "edit"} /\ txn[h].step = 4
         \/ Kind(h) = "void" /\ txn[h].step = 3
         \/ Kind(h) = "settle" /\ txn[h].step = 2
         \/ Kind(h) \in {"payout", "purchase"} /\ txn[h].step = 1
      /\ Running(h) /\ txn[h] \in Txn
      /\ KnowsRetailer(h) /\ KnowsSales(h) /\ KnowsRows(h)
  BY <1>1, Stands, Where
<1> DEFINE held == IF txn[h].retailer = None THEN TheRetailer ELSE txn[h].retailer
           t == [txn[h] EXCEPT !.retailer = held]
<1>3. TheRetailer \in RetailerRow /\ TheRetailer.opening = opening /\ TheRetailer.credit = credit
  BY DEF LedgerIndInv, Tables, TheRetailer, RetailerRow
<1>4. t \in Txn /\ t.op = txn[h].op /\ t.step = txn[h].step /\ t.by = txn[h].by
      /\ t.retailer = held /\ t.sales = txn[h].sales /\ t.rows = txn[h].rows
  <2>1. held \in RetailerRow \cup {None}
    BY <1>2, <1>3 DEF Txn
  <2> HIDE DEF held
  <2> QED BY <1>2, <2>1 DEF Txn
<1>5. Advance(h, t)
  BY DEF LockRetailer
<1> HIDE DEF t
<1>6. /\ txn' \in [Handlers -> Txn]
      /\ txn'[h].op = txn[h].op /\ txn'[h].step = txn[h].step + 1 /\ txn'[h].by = txn[h].by
      /\ txn'[h].retailer = held /\ txn'[h].sales = txn[h].sales /\ txn'[h].rows = txn[h].rows
      /\ \A g \in Handlers : g # h => txn'[g] = txn[g]
      /\ Serving(h)' /\ OwnNumber(h)'
      /\ UNCHANGED <<tables, requests, crew>>
  <2> HIDE DEF held
  <2> QED BY <1>1, <1>2, <1>4, <1>5, Advances
<1>7. KnowsRetailer(h)'
  <2>1. TheRetailer' = TheRetailer /\ opening' = opening /\ credit' = credit
    BY <1>6 DEF TheRetailer, tables
  <2>2. CASE Kind(h) \in {"payout", "purchase"}
    <3>1. held = TheRetailer
      BY <1>2, <2>2 DEF KnowsRetailer, Past
    <3> HIDE DEF held
    <3> QED BY <1>1, <1>2, <1>3, <1>6, <2>1, <2>2, <3>1 DEF KnowsRetailer, Kind, Past
  <2>3. CASE Kind(h) = "settle"
    <3>1. held.opening = opening
      BY <1>2, <1>3, <2>3 DEF KnowsRetailer, Past
    <3> HIDE DEF held
    <3> QED BY <1>6, <2>1, <2>3, <3>1 DEF KnowsRetailer, Kind
  <2>4. CASE Kind(h) \in {"create", "pay", "edit", "void"}
    <3>1. held = TheRetailer
      BY <1>2, <2>4 DEF KnowsRetailer, Past
    <3> HIDE DEF held
    <3> QED BY <1>6, <2>1, <2>4, <3>1 DEF KnowsRetailer, Kind
  <2> QED BY <1>2, <2>2, <2>3, <2>4
<1>8. KnowsSales(h)'
  <2> HIDE DEF held
  <2> QED BY <1>2, <1>6 DEF KnowsSales, Kind, Past, tables
<1>9. KnowsRows(h)'
  <2> HIDE DEF held
  <2> QED BY <1>2, <1>6 DEF KnowsRows, Kind, Past, tables
<1>10. Held' /\ LocksKept(h)
  <2>1. None \notin Handlers
    BY LedgerAssumption
  <2> HIDE DEF held
  <2> QED BY <1>1, <1>6, <2>1 DEF LedgerIndInv, Held, LocksKept
<1> QED BY <1>2, <1>6, <1>7, <1>8, <1>9, <1>10 DEF Advanced, Session

\* SELECT ... FOR UPDATE of the unpaid sales.
LEMMA AdvancedLockSales ==
  ASSUME LedgerIndInv, NEW h \in Handlers, LockSales(h)
  PROVE  Advanced(h)
<1> DEFINE mine == {s \in SaleIds : Pending(sales[s]) /\ ShopOf[s] \in txn[h].op.shops}
           seen == [s \in mine |-> sales[s]]
           t == [txn[h] EXCEPT !.sales = seen]
<1>1. /\ Step(h) = "lock_sales" /\ \A s \in mine : saleLock[s] = None
      /\ saleLock' = [s \in SaleIds |-> IF s \in mine THEN h ELSE saleLock[s]]
      /\ UNCHANGED <<retailerLock, shareLock, sequenceLock, purchaseLock>>
  BY DEF LockSales
<1>2. /\ \/ Kind(h) = "settle" /\ txn[h].step = 3
         \/ Kind(h) = "purchase" /\ txn[h].step = 2
      /\ Running(h) /\ txn[h] \in Txn
      /\ KnowsRetailer(h) /\ KnowsRows(h)
  BY <1>1, Stands, Where
<1>3. seen \in Loaded
  <2>1. mine \in SUBSET SaleIds /\ sales \in [SaleIds -> SaleRow]
    BY DEF LedgerIndInv, Tables
  <2> HIDE DEF mine
  <2> QED BY <2>1 DEF Loaded
<1>4. t \in Txn /\ t.op = txn[h].op /\ t.step = txn[h].step /\ t.by = txn[h].by
      /\ t.retailer = txn[h].retailer /\ t.sales = seen /\ t.rows = txn[h].rows
  <2> HIDE DEF seen
  <2> QED BY <1>2, <1>3 DEF Txn
<1>5. Advance(h, t)
  BY DEF LockSales
<1> HIDE DEF t
<1>6. /\ txn' \in [Handlers -> Txn]
      /\ txn'[h].op = txn[h].op /\ txn'[h].step = txn[h].step + 1 /\ txn'[h].by = txn[h].by
      /\ txn'[h].retailer = txn[h].retailer /\ txn'[h].sales = seen /\ txn'[h].rows = txn[h].rows
      /\ \A g \in Handlers : g # h => txn'[g] = txn[g]
      /\ Serving(h)' /\ OwnNumber(h)'
      /\ UNCHANGED <<tables, requests, crew>>
  <2> HIDE DEF seen
  <2> QED BY <1>1, <1>2, <1>4, <1>5, Advances
<1>7. KnowsRetailer(h)'
  <2> HIDE DEF seen
  <2> QED BY <1>1, <1>2, <1>6 DEF KnowsRetailer, Kind, Past, tables
<1>8. KnowsSales(h)'
  <2>1. sales' = sales
    BY <1>6 DEF tables
  <2>2. \A s \in mine : saleLock'[s] = h /\ seen[s] = sales'[s] /\ Pending(sales'[s])
    BY <1>1, <2>1
  <2>3. DOMAIN seen = mine
    OBVIOUS
  <2> HIDE DEF seen, mine
  <2> QED BY <1>2, <1>6, <2>2, <2>3 DEF KnowsSales, Kind, Pending
<1>9. KnowsRows(h)'
  <2> HIDE DEF seen
  <2> QED BY <1>2, <1>6 DEF KnowsRows, Kind, Past
<1>10. Held' /\ LocksKept(h)
  <2>1. None \notin Handlers
    BY LedgerAssumption
  <2>2. saleLock \in [SaleIds -> Handlers \cup {None}]
    BY DEF LedgerIndInv, Held
  <2>3. saleLock' \in [SaleIds -> Handlers \cup {None}]
    BY <1>1, <2>2
  <2>4. LocksKept(h)
    BY <1>1, <2>1 DEF LocksKept
  <2> HIDE DEF seen
  <2> QED BY <1>1, <1>6, <2>3, <2>4 DEF LedgerIndInv, Held
<1> QED BY <1>2, <1>6, <1>7, <1>8, <1>9, <1>10 DEF Advanced, Session

\* The purchase, the month's sequence and the share of the retailer: other locks.
LEMMA AdvancedLock ==
  ASSUME LedgerIndInv, NEW h \in Handlers, LockPurchase(h) \/ LockSequence(h) \/ InsertSale(h)
  PROVE  Advanced(h)
<1>1. /\ Step(h) \in {"purchase", "sequence", "insert"}
      /\ Advance(h, txn[h])
      /\ UNCHANGED <<retailerLock, saleLock>>
  BY DEF LockPurchase, LockSequence, InsertSale
<1>2. /\ \/ Kind(h) = "void" /\ txn[h].step = 1
         \/ Kind(h) = "create" /\ (txn[h].step = 1 \/ txn[h].step = 3)
      /\ Running(h) /\ txn[h] \in Txn
      /\ KnowsRetailer(h)
  <2>1. CASE Step(h) = "purchase"
    BY <2>1, Stands, Where
  <2>2. CASE Step(h) = "sequence"
    BY <2>2, Stands, Where
  <2>3. CASE Step(h) = "insert"
    BY <2>3, Stands, Where
  <2> QED BY <1>1, <2>1, <2>2, <2>3
<1>3. /\ txn' \in [Handlers -> Txn]
      /\ txn'[h].op = txn[h].op /\ txn'[h].step = txn[h].step + 1 /\ txn'[h].by = txn[h].by
      /\ txn'[h].retailer = txn[h].retailer
      /\ \A g \in Handlers : g # h => txn'[g] = txn[g]
      /\ Serving(h)' /\ OwnNumber(h)'
      /\ UNCHANGED <<tables, requests, crew>>
  BY <1>1, <1>2, Advances
<1>4. KnowsRetailer(h)'
  BY <1>2, <1>3 DEF KnowsRetailer, Kind, Past, tables, TheRetailer
<1>5. KnowsSales(h)' /\ KnowsRows(h)'
  BY <1>2, <1>3 DEF KnowsSales, KnowsRows, Kind, Past
<1>6. Held' /\ LocksKept(h)
  <2>1. Held
    BY DEF LedgerIndInv
  <2>2. purchaseLock' \in [Purchases -> Handlers \cup {None}]
    BY <2>1 DEF Held, LockPurchase, LockSequence, InsertSale
  <2>3. sequenceLock' \in Handlers \cup {None} /\ shareLock' \in Handlers \cup {None}
    BY <2>1 DEF Held, LockPurchase, LockSequence, InsertSale
  <2> QED BY <1>1, <1>3, <2>1, <2>2, <2>3 DEF Held, LocksKept
<1> QED BY <1>2, <1>3, <1>4, <1>5, <1>6 DEF Advanced, Session

\* Every statement moves on and knows what it has read.
LEMMA AdvancedStatement ==
  ASSUME LedgerIndInv, NEW h \in Handlers, Statement(h)
  PROVE  Advanced(h)
BY AdvancedLoadSale, AdvancedLoadPayments, AdvancedLoadRetailer, AdvancedLoadSales,
   AdvancedSkipLock, AdvancedLockRetailer, AdvancedLockSales, AdvancedLock DEF Statement

-----------------------------------------------------------------------------
(* The end of a request.                                                   *)

\* Its locks are free, the others keep theirs.
LEMMA Ended ==
  ASSUME LedgerIndInv, NEW h \in Handlers, EndRequest(h)
  PROVE  /\ Held' /\ ~ Running(h)' /\ LocksKept(h)
         /\ \A g \in Handlers : g # h => txn'[g] = txn[g]
         /\ requests' = requests /\ crew' = crew /\ requests \in Nat
<1>1. Held /\ None \notin Handlers
  BY LedgerAssumption DEF LedgerIndInv
<1>2. Idle \in Txn /\ Idle.op = None
  <2>1. NoRow \in Loaded
    BY DEF NoRow, Loaded
  <2> QED BY <2>1 DEF Idle, Txn
<1>3. txn' \in [Handlers -> Txn] /\ txn'[h] = Idle /\ \A g \in Handlers : g # h => txn'[g] = txn[g]
  BY <1>1, <1>2 DEF Held, EndRequest
<1>4. Held'
  <2>1. /\ retailerLock' \in Handlers \cup {None} /\ shareLock' \in Handlers \cup {None}
        /\ sequenceLock' \in Handlers \cup {None}
    BY <1>1 DEF Held, EndRequest
  <2>2. saleLock' \in [SaleIds -> Handlers \cup {None}]
    BY <1>1 DEF Held, EndRequest
  <2>3. purchaseLock' \in [Purchases -> Handlers \cup {None}]
    BY <1>1 DEF Held, EndRequest
  <2> QED BY <1>1, <1>3, <2>1, <2>2, <2>3 DEF Held, EndRequest
<1>5. LocksKept(h)
  BY <1>1 DEF LocksKept, EndRequest
<1>6. ~ Running(h)'
  BY <1>2, <1>3 DEF Running
<1> QED BY <1>1, <1>3, <1>4, <1>5, <1>6 DEF EndRequest, Held

\* What the commit of a request that runs beside others may change.
Guarantee(h) ==
  Kind(h) \in Locking =>
    /\ credit' = credit \/ retailerLock = h
    /\ opening' = opening \/ Kind(h) = "settle"
    /\ \A s \in SaleIds : sales'[s] = sales[s] \/ saleLock[s] \in {None, h}
    /\ \A p \in payments' : p \in payments \/ p.by = txn[h].by

\* When the tables and the books are right after a commit, so is what the others know.
LEMMA EndKeeps ==
  ASSUME SafeCrews, LedgerIndInv, NEW h \in Handlers, Running(h), EndRequest(h),
         Tables', Books', Guarantee(h)
  PROVE  LedgerIndInv'
<1>1. /\ Held' /\ ~ Running(h)' /\ LocksKept(h)
      /\ \A g \in Handlers : g # h => txn'[g] = txn[g]
      /\ requests' = requests /\ crew' = crew /\ requests \in Nat
  BY Ended
<1>2. ASSUME NEW g \in Handlers, Running(g)'
      PROVE  Session(g)'
  <2>1. g # h /\ txn'[g] = txn[g] /\ Running(g)
    BY <1>1, <1>2 DEF Running
  <2>2. Kind(g) \in Locking /\ Kind(h) \in Locking /\ ~ Solo(crew)
        /\ ~ (Kind(g) = "settle" /\ Kind(h) = "settle")
    BY <2>1, TwoRun
  <2>3. OwnNumber(g)
    BY <2>1 DEF LedgerIndInv, Session
  <2>4. retailerLock = g => retailerLock' = g /\ credit' = credit
    BY <1>1, <2>1, <2>2 DEF LocksKept, Guarantee
  <2>5. Kind(g) = "settle" => opening' = opening
    BY <2>2 DEF Guarantee
  <2>6. \A s \in SaleIds : saleLock[s] = g => saleLock'[s] = g /\ sales'[s] = sales[s]
    <3>1. None \notin Handlers
      BY LedgerAssumption
    <3> QED BY <1>1, <2>1, <2>2, <3>1 DEF LocksKept, Guarantee
  <2>7. \A p \in payments' : p.by # txn[g].by
    BY <2>1, <2>2, <2>3 DEF Guarantee, OwnNumber
  <2>8. \A f \in Handlers : f # g /\ Running(f)' => txn'[f].by # txn[g].by
    <3>1. \A f \in Handlers : Running(f)' => f # h /\ txn'[f] = txn[f] /\ Running(f)
      BY <1>1 DEF Running
    <3> QED BY <2>3, <3>1 DEF OwnNumber
  <2>9. crew' = crew /\ requests' \in Nat /\ requests <= requests'
    BY <1>1
  <2>10. Solo(crew) \/ Kind(g) \notin Locking => UNCHANGED tables
    BY <2>2
  <2> QED BY <2>1, <2>4, <2>5, <2>6, <2>7, <2>8, <2>9, <2>10, OthersKnow
<1> QED BY <1>1, <1>2 DEF LedgerIndInv

\* A refused or crashed request leaves the books alone.
LEMMA EndUnchanged ==
  ASSUME SafeCrews, LedgerIndInv, NEW h \in Handlers, Running(h), EndRequest(h), UNCHANGED tables
  PROVE  LedgerIndInv'
<1>1. Tables /\ Books
  BY DEF LedgerIndInv
<1>2. crew' = crew /\ requests' = requests
  BY DEF EndRequest
<1>3. Tables'
  BY <1>1 DEF Tables, tables
<1>4. Books'
  BY <1>1, <1>2 DEF Books, SaleLedger, WalletLedger, OpeningLedger, Invoiced, Recorded, Spared, Active, Solo, tables
<1>5. Guarantee(h)
  BY DEF Guarantee, tables
<1> QED BY <1>3, <1>4, <1>5, EndKeeps

\* A statement leaves them alone, too.
LEMMA StatementKeeps ==
  ASSUME SafeCrews, LedgerIndInv, NEW h \in Handlers, Statement(h)
  PROVE  LedgerIndInv'
<1>1. Advanced(h)
  BY AdvancedStatement
<1>2. /\ UNCHANGED tables /\ requests' = requests /\ crew' = crew
      /\ Held' /\ Running(h) /\ Session(h)' /\ txn'[h].by = txn[h].by
      /\ \A g \in Handlers : g # h => txn'[g] = txn[g]
      /\ LocksKept(h)
  BY <1>1 DEF Advanced
<1>3. Tables /\ Books /\ requests \in Nat
  BY DEF LedgerIndInv, Held
<1>4. Tables'
  BY <1>2, <1>3 DEF Tables, tables
<1>5. Books'
  BY <1>2, <1>3 DEF Books, SaleLedger, WalletLedger, OpeningLedger, Invoiced, Recorded, Spared, Active, Solo, tables
<1>6. ASSUME NEW g \in Handlers, Running(g)'
      PROVE  Session(g)'
  <2>1. CASE g = h
    BY <1>2, <2>1
  <2>2. CASE g # h
    <3>1. txn'[g] = txn[g] /\ Running(g)
      BY <1>2, <1>6, <2>2 DEF Running
    <3>2. OwnNumber(g)
      BY <3>1 DEF LedgerIndInv, Session
    <3>3. \A p \in payments' : p.by # txn[g].by
      BY <1>2, <3>2 DEF OwnNumber, tables
    <3>4. \A f \in Handlers : f # g /\ Running(f)' => txn'[f].by # txn[g].by
      <4>1. \A f \in Handlers : Running(f)' => Running(f) /\ txn'[f].by = txn[f].by
        BY <1>2 DEF Running
      <4> QED BY <3>2, <4>1 DEF OwnNumber
    <3>5. credit' = credit /\ opening' = opening /\ sales' = sales
      BY <1>2 DEF tables
    <3>6. retailerLock = g => retailerLock' = g /\ credit' = credit
      BY <1>2, <2>2, <3>5 DEF LocksKept
    <3>7. \A s \in SaleIds : saleLock[s] = g => saleLock'[s] = g /\ sales'[s] = sales[s]
      BY <1>2, <2>2, <3>5 DEF LocksKept
    <3>8. requests' \in Nat /\ requests <= requests'
      BY <1>2, <1>3
    <3> QED BY <1>2, <2>2, <3>1, <3>3, <3>4, <3>5, <3>6, <3>7, <3>8, OthersKnow
  <2> QED BY <2>1, <2>2
<1> QED BY <1>2, <1>4, <1>5, <1>6 DEF LedgerIndInv

\* A new request has a number of its own and knows nothing yet.
LEMMA ServeKeeps ==
  ASSUME SafeCrews, LedgerIndInv, NEW h \in Handlers, NEW op \in Requests, Serve(h, op)
  PROVE  LedgerIndInv'
<1> DEFINE t == [Idle EXCEPT !.op = op, !.step = 1, !.by = requests + 1]
<1>1. /\ Step(h) = "idle" /\ op.kind \in crew[h] /\ requests' = requests + 1
      /\ txn' = [txn EXCEPT ![h] = t] /\ UNCHANGED <<tables, locks, crew>>
  BY DEF Serve
<1>2. Tables /\ Books /\ Held
  BY DEF LedgerIndInv
<1>3. t \in Txn /\ t.op = op /\ t.step = 1 /\ t.by = requests + 1 /\ t.retailer = None
  <2>1. NoRow \in Loaded
    BY DEF NoRow, Loaded
  <2>2. requests + 1 \in Nat
    BY <1>2 DEF Held
  <2> QED BY <2>1, <2>2 DEF Idle, Txn
<1> HIDE DEF t
<1>4. txn' \in [Handlers -> Txn] /\ txn'[h] = t /\ \A g \in Handlers : g # h => txn'[g] = txn[g]
  BY <1>1, <1>2, <1>3 DEF Held
<1>5. Tables'
  BY <1>1, <1>2 DEF Tables, tables
<1>6. Held'
  BY <1>1, <1>2, <1>4 DEF Held, locks
<1>7. Books'
  <2>1. Recorded'
    <3>1. payments' = payments /\ sales' = sales /\ requests \in Nat
      BY <1>1, <1>2 DEF tables, Held
    <3>2. \A p \in payments : p.by \in Nat
      BY <1>2 DEF Tables, PaymentRow
    <3> QED BY <1>1, <1>2, <3>1, <3>2 DEF Books, Recorded
  <2> QED BY <1>1, <1>2, <2>1 DEF Books, SaleLedger, WalletLedger, OpeningLedger, Invoiced, Spared, Active, Solo, tables
<1>8. \A p \in payments : p.by # requests + 1
  <2>1. \A p \in payments : p.by \in Nat /\ p.by <= requests
    BY <1>2 DEF Tables, PaymentRow, Books, Recorded
  <2> QED BY <1>2, <2>1 DEF Held
<1>9. \A g \in Handlers : Running(g) => txn[g].by # requests + 1
  <2>1. \A g \in Handlers : Running(g) => txn[g].by \in 1..requests
    BY DEF LedgerIndInv, Session, Serving
  <2> QED BY <1>2, <2>1 DEF Held
<1>10. ASSUME NEW g \in Handlers, Running(g)'
       PROVE  Session(g)'
  <2>1. CASE g = h
    <3>1. Kind(h)' = op.kind /\ op.kind \in Kinds
      BY <1>3, <1>4, OpFields DEF Kind
    <3>2. Serving(h)'
      <4>1. 1 \in 1..Len(Script[op.kind])
        BY <3>1, Begins
      <4>2. requests + 1 \in 1..requests'
        BY <1>1, <1>2 DEF Held
      <4> QED BY <1>1, <1>3, <1>4, <3>1, <4>1, <4>2 DEF Serving
    <3>3. OwnNumber(h)'
      <4>1. payments' = payments
        BY <1>1 DEF tables
      <4>2. \A f \in Handlers : f # h => (Running(f)' <=> Running(f))
        BY <1>4 DEF Running
      <4> QED BY <1>3, <1>4, <1>8, <1>9, <4>1, <4>2 DEF OwnNumber
    <3>4. KnowsRetailer(h)' /\ KnowsSales(h)' /\ KnowsRows(h)'
      BY <1>3, <1>4 DEF KnowsRetailer, KnowsSales, KnowsRows, Past
    <3> QED BY <2>1, <3>2, <3>3, <3>4 DEF Session
  <2>2. CASE g # h
    <3>1. txn'[g] = txn[g] /\ Running(g)
      BY <1>4, <1>10, <2>2 DEF Running
    <3>2. OwnNumber(g)
      BY <3>1 DEF LedgerIndInv, Session
    <3>3. \A p \in payments' : p.by # txn[g].by
      BY <1>1, <3>2 DEF OwnNumber, tables
    <3>4. \A f \in Handlers : f # g /\ Running(f)' => txn'[f].by # txn[g].by
      <4>1. \A f \in Handlers : f # h => (Running(f)' <=> Running(f)) /\ txn'[f] = txn[f]
        BY <1>4 DEF Running
      <4> QED BY <1>3, <1>4, <1>9, <3>1, <3>2, <4>1 DEF OwnNumber
    <3>5. /\ credit' = credit /\ opening' = opening /\ sales' = sales
          /\ retailerLock' = retailerLock /\ saleLock' = saleLock /\ crew' = crew
      BY <1>1 DEF tables, locks
    <3>6. requests' \in Nat /\ requests <= requests' /\ UNCHANGED tables
      BY <1>1, <1>2 DEF Held
    <3> QED BY <2>2, <3>1, <3>3, <3>4, <3>5, <3>6, OthersKnow
  <2> QED BY <2>1, <2>2
<1> QED BY <1>5, <1>6, <1>7, <1>10 DEF LedgerIndInv

-----------------------------------------------------------------------------
(* Commits.                                                                *)

\* A commit ends an accepted request, which has read all it needs.
LEMMA AtCommit ==
  ASSUME LedgerIndInv, NEW h \in Handlers, NEW kind, Committing(h, kind)
  PROVE  /\ Running(h) /\ Kind(h) = kind /\ kind \in Kinds /\ txn[h].op.kind = kind
         /\ EndRequest(h) /\ Accepted(txn[h])
         /\ txn[h].op \in Requests /\ txn[h] \in Txn /\ txn[h].by \in 1..requests
         /\ OwnNumber(h) /\ KnowsRetailer(h) /\ KnowsSales(h) /\ KnowsRows(h)
         /\ kind \in {"create", "pay", "edit"} => txn[h].step = 5
         /\ kind \in {"cancel", "settle"} => txn[h].step = 4
         /\ kind = "payout" => txn[h].step = 2
         /\ kind \in {"purchase", "balance"} => txn[h].step = 3
         /\ kind = "void" => txn[h].step = 6
         /\ requests' = requests /\ crew' = crew
<1>1. Step(h) = "commit" /\ txn[h].op.kind = kind /\ Accepted(txn[h]) /\ EndRequest(h)
  BY DEF Committing
<1>2. Kind(h) = kind
  BY <1>1 DEF Kind
<1>3. requests' = requests /\ crew' = crew
  BY <1>1 DEF EndRequest
<1>4. /\ Running(h) /\ Session(h) /\ Serving(h)
      /\ KnowsRetailer(h) /\ KnowsSales(h) /\ KnowsRows(h)
      /\ Kind(h) \in Kinds /\ txn[h] \in Txn /\ txn[h].op \in Requests
      /\ txn[h].step \in 1..Len(Script[Kind(h)])
      /\ Step(h) = Script[Kind(h)][txn[h].step]
  BY <1>1, Stands
<1>5. OwnNumber(h) /\ txn[h].by \in 1..requests
  BY <1>4 DEF Session, Serving
<1>6. /\ kind \in {"create", "pay", "edit"} => txn[h].step = 5
      /\ kind \in {"cancel", "settle"} => txn[h].step = 4
      /\ kind = "payout" => txn[h].step = 2
      /\ kind \in {"purchase", "balance"} => txn[h].step = 3
      /\ kind = "void" => txn[h].step = 6
  BY <1>1, <1>2, <1>4, Where
<1> QED BY <1>1, <1>2, <1>3, <1>4, <1>5, <1>6

\* Rows are added to some sales, and each of these is paid that much more.
LEMMA RowsAdded ==
  ASSUME Tables, Books, requests \in Nat, requests' = requests, crew' = crew,
         NEW D \in SUBSET SaleIds, NEW row \in [D -> PaymentRow],
         payments' = payments \cup {row[s] : s \in D},
         \A s \in D : row[s].sale = s /\ row[s].by <= requests,
         \A s \in D : \A p \in payments : p.by # row[s].by,
         \A s \in D : row[s].purchase # None => sales[s].status # "none",
         \A s \in D : sales[s].status # "cancelled",
         NEW total \in [D -> Nat],
         \A s \in D : sales[s].paid + row[s].money + row[s].wallet \in 0..total[s],
         sales' = [s \in SaleIds |->
                     IF s \in D THEN Sale(total[s], sales[s].paid + row[s].money + row[s].wallet)
                                ELSE sales[s]]
  PROVE  /\ sales' \in [SaleIds -> SaleRow]
         /\ payments' \in SUBSET PaymentRow /\ IsFiniteSet(payments')
         /\ SaleLedger' /\ Invoiced' /\ Recorded' /\ Spared'
<1> DEFINE sum(s) == sales[s].paid + row[s].money + row[s].wallet
<1>1. /\ sales \in [SaleIds -> SaleRow] /\ payments \in SUBSET PaymentRow /\ IsFiniteSet(payments)
      /\ SaleLedger /\ Invoiced /\ Recorded /\ Spared
  BY DEF Tables, Books
<1>2. ASSUME NEW s \in D
      PROVE  /\ sales'[s] \in SaleRow
             /\ sales'[s].total = total[s] /\ sales'[s].paid = sum(s) /\ sales'[s].due = total[s] - sum(s)
             /\ sales'[s].status = SaleStatus(total[s], sum(s))
             /\ sales'[s].status \in {"open", "partial", "settled"}
  <2>1. sales'[s] = Sale(total[s], sum(s)) /\ sum(s) \in 0..total[s] /\ total[s] \in Nat
    OBVIOUS
  <2> HIDE DEF sum
  <2> QED BY <2>1, SaleMade
<1>3. \A s \in SaleIds \ D : sales'[s] = sales[s]
  OBVIOUS
<1>4. sales' \in [SaleIds -> SaleRow]
  <2>1. \A s \in SaleIds : sales'[s] \in SaleRow
    BY <1>1, <1>2, <1>3
  <2>2. sales' = [s \in SaleIds |-> sales'[s]]
    OBVIOUS
  <2> QED BY <2>1, <2>2
<1>5. payments' \in SUBSET PaymentRow
  BY <1>1
<1>6. IsFiniteSet(payments')
  <2>1. IsFiniteSet(D)
    BY LedgerAssumption, FS_Subset
  <2>2. row \in Surjection(D, {row[s] : s \in D})
    BY DEF Surjection
  <2>3. IsFiniteSet({row[s] : s \in D})
    BY <2>1, <2>2, FS_Surjection
  <2> QED BY <1>1, <2>3, FS_Union
<1> DEFINE of(s) == {p \in payments : p.sale = s}
           of2(s) == {p \in payments' : p.sale = s}
<1>7. ASSUME NEW s \in D PROVE sum(s) = Total(of2(s))
  <2>1. of2(s) = of(s) \cup {row[s]} /\ row[s] \notin of(s) /\ row[s] \in PaymentRow
    OBVIOUS
  <2>2. of(s) \in SUBSET PaymentRow /\ IsFiniteSet(of(s))
    BY <1>1, FS_Subset
  <2>3. sales[s].paid = Total(of(s)) /\ sales[s].paid \in Nat
    BY <1>1 DEF SaleLedger, SaleRow
  <2> HIDE DEF of, of2
  <2>4. Total(of(s) \cup {row[s]}) = Total(of(s)) + row[s].money + row[s].wallet
    BY <2>1, <2>2, AddRow
  <2> QED BY <2>1, <2>3, <2>4, Zenon
<1>8. ASSUME NEW s \in SaleIds \ D PROVE of2(s) = of(s)
  OBVIOUS
<1>9. SaleLedger'
  <2>1. ASSUME NEW s \in SaleIds
        PROVE  LET sale == sales'[s] IN
               /\ sale.paid = Total(of2(s))
               /\ sale.paid \in 0..sale.total
               /\ sale.due = sale.total - sale.paid
               /\ sale.status \notin {"none", "cancelled"} => sale.status = SaleStatus(sale.total, sale.paid)
    <3>1. CASE s \in D
      <4>1. sum(s) \in 0..total[s] /\ sum(s) = Total(of2(s))
        BY <3>1, <1>7
      <4> HIDE DEF sum, of2
      <4> QED BY <3>1, <4>1, <1>2
    <3>2. CASE s \notin D
      <4>1. sales'[s] = sales[s] /\ of2(s) = of(s)
        BY <3>2, <1>3, <1>8
      <4>2. LET sale == sales[s] IN
            /\ sale.paid = Total(of(s))
            /\ sale.paid \in 0..sale.total
            /\ sale.due = sale.total - sale.paid
            /\ sale.status \notin {"none", "cancelled"} => sale.status = SaleStatus(sale.total, sale.paid)
        BY <1>1 DEF SaleLedger
      <4> HIDE DEF of, of2
      <4> QED BY <4>1, <4>2
    <3> QED BY <3>1, <3>2
  <2> QED BY <2>1 DEF SaleLedger
<1>10. Invoiced'
  <2>1. ASSUME NEW s \in SaleIds, sales'[s].status \notin {"none", "cancelled"}
        PROVE  \E p \in payments' : p.sale = s /\ p.purchase = None
    <3>1. CASE s \in D /\ sales[s].status = "none"
      BY <3>1
    <3>2. CASE s \in D /\ sales[s].status # "none"
      BY <3>2, <1>1 DEF Invoiced
    <3>3. CASE s \notin D
      BY <3>3, <2>1, <1>1, <1>3 DEF Invoiced
    <3> QED BY <3>1, <3>2, <3>3
  <2> QED BY <2>1 DEF Invoiced
<1>11. \A p \in payments' : p \in payments \/ (\E s \in D : p = row[s])
  OBVIOUS
<1>12. \A p \in payments : p.sale \in SaleIds
  BY <1>1 DEF PaymentRow
<1>13. Recorded'
  <2>1. ASSUME NEW p \in payments'
        PROVE  sales'[p.sale].status # "none" /\ p.by <= requests
    <3>1. CASE p \in payments
      <4>1. CASE p.sale \in D
        BY <3>1, <4>1, <1>1, <1>2 DEF Recorded
      <4>2. CASE p.sale \notin D
        BY <3>1, <4>2, <1>1, <1>3, <1>12 DEF Recorded
      <4> QED BY <4>1, <4>2
    <3>2. CASE \E s \in D : p = row[s]
      <4>1. PICK s \in D : p = row[s]
        BY <3>2
      <4>2. p.sale = s /\ p.by <= requests
        BY <4>1
      <4> QED BY <4>2, <1>2
    <3> QED BY <1>11, <3>1, <3>2
  <2> QED BY <2>1 DEF Recorded
<1>14. Spared'
  <2>1. ASSUME NEW p \in payments', p.purchase # None, Solo(crew)
        PROVE  sales'[p.sale].status # "cancelled"
    <3>1. CASE p.sale \in D
      BY <3>1, <1>2
    <3>2. CASE p.sale \notin D
      <4>1. p \in payments
        BY <3>2, <1>11
      <4> QED BY <2>1, <3>2, <4>1, <1>1, <1>3, <1>12 DEF Spared
    <3> QED BY <3>1, <3>2
  <2> QED BY <2>1 DEF Spared, Solo
<1> QED BY <1>4, <1>5, <1>6, <1>9, <1>10, <1>13, <1>14

\* What the active purchases brought in.
Brought == SumFunction([p \in Active |-> purchases[p].total])

\* There are finitely many purchases.
LEMMA BroughtIsInt == ASSUME Tables PROVE Brought \in Int /\ IsFiniteSet(Active)
<1> DEFINE in == [p \in Active |-> purchases[p].total]
<1>1. IsFiniteSet(Active)
  BY LedgerAssumption, FS_Subset DEF Active
<1>2. IsFiniteSet(DOMAIN in) /\ \A p \in DOMAIN in : in[p] \in Int
  BY <1>1 DEF Tables, PurchaseRow, Active
<1> HIDE DEF in
<1>3. SumFunction(in) \in Int
  BY <1>2, SumIsInt
<1> QED BY <1>1, <1>3 DEF Brought, in

\* What happens to one sale and its payments.
LEMMA OneRow ==
  ASSUME LedgerIndInv, NEW s \in SaleIds, NEW row \in PaymentRow,
         row.sale = s, row.by <= requests, row.purchase = None, \A p \in payments : p.by # row.by,
         sales[s].status # "cancelled",
         NEW total \in Nat, sales[s].paid + row.money + row.wallet \in 0..total,
         sales' = [sales EXCEPT ![s] = Sale(total, sales[s].paid + row.money + row.wallet)],
         payments' = payments \cup {row},
         credit' = credit - row.wallet,
         UNCHANGED <<opening, purchases, paidOut, openingSet, openingPaid, requests, crew>>
  PROVE  Tables' /\ Books'
<1>1. Tables /\ Books /\ requests \in Nat
  BY DEF LedgerIndInv, Held
<1> DEFINE D == {s}
           r == [q \in D |-> row]
           n == [q \in D |-> total]
<1>2. D \in SUBSET SaleIds /\ r \in [D -> PaymentRow] /\ n \in [D -> Nat] /\ DOMAIN r = D
      /\ \A q \in D : q = s /\ r[q] = row /\ n[q] = total
  OBVIOUS
<1>3. payments' = payments \cup {r[q] : q \in D}
  OBVIOUS
<1>4. sales' = [q \in SaleIds |->
                  IF q \in D THEN Sale(n[q], sales[q].paid + r[q].money + r[q].wallet) ELSE sales[q]]
  BY <1>1 DEF Tables
<1> HIDE DEF D, r, n
<1>5. /\ sales' \in [SaleIds -> SaleRow]
      /\ payments' \in SUBSET PaymentRow /\ IsFiniteSet(payments')
      /\ SaleLedger' /\ Invoiced' /\ Recorded' /\ Spared'
  <2>1. /\ \A q \in D : r[q].sale = q /\ r[q].by <= requests
        /\ \A q \in D : \A p \in payments : p.by # r[q].by
        /\ \A q \in D : r[q].purchase # None => sales[q].status # "none"
        /\ \A q \in D : sales[q].status # "cancelled"
        /\ \A q \in D : sales[q].paid + r[q].money + r[q].wallet \in 0..n[q]
    BY <1>2
  <2> QED BY <1>1, <1>2, <1>3, <1>4, <2>1, RowsAdded
<1>6. WalletLedger'
  <2>1. WalletPart(payments') = WalletPart(payments) + row.wallet
    <3>1. payments \in SUBSET PaymentRow /\ IsFiniteSet(payments) /\ row \notin payments
      BY <1>1 DEF Tables
    <3> QED BY <3>1, AddRow
  <2>2. credit = Brought - WalletPart(payments) - paidOut
    BY <1>1 DEF Books, WalletLedger, Brought
  <2>3. Brought' = Brought
    BY DEF Brought, Active
  <2>4. Brought \in Int /\ WalletPart(payments) \in Int /\ paidOut \in Int /\ row.wallet \in Int
    BY <1>1, BroughtIsInt, RowSums DEF Tables, PaymentRow
  <2>5. credit' = Brought' - WalletPart(payments') - paidOut'
    BY <2>1, <2>2, <2>3, <2>4
  <2> QED BY <2>5 DEF WalletLedger, Brought
<1>7. Tables'
  <2>1. credit' \in Int
    BY <1>1 DEF Tables, PaymentRow
  <2> QED BY <1>1, <1>5, <2>1 DEF Tables
<1>8. OpeningLedger'
  BY <1>1 DEF Books, OpeningLedger
<1> QED BY <1>5, <1>6, <1>7, <1>8 DEF Books

\* The row of a request.
LEMMA PaymentMade ==
  ASSUME NEW s \in SaleIds, NEW by \in Nat, NEW money \in Nat, NEW wallet \in Nat,
         NEW id \in Purchases \cup {None}
  PROVE  LET row == Payment(s, by, money, wallet, id)
         IN row \in PaymentRow /\ row.sale = s /\ row.by = by /\ row.money = money
            /\ row.wallet = wallet /\ row.purchase = id
BY DEF Payment, PaymentRow

\* A sale and its invoice.
LEMMA SaleKeeps ==
  ASSUME SafeCrews, LedgerIndInv, NEW h \in Handlers, CommitSale(h)
  PROVE  LedgerIndInv'
<1> DEFINE op == txn[h].op
           row == Payment(op.sale, txn[h].by, op.money, op.wallet, None)
<1>1. /\ Committing(h, "create")
      /\ sales' = [sales EXCEPT ![op.sale] = Sale(op.total, Paid(op))]
      /\ payments' = payments \cup {row}
      /\ credit' = IF op.wallet > 0 THEN txn[h].retailer.credit - op.wallet ELSE credit
      /\ UNCHANGED <<opening, purchases, paidOut, openingSet, openingPaid>>
  BY DEF CommitSale
<1>2. /\ Running(h) /\ Kind(h) = "create" /\ op.kind = "create" /\ EndRequest(h) /\ Accepted(txn[h])
      /\ op \in Requests /\ txn[h].by \in 1..requests /\ OwnNumber(h) /\ KnowsRetailer(h)
      /\ txn[h].step = 5
      /\ requests' = requests /\ crew' = crew
  BY <1>1, AtCommit
<1>3. op.sale \in SaleIds /\ op.total \in Nat /\ op.money \in Nat /\ op.wallet \in Nat
  BY <1>2, OpFields
<1>4. sales[op.sale].status = "none" /\ Paid(op) <= op.total
  BY <1>2 DEF Accepted
<1>5. Tables /\ Books /\ requests \in Nat
  BY DEF LedgerIndInv, Held
<1>6. sales[op.sale].paid = 0
  <2>1. {p \in payments : p.sale = op.sale} = {}
    BY <1>4, <1>5 DEF Books, Recorded
  <2>2. sales[op.sale].paid = Total({p \in payments : p.sale = op.sale})
    BY <1>3, <1>5 DEF Books, SaleLedger
  <2> QED BY <2>1, <2>2, NoRowSums, Zenon
<1>7. row \in PaymentRow /\ row.sale = op.sale /\ row.by = txn[h].by /\ row.money = op.money
      /\ row.wallet = op.wallet /\ row.purchase = None
  <2>1. txn[h].by \in Nat
    BY <1>2, <1>5
  <2> HIDE DEF op
  <2> QED BY <1>3, <2>1, PaymentMade
<1>8. sales[op.sale].paid + row.money + row.wallet = Paid(op) /\ Paid(op) \in 0..op.total
  <2> HIDE DEF op, row
  <2> QED BY <1>3, <1>4, <1>6, <1>7 DEF Paid
<1>9. credit' = credit - row.wallet
  <2>1. txn[h].retailer.credit = credit
    BY <1>2 DEF KnowsRetailer, Past, TheRetailer
  <2>2. credit \in Int
    BY <1>5 DEF Tables
  <2> HIDE DEF op, row
  <2> QED BY <1>1, <1>3, <1>7, <2>1, <2>2
<1>10. \A p \in payments : p.by # row.by
  BY <1>2, <1>7 DEF OwnNumber
<1>11. row.by <= requests /\ sales[op.sale].status # "cancelled"
  BY <1>2, <1>4, <1>5, <1>7
<1> HIDE DEF op, row
<1>12. Tables' /\ Books'
  <2>1. sales[op.sale].paid + row.money + row.wallet \in 0..op.total
    BY <1>8
  <2>2. sales' = [sales EXCEPT ![op.sale] = Sale(op.total, sales[op.sale].paid + row.money + row.wallet)]
    BY <1>1, <1>8, Zenon
  <2> QED BY <1>1, <1>2, <1>3, <1>7, <1>9, <1>10, <1>11, <2>1, <2>2, OneRow
<1>13. Guarantee(h)
  BY <1>2 DEF Guarantee, Locking
<1> QED BY <1>2, <1>12, <1>13, EndKeeps

\* One more payment of a sale.
LEMMA PaymentKeeps ==
  ASSUME SafeCrews, LedgerIndInv, NEW h \in Handlers, CommitPayment(h)
  PROVE  LedgerIndInv'
<1> DEFINE op == txn[h].op
           row == Payment(op.sale, txn[h].by, op.money, op.wallet, None)
           sale == sales[op.sale]
<1>1. /\ Committing(h, "pay")
      /\ sales' = [sales EXCEPT ![op.sale] =
                     Update(sale, txn[h].sales[op.sale], PaidMore(txn[h].sales[op.sale], Paid(op)))]
      /\ payments' = payments \cup {row}
      /\ credit' = IF op.wallet > 0 THEN txn[h].retailer.credit - op.wallet ELSE credit
      /\ UNCHANGED <<opening, purchases, paidOut, openingSet, openingPaid>>
  BY DEF CommitPayment, WriteSale
<1>2. /\ Running(h) /\ Kind(h) = "pay" /\ op.kind = "pay" /\ EndRequest(h) /\ Accepted(txn[h])
      /\ op \in Requests /\ txn[h].by \in 1..requests /\ OwnNumber(h)
      /\ KnowsRetailer(h) /\ KnowsSales(h)
      /\ txn[h].step = 5
      /\ requests' = requests /\ crew' = crew
  BY <1>1, AtCommit
<1>3. op.sale \in SaleIds /\ op.money \in Nat /\ op.wallet \in Nat
  BY <1>2, OpFields
<1>4. txn[h].sales[op.sale] = sale
  BY <1>2 DEF KnowsSales, Past
<1>5. sale.status \in {"open", "partial"} /\ Paid(op) \in 1..sale.due
  <2>1. txn[h].sales[op.sale].status \in {"open", "partial"} /\ Paid(op) \in 1..txn[h].sales[op.sale].due
    BY <1>2 DEF Accepted
  <2> HIDE DEF op, sale
  <2> QED BY <1>4, <2>1
<1>6. Tables /\ Books /\ requests \in Nat
  BY DEF LedgerIndInv, Held
<1>7. sale \in SaleRow /\ sale.paid \in 0..sale.total /\ sale.due = sale.total - sale.paid
  BY <1>3, <1>6 DEF Tables, Books, SaleLedger
<1>8. row \in PaymentRow /\ row.sale = op.sale /\ row.by = txn[h].by /\ row.money = op.money
      /\ row.wallet = op.wallet /\ row.purchase = None
  <2>1. txn[h].by \in Nat
    BY <1>2, <1>6
  <2> HIDE DEF op
  <2> QED BY <1>3, <2>1, PaymentMade
<1> DEFINE new == sale.paid + row.money + row.wallet
<1>9. new = sale.paid + Paid(op) /\ new \in 0..sale.total /\ sale.total \in Nat
  <2> HIDE DEF op, row, sale
  <2> QED BY <1>3, <1>5, <1>7, <1>8 DEF Paid, SaleRow
<1>10. sales' = [sales EXCEPT ![op.sale] = Sale(sale.total, new)]
  <2> HIDE DEF sale, op
  <2>1. PaidMore(sale, Paid(op)) = Sale(sale.total, new)
    BY <1>9, Zenon DEF PaidMore
  <2>2. Sale(sale.total, new) \in SaleRow
    <3> HIDE DEF new
    <3> QED BY <1>9, SaleMade
  <2> HIDE DEF new
  <2>3. Update(sale, sale, Sale(sale.total, new)) = Sale(sale.total, new)
    BY <1>7, <2>2, UpdateFresh
  <2> QED BY <1>1, <1>4, <2>1, <2>3, Zenon
<1>11. credit' = credit - row.wallet
  <2>1. txn[h].retailer.credit = credit
    BY <1>2 DEF KnowsRetailer, Past, TheRetailer
  <2>2. credit \in Int
    BY <1>6 DEF Tables
  <2> HIDE DEF op, row
  <2> QED BY <1>1, <1>3, <1>8, <2>1, <2>2
<1>12. \A p \in payments : p.by # row.by
  BY <1>2, <1>8 DEF OwnNumber
<1>13. row.by <= requests /\ sale.status # "cancelled"
  BY <1>2, <1>5, <1>6, <1>8
<1> HIDE DEF op, row
<1>14. Tables' /\ Books'
  BY <1>1, <1>2, <1>3, <1>8, <1>9, <1>10, <1>11, <1>12, <1>13, OneRow
<1>15. Guarantee(h)
  BY <1>2 DEF Guarantee, Locking
<1> QED BY <1>2, <1>14, <1>15, EndKeeps

\* All payments of a sale make way for one.
LEMMA EditKeeps ==
  ASSUME SafeCrews, LedgerIndInv, NEW h \in Handlers, CommitEdit(h)
  PROVE  LedgerIndInv'
<1> DEFINE op == txn[h].op
           rows == txn[h].rows
           first == Invoice(rows)
           row == Payment(op.sale, first.by, op.money, op.wallet, None)
           kept == {p \in payments : p.sale = op.sale => \A q \in rows : q.by # p.by}
           sale == sales[op.sale]
           new == Sale(op.total, Paid(op))
<1>1. /\ Committing(h, "edit")
      /\ sales' = [sales EXCEPT ![op.sale] = Update(sale, txn[h].sales[op.sale], new)]
      /\ payments' = kept \cup {row}
      /\ credit' = IF MovesWallet(txn[h]) THEN txn[h].retailer.credit + WalletPart(rows) - op.wallet
                                          ELSE credit
      /\ UNCHANGED <<opening, purchases, paidOut, openingSet, openingPaid>>
  BY DEF CommitEdit, WriteSale
<1>2. /\ Running(h) /\ Kind(h) = "edit" /\ op.kind = "edit" /\ EndRequest(h) /\ Accepted(txn[h])
      /\ op \in Requests
      /\ KnowsRetailer(h) /\ KnowsSales(h) /\ KnowsRows(h)
      /\ txn[h].step = 5
      /\ requests' = requests /\ crew' = crew
  BY <1>1, AtCommit
<1>3. op.sale \in SaleIds /\ op.total \in Nat /\ op.money \in Nat /\ op.wallet \in Nat
  BY <1>2, OpFields
<1>4. txn[h].sales[op.sale] = sale /\ rows = OfSale(payments, op.sale)
  BY <1>2 DEF KnowsSales, KnowsRows, Past
<1>5. sale.status \notin {"none", "cancelled"} /\ Paid(op) \in 0..op.total
  <2>1. Modifiable(txn[h]) /\ Paid(op) \in 1..op.total
    BY <1>2 DEF Accepted
  <2>2. txn[h].sales[op.sale].status \notin {"none", "cancelled"}
    BY <2>1 DEF Modifiable
  <2> HIDE DEF op, sale
  <2> QED BY <1>3, <1>4, <2>1, <2>2
<1>6. Tables /\ Books /\ requests \in Nat
  BY DEF LedgerIndInv, Held
<1>7. payments \in SUBSET PaymentRow /\ IsFiniteSet(payments) /\ sale \in SaleRow
  BY <1>3, <1>6 DEF Tables
<1>8. rows \in SUBSET payments /\ rows \in SUBSET PaymentRow /\ IsFiniteSet(rows) /\ rows # {}
  <2>1. \E p \in payments : p.sale = op.sale
    <3> HIDE DEF op
    <3> QED BY <1>3, <1>5, <1>6 DEF Books, Invoiced
  <2>2. rows \in SUBSET payments /\ rows # {}
    <3> HIDE DEF op, rows
    <3> QED BY <1>4, <2>1 DEF OfSale
  <2> QED BY <1>7, <2>2, FS_Subset
<1>9. first \in rows
  <2> HIDE DEF rows
  <2> QED BY <1>8, InvoiceIn
<1> HIDE DEF first
<1>10. kept = payments \ rows
  <2> HIDE DEF op, rows
  <2> QED BY <1>4 DEF OfSale
<1>11. row \in PaymentRow /\ row.sale = op.sale /\ row.by = first.by /\ row.money = op.money
       /\ row.wallet = op.wallet /\ row.purchase = None
  <2>1. first.by \in Nat
    <3> HIDE DEF rows
    <3> QED BY <1>8, <1>9 DEF PaymentRow
  <2> HIDE DEF op
  <2> QED BY <1>3, <2>1, PaymentMade
<1>12. /\ new \in SaleRow /\ new.total = op.total /\ new.paid = Paid(op)
       /\ new.due = op.total - Paid(op) /\ new.status = SaleStatus(op.total, Paid(op))
       /\ new.status \in {"open", "partial", "settled"}
  <2> HIDE DEF op
  <2> QED BY <1>3, <1>5, SaleMade
<1> HIDE DEF new
<1>13. sales' = [sales EXCEPT ![op.sale] = new]
  <2> HIDE DEF op, sale
  <2> QED BY <1>1, <1>4, <1>7, <1>12, UpdateFresh
<1> HIDE DEF row, kept, rows, op, sale
<1>14. sales' \in [SaleIds -> SaleRow] /\ sales'[op.sale] = new
       /\ \A s \in SaleIds : s # op.sale => sales'[s] = sales[s]
  BY <1>3, <1>6, <1>12, <1>13 DEF Tables
<1>15. kept \in SUBSET PaymentRow /\ IsFiniteSet(kept) /\ kept \in SUBSET payments
       /\ \A p \in kept : p.sale # op.sale
  <2>1. \A p \in payments \ rows : p.sale # op.sale
    BY <1>4 DEF OfSale
  <2> QED BY <1>7, <1>10, <2>1, FS_Difference
<1>16. payments' \in SUBSET PaymentRow /\ IsFiniteSet(payments') /\ row \notin kept
  BY <1>1, <1>11, <1>15, FS_AddElement
<1>17. SaleLedger'
  <2>1. ASSUME NEW s \in SaleIds
        PROVE  LET sale2 == sales'[s] IN
               /\ sale2.paid = Total({p \in payments' : p.sale = s})
               /\ sale2.paid \in 0..sale2.total
               /\ sale2.due = sale2.total - sale2.paid
               /\ sale2.status \notin {"none", "cancelled"} => sale2.status = SaleStatus(sale2.total, sale2.paid)
    <3>1. CASE s = op.sale
      <4>1. {p \in payments' : p.sale = s} = {} \cup {row}
        BY <1>1, <1>11, <1>15, <3>1
      <4>2. Total({} \cup {row}) = Total({}) + row.money + row.wallet
        <5>1. {} \in SUBSET PaymentRow /\ IsFiniteSet({}) /\ row \notin {}
          BY FS_EmptySet
        <5> QED BY <1>11, <5>1, AddRow
      <4>3. Total({} \cup {row}) = Paid(op)
        BY <1>3, <1>11, <4>2, NoRowSums DEF Paid
      <4>4. Paid(op) = Total({p \in payments' : p.sale = s})
        BY <4>1, <4>3, Zenon
      <4> QED BY <1>5, <1>12, <1>14, <3>1, <4>4
    <3>2. CASE s # op.sale
      <4>1. sales'[s] = sales[s]
        BY <1>14, <3>2
      <4>2. {p \in payments' : p.sale = s} = {p \in payments : p.sale = s}
        <5>1. \A p \in rows : p.sale = op.sale
          BY <1>4 DEF OfSale
        <5> QED BY <1>1, <1>10, <1>11, <3>2, <5>1
      <4>3. LET sale2 == sales[s] IN
            /\ sale2.paid = Total({p \in payments : p.sale = s})
            /\ sale2.paid \in 0..sale2.total
            /\ sale2.due = sale2.total - sale2.paid
            /\ sale2.status \notin {"none", "cancelled"} => sale2.status = SaleStatus(sale2.total, sale2.paid)
        BY <1>6 DEF Books, SaleLedger
      <4> QED BY <4>1, <4>2, <4>3, Zenon
    <3> QED BY <3>1, <3>2
  <2> QED BY <2>1 DEF SaleLedger
<1>18. WalletLedger'
  <2>1. WalletPart(payments) = WalletPart(rows) + WalletPart(kept)
    BY <1>7, <1>8, <1>10, SplitRows
  <2>2. WalletPart(payments') = WalletPart(kept) + row.wallet
    BY <1>1, <1>11, <1>15, <1>16, AddRow
  <2>3. credit = Brought - WalletPart(payments) - paidOut
    BY <1>6 DEF Books, WalletLedger, Brought
  <2>4. Brought' = Brought
    BY <1>1 DEF Brought, Active
  <2>5. Brought \in Int /\ WalletPart(kept) \in Nat /\ WalletPart(rows) \in Nat /\ paidOut \in Int
    BY <1>6, <1>8, <1>15, BroughtIsInt, RowSums DEF Tables
  <2>6. credit' = credit + WalletPart(rows) - op.wallet
    <3>1. txn[h].retailer.credit = credit
      BY <1>2 DEF KnowsRetailer, Past, TheRetailer
    <3>2. MovesWallet(txn[h]) <=> op.wallet > 0 \/ WalletPart(rows) > 0
      BY <1>2 DEF MovesWallet, op, rows
    <3>3. credit \in Int
      BY <1>6 DEF Tables
    <3> QED BY <1>1, <1>3, <2>5, <3>1, <3>2, <3>3
  <2>7. credit' = Brought' - WalletPart(payments') - paidOut'
    BY <1>1, <1>3, <1>11, <2>1, <2>2, <2>3, <2>4, <2>5, <2>6
  <2> QED BY <2>7 DEF WalletLedger, Brought
<1>19. Tables'
  <2>1. credit' \in Int
    <3>1. credit' = Brought' - WalletPart(payments') - paidOut'
      BY <1>18 DEF WalletLedger, Brought
    <3>2. Brought' = Brought
      BY <1>1 DEF Brought, Active
    <3>3. Brought \in Int /\ WalletPart(payments') \in Nat /\ paidOut' \in Int
      BY <1>1, <1>6, <1>16, BroughtIsInt, RowSums DEF Tables
    <3> QED BY <3>1, <3>2, <3>3
  <2> QED BY <1>1, <1>6, <1>14, <1>16, <2>1 DEF Tables
<1>20. Invoiced'
  <2>1. ASSUME NEW s \in SaleIds, sales'[s].status \notin {"none", "cancelled"}
        PROVE  \E p \in payments' : p.sale = s /\ p.purchase = None
    <3>1. CASE s = op.sale
      BY <1>1, <1>11, <3>1
    <3>2. CASE s # op.sale
      <4>1. PICK p \in payments : p.sale = s /\ p.purchase = None
        BY <1>6, <1>14, <2>1, <3>2 DEF Books, Invoiced
      <4>2. p \in kept
        BY <1>4, <1>10, <3>2, <4>1 DEF OfSale
      <4> QED BY <1>1, <4>1, <4>2
    <3> QED BY <3>1, <3>2
  <2> QED BY <2>1 DEF Invoiced
<1>21. Recorded'
  <2>1. first.by <= requests
    BY <1>6, <1>8, <1>9 DEF Books, Recorded
  <2>2. \A p \in kept : p.sale \in SaleIds
    BY <1>15 DEF PaymentRow
  <2>3. ASSUME NEW p \in payments'
        PROVE  sales'[p.sale].status # "none" /\ p.by <= requests
    <3>1. CASE p = row
      BY <1>11, <1>12, <1>14, <2>1, <3>1
    <3>2. CASE p \in kept
      BY <1>6, <1>14, <1>15, <2>2, <3>2 DEF Books, Recorded
    <3> QED BY <1>1, <3>1, <3>2
  <2> QED BY <1>2, <2>3 DEF Recorded
<1>22. Spared'
  <2>1. \A p \in kept : p.sale \in SaleIds
    BY <1>15 DEF PaymentRow
  <2>2. ASSUME NEW p \in payments', p.purchase # None, Solo(crew)
        PROVE  sales'[p.sale].status # "cancelled"
    <3>1. p \in kept
      BY <1>1, <1>11, <2>2
    <3> QED BY <1>6, <1>14, <1>15, <2>1, <2>2, <3>1 DEF Books, Spared
  <2> QED BY <1>2, <2>2 DEF Spared, Solo
<1>23. Guarantee(h)
  BY <1>2 DEF Guarantee, Locking
<1>24. OpeningLedger'
  BY <1>1, <1>6 DEF Books, OpeningLedger
<1>25. Books'
  BY <1>17, <1>18, <1>20, <1>21, <1>22, <1>24 DEF Books
<1> QED BY <1>2, <1>19, <1>23, <1>25, EndKeeps

\* A cancelled sale keeps its amounts and its payments.
LEMMA CancelKeeps ==
  ASSUME SafeCrews, LedgerIndInv, NEW h \in Handlers, CommitCancel(h)
  PROVE  /\ LedgerIndInv'
         /\ txn[h].op.sale \in SaleIds
         /\ sales' = [sales EXCEPT ![txn[h].op.sale] = [@ EXCEPT !.status = "cancelled"]]
<1> DEFINE s == txn[h].op.sale
           seen == txn[h].sales[s]
<1>1. /\ Committing(h, "cancel") /\ Writable(h, s)
      /\ sales' = [sales EXCEPT ![s] = Update(sales[s], seen, [seen EXCEPT !.status = "cancelled"])]
      /\ UNCHANGED <<opening, credit, payments, purchases, paidOut, openingSet, openingPaid>>
  BY DEF CommitCancel, WriteSale
<1>2. /\ Running(h) /\ Kind(h) = "cancel" /\ txn[h].op.kind = "cancel"
      /\ EndRequest(h) /\ Accepted(txn[h])
      /\ txn[h].op \in Requests /\ txn[h] \in Txn
      /\ KnowsSales(h) /\ KnowsRows(h)
      /\ txn[h].step = 4
      /\ requests' = requests /\ crew' = crew
  BY <1>1, AtCommit
<1>3. s \in SaleIds
  BY <1>2, OpFields
<1>4. Modifiable(txn[h])
  BY <1>2 DEF Accepted
<1>5. seen \in SaleRow
  <2>1. DOMAIN txn[h].sales = {s}
    BY <1>2 DEF KnowsSales, Past
  <2>2. txn[h].sales \in Loaded
    BY <1>2 DEF Txn
  <2> QED BY <2>1, <2>2 DEF Loaded
<1>6. seen.status \notin {"none", "cancelled"} /\ \A p \in txn[h].rows : p.purchase = None
  BY <1>4 DEF Modifiable
<1>7. Tables /\ Books /\ requests \in Nat
  BY DEF LedgerIndInv, Held
<1>8. sales[s] \in SaleRow
  BY <1>3, <1>7 DEF Tables
<1> DEFINE new == [sales[s] EXCEPT !.status = "cancelled"]
<1>9. Update(sales[s], seen, [seen EXCEPT !.status = "cancelled"]) = new /\ new \in SaleRow
  <2> HIDE DEF s, seen
  <2> QED BY <1>5, <1>6, <1>8, UpdateCancel
<1>10. new.status = "cancelled" /\ new.total = sales[s].total /\ new.paid = sales[s].paid
       /\ new.due = sales[s].due
  <2> HIDE DEF s
  <2> QED BY <1>8 DEF SaleRow
<1>11. sales' = [sales EXCEPT ![s] = new]
  <2> HIDE DEF new, s, seen
  <2> QED BY <1>1, <1>9
<1>12. sales' \in [SaleIds -> SaleRow] /\ sales'[s] = new /\ \A q \in SaleIds : q # s => sales'[q] = sales[q]
  <2> HIDE DEF new, s, seen
  <2> QED BY <1>3, <1>7, <1>9, <1>11 DEF Tables
<1> HIDE DEF seen, new, s
<1>13. Tables'
  BY <1>1, <1>7, <1>12 DEF Tables
<1>14. SaleLedger'
  <2>1. payments' = payments /\ SaleLedger
    BY <1>1, <1>7 DEF Books
  <2>2. ASSUME NEW q \in SaleIds
        PROVE  /\ sales'[q].total = sales[q].total /\ sales'[q].paid = sales[q].paid
               /\ sales'[q].due = sales[q].due
               /\ sales'[q].status = sales[q].status \/ sales'[q].status = "cancelled"
    BY <1>10, <1>12
  <2> QED BY <2>1, <2>2 DEF SaleLedger
<1>15. WalletLedger' /\ OpeningLedger'
  BY <1>1, <1>7 DEF Books, WalletLedger, OpeningLedger, Active
<1>16. Invoiced'
  BY <1>1, <1>7, <1>10, <1>12 DEF Books, Invoiced
<1>17. \A p \in payments : p.sale \in SaleIds
  BY <1>7 DEF Tables, PaymentRow
<1>18. Recorded'
  BY <1>1, <1>2, <1>7, <1>10, <1>12, <1>17 DEF Books, Recorded
<1>19. Spared'
  <2>1. ASSUME NEW p \in payments, p.purchase # None, Solo(crew)
        PROVE  sales'[p.sale].status # "cancelled"
    <3>1. txn[h].rows = OfSale(payments, s)
      BY <1>2, <2>1 DEF KnowsRows, Past, s
    <3>2. p.sale # s
      BY <1>6, <2>1, <3>1 DEF OfSale
    <3> QED BY <1>7, <1>12, <1>17, <2>1, <3>2 DEF Books, Spared
  <2> QED BY <1>1, <1>2, <2>1 DEF Spared, Solo
<1>20. Guarantee(h)
  BY <1>1, <1>12 DEF Guarantee, Writable
<1>21. LedgerIndInv'
  BY <1>2, <1>7, <1>13, <1>14, <1>15, <1>16, <1>18, <1>19, <1>20, EndKeeps DEF Books
<1> QED BY <1>3, <1>11, <1>21 DEF new, s

\* Request `by` spends a pool on sales it has locked and knows, with one row for each it pays.
PaysPool(owed, pool, by, row) ==
  /\ \A s \in DOMAIN owed : owed[s] = sales[s] /\ Pending(sales[s])
  /\ \A p \in payments : p.by # by
  /\ row \in [PaidSales(owed, pool) -> PaymentRow]
  /\ \A s \in PaidSales(owed, pool) :
       row[s].sale = s /\ row[s].by = by /\ row[s].money + row[s].wallet = Share(pool, owed, s)
  /\ PayOldestFirst(owed, pool)
  /\ payments' = payments \cup {row[s] : s \in PaidSales(owed, pool)}
  /\ requests' = requests /\ crew' = crew

\* A pool pays sales that are locked and known.
LEMMA PoolCommit ==
  ASSUME Tables, Books, requests \in Nat, NEW owed \in Loaded, NEW pool \in Nat,
         NEW by \in 1..requests, NEW row, PaysPool(owed, pool, by, row)
  PROVE  /\ sales' \in [SaleIds -> SaleRow]
         /\ payments' \in SUBSET PaymentRow /\ IsFiniteSet(payments')
         /\ SaleLedger' /\ Invoiced' /\ Recorded' /\ Spared'
         /\ \A s \in SaleIds : sales'[s] = sales[s] \/ s \in DOMAIN owed
         /\ \A p \in payments' : p \in payments \/ p.by = by
<1> USE DEF PaysPool
<1> DEFINE D == PaidSales(owed, pool)
           total == [s \in D |-> owed[s].total]
<1>1. D \in SUBSET SaleIds /\ D \in SUBSET DOMAIN owed /\ DOMAIN owed \in SUBSET SaleIds
  BY DEF PaidSales, Loaded
<1>2. ASSUME NEW s \in D
      PROVE  /\ owed[s] = sales[s] /\ total[s] = owed[s].total /\ total[s] \in Nat
             /\ sales[s].status \notin {"none", "cancelled"}
             /\ sales[s].paid + Share(pool, owed, s) \in 0..total[s]
  <2>1. owed[s] = sales[s] /\ Pending(sales[s]) /\ total[s] = owed[s].total /\ s \in DOMAIN owed
    BY <1>1
  <2>2. sales[s] \in SaleRow /\ sales[s].paid \in 0..sales[s].total
        /\ sales[s].due = sales[s].total - sales[s].paid
    BY <1>1 DEF Tables, Books, SaleLedger
  <2>3. Share(pool, owed, s) \in 0..owed[s].due
    BY <2>1, ShareFits
  <2> HIDE DEF total, D
  <2> QED BY <2>1, <2>2, <2>3 DEF Pending, SaleRow
<1>3. \A s \in D : row[s].money \in Nat /\ row[s].wallet \in Nat
  BY DEF PaymentRow
<1>4. ASSUME NEW s \in D
      PROVE  sales[s].paid + row[s].money + row[s].wallet = sales[s].paid + Share(pool, owed, s)
  <2>1. sales[s].paid \in Nat
    BY <1>1 DEF Tables, SaleRow
  <2> QED BY <1>3, <2>1
<1>5. total \in [D -> Nat]
  BY <1>2
<1>6. sales' = [s \in SaleIds |->
                  IF s \in D THEN Sale(total[s], sales[s].paid + row[s].money + row[s].wallet)
                             ELSE sales[s]]
  <2>1. ASSUME NEW s \in D
        PROVE  PaidMore(owed[s], Share(pool, owed, s))
                 = Sale(total[s], sales[s].paid + row[s].money + row[s].wallet)
    <3> HIDE DEF D, total
    <3> QED BY <1>2, <1>4, Zenon DEF PaidMore
  <2>2. \A s \in SaleIds : s \in DOMAIN owed /\ Share(pool, owed, s) > 0 <=> s \in D
    BY DEF PaidSales
  <2> HIDE DEF D, total
  <2>3. sales' = [s \in SaleIds |-> IF s \in D THEN PaidMore(owed[s], Share(pool, owed, s)) ELSE sales[s]]
    BY <2>2, Zenon DEF PayOldestFirst
  <2> QED BY <2>1, <2>3
<1> HIDE DEF D, total
<1>7. /\ sales' \in [SaleIds -> SaleRow]
      /\ payments' \in SUBSET PaymentRow /\ IsFiniteSet(payments')
      /\ SaleLedger' /\ Invoiced' /\ Recorded' /\ Spared'
  <2>1. row \in [D -> PaymentRow] /\ payments' = payments \cup {row[s] : s \in D}
    BY DEF D
  <2>2. /\ \A s \in D : row[s].sale = s /\ row[s].by <= requests
        /\ \A s \in D : \A p \in payments : p.by # row[s].by
        /\ \A s \in D : row[s].purchase # None => sales[s].status # "none"
        /\ \A s \in D : sales[s].status # "cancelled"
    BY <1>2 DEF D
  <2>3. \A s \in D : sales[s].paid + row[s].money + row[s].wallet \in 0..total[s]
    BY <1>2, <1>4
  <2> QED BY <1>1, <1>5, <1>6, <2>1, <2>2, <2>3, RowsAdded
<1>8. \A s \in SaleIds : sales'[s] = sales[s] \/ s \in DOMAIN owed
  BY <1>1, <1>6
<1>9. \A p \in payments' : p \in payments \/ p.by = by
  OBVIOUS
<1> QED BY <1>7, <1>8, <1>9

\* The opening balance and the oldest sales are paid.
LEMMA SettlementKeeps ==
  ASSUME SafeCrews, LedgerIndInv, NEW h \in Handlers, CommitSettlement(h)
  PROVE  LedgerIndInv'
<1> DEFINE t == txn[h]
           owed == t.sales
           onOpening == Least(t.op.money, t.retailer.opening)
           pool == t.op.money - onOpening
           D == PaidSales(owed, pool)
           row == [s \in D |-> Payment(s, t.by, Share(pool, owed, s), 0, None)]
<1>1. /\ Committing(h, "settle")
      /\ opening' = IF onOpening > 0 THEN t.retailer.opening - onOpening ELSE opening
      /\ openingPaid' = openingPaid + onOpening
      /\ PayOldestFirst(owed, pool)
      /\ payments' = payments \cup {Payment(s, t.by, Share(pool, owed, s), 0, None) : s \in D}
      /\ UNCHANGED <<credit, purchases, paidOut, openingSet>>
  BY DEF CommitSettlement
<1>2. /\ Running(h) /\ Kind(h) = "settle" /\ t.op.kind = "settle" /\ EndRequest(h)
      /\ t.op \in Requests /\ t \in Txn /\ t.by \in 1..requests /\ OwnNumber(h)
      /\ KnowsRetailer(h) /\ KnowsSales(h)
      /\ t.step = 4
      /\ requests' = requests /\ crew' = crew
  BY <1>1, AtCommit
<1>3. t.op.money \in Nat
  BY <1>2, OpFields
<1>4. Tables /\ Books /\ requests \in Nat
  BY DEF LedgerIndInv, Held
<1>5. t.retailer.opening = opening
  BY <1>2 DEF KnowsRetailer, Past
<1>6. opening \in Int /\ opening >= 0 /\ opening = openingSet - openingPaid
      /\ openingSet \in Int /\ openingPaid \in Nat
  BY <1>4 DEF Tables, Books, OpeningLedger
<1>7. onOpening \in Nat /\ onOpening <= opening /\ pool \in Nat /\ opening' = opening - onOpening
  <2>1. onOpening = IF t.op.money < opening THEN t.op.money ELSE opening
    BY <1>5 DEF Least
  <2> HIDE DEF onOpening, t
  <2> QED BY <1>1, <1>3, <1>5, <1>6, <2>1
<1>8. owed \in Loaded /\ \A s \in DOMAIN owed : saleLock[s] = h /\ owed[s] = sales[s] /\ Pending(sales[s])
  BY <1>2 DEF Txn, KnowsSales, Past
<1> HIDE DEF t, onOpening, owed, pool
<1>9. \A s \in D : Share(pool, owed, s) \in Nat /\ s \in SaleIds
  <2>1. D \in SUBSET DOMAIN owed /\ DOMAIN owed \in SUBSET SaleIds
    BY <1>8 DEF PaidSales, Loaded
  <2>2. \A s \in DOMAIN owed : owed[s].due \in Nat
    BY <1>4, <1>8, <2>1 DEF Tables, SaleRow
  <2>3. ASSUME NEW s \in D PROVE Share(pool, owed, s) \in Nat
    <3>1. s \in DOMAIN owed
      BY <2>1
    <3>2. Share(pool, owed, s) \in 0..owed[s].due
      BY <1>7, <1>8, <3>1, ShareFits
    <3> QED BY <2>2, <3>1, <3>2
  <2> QED BY <2>1, <2>3
<1>10. ASSUME NEW s \in D
       PROVE  row[s] \in PaymentRow /\ row[s].sale = s /\ row[s].by = t.by
              /\ row[s].money + row[s].wallet = Share(pool, owed, s) /\ row[s].wallet = 0
  <2>1. row[s] = Payment(s, t.by, Share(pool, owed, s), 0, None)
    OBVIOUS
  <2>2. t.by \in Nat
    BY <1>2, <1>4
  <2> HIDE DEF row, D
  <2> QED BY <1>9, <2>1, <2>2 DEF Payment, PaymentRow
<1>11. row \in [D -> PaymentRow]
  BY <1>10
<1>12. payments' = payments \cup {row[s] : s \in D}
  BY <1>1
<1> HIDE DEF row, D
<1>13. /\ sales' \in [SaleIds -> SaleRow]
       /\ payments' \in SUBSET PaymentRow /\ IsFiniteSet(payments')
       /\ SaleLedger' /\ Invoiced' /\ Recorded' /\ Spared'
       /\ \A s \in SaleIds : sales'[s] = sales[s] \/ s \in DOMAIN owed
       /\ \A p \in payments' : p \in payments \/ p.by = t.by
  <2>1. \A p \in payments : p.by # t.by
    BY <1>2 DEF OwnNumber, t
  <2>2. row \in [PaidSales(owed, pool) -> PaymentRow]
    BY <1>11 DEF D
  <2>3. \A s \in PaidSales(owed, pool) :
          row[s].sale = s /\ row[s].by = t.by /\ row[s].money + row[s].wallet = Share(pool, owed, s)
    BY <1>10 DEF D
  <2>4. payments' = payments \cup {row[s] : s \in PaidSales(owed, pool)}
    BY <1>12 DEF D
  <2>5. \A s \in DOMAIN owed : owed[s] = sales[s] /\ Pending(sales[s])
    BY <1>8
  <2>6. PaysPool(owed, pool, t.by, row)
    BY <1>1, <1>2, <2>1, <2>2, <2>3, <2>4, <2>5, Zenon DEF PaysPool
  <2> QED BY <1>2, <1>4, <1>7, <1>8, <2>6, PoolCommit
<1>14. WalletLedger'
  <2>1. payments \in SUBSET payments' /\ \A p \in payments' \ payments : p.wallet = 0
    BY <1>10, <1>12
  <2>2. IsFiniteSet(payments' \ payments)
    BY <1>13, FS_Difference
  <2>3. WalletPart(payments' \ payments) = 0
    BY <1>13, <2>1, <2>2, NoWallet
  <2>4. WalletPart(payments') = WalletPart(payments) + WalletPart(payments' \ payments)
    BY <1>13, <2>1, SplitRows
  <2>5. WalletPart(payments) \in Nat
    BY <1>4, RowSums DEF Tables
  <2>6. WalletPart(payments') = WalletPart(payments)
    BY <2>3, <2>4, <2>5
  <2>7. Brought' = Brought
    BY <1>1 DEF Brought, Active
  <2>8. credit = Brought - WalletPart(payments) - paidOut
    BY <1>4 DEF Books, WalletLedger, Brought
  <2>9. credit' = Brought' - WalletPart(payments') - paidOut'
    BY <1>1, <2>6, <2>7, <2>8
  <2> QED BY <2>9 DEF WalletLedger, Brought
<1>15. OpeningLedger'
  <2>1. opening' = openingSet' - openingPaid' /\ opening' >= 0
    BY <1>1, <1>6, <1>7
  <2> QED BY <2>1 DEF OpeningLedger
<1>16. Tables'
  <2>1. opening' \in Int /\ openingPaid' \in Nat
    BY <1>1, <1>6, <1>7
  <2> QED BY <1>1, <1>4, <1>13, <2>1 DEF Tables
<1>17. Guarantee(h)
  BY <1>1, <1>2, <1>8, <1>13 DEF Guarantee, t
<1> QED BY <1>2, <1>13, <1>14, <1>15, <1>16, <1>17, EndKeeps DEF Books

\* The wallet pays out.
LEMMA PayoutKeeps ==
  ASSUME SafeCrews, LedgerIndInv, NEW h \in Handlers, CommitPayout(h)
  PROVE  LedgerIndInv'
<1> DEFINE money == txn[h].op.money
<1>1. /\ Committing(h, "payout")
      /\ credit' = txn[h].retailer.credit - money
      /\ paidOut' = paidOut + money
      /\ UNCHANGED <<opening, sales, payments, purchases, openingSet, openingPaid>>
  BY DEF CommitPayout
<1>2. /\ Running(h) /\ Kind(h) = "payout" /\ txn[h].op.kind = "payout" /\ EndRequest(h)
      /\ txn[h].op \in Requests /\ KnowsRetailer(h) /\ txn[h].step = 2
      /\ requests' = requests /\ crew' = crew
  BY <1>1, AtCommit
<1>3. money \in Nat
  BY <1>2, OpFields
<1>4. retailerLock = h /\ txn[h].retailer.credit = credit
  BY <1>2 DEF KnowsRetailer, Past
<1>5. Tables /\ Books
  BY DEF LedgerIndInv
<1> HIDE DEF money
<1>6. WalletLedger'
  <2>1. credit = Brought - WalletPart(payments) - paidOut
    BY <1>5 DEF Books, WalletLedger, Brought
  <2>2. Brought' = Brought /\ payments' = payments
    BY <1>1 DEF Brought, Active
  <2>3. Brought \in Int /\ WalletPart(payments) \in Nat /\ paidOut \in Nat
    BY <1>5, BroughtIsInt, RowSums DEF Tables
  <2>4. credit' = Brought' - WalletPart(payments) - paidOut'
    BY <1>1, <1>3, <1>4, <2>1, <2>2, <2>3
  <2> QED BY <2>2, <2>4 DEF WalletLedger, Brought
<1>7. Tables'
  <2>1. credit \in Int /\ paidOut \in Nat
    BY <1>5 DEF Tables
  <2>2. credit' \in Int /\ paidOut' \in Nat
    BY <1>1, <1>3, <1>4, <2>1
  <2> QED BY <1>1, <1>5, <2>2 DEF Tables
<1>8. Books'
  BY <1>1, <1>2, <1>5, <1>6 DEF Books, SaleLedger, OpeningLedger, Invoiced, Recorded, Spared, Solo
<1>9. Guarantee(h)
  BY <1>1, <1>4 DEF Guarantee
<1> QED BY <1>2, <1>7, <1>8, <1>9, EndKeeps

\* An admin enters what is owed.
LEMMA BalanceKeeps ==
  ASSUME SafeCrews, LedgerIndInv, NEW h \in Handlers, CommitBalance(h)
  PROVE  LedgerIndInv'
<1> DEFINE rest == txn[h].op.total - Owed(txn[h].sales)
<1>1. /\ Committing(h, "balance")
      /\ opening' = IF rest # txn[h].retailer.opening THEN rest ELSE opening
      /\ openingSet' = rest /\ openingPaid' = 0
      /\ UNCHANGED <<credit, sales, payments, purchases, paidOut>>
  BY DEF CommitBalance
<1>2. /\ Running(h) /\ Kind(h) = "balance" /\ txn[h].op.kind = "balance" /\ EndRequest(h)
      /\ Accepted(txn[h]) /\ txn[h].op \in Requests /\ txn[h] \in Txn
      /\ KnowsRetailer(h) /\ txn[h].step = 3
      /\ requests' = requests /\ crew' = crew
  BY <1>1, AtCommit
<1>3. txn[h].op.total \in Nat /\ txn[h].op.total >= Owed(txn[h].sales)
  BY <1>2, OpFields DEF Accepted
<1>4. Owed(txn[h].sales) \in Nat
  <2>1. txn[h].sales \in Loaded
    BY <1>2 DEF Txn
  <2> QED BY <2>1, DueSum DEF Owed
<1>5. rest \in Int /\ rest >= 0
  BY <1>3, <1>4
<1>6. txn[h].retailer.opening = opening
  BY <1>2 DEF KnowsRetailer, Past, TheRetailer
<1>7. Tables /\ Books
  BY DEF LedgerIndInv
<1> HIDE DEF rest
<1>8. opening' = rest
  BY <1>1, <1>6
<1>9. Tables'
  BY <1>1, <1>5, <1>7, <1>8 DEF Tables
<1>10. OpeningLedger'
  BY <1>1, <1>5, <1>8 DEF OpeningLedger
<1>11. Books'
  BY <1>1, <1>2, <1>7, <1>10 DEF Books, SaleLedger, WalletLedger, Invoiced, Recorded, Spared, Solo, Active
<1>12. Guarantee(h)
  BY <1>2 DEF Guarantee, Locking
<1> QED BY <1>2, <1>9, <1>11, <1>12, EndKeeps

\* A purchase fills the wallet, which pays the oldest sales.
LEMMA PurchaseKeeps ==
  ASSUME SafeCrews, LedgerIndInv, NEW h \in Handlers, CommitPurchase(h)
  PROVE  LedgerIndInv'
<1> DEFINE t == txn[h]
           owed == t.sales
           pool == t.op.total
           id == t.op.id
           D == PaidSales(owed, pool)
           row == [s \in D |-> Payment(s, t.by, 0, Share(pool, owed, s), id)]
           applied == Least(pool, Owed(owed))
<1>1. /\ Committing(h, "purchase")
      /\ purchases' = [purchases EXCEPT ![id] = [status |-> "active", total |-> pool]]
      /\ credit' = t.retailer.credit + pool - applied
      /\ PayOldestFirst(owed, pool)
      /\ payments' = payments \cup {Payment(s, t.by, 0, Share(pool, owed, s), id) : s \in D}
      /\ UNCHANGED <<opening, paidOut, openingSet, openingPaid>>
  BY DEF CommitPurchase
<1>2. /\ Running(h) /\ Kind(h) = "purchase" /\ t.op.kind = "purchase" /\ EndRequest(h) /\ Accepted(t)
      /\ t.op \in Requests /\ t \in Txn /\ t.by \in 1..requests /\ OwnNumber(h)
      /\ KnowsRetailer(h) /\ KnowsSales(h)
      /\ t.step = 3
      /\ requests' = requests /\ crew' = crew
  BY <1>1, AtCommit
<1>3. pool \in Nat /\ id \in Purchases
  BY <1>2, OpFields
<1>4. purchases[id].status = "none"
  BY <1>2 DEF Accepted
<1>5. Tables /\ Books /\ requests \in Nat
  BY DEF LedgerIndInv, Held
<1>6. retailerLock = h /\ t.retailer.credit = credit
  BY <1>2 DEF KnowsRetailer, Past
<1>7. owed \in Loaded /\ \A s \in DOMAIN owed : saleLock[s] = h /\ owed[s] = sales[s] /\ Pending(sales[s])
  BY <1>2 DEF Txn, KnowsSales, Past
<1>8. \A p \in payments : p.by # t.by
  BY <1>2 DEF OwnNumber
<1> HIDE DEF t, owed, pool, id
<1>9. payments' = payments \cup PoolRows(owed, pool, t.by, id, DOMAIN owed)
  BY <1>1 DEF PoolRows, PaidSales
<1>10. \A s \in D : Share(pool, owed, s) \in Nat /\ s \in SaleIds
  <2>1. D \in SUBSET DOMAIN owed /\ DOMAIN owed \in SUBSET SaleIds
    BY <1>7 DEF PaidSales, Loaded
  <2>2. \A s \in DOMAIN owed : owed[s].due \in Nat
    BY <1>5, <1>7, <2>1 DEF Tables, SaleRow
  <2>3. ASSUME NEW s \in D PROVE Share(pool, owed, s) \in Nat
    <3>1. s \in DOMAIN owed
      BY <2>1
    <3>2. Share(pool, owed, s) \in 0..owed[s].due
      BY <1>3, <1>7, <3>1, ShareFits
    <3> QED BY <2>2, <3>1, <3>2
  <2> QED BY <2>1, <2>3
<1>11. ASSUME NEW s \in D
       PROVE  row[s] \in PaymentRow /\ row[s].sale = s /\ row[s].by = t.by
              /\ row[s].money + row[s].wallet = Share(pool, owed, s)
  <2>1. row[s] = Payment(s, t.by, 0, Share(pool, owed, s), id)
    OBVIOUS
  <2>2. t.by \in Nat
    BY <1>2, <1>5
  <2> HIDE DEF row, D
  <2> QED BY <1>3, <1>10, <2>1, <2>2 DEF Payment, PaymentRow
<1>12. row \in [D -> PaymentRow]
  BY <1>11
<1>13. payments' = payments \cup {row[s] : s \in D}
  BY <1>1
<1> HIDE DEF row, D
<1>14. /\ sales' \in [SaleIds -> SaleRow]
       /\ payments' \in SUBSET PaymentRow /\ IsFiniteSet(payments')
       /\ SaleLedger' /\ Invoiced' /\ Recorded' /\ Spared'
       /\ \A s \in SaleIds : sales'[s] = sales[s] \/ s \in DOMAIN owed
       /\ \A p \in payments' : p \in payments \/ p.by = t.by
  <2>1. row \in [PaidSales(owed, pool) -> PaymentRow]
    BY <1>12 DEF D
  <2>2. \A s \in PaidSales(owed, pool) :
          row[s].sale = s /\ row[s].by = t.by /\ row[s].money + row[s].wallet = Share(pool, owed, s)
    BY <1>11 DEF D
  <2>3. payments' = payments \cup {row[s] : s \in PaidSales(owed, pool)}
    BY <1>13 DEF D
  <2>4. \A s \in DOMAIN owed : owed[s] = sales[s] /\ Pending(sales[s])
    BY <1>7
  <2>5. PaysPool(owed, pool, t.by, row)
    BY <1>1, <1>2, <1>8, <2>1, <2>2, <2>3, <2>4, Zenon DEF PaysPool
  <2> QED BY <1>2, <1>3, <1>5, <1>7, <2>5, PoolCommit
<1>15. applied \in Nat
  <2>1. Owed(owed) \in Nat
    BY <1>7, DueSum DEF Owed
  <2> QED BY <1>3, <2>1 DEF Least
<1>16. WalletPart(payments') = WalletPart(payments) + applied
  <2>1. payments \in SUBSET PaymentRow /\ IsFiniteSet(payments) /\ t.by \in Nat /\ id \in Purchases \cup {None}
    BY <1>2, <1>3, <1>5 DEF Tables
  <2> QED BY <1>3, <1>7, <1>8, <1>9, <2>1, PoolPays
<1> HIDE DEF applied
<1>17. purchases' \in [Purchases -> PurchaseRow] /\ Brought' = Brought + pool
  <2>1. purchases \in [Purchases -> PurchaseRow]
    BY <1>5 DEF Tables
  <2> DEFINE new == [status |-> "active", total |-> pool]
             in == [p \in Active |-> purchases[p].total]
             in2 == [p \in Active' |-> purchases'[p].total]
  <2>2. new \in PurchaseRow /\ new.status = "active" /\ new.total = pool
    BY <1>3 DEF PurchaseRow
  <2> HIDE DEF new
  <2>3. /\ purchases' \in [Purchases -> PurchaseRow] /\ purchases'[id] = new
        /\ \A p \in Purchases : p # id => purchases'[p] = purchases[p]
    BY <1>1, <1>3, <2>1, <2>2 DEF new
  <2>4. Active' = Active \cup {id} /\ id \notin Active
    BY <1>3, <1>4, <2>2, <2>3 DEF Active
  <2>5. /\ IsFiniteSet(DOMAIN in) /\ id \notin DOMAIN in /\ DOMAIN in2 = DOMAIN in \cup {id}
        /\ \A p \in DOMAIN in : in[p] \in Int /\ in2[p] = in[p]
        /\ in2[id] = pool /\ in2[id] \in Int
    <3>1. IsFiniteSet(Active)
      BY <1>5, BroughtIsInt
    <3>2. \A p \in Active : p \in Purchases /\ p # id /\ purchases[p].total \in Int
      BY <2>1, <2>4 DEF Active, PurchaseRow
    <3> QED BY <1>3, <2>2, <2>3, <2>4, <3>1, <3>2
  <2> HIDE DEF in, in2
  <2>6. SumFunction(in2) = SumFunction(in) + in2[id]
    BY <2>5, SumAdd
  <2>7. Brought = SumFunction(in) /\ Brought' = SumFunction(in2)
    BY Zenon DEF Brought, in, in2
  <2>8. Brought' = Brought + pool
    BY <2>5, <2>6, <2>7, Zenon
  <2> QED BY <2>3, <2>8
<1>18. WalletLedger'
  <2>1. credit = Brought - WalletPart(payments) - paidOut
    BY <1>5 DEF Books, WalletLedger, Brought
  <2>2. Brought \in Int /\ WalletPart(payments) \in Nat /\ paidOut \in Nat
    BY <1>5, BroughtIsInt, RowSums DEF Tables
  <2>3. credit' = Brought' - WalletPart(payments') - paidOut'
    BY <1>1, <1>3, <1>6, <1>15, <1>16, <1>17, <2>1, <2>2
  <2> QED BY <2>3 DEF WalletLedger, Brought
<1>19. Tables'
  <2>1. credit \in Int
    BY <1>5 DEF Tables
  <2>2. credit' \in Int
    BY <1>1, <1>3, <1>6, <1>15, <2>1
  <2> QED BY <1>1, <1>5, <1>14, <1>17, <2>2 DEF Tables
<1>20. OpeningLedger'
  BY <1>1, <1>5 DEF Books, OpeningLedger
<1>21. Guarantee(h)
  BY <1>1, <1>6, <1>7, <1>14 DEF Guarantee, t
<1> QED BY <1>2, <1>14, <1>18, <1>19, <1>20, <1>21, EndKeeps DEF Books

\* A request that does not lock what it reads runs alone.
LEMMA RunsAlone ==
  ASSUME SafeCrews, LedgerIndInv, NEW h \in Handlers, Running(h), Kind(h) \notin Locking
  PROVE  Solo(crew)
<1>1. Kind(h) \in crew[h] /\ crew \in Crews
  BY DEF LedgerIndInv, Held, Session, Serving
<1>2. CASE Apart(crew)
  <2>1. \A g \in Handlers : g = h
    BY <1>1, <1>2 DEF Apart
  <2> QED BY <2>1 DEF Solo
<1> QED BY <1>1, <1>2 DEF SafeCrews

\* A void takes back what its purchase paid and brought in; no cancelled sale is among these.
LEMMA VoidKeeps ==
  ASSUME SafeCrews, LedgerIndInv, NEW h \in Handlers, CommitVoid(h)
  PROVE  /\ LedgerIndInv'
         /\ \A s \in SaleIds : sales[s].status = "cancelled" => sales'[s] = sales[s]
<1> DEFINE t == txn[h]
           id == t.op.id
           rows == t.rows
           D == DOMAIN t.sales
           part(s) == Total({p \in rows : p.sale = s})
           undone(s) == PaidMore(t.sales[s], - part(s))
           left == t.retailer.credit + WalletPart(rows) - purchases[id].total
<1>1. /\ Committing(h, "void")
      /\ purchases' = [purchases EXCEPT ![id].status = "void"]
      /\ sales' = [s \in SaleIds |-> IF s \in D THEN Update(sales[s], t.sales[s], undone(s)) ELSE sales[s]]
      /\ payments' = payments \ rows
      /\ credit' = IF left # t.retailer.credit THEN left ELSE credit
      /\ UNCHANGED <<opening, paidOut, openingSet, openingPaid>>
  BY DEF CommitVoid
<1>2. /\ Running(h) /\ Kind(h) = "void" /\ t.op.kind = "void" /\ EndRequest(h) /\ Accepted(t)
      /\ t.op \in Requests /\ KnowsRetailer(h) /\ KnowsSales(h) /\ KnowsRows(h)
      /\ t.step = 6
      /\ requests' = requests /\ crew' = crew
  BY <1>1, AtCommit
<1>3. id \in Purchases /\ id # None
  BY <1>2, OpFields, LedgerAssumption
<1>4. purchases[id].status = "active"
  BY <1>2 DEF Accepted
<1>5. /\ t.retailer.credit = credit /\ rows = OfPurchase(payments, id)
      /\ t.sales = [s \in {p.sale : p \in rows} |-> sales[s]]
  BY <1>2 DEF KnowsRetailer, KnowsSales, KnowsRows, Past, TheRetailer
<1>6. Tables /\ Books /\ requests \in Nat
  BY DEF LedgerIndInv, Held
<1>7. Solo(crew)
  BY <1>2, RunsAlone DEF Locking
<1>8. /\ D = {p.sale : p \in rows} /\ \A s \in D : t.sales[s] = sales[s]
  BY <1>5
<1> HIDE DEF t, id, rows, D
<1> DEFINE kept == payments \ rows
<1>9. /\ payments \in SUBSET PaymentRow /\ IsFiniteSet(payments)
      /\ rows \in SUBSET payments /\ rows \in SUBSET PaymentRow /\ IsFiniteSet(rows)
      /\ kept \in SUBSET PaymentRow /\ IsFiniteSet(kept)
      /\ \A p \in rows : p.sale \in SaleIds /\ p.purchase = id
      /\ \A p \in payments : p.sale \in SaleIds
  <2>1. payments \in SUBSET PaymentRow /\ IsFiniteSet(payments) /\ rows \in SUBSET payments
        /\ \A p \in rows : p.purchase = id
    BY <1>5, <1>6 DEF Tables, OfPurchase
  <2>2. IsFiniteSet(rows) /\ IsFiniteSet(kept)
    BY <2>1, FS_Subset, FS_Difference
  <2> QED BY <2>1, <2>2 DEF PaymentRow
<1>10. D \in SUBSET SaleIds
  BY <1>8, <1>9
<1>11. ASSUME NEW s \in D PROVE sales[s].status \notin {"none", "cancelled"}
  <2>1. PICK p \in rows : p.sale = s
    BY <1>8
  <2> QED BY <1>3, <1>6, <1>7, <1>9, <2>1 DEF Books, Recorded, Spared
<1>12. ASSUME NEW s \in SaleIds
       PROVE  /\ part(s) \in Nat /\ Total({p \in kept : p.sale = s}) \in Nat
              /\ sales[s].paid = part(s) + Total({p \in kept : p.sale = s})
  <2> DEFINE all == {p \in payments : p.sale = s}
             mine == {p \in rows : p.sale = s}
             others == {p \in kept : p.sale = s}
  <2>1. all \in SUBSET PaymentRow /\ IsFiniteSet(all) /\ mine \in SUBSET all /\ others = all \ mine
    BY <1>9, FS_Subset
  <2>2. mine \in SUBSET PaymentRow /\ IsFiniteSet(mine) /\ others \in SUBSET PaymentRow /\ IsFiniteSet(others)
    BY <2>1, FS_Subset
  <2>3. sales[s].paid = Total(all)
    BY <1>6 DEF Books, SaleLedger
  <2> HIDE DEF all, mine, others
  <2>4. Total(all) = Total(mine) + Total(others)
    BY <2>1, SplitRows
  <2>5. Total(mine) \in Nat /\ Total(others) \in Nat
    BY <2>2, RowSums
  <2> QED BY <2>3, <2>4, <2>5 DEF mine, others
<1> HIDE DEF kept
<1>13. ASSUME NEW s \in D
       PROVE  /\ sales'[s] = Sale(sales[s].total, Total({p \in kept : p.sale = s}))
              /\ sales[s].total \in Nat
              /\ Total({p \in kept : p.sale = s}) \in 0..sales[s].total
  <2> DEFINE total == sales[s].total
             rest == Total({p \in kept : p.sale = s})
  <2>1. s \in SaleIds /\ sales[s] \in SaleRow /\ total \in Nat /\ sales[s].paid \in 0..total
    BY <1>6, <1>10 DEF Tables, Books, SaleLedger, SaleRow
  <2>2. part(s) \in Nat /\ rest \in Nat /\ sales[s].paid = part(s) + rest
    BY <1>12, <2>1
  <2> HIDE DEF part, rest, total
  <2>3. sales[s].paid + (- part(s)) = rest /\ rest \in 0..total
    BY <2>1, <2>2
  <2>4. undone(s) = Sale(total, rest)
    BY <1>8, <2>3, Zenon DEF PaidMore, total
  <2>5. Sale(total, rest) \in SaleRow
    BY <2>1, <2>3, SaleMade
  <2>6. sales'[s] = Update(sales[s], sales[s], Sale(total, rest))
    BY <1>1, <1>8, <2>1, <2>4
  <2> QED BY <2>1, <2>3, <2>5, <2>6, UpdateFresh DEF total, rest
<1>14. ASSUME NEW s \in SaleIds, s \notin D
       PROVE  sales'[s] = sales[s] /\ {p \in kept : p.sale = s} = {p \in payments : p.sale = s}
  BY <1>1, <1>8, <1>9, <1>14 DEF kept
<1>15. payments' = kept
  BY <1>1 DEF kept
<1>16. ASSUME NEW s \in D
       PROVE  /\ sales'[s] \in SaleRow
              /\ sales'[s].total = sales[s].total
              /\ sales'[s].paid = Total({p \in kept : p.sale = s})
              /\ sales'[s].due = sales'[s].total - sales'[s].paid
              /\ sales'[s].status = SaleStatus(sales'[s].total, sales'[s].paid)
              /\ sales'[s].status \in {"open", "partial", "settled"}
              /\ sales'[s].paid \in 0..sales'[s].total
  <2> DEFINE total == sales[s].total
             rest == Total({p \in kept : p.sale = s})
  <2>1. sales'[s] = Sale(total, rest) /\ total \in Nat /\ rest \in 0..total
    BY <1>13
  <2> HIDE DEF total, rest
  <2>2. /\ sales'[s] \in SaleRow /\ sales'[s].total = total /\ sales'[s].paid = rest
        /\ sales'[s].due = total - rest /\ sales'[s].status = SaleStatus(total, rest)
        /\ sales'[s].status \in {"open", "partial", "settled"}
    BY <2>1, SaleMade
  <2> QED BY <2>1, <2>2 DEF total, rest
<1>17. sales' \in [SaleIds -> SaleRow]
  <2>1. \A s \in SaleIds : sales'[s] \in SaleRow
    BY <1>6, <1>14, <1>16 DEF Tables
  <2> QED BY <1>1, <2>1
<1>18. SaleLedger'
  <2>1. ASSUME NEW s \in SaleIds
        PROVE  LET sale2 == sales'[s] IN
               /\ sale2.paid = Total({p \in payments' : p.sale = s})
               /\ sale2.paid \in 0..sale2.total
               /\ sale2.due = sale2.total - sale2.paid
               /\ sale2.status \notin {"none", "cancelled"} => sale2.status = SaleStatus(sale2.total, sale2.paid)
    <3>1. CASE s \in D
      BY <1>15, <1>16, <3>1
    <3>2. CASE s \notin D
      BY <1>6, <1>14, <1>15, <3>2, Zenon DEF Books, SaleLedger
    <3> QED BY <3>1, <3>2
  <2> QED BY <2>1 DEF SaleLedger
<1>19. purchases' \in [Purchases -> PurchaseRow] /\ Brought = Brought' + purchases[id].total
       /\ purchases[id].total \in Nat
  <2>1. purchases \in [Purchases -> PurchaseRow]
    BY <1>6 DEF Tables
  <2> DEFINE new == [purchases[id] EXCEPT !.status = "void"]
             in == [p \in Active |-> purchases[p].total]
             in2 == [p \in Active' |-> purchases'[p].total]
  <2>2. new \in PurchaseRow /\ new.status = "void" /\ purchases[id].total \in Nat
    BY <1>3, <2>1 DEF PurchaseRow
  <2>3. purchases' = [purchases EXCEPT ![id] = new]
    BY <1>1
  <2> HIDE DEF new
  <2>4. /\ purchases' \in [Purchases -> PurchaseRow] /\ purchases'[id] = new
        /\ \A p \in Purchases : p # id => purchases'[p] = purchases[p]
    BY <1>3, <2>1, <2>2, <2>3
  <2>5. Active = Active' \cup {id} /\ id \notin Active'
    BY <1>3, <1>4, <2>2, <2>4 DEF Active
  <2>6. /\ IsFiniteSet(DOMAIN in2) /\ id \notin DOMAIN in2 /\ DOMAIN in = DOMAIN in2 \cup {id}
        /\ \A p \in DOMAIN in2 : in2[p] \in Int /\ in[p] = in2[p]
        /\ in[id] = purchases[id].total /\ in[id] \in Int
    <3>1. IsFiniteSet(Active) /\ Active' \subseteq Active
      BY <1>6, <2>5, BroughtIsInt
    <3>2. IsFiniteSet(Active')
      BY <3>1, FS_Subset
    <3>3. \A p \in Active' : p \in Purchases /\ p # id /\ purchases[p].total \in Int
      BY <2>1, <2>5 DEF Active, PurchaseRow
    <3> QED BY <1>3, <2>2, <2>4, <2>5, <3>2, <3>3
  <2> HIDE DEF in, in2
  <2>7. SumFunction(in) = SumFunction(in2) + in[id]
    BY <2>6, SumAdd
  <2>8. Brought = SumFunction(in) /\ Brought' = SumFunction(in2)
    BY Zenon DEF Brought, in, in2
  <2>9. Brought = Brought' + purchases[id].total
    BY <2>6, <2>7, <2>8, Zenon
  <2> QED BY <2>2, <2>4, <2>9
<1>20. credit \in Int /\ WalletPart(rows) \in Nat /\ WalletPart(kept) \in Nat /\ paidOut \in Nat
  BY <1>6, <1>9, RowSums DEF Tables
<1>21. credit' = credit + WalletPart(rows) - purchases[id].total
  BY <1>1, <1>5, <1>19, <1>20
<1>22. WalletLedger'
  <2>1. credit = Brought - WalletPart(payments) - paidOut
    BY <1>6 DEF Books, WalletLedger, Brought
  <2>2. WalletPart(payments) = WalletPart(rows) + WalletPart(kept)
    BY <1>9, SplitRows DEF kept
  <2>3. Brought \in Int
    BY <1>6, BroughtIsInt
  <2>4. Brought' = Brought - purchases[id].total
    <3>1. purchases[id].total \in Nat /\ Brought = Brought' + purchases[id].total /\ Brought \in Int
      BY <1>19, <2>3
    <3>2. Brought' \in Int
      <4>1. IsFiniteSet(Active')
        BY LedgerAssumption, FS_Subset DEF Active
      <4> DEFINE in2 == [p \in Active' |-> purchases'[p].total]
      <4>2. IsFiniteSet(DOMAIN in2) /\ \A p \in DOMAIN in2 : in2[p] \in Int
        BY <1>19, <4>1 DEF PurchaseRow, Active
      <4> HIDE DEF in2
      <4>3. SumFunction(in2) \in Int
        BY <4>2, SumIsInt
      <4> QED BY <4>3 DEF Brought, in2
    <3> QED BY <3>1, <3>2
  <2>5. credit' = Brought' - WalletPart(kept) - paidOut'
    BY <1>1, <1>19, <1>20, <1>21, <2>1, <2>2, <2>3, <2>4
  <2> QED BY <1>15, <2>5 DEF WalletLedger, Brought
<1>23. Tables'
  <2>1. credit' \in Int
    BY <1>19, <1>20, <1>21
  <2> QED BY <1>1, <1>6, <1>9, <1>15, <1>17, <1>19, <2>1 DEF Tables
<1>24. Invoiced'
  <2>1. ASSUME NEW s \in SaleIds, sales'[s].status \notin {"none", "cancelled"}
        PROVE  \E p \in kept : p.sale = s /\ p.purchase = None
    <3>1. sales[s].status \notin {"none", "cancelled"}
      BY <1>11, <1>14, <2>1
    <3>2. PICK p \in payments : p.sale = s /\ p.purchase = None
      BY <1>6, <3>1 DEF Books, Invoiced
    <3> QED BY <1>3, <1>9, <3>2 DEF kept
  <2> QED BY <1>15, <2>1 DEF Invoiced
<1>25. Recorded' /\ Spared'
  <2>1. ASSUME NEW p \in kept
        PROVE  /\ sales'[p.sale].status # "none" /\ p.by <= requests
               /\ p.purchase # None => sales'[p.sale].status # "cancelled"
    <3>1. p \in payments /\ p.sale \in SaleIds
      BY <1>9 DEF kept
    <3> QED BY <1>6, <1>7, <1>14, <1>16, <3>1 DEF Books, Recorded, Spared
  <2> QED BY <1>2, <1>15, <2>1 DEF Recorded, Spared
<1>26. OpeningLedger'
  BY <1>1, <1>6 DEF Books, OpeningLedger
<1>27. Guarantee(h)
  BY <1>2 DEF Guarantee, Locking
<1>28. LedgerIndInv'
  BY <1>2, <1>18, <1>22, <1>23, <1>24, <1>25, <1>26, <1>27, EndKeeps DEF Books
<1>29. \A s \in SaleIds : sales[s].status = "cancelled" => sales'[s] = sales[s]
  BY <1>11, <1>14
<1> QED BY <1>28, <1>29

-----------------------------------------------------------------------------
(* Every step keeps the invariant.                                         *)

\* Commits.
LEMMA CommitKeeps ==
  ASSUME SafeCrews, LedgerIndInv, NEW h \in Handlers, Commit(h)
  PROVE  LedgerIndInv'
<1>1. CASE CommitSale(h) BY <1>1, SaleKeeps
<1>2. CASE CommitPayment(h) BY <1>2, PaymentKeeps
<1>3. CASE CommitEdit(h) BY <1>3, EditKeeps
<1>4. CASE CommitCancel(h) BY <1>4, CancelKeeps
<1>5. CASE CommitSettlement(h) BY <1>5, SettlementKeeps
<1>6. CASE CommitPayout(h) BY <1>6, PayoutKeeps
<1>7. CASE CommitPurchase(h) BY <1>7, PurchaseKeeps
<1>8. CASE CommitVoid(h) BY <1>8, VoidKeeps
<1>9. CASE CommitBalance(h) BY <1>9, BalanceKeeps
<1> QED BY <1>1, <1>2, <1>3, <1>4, <1>5, <1>6, <1>7, <1>8, <1>9 DEF Commit

\* Any step.
LEMMA LedgerIndInvStep ==
  ASSUME SafeCrews, LedgerIndInv, [Next]_vars
  PROVE  LedgerIndInv'
<1>1. ASSUME NEW h \in Handlers, NEW op \in Requests, Serve(h, op) PROVE LedgerIndInv'
  BY <1>1, ServeKeeps
<1>2. ASSUME NEW h \in Handlers, Statement(h) PROVE LedgerIndInv'
  BY <1>2, StatementKeeps
<1>3. ASSUME NEW h \in Handlers, Commit(h) PROVE LedgerIndInv'
  BY <1>3, CommitKeeps
<1>4. ASSUME NEW h \in Handlers, RefuseRequest(h) \/ Crash(h) PROVE LedgerIndInv'
  <2>1. Step(h) # "idle" /\ EndRequest(h) /\ UNCHANGED tables
    BY <1>4 DEF RefuseRequest, Crash
  <2>2. Running(h)
    BY <2>1, NotIdle
  <2> QED BY <2>1, <2>2, EndUnchanged
<1>5. ASSUME UNCHANGED vars PROVE LedgerIndInv'
  <2>1. UNCHANGED tables /\ UNCHANGED locks /\ UNCHANGED <<txn, requests, crew>>
    BY <1>5 DEF vars
  <2>2. Tables' /\ Held' /\ Books'
    BY <2>1 DEF LedgerIndInv, Tables, Held, Books, SaleLedger, WalletLedger, OpeningLedger,
                Invoiced, Recorded, Spared, Active, Solo, tables, locks
  <2>3. ASSUME NEW h \in Handlers, Running(h)' PROVE Session(h)'
    <3>1. Session(h)
      BY <2>1, <2>3 DEF LedgerIndInv, Running
    <3> QED BY <2>1, <3>1 DEF Session, Serving, OwnNumber, KnowsRetailer, KnowsSales, KnowsRows,
                Running, Kind, Past, TheRetailer, Solo, tables, locks
  <2> QED BY <2>2, <2>3 DEF LedgerIndInv
<1> QED BY <1>1, <1>2, <1>3, <1>4, <1>5 DEF Next, Quiescent

\* The inductive invariant holds in every state.
LEMMA LedgerIndInvHolds ==
  ASSUME SafeCrews PROVE Spec => []LedgerIndInv
<1>1. Init => LedgerIndInv
  BY InitLedger
<1>2. LedgerIndInv /\ [Next]_vars => LedgerIndInv'
  BY LedgerIndInvStep
<1> QED BY <1>1, <1>2, PTL DEF Spec

-----------------------------------------------------------------------------
(* The theorems.                                                           *)

\* It contains the type invariant.
LEMMA LedgerIndInvGivesType == LedgerIndInv => TypeOK
<1> SUFFICES ASSUME LedgerIndInv PROVE TypeOK
  OBVIOUS
<1>1. Tables /\ Held
  BY DEF LedgerIndInv
<1>2. \A s \in SaleIds :
        /\ sales[s].status \in {"none", "open", "partial", "settled", "cancelled"}
        /\ sales[s].total \in Nat /\ sales[s].paid \in Nat /\ sales[s].due \in Nat
  BY <1>1 DEF Tables, SaleRow, Statuses
<1>3. \A p \in payments : p.sale \in SaleIds /\ p.money \in Nat /\ p.wallet \in Nat
  BY <1>1 DEF Tables, PaymentRow
<1>4. \A p \in Purchases : purchases[p].status \in {"none", "active", "void"}
  BY <1>1 DEF Tables, PurchaseRow
<1>5. \A h \in Handlers : Step(h) # "idle" => txn[h].by \in 1..requests
  BY NotIdle DEF LedgerIndInv, Session, Serving
<1> QED BY <1>1, <1>2, <1>3, <1>4, <1>5 DEF TypeOK, Tables, Held

\* The sales, the wallet and the opening balance agree with the payment rows, the purchases,
\* the payouts and the audit log in every state, whatever the number of handlers, sales and
\* requests, as long as the requests that run beside one another lock what they read.
THEOREM LedgerIsRight ==
  ASSUME SafeCrews PROVE Spec => []LedgerInv
<1>1. LedgerIndInv => LedgerInv
  BY LedgerIndInvGivesType DEF LedgerInv, LedgerIndInv, Books
<1> QED BY <1>1, LedgerIndInvHolds, PTL

\* No step of a request changes a sale that is cancelled, except by cancelling it again.
LEMMA CancelledStays ==
  ASSUME SafeCrews, LedgerIndInv, [Next]_vars, NEW s \in SaleIds, sales[s].status = "cancelled"
  PROVE  sales'[s] = sales[s]
<1>1. sales \in [SaleIds -> SaleRow]
  BY DEF LedgerIndInv, Tables
<1>2. ASSUME NEW h \in Handlers, CommitSale(h) PROVE sales'[s] = sales[s]
  <2>1. Committing(h, "create") /\ \E new : sales' = [sales EXCEPT ![txn[h].op.sale] = new]
    BY <1>2 DEF CommitSale
  <2>2. Accepted(txn[h]) /\ txn[h].op.kind = "create"
    BY <2>1, AtCommit
  <2>3. sales[txn[h].op.sale].status = "none"
    BY <2>2 DEF Accepted
  <2> QED BY <1>1, <2>1, <2>3
<1>3. ASSUME NEW h \in Handlers, CommitPayment(h) PROVE sales'[s] = sales[s]
  <2>1. Committing(h, "pay") /\ \E new : sales' = [sales EXCEPT ![txn[h].op.sale] = new]
    BY <1>3 DEF CommitPayment, WriteSale
  <2>2. Accepted(txn[h]) /\ txn[h].op.kind = "pay" /\ Kind(h) = "pay" /\ KnowsSales(h) /\ txn[h].step = 5
    BY <2>1, AtCommit
  <2>3. txn[h].sales[txn[h].op.sale] = sales[txn[h].op.sale]
    BY <2>2 DEF KnowsSales, Past
  <2>4. txn[h].sales[txn[h].op.sale].status \in {"open", "partial"}
    BY <2>2 DEF Accepted
  <2> QED BY <1>1, <2>1, <2>3, <2>4
<1>4. ASSUME NEW h \in Handlers, CommitEdit(h) PROVE sales'[s] = sales[s]
  <2>1. Committing(h, "edit") /\ \E new : sales' = [sales EXCEPT ![txn[h].op.sale] = new]
    BY <1>4 DEF CommitEdit, WriteSale
  <2>2. Accepted(txn[h]) /\ txn[h].op.kind = "edit" /\ Kind(h) = "edit" /\ KnowsSales(h) /\ txn[h].step = 5
    BY <2>1, AtCommit
  <2>3. txn[h].sales[txn[h].op.sale] = sales[txn[h].op.sale]
    BY <2>2 DEF KnowsSales, Past
  <2>4. txn[h].sales[txn[h].op.sale].status \notin {"none", "cancelled"}
    BY <2>2 DEF Accepted, Modifiable
  <2> QED BY <1>1, <2>1, <2>3, <2>4
<1>5. ASSUME NEW h \in Handlers, CommitCancel(h) PROVE sales'[s] = sales[s]
  <2> DEFINE new == [sales[s] EXCEPT !.status = "cancelled"]
  <2>1. new = sales[s]
    <3>1. sales[s] \in SaleRow
      BY <1>1
    <3> QED BY <3>1 DEF SaleRow
  <2>2. sales' = [sales EXCEPT ![txn[h].op.sale] = [@ EXCEPT !.status = "cancelled"]]
    BY <1>5, CancelKeeps
  <2>3. sales'[s] = new \/ sales'[s] = sales[s]
    BY <1>1, <2>2
  <2> QED BY <2>1, <2>3
<1>6. ASSUME NEW h \in Handlers, CommitSettlement(h) \/ CommitPurchase(h) PROVE sales'[s] = sales[s]
  <2>1. \/ Committing(h, "settle") /\ \E pool : PayOldestFirst(txn[h].sales, pool)
        \/ Committing(h, "purchase") /\ \E pool : PayOldestFirst(txn[h].sales, pool)
    BY <1>6 DEF CommitSettlement, CommitPurchase
  <2>2. /\ KnowsSales(h)
        /\ (Kind(h) = "settle" /\ txn[h].step = 4) \/ (Kind(h) = "purchase" /\ txn[h].step = 3)
    <3>1. CASE Committing(h, "settle")
      <4>1. KnowsSales(h) /\ Kind(h) = "settle" /\ txn[h].step = 4
        BY <3>1, AtCommit
      <4> QED BY <4>1
    <3>2. CASE Committing(h, "purchase")
      <4>1. KnowsSales(h) /\ Kind(h) = "purchase" /\ txn[h].step = 3
        BY <3>2, AtCommit
      <4> QED BY <4>1
    <3> QED BY <2>1, <3>1, <3>2
  <2>3. s \notin DOMAIN txn[h].sales
    BY <2>2 DEF KnowsSales, Past, Pending
  <2> QED BY <2>1, <2>3 DEF PayOldestFirst
<1>7. ASSUME NEW h \in Handlers, CommitVoid(h) PROVE sales'[s] = sales[s]
  BY <1>7, VoidKeeps
<1>8. ASSUME NEW h \in Handlers, CommitPayout(h) \/ CommitBalance(h) PROVE sales'[s] = sales[s]
  BY <1>8 DEF CommitPayout, CommitBalance
<1>9. ASSUME UNCHANGED tables PROVE sales'[s] = sales[s]
  BY <1>9 DEF tables
<1>10. ASSUME NEW h \in Handlers, Statement(h) PROVE UNCHANGED tables
  BY <1>10, AdvancedStatement DEF Advanced
<1>11. ASSUME NEW h \in Handlers, Commit(h) PROVE sales'[s] = sales[s]
  BY <1>2, <1>3, <1>4, <1>5, <1>6, <1>7, <1>8, <1>11 DEF Commit
<1> QED BY <1>9, <1>10, <1>11 DEF Next, Serve, RefuseRequest, Crash, Quiescent, vars

\* A cancelled sale stays cancelled, with its amounts, through voids of purchases, settlements,
\* payments and edits that run beside its cancellation or after it.
THEOREM CancelledForGood ==
  ASSUME SafeCrews PROVE Spec => CancelIsFinal
<1>1. LedgerIndInv /\ [Next]_vars =>
        [\A s \in SaleIds : sales[s].status = "cancelled" => sales'[s] = sales[s]]_vars
  BY CancelledStays
<1> QED BY <1>1, LedgerIndInvHolds, PTL DEF Spec, CancelIsFinal

\* A pool that pays on a sale settles every older one it has locked.
LEMMA PoolSettlesOlder ==
  ASSUME LedgerIndInv, NEW owed \in Loaded, NEW pool \in Nat, PayOldestFirst(owed, pool),
         \A q \in DOMAIN owed : owed[q] = sales[q] /\ Pending(sales[q]),
         NEW s \in DOMAIN owed, sales'[s].paid > sales[s].paid
  PROVE  pool > 0 /\ \A r \in DOMAIN owed : r < s => sales'[r].status = "settled"
<1>1. DOMAIN owed \in SUBSET SaleIds /\ sales \in [SaleIds -> SaleRow] /\ SaleLedger
  BY DEF Loaded, LedgerIndInv, Tables, Books
<1>2. Share(pool, owed, s) > 0
  <2>1. sales[s].paid \in Nat
    BY <1>1 DEF SaleRow
  <2>2. sales'[s] # sales[s]
    BY <2>1
  <2> QED BY <1>1, <2>2 DEF PayOldestFirst
<1>3. ASSUME NEW r \in DOMAIN owed, r < s PROVE sales'[r].status = "settled"
  <2> DEFINE share == Share(pool, owed, r)
  <2>1. share = owed[r].due
    BY <1>2, <1>3, ShareOldestFirst
  <2>2. owed[r] = sales[r] /\ sales[r] \in SaleRow /\ sales[r].due = sales[r].total - sales[r].paid
    BY <1>1 DEF SaleLedger
  <2>3. sales'[r] = IF share > 0 THEN PaidMore(owed[r], share) ELSE sales[r]
    BY <1>1 DEF PayOldestFirst
  <2> HIDE DEF share
  <2>4. sales'[r] = Sale(owed[r].total, owed[r].paid + share)
    BY <2>1, <2>2, <2>3 DEF PaidMore, Pending
  <2>5. owed[r].paid + share = owed[r].total /\ owed[r].total \in Nat
    BY <2>1, <2>2 DEF SaleRow
  <2>6. sales'[r].status = SaleStatus(owed[r].total, owed[r].total)
    BY <2>4, <2>5 DEF Sale
  <2> QED BY <2>5, <2>6 DEF SaleStatus
<1>4. pool > 0
  BY <1>2, PoolNotEmpty
<1> QED BY <1>3, <1>4

\* A settlement or a purchase that pays on a sale leaves no older one of its scope unpaid and,
\* if it is a settlement, no opening balance.
THEOREM OldestPaidFirst ==
  ASSUME SafeCrews PROVE Spec => OldestFirst
<1> DEFINE InOrder(h) ==
             \A s \in DOMAIN txn[h].sales : sales'[s].paid > sales[s].paid =>
               /\ \A r \in DOMAIN txn[h].sales : r < s => sales'[r].status = "settled"
               /\ txn[h].op.kind = "settle" => opening' = 0
<1>1. ASSUME LedgerIndInv, NEW h \in Handlers, CommitSettlement(h) PROVE InOrder(h)
  <2> DEFINE owed == txn[h].sales
             money == txn[h].op.money
             first == txn[h].retailer.opening
             onOpening == Least(money, first)
             pool == money - onOpening
  <2>1. /\ Committing(h, "settle") /\ PayOldestFirst(owed, pool)
        /\ opening' = IF onOpening > 0 THEN first - onOpening ELSE opening
    BY <1>1 DEF CommitSettlement
  <2>2. /\ Kind(h) = "settle" /\ txn[h].op.kind = "settle" /\ txn[h].op \in Requests /\ txn[h] \in Txn
        /\ KnowsRetailer(h) /\ KnowsSales(h) /\ txn[h].step = 4
    BY <1>1, <2>1, AtCommit
  <2>3. owed \in Loaded /\ \A s \in DOMAIN owed : owed[s] = sales[s] /\ Pending(sales[s])
    BY <2>2 DEF KnowsSales, Past, Txn
  <2>4. first = opening /\ opening \in Int /\ opening >= 0 /\ money \in Nat
    BY <1>1, <2>2, OpFields DEF KnowsRetailer, Past, LedgerIndInv, Tables, Books, OpeningLedger
  <2>5. onOpening = IF money < first THEN money ELSE first
    BY DEF Least
  <2> HIDE DEF owed, money, first, onOpening
  <2>6. pool \in Nat /\ (pool > 0 => opening' = 0)
    BY <2>1, <2>4, <2>5
  <2> HIDE DEF pool
  <2>7. ASSUME NEW s \in DOMAIN owed, sales'[s].paid > sales[s].paid
        PROVE  pool > 0 /\ \A r \in DOMAIN owed : r < s => sales'[r].status = "settled"
    BY <1>1, <2>1, <2>3, <2>6, <2>7, PoolSettlesOlder
  <2> QED BY <2>6, <2>7 DEF owed
<1>2. ASSUME LedgerIndInv, NEW h \in Handlers, CommitPurchase(h) PROVE InOrder(h)
  <2> DEFINE owed == txn[h].sales
             pool == txn[h].op.total
  <2>1. Committing(h, "purchase") /\ PayOldestFirst(owed, pool)
    BY <1>2 DEF CommitPurchase
  <2>2. /\ Kind(h) = "purchase" /\ txn[h].op.kind = "purchase" /\ txn[h].op \in Requests /\ txn[h] \in Txn
        /\ KnowsSales(h) /\ txn[h].step = 3
    BY <1>2, <2>1, AtCommit
  <2>3. owed \in Loaded /\ \A s \in DOMAIN owed : owed[s] = sales[s] /\ Pending(sales[s])
    BY <2>2 DEF KnowsSales, Past, Txn
  <2>4. pool \in Nat
    BY <2>2, OpFields
  <2> HIDE DEF owed, pool
  <2>5. ASSUME NEW s \in DOMAIN owed, sales'[s].paid > sales[s].paid
        PROVE  \A r \in DOMAIN owed : r < s => sales'[r].status = "settled"
    BY <1>2, <2>1, <2>3, <2>4, <2>5, PoolSettlesOlder
  <2> QED BY <2>2, <2>5 DEF owed
<1>3. ASSUME LedgerIndInv, NEW h \in Handlers, Commit(h), txn[h].op.kind \in {"settle", "purchase"}
      PROVE  InOrder(h)
  <2>1. CommitSettlement(h) \/ CommitPurchase(h)
    BY <1>3 DEF Commit, Committing, CommitSale, CommitPayment, CommitEdit, CommitCancel,
                CommitPayout, CommitVoid, CommitBalance
  <2> QED BY <1>1, <1>2, <1>3, <2>1
<1>4. LedgerIndInv =>
        [\A h \in Handlers : Commit(h) /\ txn[h].op.kind \in {"settle", "purchase"} => InOrder(h)]_vars
  BY <1>3
<1> QED BY <1>4, LedgerIndInvHolds, PTL DEF OldestFirst
=============================================================================
