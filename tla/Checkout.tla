------------------------------ MODULE Checkout ------------------------------
(***************************************************************************)
(* Retail checkout (backend/app/services/billing.py): the preview freezes  *)
(* a cart in a snapshot row and hands out a checkout token; create_bill    *)
(* turns a token into a numbered bill.  Two API processes serve requests   *)
(* and the client resends a request it got no answer to, so any number of  *)
(* handlers may run create_bill for one token at the same time.            *)
(*                                                                         *)
(* A handler is a transaction on PostgreSQL at READ COMMITTED: each        *)
(* statement sees what is committed when it starts.  One action below is   *)
(* one statement (or the commit) of the handler.  The row of the month's   *)
(* sequence is locked FOR UPDATE; an INSERT that meets an uncommitted row  *)
(* with the same unique key waits for that transaction to end.             *)
(***************************************************************************)
EXTENDS Integers, Sequences, Functions

CONSTANTS
  Tokens,        \* checkout tokens a preview may issue
  Handlers,      \* request handlers of the API processes
  Categories,    \* inventory categories a cart may draw stock through
  Draw,          \* Draw[t][c]: stock the cart of token t draws through c
  Prices,        \* amounts the cart may be priced at; 0: no price today
  OpeningStock,  \* stock of the inventory item behind the categories
  Window,        \* life of a token and of its snapshot (24 hours)
  Months,        \* calendar months (Indian Standard Time)
  Calendar,      \* the month each instant falls in
  MaxSequence,   \* last number of the bill format (999 999)
  MaxTime,       \* bound: the clock stops here
  MaxSends,      \* bound: commit requests sent
  None           \* no handler, no token

\* Each category's draw is a movement of its own.
CartDraw(t) == SumFunction(Draw[t])

ASSUME CheckoutAssumption ==
  /\ None \notin Handlers \cup Tokens
  /\ Draw \in [Tokens -> [Categories -> Nat]]
  /\ \A t \in Tokens : CartDraw(t) \in Nat
  /\ Prices \subseteq Nat
  /\ OpeningStock \in Nat
  /\ Window \in Nat
  /\ MaxSequence \in Nat \ {0}
  /\ MaxTime \in Nat
  /\ Calendar \in [0..MaxTime -> Months]
  /\ MaxSends \in Nat

VARIABLES
  now,         \* clock
  price,       \* today's DailyPrice of the cart
  snapshots,   \* checkout_snapshots, by checkout_token
  bills,       \* bills, in commit order; a bill's id is its position
  sequence,    \* monthly_bill_sequences.current_value, 0: no row
  holder,      \* handler whose open transaction holds a month's row
  stock,       \* opening stock less the committed USE movements
  pc, tok,     \* step and token of each handler
  at,          \* create_bill's `now`, the bill's created_at
  no,          \* number the handler allocated
  sent,        \* commit requests sent so far
  answers      \* successful answers to commit requests

vars == <<now, price, snapshots, bills, sequence, holder, stock,
          pc, tok, at, no, sent, answers>>

NoSnapshot == [expires |-> 0, total |-> 0, bill |-> 0]
Issued(t) == snapshots[t].total # 0
Billed(t) == \E i \in 1..Len(bills) : bills[i].token = t

Steps == {"idle", "load", "lookup", "stock", "allocate",
          "next", "first", "inserted", "rescue"}

\* A row of bills; item lines are abstracted to their total.
BillRow == [token : Tokens, month : Months, no : 1..MaxSequence, total : Prices]

TablesTyped ==
  /\ now \in 0..MaxTime
  /\ price \in Prices
  /\ snapshots \in [Tokens -> [expires : Nat, total : Prices \cup {0}, bill : Nat]]
  /\ bills \in Seq(BillRow)
  /\ sequence \in [Months -> 0..MaxSequence]
  /\ stock \in Int
  /\ sent \in 0..MaxSends
  /\ answers \subseteq [token : Tokens, bill : Nat \ {0}, created : BOOLEAN]

HandlersTyped ==
  /\ holder \in [Months -> Handlers \cup {None}]
  /\ pc \in [Handlers -> Steps]
  /\ tok \in [Handlers -> Tokens \cup {None}]
  /\ at \in [Handlers -> 0..MaxTime]
  /\ no \in [Handlers -> 0..MaxSequence]

\* Types of the tables and of the handlers' local variables.
TypeOK == TablesTyped /\ HandlersTyped

Init ==
  /\ now = 0
  /\ price \in Prices
  /\ snapshots = [t \in Tokens |-> NoSnapshot]
  /\ bills = << >>
  /\ sequence = [m \in Months |-> 0]
  /\ holder = [m \in Months |-> None]
  /\ stock = OpeningStock
  /\ pc = [h \in Handlers |-> "idle"]
  /\ tok = [h \in Handlers |-> None]
  /\ at = [h \in Handlers |-> 0]
  /\ no = [h \in Handlers |-> 0]
  /\ sent = 0
  /\ answers = {}

-----------------------------------------------------------------------------
(* The world around the handlers.                                          *)

Tick ==
  /\ now < MaxTime
  /\ now' = now + 1
  /\ UNCHANGED <<price, snapshots, bills, sequence, holder, stock,
                 pc, tok, at, no, sent, answers>>

\* An admin publishes another price, or a new day starts without one.
SetPrice ==
  /\ price' \in Prices \ {price}
  /\ UNCHANGED <<now, snapshots, bills, sequence, holder, stock,
                 pc, tok, at, no, sent, answers>>

\* _prepare_checkout: a cart whose items have no positive price today is
\* refused, and so is a line total that is not today's price.
Priced == price > 0

\* preview_bill freezes the prepared cart in a snapshot behind a new token.
Preview(t) ==
  /\ ~ Issued(t)
  /\ Priced
  /\ snapshots' = [snapshots EXCEPT ![t] =
                     [expires |-> now + Window, total |-> price, bill |-> 0]]
  /\ UNCHANGED <<now, price, bills, sequence, holder, stock,
                 pc, tok, at, no, sent, answers>>

\* A commit request arrives: the client's first, or a resend after a timeout.
Send(h, t) ==
  /\ pc[h] = "idle"
  /\ Issued(t)
  /\ sent < MaxSends
  /\ sent' = sent + 1
  /\ pc' = [pc EXCEPT ![h] = "load"]
  /\ tok' = [tok EXCEPT ![h] = t]
  /\ UNCHANGED <<now, price, snapshots, bills, sequence, holder, stock, at, no, answers>>

-----------------------------------------------------------------------------
(* create_bill, statement by statement.                                    *)

\* The IST month of the bill's created_at.
MonthOf(h) == Calendar[at[h]]

\* Faulty: a handler that ends keeps its row locks.
EndRequestKeepingLocks(h) ==
  /\ pc' = [pc EXCEPT ![h] = "idle"]
  /\ tok' = [tok EXCEPT ![h] = None]
  /\ at' = [at EXCEPT ![h] = 0]
  /\ no' = [no EXCEPT ![h] = 0]
  /\ UNCHANGED holder

\* The transaction ends (commit or rollback): its row locks are released.
EndRequest(h) ==
  /\ pc' = [pc EXCEPT ![h] = "idle"]
  /\ tok' = [tok EXCEPT ![h] = None]
  /\ at' = [at EXCEPT ![h] = 0]
  /\ no' = [no EXCEPT ![h] = 0]
  /\ holder' = [m \in Months |-> IF holder[m] = h THEN None ELSE holder[m]]

Answer(h, bill, created) ==
  /\ answers' = answers \cup {[token |-> tok[h], bill |-> bill, created |-> created]}
  /\ EndRequest(h)

Refuse(h) ==
  /\ EndRequest(h)
  /\ UNCHANGED <<now, price, snapshots, bills, sequence, stock, sent, answers>>

Goto(h, step) ==
  /\ pc' = [pc EXCEPT ![h] = step]
  /\ UNCHANGED <<now, price, snapshots, bills, sequence, stock, tok, sent, answers>>

Expired(t) == now > snapshots[t].expires

RefuseExpired(h) ==
  /\ pc[h] = "load"
  /\ Expired(tok[h])
  /\ Refuse(h)

\* The cart or the payment is not the one the token was issued for.
RefuseMismatch(h) ==
  /\ pc[h] = "load"
  /\ ~ Expired(tok[h])
  /\ Refuse(h)

AnswerFromSnapshot(h) ==
  /\ pc[h] = "load"
  /\ ~ Expired(tok[h])
  /\ snapshots[tok[h]].bill # 0
  /\ Answer(h, snapshots[tok[h]].bill, FALSE)
  /\ UNCHANGED <<now, price, snapshots, bills, sequence, stock, sent>>

LoadSnapshot(h) ==
  /\ pc[h] = "load"
  /\ ~ Expired(tok[h])
  /\ snapshots[tok[h]].bill = 0
  /\ Goto(h, "lookup")
  /\ UNCHANGED <<holder, at, no>>

\* A bill of the token appeared since the snapshot was loaded: the snapshot
\* is linked to it (again) and the bill is the answer.
AnswerExisting(h) ==
  /\ pc[h] = "lookup"
  /\ \E i \in 1..Len(bills) :
       /\ bills[i].token = tok[h]
       /\ snapshots' = [snapshots EXCEPT ![tok[h]].bill = i]
       /\ Answer(h, i, FALSE)
  /\ UNCHANGED <<now, price, bills, sequence, stock, sent>>

StartBilling(h) ==
  /\ pc[h] = "lookup"
  /\ ~ Billed(tok[h])
  /\ at' = [at EXCEPT ![h] = now]
  /\ Goto(h, "stock")
  /\ UNCHANGED <<holder, no>>

\* _validate_assumption_stock compares each category's draw with the stock of
\* the item, without locking anything.
EnoughStock(t) == \A c \in Categories : Draw[t][c] <= stock

CheckStock(h) ==
  /\ pc[h] = "stock"
  /\ EnoughStock(tok[h])
  /\ Goto(h, "allocate")
  /\ UNCHANGED <<holder, at, no>>

RefuseStock(h) ==
  /\ pc[h] = "stock"
  /\ ~ EnoughStock(tok[h])
  /\ Refuse(h)

\* Faulty: the counter is committed when it is read, ahead of the bill.
LockSequenceCommitting(h) ==
  LET m == MonthOf(h) IN
  /\ pc[h] = "allocate"
  /\ sequence[m] \in 1..(MaxSequence - 1)
  /\ holder[m] = None
  /\ holder' = [holder EXCEPT ![m] = h]
  /\ no' = [no EXCEPT ![h] = sequence[m] + 1]
  /\ sequence' = [sequence EXCEPT ![m] = @ + 1]
  /\ pc' = [pc EXCEPT ![h] = "next"]
  /\ UNCHANGED <<now, price, snapshots, bills, stock, tok, at, sent, answers>>

\* _allocate_bill_number when the month has a row: wait for it, lock it.
LockSequence(h) ==
  LET m == MonthOf(h) IN
  /\ pc[h] = "allocate"
  /\ sequence[m] \in 1..(MaxSequence - 1)
  /\ holder[m] = None
  /\ holder' = [holder EXCEPT ![m] = h]
  /\ no' = [no EXCEPT ![h] = sequence[m] + 1]
  /\ Goto(h, "next")
  /\ UNCHANGED at

\* The number would not fit the format: the exception rolls back.
RefuseNumber(h) ==
  /\ pc[h] = "allocate"
  /\ sequence[MonthOf(h)] = MaxSequence
  /\ holder[MonthOf(h)] = None
  /\ Refuse(h)

\* No committed row: FOR UPDATE locks nothing, the handler will insert one.
FirstOfMonth(h) ==
  /\ pc[h] = "allocate"
  /\ sequence[MonthOf(h)] = 0
  /\ no' = [no EXCEPT ![h] = 1]
  /\ Goto(h, "first")
  /\ UNCHANGED <<holder, at>>

\* Faulty: bills.checkout_token without its unique index.
NoTokenClash(h) == FALSE

\* The unique keys the flush can meet among committed rows ...
SequenceClash(h) == pc[h] = "first" /\ sequence[MonthOf(h)] # 0
TokenClash(h) == Billed(tok[h])

\* ... and among the rows other transactions have not committed yet.
MustWait(h) ==
  \/ pc[h] = "first" /\ holder[MonthOf(h)] # None
  \/ \E g \in Handlers \ {h} : pc[g] = "inserted" /\ tok[g] = tok[h]

InsertBill(h) ==
  /\ pc[h] \in {"next", "first"}
  /\ ~ SequenceClash(h)
  /\ ~ TokenClash(h)
  /\ ~ MustWait(h)
  /\ holder' = [holder EXCEPT ![MonthOf(h)] = h]
  /\ Goto(h, "inserted")
  /\ UNCHANGED <<at, no>>

\* IntegrityError: the transaction is rolled back, the number is given back.
InsertFails(h) ==
  /\ pc[h] \in {"next", "first"}
  /\ SequenceClash(h) \/ TokenClash(h)
  /\ holder' = [m \in Months |-> IF holder[m] = h THEN None ELSE holder[m]]
  /\ no' = [no EXCEPT ![h] = 0]
  /\ Goto(h, "rescue")
  /\ UNCHANGED at

\* Faulty: the bill charges today's price.
NewBillAtPrice(h) == [token |-> tok[h], month |-> MonthOf(h), no |-> no[h], total |-> price]

\* Payment, receipt, USE movements and the snapshot's bill_id are flushed
\* and the transaction commits.
NewBill(h) == [token |-> tok[h], month |-> MonthOf(h), no |-> no[h],
               total |-> snapshots[tok[h]].total]

CommitBill(h) ==
  /\ pc[h] = "inserted"
  /\ bills' = Append(bills, NewBill(h))
  /\ sequence' = [sequence EXCEPT ![MonthOf(h)] = no[h]]
  /\ snapshots' = [snapshots EXCEPT ![tok[h]].bill = Len(bills) + 1]
  /\ stock' = stock - CartDraw(tok[h])
  /\ Answer(h, Len(bills) + 1, TRUE)
  /\ UNCHANGED <<now, price, sent>>

\* Faulty: after the rollback the handler answers with the newest bill.
AnswerNewest(h) ==
  /\ pc[h] = "rescue"
  /\ Len(bills) > 0
  /\ Answer(h, Len(bills), FALSE)
  /\ UNCHANGED <<now, price, snapshots, bills, sequence, stock, sent>>

\* After the rollback the handler looks for the bill that won the race.
AnswerWinner(h) ==
  /\ pc[h] = "rescue"
  /\ \E i \in 1..Len(bills) :
       /\ bills[i].token = tok[h]
       /\ Answer(h, i, FALSE)
  /\ UNCHANGED <<now, price, snapshots, bills, sequence, stock, sent>>

RefuseRetry(h) ==
  /\ pc[h] = "rescue"
  /\ ~ Billed(tok[h])
  /\ Refuse(h)

\* The process dies or the connection drops: PostgreSQL rolls back.
Crash(h) ==
  /\ pc[h] # "idle"
  /\ Refuse(h)

-----------------------------------------------------------------------------
CreateBill(h) ==
  \/ RefuseExpired(h) \/ RefuseMismatch(h)
  \/ AnswerFromSnapshot(h) \/ LoadSnapshot(h)
  \/ AnswerExisting(h) \/ StartBilling(h)
  \/ CheckStock(h) \/ RefuseStock(h)
  \/ LockSequence(h) \/ RefuseNumber(h) \/ FirstOfMonth(h)
  \/ InsertBill(h) \/ InsertFails(h)
  \/ CommitBill(h)
  \/ AnswerWinner(h) \/ RefuseRetry(h)

\* The bounds are reached and every handler is idle.
Quiescent ==
  /\ \A h \in Handlers : pc[h] = "idle"
  /\ sent = MaxSends
  /\ UNCHANGED vars

Next ==
  \/ Tick
  \/ SetPrice
  \/ \E t \in Tokens : Preview(t)
  \/ \E h \in Handlers, t \in Tokens : Send(h, t)
  \/ \E h \in Handlers : CreateBill(h)
  \/ \E h \in Handlers : Crash(h)
  \/ Quiescent

Spec == Init /\ [][Next]_vars

\* A handler the event loop has started keeps running, and PostgreSQL wakes
\* the waiters of a row when its holder ends.
Fairness == \A h \in Handlers : WF_vars(CreateBill(h))

FairSpec == Spec /\ Fairness

-----------------------------------------------------------------------------
(* What checkout promises.                                                 *)

\* create_bill is idempotent on the checkout token: however often a request
\* is sent and however its copies interleave, the token has one bill.
OneBillPerToken ==
  \A i, j \in 1..Len(bills) : bills[i].token = bills[j].token => i = j

\* The committed bills of a month carry 1, 2, ..., up to the sequence row, in
\* commit order: no number is lost to a rollback or used twice.
NumbersDense ==
  /\ \A i \in 1..Len(bills) : bills[i].no \in 1..sequence[bills[i].month]
  /\ \A i, j \in 1..Len(bills) :
       i < j /\ bills[i].month = bills[j].month => bills[i].no < bills[j].no
  /\ \A m \in Months : \A n \in 1..sequence[m] :
       \E i \in 1..Len(bills) : bills[i].month = m /\ bills[i].no = n

\* A snapshot and its bill name each other, and the bill charges what the
\* preview froze, whatever happened to the price since.
SnapshotsLinked ==
  /\ \A i \in 1..Len(bills) :
       /\ snapshots[bills[i].token].bill = i
       /\ bills[i].total = snapshots[bills[i].token].total
  /\ \A t \in Tokens : snapshots[t].bill # 0 =>
       /\ Issued(t)
       /\ snapshots[t].bill \in 1..Len(bills)
       /\ bills[snapshots[t].bill].token = t

\* However often a cart is sent and however its copies interleave, its stock is drawn once if the
\* cart was billed and not at all if it was not.
BilledTokens == {t \in Tokens : Billed(t)}
StockDrawnOnce ==
  stock + SumFunction([t \in BilledTokens |-> CartDraw(t)]) = OpeningStock

\* Whatever a client was told stays true: the bill it was given is committed
\* and is the bill of its token, and no two answers claim to have created it.
AnswersHold ==
  /\ \A a \in answers : a.bill \in 1..Len(bills) /\ bills[a.bill].token = a.token
  /\ \A a, b \in answers : a.created /\ b.created /\ a.token = b.token => a = b

\* Checkout implements the book of bills: a preview quotes a cart, committing its bill charges
\* that quote and is the only step that changes the book, whatever the price is by then.
Quotes == [t \in Tokens |-> snapshots[t].total]
Book == INSTANCE BillBook WITH
          quotes <- Quotes, book <- bills, last <- sequence
BookSpec == Book!Spec

\* A number is handed to one transaction at a time: while it is open it holds
\* the month's row, its number is the next one, and its token has no bill.
NumbersReserved ==
  \A h \in Handlers :
    /\ pc[h] \in {"next", "inserted"} =>
         /\ holder[MonthOf(h)] = h
         /\ no[h] = sequence[MonthOf(h)] + 1
    /\ pc[h] = "inserted" =>
         /\ ~ Billed(tok[h])
         /\ \A g \in Handlers \ {h} : pc[g] = "inserted" => tok[g] # tok[h]

\* Neither row locks nor waits for a unique key leave a request hanging.
EveryRequestEnds == \A h \in Handlers : pc[h] # "idle" ~> pc[h] = "idle"

\* "Insufficient inventory for billed item assumptions": stock that is not
\* there is not billed.
StockNeverOversold == stock >= 0
=============================================================================
