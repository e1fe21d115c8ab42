--------------------------- MODULE BillingProofs ---------------------------
(***************************************************************************)
(* For every set of tokens and handlers, every calendar and all bounds:    *)
(* Checkout is type correct, bills a token at most once, draws the stock   *)
(* of every billed cart once, and implements the abstract BillBook.  A     *)
(* bill that is edited and cancelled agrees with its lines, its payment    *)
(* and its audit log, up to what requests that cross may write, for all    *)
(* edits and any number of handlers.                                       *)
(***************************************************************************)
EXTENDS Billing, SumFacts

\* A running handler works on an issued token; a handler about to insert the
\* month's row uses its first number.
Running ==
  \A h \in Handlers :
    /\ pc[h] # "idle" => tok[h] \in Tokens /\ Issued(tok[h])
    /\ pc[h] = "first" => no[h] = 1

\* The inductive invariant.
IInv ==
  /\ TypeOK
  /\ Running
  /\ NumbersReserved
  /\ OneBillPerToken
  /\ NumbersDense
  /\ SnapshotsLinked
  /\ AnswersHold
  /\ StockDrawnOnce

-----------------------------------------------------------------------------
\* Ending a request leaves the handlers' variables well typed.
LEMMA EndRequestTyped ==
  ASSUME TypeOK, NEW h \in Handlers, EndRequest(h)
  PROVE  HandlersTyped'
BY CheckoutAssumption DEF TypeOK, HandlersTyped, EndRequest, Steps

\* So does answering, and the answer is well formed.
LEMMA AnswerTyped ==
  ASSUME TypeOK, NEW h \in Handlers, tok[h] \in Tokens,
         NEW bill \in Nat \ {0}, NEW created \in BOOLEAN, Answer(h, bill, created)
  PROVE  /\ HandlersTyped'
         /\ answers' \subseteq [token : Tokens, bill : Nat \ {0}, created : BOOLEAN]
BY EndRequestTyped DEF TypeOK, TablesTyped, Answer

\* The bill a handler is about to commit is well formed.
LEMMA NewBillTyped ==
  ASSUME TypeOK, Running, NumbersReserved, NEW h \in Handlers, pc[h] = "inserted"
  PROVE  NewBill(h) \in BillRow
<1> USE CheckoutAssumption DEF TypeOK, HandlersTyped
<1>1. MonthOf(h) \in Months
  BY DEF MonthOf
<1>2. tok[h] \in Tokens /\ snapshots[tok[h]].total \in Prices
  BY DEF TablesTyped, Running, Issued
<1>3. no[h] \in 1..MaxSequence
  BY <1>1 DEF NumbersReserved, TablesTyped
<1>4. QED
  BY <1>1, <1>2, <1>3 DEF NewBill, BillRow

\* Every statement of create_bill keeps the types.
LEMMA CreateBillTyped ==
  ASSUME TypeOK, Running, NumbersReserved, NEW h \in Handlers, CreateBill(h)
  PROVE  TypeOK'
<1> USE CheckoutAssumption DEF TypeOK
<1>0. /\ MonthOf(h) \in Months
      /\ pc[h] # "idle" => tok[h] \in Tokens /\ snapshots[tok[h]].total \in Prices
      /\ Len(bills) \in Nat
  BY DEF MonthOf, HandlersTyped, TablesTyped, Running, Issued
<1>1. CASE RefuseExpired(h) \/ RefuseMismatch(h) \/ RefuseStock(h) \/ RefuseNumber(h) \/ RefuseRetry(h)
  <2>1. Refuse(h)
    BY <1>1 DEF RefuseExpired, RefuseMismatch, RefuseStock, RefuseNumber, RefuseRetry
  <2>2. TablesTyped'
    BY <2>1 DEF TablesTyped, Refuse
  <2>3. QED
    BY <2>1, <2>2, EndRequestTyped DEF Refuse
<1>2. CASE AnswerFromSnapshot(h)
  <2>1. /\ tok[h] \in Tokens
        /\ snapshots[tok[h]].bill \in Nat \ {0}
        /\ Answer(h, snapshots[tok[h]].bill, FALSE)
    BY <1>0, <1>2 DEF AnswerFromSnapshot, TablesTyped
  <2>2. QED
    BY <1>2, <2>1, AnswerTyped DEF AnswerFromSnapshot, TablesTyped
<1>3. CASE LoadSnapshot(h) \/ CheckStock(h)
  BY <1>3 DEF LoadSnapshot, CheckStock, Goto, TablesTyped, HandlersTyped, Steps
<1>4. CASE AnswerExisting(h)
  <2>1. PICK i \in 1..Len(bills) :
          /\ snapshots' = [snapshots EXCEPT ![tok[h]].bill = i]
          /\ Answer(h, i, FALSE)
    BY <1>4 DEF AnswerExisting
  <2>2. tok[h] \in Tokens /\ i \in Nat \ {0}
    BY <1>0, <1>4 DEF AnswerExisting
  <2>3. snapshots' \in [Tokens -> [expires : Nat, total : Prices \cup {0}, bill : Nat]]
    BY <2>1, <2>2 DEF TablesTyped
  <2>4. QED
    BY <1>4, <2>1, <2>2, <2>3, AnswerTyped DEF AnswerExisting, TablesTyped
<1>5. CASE StartBilling(h)
  BY <1>5 DEF StartBilling, Goto, TablesTyped, HandlersTyped, Steps
<1>6. CASE LockSequence(h)
  <2>1. sequence[MonthOf(h)] + 1 \in 0..MaxSequence
    BY <1>0, <1>6 DEF LockSequence, TablesTyped
  <2>2. QED
    BY <1>0, <1>6, <2>1 DEF LockSequence, Goto, TablesTyped, HandlersTyped, Steps
<1>7. CASE FirstOfMonth(h)
  <2>1. 1 \in 0..MaxSequence
    OBVIOUS
  <2>2. QED
    BY <1>7, <2>1 DEF FirstOfMonth, Goto, TablesTyped, HandlersTyped, Steps
<1>8. CASE InsertBill(h)
  BY <1>0, <1>8 DEF InsertBill, Goto, TablesTyped, HandlersTyped, Steps
<1>9. CASE InsertFails(h)
  BY <1>9 DEF InsertFails, Goto, TablesTyped, HandlersTyped, Steps
<1>10. CASE CommitBill(h)
  <2>2. NewBill(h) \in BillRow
    BY <1>10, NewBillTyped DEF CommitBill
  <2>3. tok[h] \in Tokens /\ Len(bills) + 1 \in Nat \ {0}
    BY <1>0, <1>10 DEF CommitBill
  <2>4. bills' \in Seq(BillRow)
    BY <1>10, <2>2 DEF CommitBill, TablesTyped
  <2>5. snapshots' \in [Tokens -> [expires : Nat, total : Prices \cup {0}, bill : Nat]]
    BY <1>10, <2>3 DEF CommitBill, TablesTyped
  <2>6. sequence' \in [Months -> 0..MaxSequence]
    <3>1. no[h] \in 0..MaxSequence
      BY DEF HandlersTyped
    <3>2. sequence' = [sequence EXCEPT ![MonthOf(h)] = no[h]]
      BY <1>10 DEF CommitBill
    <3>3. QED
      BY <1>0, <3>1, <3>2 DEF TablesTyped
  <2>7. stock' \in Int
    BY <1>10, <2>3 DEF CommitBill, TablesTyped
  <2>8. QED
    BY <1>10, <2>3, <2>4, <2>5, <2>6, <2>7, AnswerTyped DEF CommitBill, TablesTyped
<1>11. CASE AnswerWinner(h)
  <2>1. PICK i \in 1..Len(bills) : Answer(h, i, FALSE)
    BY <1>11 DEF AnswerWinner
  <2>2. tok[h] \in Tokens /\ i \in Nat \ {0}
    BY <1>0, <1>11 DEF AnswerWinner
  <2>3. QED
    BY <1>11, <2>1, <2>2, AnswerTyped DEF AnswerWinner, TablesTyped
<1>12. QED
  BY <1>1, <1>2, <1>3, <1>4, <1>5, <1>6, <1>7, <1>8, <1>9, <1>10, <1>11
     DEF CreateBill

\* Types survive every step: what a step writes is of the column's type.
LEMMA TypeStep ==
  ASSUME TypeOK, Running, NumbersReserved, [Next]_vars
  PROVE  TypeOK'
<1> USE CheckoutAssumption DEF TypeOK
<1>1. CASE Tick
  BY <1>1 DEF Tick, TablesTyped, HandlersTyped
<1>2. CASE SetPrice
  BY <1>2 DEF SetPrice, TablesTyped, HandlersTyped
<1>3. ASSUME NEW t \in Tokens, Preview(t) PROVE TypeOK'
  <2>1. snapshots' \in [Tokens -> [expires : Nat, total : Prices \cup {0}, bill : Nat]]
    BY <1>3 DEF Preview, TablesTyped
  <2>2. QED
    BY <1>3, <2>1 DEF Preview, TablesTyped, HandlersTyped
<1>4. ASSUME NEW h \in Handlers, NEW t \in Tokens, Send(h, t) PROVE TypeOK'
  <2>1. TablesTyped'
    BY <1>4 DEF Send, TablesTyped
  <2>2. HandlersTyped'
    BY <1>4 DEF Send, HandlersTyped, Steps
  <2>3. QED
    BY <2>1, <2>2
<1>5. ASSUME NEW h \in Handlers, CreateBill(h) PROVE TypeOK'
  BY <1>5, CreateBillTyped
<1>6. ASSUME NEW h \in Handlers, Crash(h) PROVE TypeOK'
  <2>1. TablesTyped'
    BY <1>6 DEF Crash, Refuse, TablesTyped
  <2>2. QED
    BY <1>6, <2>1, EndRequestTyped DEF Crash, Refuse
<1>7. CASE UNCHANGED vars
  BY <1>7 DEF vars, TablesTyped, HandlersTyped
<1>8. QED
  BY <1>1, <1>2, <1>3, <1>4, <1>5, <1>6, <1>7 DEF Next, Quiescent

-----------------------------------------------------------------------------
\* The reservation of one handler; NumbersReserved is this for all of them.
Reserved(h) ==
  /\ pc[h] \in {"next", "inserted"} =>
       /\ holder[MonthOf(h)] = h
       /\ no[h] = sequence[MonthOf(h)] + 1
  /\ pc[h] = "inserted" =>
       /\ ~ Billed(tok[h])
       /\ \A g \in Handlers \ {h} : pc[g] = "inserted" => tok[g] # tok[h]

LEMMA ReservedAll == NumbersReserved <=> \A h \in Handlers : Reserved(h)
BY DEF NumbersReserved, Reserved

\* A bill appended to the book bills its own token and no other.
LEMMA BilledAppend ==
  ASSUME NEW S, bills \in Seq(S), NEW b \in S, bills' = Append(bills, b), NEW t
  PROVE  Billed(t)' <=> Billed(t) \/ b.token = t
<1>1. Len(bills) \in Nat /\ Len(bills') = Len(bills) + 1
  OBVIOUS
<1>2. \A i \in 1..Len(bills) : bills'[i] = bills[i]
  OBVIOUS
<1>3. bills'[Len(bills) + 1] = b
  OBVIOUS
<1>4. ASSUME Billed(t)' PROVE Billed(t) \/ b.token = t
  BY <1>1, <1>2, <1>3, <1>4 DEF Billed
<1>5. ASSUME Billed(t) PROVE Billed(t)'
  BY <1>1, <1>2, <1>5 DEF Billed
<1>6. ASSUME b.token = t PROVE Billed(t)'
  BY <1>1, <1>3, <1>6 DEF Billed
<1>7. QED
  BY <1>4, <1>5, <1>6

\* A step of h that leaves h without a reservation, and the variables of the
\* other handlers and their rows alone, disturbs nobody's reservation.
LEMMA OthersKeepReservations ==
  ASSUME TypeOK, NumbersReserved, NEW h \in Handlers, UNCHANGED <<bills, sequence>>,
         pc'[h] \notin {"next", "inserted"},
         \A g \in Handlers \ {h} :
           /\ pc'[g] = pc[g] /\ tok'[g] = tok[g] /\ no'[g] = no[g] /\ at'[g] = at[g]
           /\ \A m \in Months : holder[m] = g => holder'[m] = g
  PROVE  NumbersReserved'
<1> SUFFICES ASSUME NEW g \in Handlers PROVE Reserved(g)'
  BY DEF NumbersReserved, Reserved
<1> USE CheckoutAssumption DEF TypeOK, HandlersTyped
<1>1. CASE g = h
  BY <1>1 DEF Reserved
<1>2. CASE g # h
  <2>1. MonthOf(g)' = MonthOf(g) /\ MonthOf(g) \in Months
    BY <1>2 DEF MonthOf
  <2>2. Billed(tok[g])' = Billed(tok[g])
    BY <1>2 DEF Billed
  <2>3. Reserved(g)
    BY ReservedAll
  <2>4. \A f \in Handlers : pc'[f] = "inserted" => pc[f] = "inserted" /\ tok'[f] = tok[f]
    OBVIOUS
  <2>5. /\ pc'[g] = pc[g] /\ tok'[g] = tok[g] /\ no'[g] = no[g] /\ sequence' = sequence
        /\ holder[MonthOf(g)] = g => holder'[MonthOf(g)] = g
    BY <1>2, <2>1
  <2>6. QED
    BY <2>1, <2>2, <2>3, <2>4, <2>5 DEF Reserved
<1>3. QED
  BY <1>1, <1>2

\* Every statement of create_bill keeps the reservations.
LEMMA CreateBillReserves ==
  ASSUME TypeOK, Running, NumbersReserved, NEW h \in Handlers, CreateBill(h)
  PROVE  NumbersReserved'
<1> USE CheckoutAssumption DEF TypeOK, HandlersTyped
<1>0. MonthOf(h) \in Months
  BY DEF MonthOf
<1>1. CASE UNCHANGED <<bills, sequence>> /\ EndRequest(h)
  <2>1. \A g \in Handlers \ {h} :
          /\ pc'[g] = pc[g] /\ tok'[g] = tok[g] /\ no'[g] = no[g] /\ at'[g] = at[g]
          /\ \A m \in Months : holder[m] = g => holder'[m] = g
    BY <1>1 DEF EndRequest
  <2>2. pc'[h] = "idle"
    BY <1>1 DEF EndRequest
  <2>3. QED
    BY <1>1, <2>1, <2>2, OthersKeepReservations
<1>2. CASE LoadSnapshot(h) \/ StartBilling(h) \/ CheckStock(h) \/ FirstOfMonth(h) \/ InsertFails(h)
  <2>1. UNCHANGED <<bills, sequence>> /\ pc'[h] \notin {"next", "inserted"}
    BY <1>2 DEF LoadSnapshot, StartBilling, CheckStock, FirstOfMonth, InsertFails, Goto
  <2>2. \A g \in Handlers \ {h} :
          /\ pc'[g] = pc[g] /\ tok'[g] = tok[g] /\ no'[g] = no[g] /\ at'[g] = at[g]
          /\ \A m \in Months : holder[m] = g => holder'[m] = g
    BY <1>2 DEF LoadSnapshot, StartBilling, CheckStock, FirstOfMonth, InsertFails, Goto
  <2>3. QED
    BY <2>1, <2>2, OthersKeepReservations
<1>3. CASE LockSequence(h)
  <2> SUFFICES ASSUME NEW g \in Handlers PROVE Reserved(g)'
    BY DEF NumbersReserved, Reserved
  <2>1. /\ UNCHANGED <<bills, sequence, tok, at>> /\ holder[MonthOf(h)] = None
        /\ holder' = [holder EXCEPT ![MonthOf(h)] = h]
        /\ no' = [no EXCEPT ![h] = sequence[MonthOf(h)] + 1]
        /\ pc' = [pc EXCEPT ![h] = "next"]
    BY <1>3 DEF LockSequence, Goto
  <2>2. /\ \A f \in Handlers : MonthOf(f)' = MonthOf(f) /\ MonthOf(f) \in Months
        /\ Billed(tok[g])' = Billed(tok[g])
    BY <2>1 DEF MonthOf, Billed
  <2>3. Reserved(g)
    BY ReservedAll
  <2>4. CASE g = h
    BY <1>0, <2>1, <2>2, <2>4 DEF Reserved
  <2>5. CASE g # h
    BY <1>0, <2>1, <2>2, <2>3, <2>5 DEF Reserved
  <2>6. QED
    BY <2>4, <2>5
<1>4. CASE InsertBill(h)
  <2> SUFFICES ASSUME NEW g \in Handlers PROVE Reserved(g)'
    BY DEF NumbersReserved, Reserved
  <2>1. /\ UNCHANGED <<bills, sequence, tok, at, no>>
        /\ holder' = [holder EXCEPT ![MonthOf(h)] = h]
        /\ pc' = [pc EXCEPT ![h] = "inserted"]
        /\ ~ Billed(tok[h])
        /\ \A f \in Handlers \ {h} : pc[f] = "inserted" => tok[f] # tok[h]
    BY <1>4 DEF InsertBill, Goto, TokenClash, MustWait
  <2>2. /\ \A f \in Handlers : MonthOf(f)' = MonthOf(f) /\ MonthOf(f) \in Months
        /\ Billed(tok[g])' = Billed(tok[g])
    BY <2>1 DEF MonthOf, Billed
  <2>3. Reserved(g) /\ Reserved(h)
    BY ReservedAll
  <2>4. /\ holder[MonthOf(h)] \in {None, h}
        /\ no[h] = sequence[MonthOf(h)] + 1
    <3>1. CASE pc[h] = "next"
      BY <2>3, <3>1 DEF Reserved
    <3>2. CASE pc[h] = "first"
      BY <1>4, <3>2 DEF InsertBill, SequenceClash, MustWait, Running
    <3>3. QED
      BY <1>4, <3>1, <3>2 DEF InsertBill
  <2>5. CASE g = h
    BY <1>0, <2>1, <2>2, <2>4, <2>5 DEF Reserved
  <2>6. CASE g # h
    BY <1>0, <2>1, <2>2, <2>3, <2>4, <2>6 DEF Reserved
  <2>7. QED
    BY <2>5, <2>6
<1>5. CASE CommitBill(h)
  <2> SUFFICES ASSUME NEW g \in Handlers PROVE Reserved(g)'
    BY DEF NumbersReserved, Reserved
  <2>1. /\ pc[h] = "inserted"
        /\ bills' = Append(bills, NewBill(h))
        /\ sequence' = [sequence EXCEPT ![MonthOf(h)] = no[h]]
        /\ EndRequest(h)
    BY <1>5 DEF CommitBill, Answer
  <2>2. Reserved(g) /\ Reserved(h)
    BY ReservedAll
  <2>3. CASE g = h
    BY <2>1, <2>3 DEF Reserved, EndRequest
  <2>4. CASE g # h /\ pc[g] \in {"next", "inserted"}
    <3>1. /\ pc'[g] = pc[g] /\ tok'[g] = tok[g] /\ no'[g] = no[g] /\ at'[g] = at[g]
          /\ MonthOf(g)' = MonthOf(g) /\ MonthOf(g) \in Months
      BY <2>1, <2>4 DEF EndRequest, MonthOf
    <3>2. holder[MonthOf(g)] = g /\ holder[MonthOf(h)] = h
      BY <2>1, <2>2, <2>4 DEF Reserved
    <3>3. holder'[MonthOf(g)] = g /\ sequence'[MonthOf(g)] = sequence[MonthOf(g)]
      BY <1>0, <2>1, <2>4, <3>1, <3>2 DEF EndRequest, TablesTyped
    <3>4. \A f \in Handlers : pc'[f] = "inserted" => pc[f] = "inserted" /\ tok'[f] = tok[f]
      BY <2>1 DEF EndRequest
    <3>5. ASSUME pc[g] = "inserted" PROVE ~ Billed(tok[g])'
      <4>1. ~ Billed(tok[g]) /\ tok[g] # tok[h]
        BY <2>1, <2>2, <2>4, <3>5 DEF Reserved
      <4>2. NewBill(h).token = tok[h]
        BY DEF NewBill
      <4>3. Billed(tok[g])' <=> Billed(tok[g]) \/ NewBill(h).token = tok[g]
        BY <2>1, <3>1, NewBillTyped, BilledAppend DEF TablesTyped
      <4>4. QED
        BY <4>1, <4>2, <4>3
    <3>6. QED
      BY <2>2, <2>4, <3>1, <3>3, <3>4, <3>5 DEF Reserved
  <2>5. CASE g # h /\ pc[g] \notin {"next", "inserted"}
    BY <2>1, <2>5 DEF Reserved, EndRequest
  <2>6. QED
    BY <2>3, <2>4, <2>5
<1>6. CASE \/ RefuseExpired(h) \/ RefuseMismatch(h) \/ RefuseStock(h) \/ RefuseNumber(h) \/ RefuseRetry(h)
           \/ AnswerFromSnapshot(h) \/ AnswerExisting(h) \/ AnswerWinner(h)
  <2>1. UNCHANGED <<bills, sequence>> /\ EndRequest(h)
    BY <1>6 DEF RefuseExpired, RefuseMismatch, RefuseStock, RefuseNumber, RefuseRetry, Refuse,
                AnswerFromSnapshot, AnswerExisting, AnswerWinner, Answer
  <2>2. QED
    BY <1>1, <2>1
<1>7. QED
  BY <1>2, <1>3, <1>4, <1>5, <1>6 DEF CreateBill

-----------------------------------------------------------------------------
\* Nothing takes a snapshot back, and only handlers move.
LEMMA RunningStep ==
  ASSUME TypeOK, Running, [Next]_vars
  PROVE  Running'
<1> USE CheckoutAssumption DEF TypeOK, HandlersTyped
<1>1. CASE Tick \/ SetPrice \/ UNCHANGED vars
  BY <1>1 DEF Tick, SetPrice, vars, Running, Issued
<1>2. ASSUME NEW t \in Tokens, Preview(t) PROVE Running'
  BY <1>2 DEF Preview, Priced, Running, Issued, TablesTyped
<1>3. ASSUME NEW h \in Handlers, NEW t \in Tokens, Send(h, t) PROVE Running'
  BY <1>3 DEF Send, Running, Issued
<1>4. ASSUME NEW h \in Handlers, CreateBill(h) \/ Crash(h) PROVE Running'
  <2>1. \A t \in Tokens : snapshots'[t].total = snapshots[t].total
    <3>1. CASE AnswerExisting(h) \/ CommitBill(h)
      <4>1. PICK b : snapshots' = [snapshots EXCEPT ![tok[h]].bill = b]
        BY <3>1 DEF AnswerExisting, CommitBill
      <4>2. snapshots \in [Tokens -> [expires : Nat, total : Prices \cup {0}, bill : Nat]]
        BY DEF TablesTyped
      <4>3. QED
        BY <4>1, <4>2
    <3>2. CASE UNCHANGED snapshots
      BY <3>2
    <3>3. QED
      BY <1>4, <3>1, <3>2
         DEF CreateBill, Crash, RefuseExpired, RefuseMismatch, RefuseStock, RefuseNumber, RefuseRetry,
             Refuse, AnswerFromSnapshot, LoadSnapshot, StartBilling, CheckStock,
             LockSequence, FirstOfMonth, InsertBill, InsertFails, AnswerWinner, Goto
  <2>2. \A g \in Handlers \ {h} : pc'[g] = pc[g] /\ tok'[g] = tok[g] /\ no'[g] = no[g]
    BY <1>4 DEF CreateBill, Crash, RefuseExpired, RefuseMismatch, RefuseStock, RefuseNumber, RefuseRetry,
                Refuse, AnswerFromSnapshot, LoadSnapshot, AnswerExisting, StartBilling,
                CheckStock, LockSequence, FirstOfMonth, InsertBill, InsertFails,
                CommitBill, AnswerWinner, Goto, Answer, EndRequest
  <2>3. /\ pc'[h] # "idle" => pc[h] # "idle" /\ tok'[h] = tok[h]
        /\ pc'[h] = "first" => no'[h] = 1
    <3>1. CASE EndRequest(h)
      BY <3>1 DEF EndRequest
    <3>2. CASE LoadSnapshot(h) \/ StartBilling(h) \/ CheckStock(h)
      BY <3>2 DEF LoadSnapshot, StartBilling, CheckStock, Goto
    <3>3. CASE LockSequence(h) \/ FirstOfMonth(h) \/ InsertBill(h) \/ InsertFails(h)
      BY <3>3 DEF LockSequence, FirstOfMonth, InsertBill, InsertFails, Goto
    <3>4. QED
      BY <1>4, <3>1, <3>2, <3>3
         DEF CreateBill, Crash, RefuseExpired, RefuseMismatch, RefuseStock, RefuseNumber, RefuseRetry,
             Refuse, AnswerFromSnapshot, AnswerExisting, CommitBill, AnswerWinner, Answer
  <2>4. ASSUME NEW g \in Handlers
        PROVE  /\ pc'[g] # "idle" => tok'[g] \in Tokens /\ snapshots'[tok'[g]].total # 0
               /\ pc'[g] = "first" => no'[g] = 1
    <3>1. /\ pc'[g] # "idle" => pc[g] # "idle" /\ tok'[g] = tok[g]
          /\ pc'[g] = "first" => no'[g] = 1
      BY <2>2, <2>3 DEF Running
    <3>2. QED
      BY <2>1, <3>1 DEF Running, Issued
  <2>5. QED
    BY <2>4 DEF Running, Issued
<1>5. QED
  BY <1>1, <1>2, <1>3, <1>4 DEF Next, Quiescent

\* A step either leaves the book and the sequence alone or commits a bill.
LEMMA BookSteps ==
  ASSUME [Next]_vars
  PROVE  \/ UNCHANGED <<bills, sequence>>
         \/ \E h \in Handlers : CommitBill(h)
BY DEF Next, vars, Tick, SetPrice, Preview, Send, CreateBill, Crash, Quiescent,
       RefuseExpired, RefuseMismatch, RefuseStock, RefuseNumber, RefuseRetry, Refuse,
       AnswerFromSnapshot, LoadSnapshot, AnswerExisting, StartBilling, CheckStock,
       LockSequence, FirstOfMonth, InsertBill, InsertFails, AnswerWinner, Goto

\* What a commit makes of the book, in facts about positions.
LEMMA Appended ==
  ASSUME TypeOK, Running, NumbersReserved, NEW h \in Handlers, CommitBill(h)
  PROVE  /\ Len(bills) \in Nat /\ Len(bills') = Len(bills) + 1
         /\ \A i \in 1..Len(bills) : bills'[i] = bills[i]
         /\ bills'[Len(bills) + 1] = NewBill(h)
         /\ \A i \in 1..Len(bills) :
              bills[i] \in BillRow
         /\ NewBill(h) \in BillRow
         /\ no[h] = sequence[MonthOf(h)] + 1
         /\ \A i \in 1..Len(bills) : bills[i].token # tok[h]
<1>1. bills' = Append(bills, NewBill(h)) /\ pc[h] = "inserted"
  BY DEF CommitBill
<1>2. /\ bills \in Seq(BillRow)
      /\ NewBill(h) \in BillRow
  BY <1>1, NewBillTyped DEF TypeOK, TablesTyped
<1>3. no[h] = sequence[MonthOf(h)] + 1 /\ ~ Billed(tok[h])
  BY <1>1 DEF NumbersReserved
<1>4. /\ Len(bills) \in Nat /\ Len(bills') = Len(bills) + 1
      /\ \A i \in 1..Len(bills) : bills'[i] = bills[i]
      /\ bills'[Len(bills) + 1] = NewBill(h)
  BY <1>1, <1>2
<1>5. \A i \in 1..Len(bills) :
        bills[i] \in BillRow
  BY <1>2
<1>6. QED
  BY <1>2, <1>3, <1>4, <1>5 DEF Billed

\* The token of a committing bill is not billed yet.
LEMMA OneBillStep ==
  ASSUME TypeOK, Running, NumbersReserved, OneBillPerToken, [Next]_vars
  PROVE  OneBillPerToken'
<1>1. CASE UNCHANGED <<bills, sequence>>
  BY <1>1 DEF OneBillPerToken
<1>2. ASSUME NEW h \in Handlers, CommitBill(h) PROVE OneBillPerToken'
  <2>1. NewBill(h).token = tok[h]
    BY DEF NewBill
  <2>2. QED
    BY <1>2, <2>1, Appended DEF OneBillPerToken
<1>3. QED
  BY <1>1, <1>2, BookSteps

\* A commit adds the next number of its month, at the end of the book.
LEMMA NumbersDenseStep ==
  ASSUME TypeOK, Running, NumbersReserved, NumbersDense, [Next]_vars
  PROVE  NumbersDense'
<1>1. CASE UNCHANGED <<bills, sequence>>
  BY <1>1 DEF NumbersDense
<1>2. ASSUME NEW h \in Handlers, CommitBill(h) PROVE NumbersDense'
  <2> DEFINE m0 == MonthOf(h)
             last == Len(bills) + 1
  <2>0. /\ sequence \in [Months -> 0..MaxSequence] /\ MaxSequence \in Nat
        /\ m0 \in Months /\ no[h] = sequence[m0] + 1
        /\ NewBill(h).month = m0 /\ NewBill(h).no = no[h]
    BY <1>2, Appended, CheckoutAssumption DEF TypeOK, TablesTyped, NewBill, BillRow
  <2>1. /\ sequence'[m0] = sequence[m0] + 1
        /\ \A m \in Months \ {m0} : sequence'[m] = sequence[m]
    BY <1>2, <2>0 DEF CommitBill
  <2>2. /\ last \in Nat /\ Len(bills') = last /\ 1..Len(bills') = (1..Len(bills)) \cup {last}
        /\ \A i \in 1..Len(bills) :
             /\ bills'[i] = bills[i] /\ i < last
             /\ bills[i].month \in Months /\ bills[i].no \in Int
        /\ bills'[last].month = m0 /\ bills'[last].no = sequence[m0] + 1
    BY <1>2, <2>0, Appended DEF BillRow
  <2> HIDE DEF m0, last
  <2>3. \A i \in 1..Len(bills') : bills'[i].no \in 1..sequence'[bills'[i].month]
    <3>1. ASSUME NEW i \in 1..Len(bills) PROVE bills'[i].no \in 1..sequence'[bills'[i].month]
      <4>1. bills[i].no \in 1..sequence[bills[i].month] /\ bills[i].month \in Months
        BY <2>2 DEF NumbersDense
      <4>2. sequence'[bills[i].month] >= sequence[bills[i].month]
        BY <2>0, <2>1, <4>1
      <4>3. sequence'[bills[i].month] \in Int /\ sequence[bills[i].month] \in Int
        BY <2>0, <2>1, <4>1
      <4>4. QED
        BY <2>2, <4>1, <4>2, <4>3
    <3>2. bills'[last].no \in 1..sequence'[bills'[last].month]
      BY <2>0, <2>1, <2>2
    <3>3. QED
      BY <2>2, <3>1, <3>2
  <2>4. \A i, j \in 1..Len(bills') :
          i < j /\ bills'[i].month = bills'[j].month => bills'[i].no < bills'[j].no
    <3> SUFFICES ASSUME NEW i \in 1..Len(bills'), NEW j \in 1..Len(bills'),
                        i < j, bills'[i].month = bills'[j].month
                 PROVE  bills'[i].no < bills'[j].no
      OBVIOUS
    <3>1. i \in 1..Len(bills)
      BY <2>2
    <3>2. CASE j \in 1..Len(bills)
      BY <2>2, <3>1, <3>2 DEF NumbersDense
    <3>3. CASE j = last
      <4>1. bills[i].month = m0 /\ bills[i].no \in 1..sequence[m0]
        BY <2>2, <3>1, <3>3 DEF NumbersDense
      <4>2. QED
        BY <2>0, <2>2, <3>1, <3>3, <4>1
    <3>4. QED
      BY <2>2, <3>2, <3>3
  <2>5. \A m \in Months : \A n \in 1..sequence'[m] :
          \E i \in 1..Len(bills') : bills'[i].month = m /\ bills'[i].no = n
    <3> SUFFICES ASSUME NEW m \in Months, NEW n \in 1..sequence'[m]
                 PROVE  \E i \in 1..Len(bills') : bills'[i].month = m /\ bills'[i].no = n
      OBVIOUS
    <3>1. CASE n \in 1..sequence[m]
      <4>1. PICK i \in 1..Len(bills) : bills[i].month = m /\ bills[i].no = n
        BY <3>1 DEF NumbersDense
      <4>2. QED
        BY <2>2, <4>1
    <3>2. CASE n \notin 1..sequence[m]
      <4>1. m = m0 /\ n = sequence[m0] + 1
        BY <2>0, <2>1, <3>2
      <4>2. QED
        BY <2>2, <4>1
    <3>3. QED
      BY <3>1, <3>2
  <2>6. QED
    BY <2>3, <2>4, <2>5 DEF NumbersDense
<1>3. QED
  BY <1>1, <1>2, BookSteps

-----------------------------------------------------------------------------
\* Snapshots are rewritten by a preview, which takes an unused token, by a
\* commit and by the resend that finds the committed bill.
LEMMA SnapshotSteps ==
  ASSUME [Next]_vars
  PROVE  \/ UNCHANGED <<bills, snapshots>>
         \/ \E t \in Tokens : Preview(t)
         \/ \E h \in Handlers : AnswerExisting(h)
         \/ \E h \in Handlers : CommitBill(h)
BY DEF Next, vars, Tick, SetPrice, Send, CreateBill, Crash, Quiescent,
       RefuseExpired, RefuseMismatch, RefuseStock, RefuseNumber, RefuseRetry, Refuse,
       AnswerFromSnapshot, LoadSnapshot, StartBilling, CheckStock,
       LockSequence, FirstOfMonth, InsertBill, InsertFails, AnswerWinner, Goto

LEMMA SnapshotsLinkedStep ==
  ASSUME TypeOK, Running, NumbersReserved, SnapshotsLinked, [Next]_vars
  PROVE  SnapshotsLinked'
<1>0. /\ snapshots \in [Tokens -> [expires : Nat, total : Prices \cup {0}, bill : Nat]]
      /\ Len(bills) \in Nat
      /\ \A i \in 1..Len(bills) : bills[i].token \in Tokens
  <2>1. bills \in Seq(BillRow)
    BY DEF TypeOK, TablesTyped
  <2>2. \A i \in 1..Len(bills) : bills[i] \in BillRow
    BY <2>1
  <2>3. QED
    BY <2>1, <2>2 DEF TypeOK, TablesTyped, BillRow
<1>1. CASE UNCHANGED <<bills, snapshots>>
  BY <1>1 DEF SnapshotsLinked, Issued
<1>2. ASSUME NEW t \in Tokens, Preview(t) PROVE SnapshotsLinked'
  <2>1. /\ bills' = bills /\ ~ Issued(t)
        /\ \A u \in Tokens \ {t} : snapshots'[u] = snapshots[u]
        /\ snapshots'[t].bill = 0
    BY <1>0, <1>2 DEF Preview
  <2>2. \A i \in 1..Len(bills) : bills[i].token # t
    BY <1>0, <2>1 DEF SnapshotsLinked
  <2>3. QED
    BY <1>0, <2>1, <2>2 DEF SnapshotsLinked, Issued
<1>3. ASSUME NEW h \in Handlers, AnswerExisting(h) PROVE SnapshotsLinked'
  <2>1. PICK i \in 1..Len(bills) :
          bills[i].token = tok[h] /\ snapshots' = [snapshots EXCEPT ![tok[h]].bill = i]
    BY <1>3 DEF AnswerExisting
  <2>2. snapshots[tok[h]].bill = i /\ tok[h] \in Tokens
    BY <1>0, <2>1 DEF SnapshotsLinked
  <2>3. snapshots' = snapshots /\ bills' = bills
    BY <1>0, <1>3, <2>1, <2>2 DEF AnswerExisting
  <2>4. QED
    BY <1>1, <2>3
<1>4. ASSUME NEW h \in Handlers, CommitBill(h) PROVE SnapshotsLinked'
  <2>1. /\ tok[h] \in Tokens /\ Issued(tok[h])
        /\ NewBill(h).token = tok[h] /\ NewBill(h).total = snapshots[tok[h]].total
    BY <1>4 DEF CommitBill, Running, NewBill
  <2>2. /\ \A u \in Tokens : snapshots'[u].total = snapshots[u].total
        /\ \A u \in Tokens \ {tok[h]} : snapshots'[u].bill = snapshots[u].bill
        /\ snapshots'[tok[h]].bill = Len(bills) + 1
    BY <1>0, <1>4, <2>1 DEF CommitBill
  <2>3. /\ Len(bills') = Len(bills) + 1 /\ Len(bills) \in Nat
        /\ \A i \in 1..Len(bills) : bills'[i] = bills[i] /\ bills[i].token # tok[h]
        /\ bills'[Len(bills) + 1] = NewBill(h)
    BY <1>4, Appended
  <2>4. ASSUME NEW i \in 1..Len(bills')
        PROVE  /\ snapshots'[bills'[i].token].bill = i
               /\ bills'[i].total = snapshots'[bills'[i].token].total
    <3>1. CASE i \in 1..Len(bills)
      BY <1>0, <2>2, <2>3, <3>1 DEF SnapshotsLinked
    <3>2. CASE i = Len(bills) + 1
      BY <2>1, <2>2, <2>3, <3>2
    <3>3. QED
      BY <2>3, <3>1, <3>2
  <2>5. ASSUME NEW t \in Tokens, snapshots'[t].bill # 0
        PROVE  /\ Issued(t)'
               /\ snapshots'[t].bill \in 1..Len(bills')
               /\ bills'[snapshots'[t].bill].token = t
    <3>1. CASE t = tok[h]
      BY <2>1, <2>2, <2>3, <3>1 DEF Issued
    <3>2. CASE t # tok[h]
      <4>1. /\ snapshots[t].bill = snapshots'[t].bill
            /\ snapshots[t].bill \in 1..Len(bills)
            /\ bills[snapshots[t].bill].token = t /\ Issued(t)
        BY <2>2, <2>5, <3>2 DEF SnapshotsLinked
      <4>2. QED
        BY <2>2, <2>3, <4>1 DEF Issued
    <3>3. QED
      BY <3>1, <3>2
  <2>6. QED
    BY <2>4, <2>5 DEF SnapshotsLinked
<1>5. QED
  BY <1>1, <1>2, <1>3, <1>4, SnapshotSteps

\* An answer names a committed bill of its token; only a commit says that it
\* created the bill, and it does so for a token that had none.
LEMMA AnswersHoldStep ==
  ASSUME TypeOK, Running, NumbersReserved, SnapshotsLinked, AnswersHold, [Next]_vars
  PROVE  AnswersHold'
<1>1. CASE UNCHANGED <<bills, answers>>
  BY <1>1 DEF AnswersHold
<1>2. ASSUME NEW h \in Handlers, NEW i \in 1..Len(bills), bills[i].token = tok[h],
             bills' = bills, Answer(h, i, FALSE)
      PROVE  AnswersHold'
  BY <1>2 DEF Answer, AnswersHold
<1>3. ASSUME NEW h \in Handlers, AnswerFromSnapshot(h) PROVE AnswersHold'
  <2>1. /\ bills' = bills /\ snapshots[tok[h]].bill # 0 /\ tok[h] \in Tokens
        /\ Answer(h, snapshots[tok[h]].bill, FALSE)
    BY <1>3 DEF AnswerFromSnapshot, Running
  <2>2. QED
    BY <1>2, <2>1 DEF SnapshotsLinked
<1>4. ASSUME NEW h \in Handlers, AnswerExisting(h) \/ AnswerWinner(h) PROVE AnswersHold'
  BY <1>2, <1>4 DEF AnswerExisting, AnswerWinner
<1>5. ASSUME NEW h \in Handlers, CommitBill(h) PROVE AnswersHold'
  <2> DEFINE new == [token |-> tok[h], bill |-> Len(bills) + 1, created |-> TRUE]
  <2>1. answers' = answers \cup {new} /\ NewBill(h).token = tok[h]
    BY <1>5 DEF CommitBill, Answer, NewBill
  <2>2. \A a \in answers : a.token # tok[h]
    BY <1>5, Appended DEF AnswersHold
  <2>3. \A a \in answers' : a.bill \in 1..Len(bills') /\ bills'[a.bill].token = a.token
    BY <1>5, <2>1, Appended DEF AnswersHold
  <2>4. ASSUME NEW a \in answers', NEW b \in answers',
               a.created, b.created, a.token = b.token
        PROVE  a = b
    <3>1. CASE a \in answers /\ b \in answers
      BY <2>4, <3>1 DEF AnswersHold
    <3>2. CASE a = new \/ b = new
      <4>1. new.token = tok[h]
        OBVIOUS
      <4>2. QED
        BY <2>1, <2>2, <2>4, <3>2, <4>1
    <3>3. QED
      BY <2>1, <3>1, <3>2
  <2>5. QED
    BY <2>3, <2>4 DEF AnswersHold
<1>6. QED
  <2>1. \/ UNCHANGED <<bills, answers>>
        \/ \E h \in Handlers : \/ AnswerFromSnapshot(h) \/ AnswerExisting(h)
                               \/ AnswerWinner(h) \/ CommitBill(h)
    BY DEF Next, vars, Tick, SetPrice, Preview, Send, CreateBill, Crash, Quiescent,
           RefuseExpired, RefuseMismatch, RefuseStock, RefuseNumber, RefuseRetry, Refuse,
           LoadSnapshot, StartBilling, CheckStock,
           LockSequence, FirstOfMonth, InsertBill, InsertFails, Goto
  <2>2. QED
    BY <1>1, <1>3, <1>4, <1>5, <2>1

-----------------------------------------------------------------------------
\* What each billed cart drew.
Drawn == [t \in BilledTokens |-> CartDraw(t)]

\* Stock moves with the book: a commit appends one bill and draws its cart.
LEMMA StockSteps ==
  ASSUME [Next]_vars
  PROVE  \/ UNCHANGED <<bills, stock>>
         \/ \E h \in Handlers : CommitBill(h)
BY DEF Next, vars, Tick, SetPrice, Preview, Send, CreateBill, Crash, Quiescent,
       RefuseExpired, RefuseMismatch, RefuseStock, RefuseNumber, RefuseRetry, Refuse,
       AnswerFromSnapshot, LoadSnapshot, AnswerExisting, StartBilling, CheckStock,
       LockSequence, FirstOfMonth, InsertBill, InsertFails, AnswerWinner, Goto

\* Only finitely many carts have been billed.
LEMMA FinitelyBilled == ASSUME TypeOK PROVE IsFiniteSet(BilledTokens)
<1>1. bills \in Seq(BillRow) /\ Len(bills) \in Nat
  BY DEF TypeOK, TablesTyped
<1> DEFINE N == 1..Len(bills)
           tokenOf == [i \in N |-> bills[i].token]
<1>2. IsFiniteSet(N)
  BY <1>1, FS_Interval
<1>3. \A i \in N : bills[i].token \in BilledTokens
  <2>1. \A i \in N : bills[i] \in BillRow
    BY <1>1
  <2>2. QED
    BY <2>1 DEF BilledTokens, Billed, BillRow
<1>4. tokenOf \in Surjection(N, BilledTokens)
  <2>1. tokenOf \in [N -> BilledTokens]
    BY <1>3
  <2>2. \A t \in BilledTokens : \E i \in N : tokenOf[i] = t
    BY DEF BilledTokens, Billed
  <2> HIDE DEF tokenOf, N
  <2>3. QED
    BY <2>1, <2>2 DEF Surjection
<1>5. QED
  BY <1>2, <1>4, FS_Surjection

\* The cart of a commit was not billed before: its draw is added, once.
LEMMA StockDrawnStep ==
  ASSUME TypeOK, Running, NumbersReserved, StockDrawnOnce, [Next]_vars
  PROVE  StockDrawnOnce'
<1>1. CASE UNCHANGED <<bills, stock>>
  BY <1>1 DEF StockDrawnOnce, BilledTokens, Billed
<1>2. ASSUME NEW h \in Handlers, CommitBill(h) PROVE StockDrawnOnce'
  <2> DEFINE t == tok[h]
             draw == CartDraw(t)
  <2>1. t \in Tokens /\ ~ Billed(t)
    BY <1>2 DEF Running, NumbersReserved, CommitBill
  <2>2. draw \in Int /\ \A u \in Tokens : CartDraw(u) \in Int
    BY <2>1, CheckoutAssumption
  <2>3. BilledTokens' = BilledTokens \cup {t} /\ t \notin BilledTokens
    <3>1. /\ bills \in Seq(BillRow) /\ NewBill(h) \in BillRow
          /\ bills' = Append(bills, NewBill(h)) /\ NewBill(h).token = t
      BY <1>2, NewBillTyped DEF TypeOK, TablesTyped, CommitBill, NewBill
    <3>2. \A u : Billed(u)' <=> Billed(u) \/ NewBill(h).token = u
      BY <3>1, BilledAppend, Zenon
    <3>3. QED
      BY <2>1, <3>1, <3>2 DEF BilledTokens
  <2>4. stock + SumFunction(Drawn) = OpeningStock /\ stock' = stock - draw /\ stock \in Int
    BY <1>2 DEF StockDrawnOnce, Drawn, CommitBill, TypeOK, TablesTyped
  <2> HIDE DEF t, draw
  <2>5. SumFunction(Drawn') = SumFunction(Drawn) + draw /\ SumFunction(Drawn) \in Int
    <3> DEFINE f == Drawn
               g == Drawn'
    <3>1. /\ DOMAIN f = BilledTokens /\ DOMAIN g = BilledTokens \cup {t}
          /\ IsFiniteSet(DOMAIN f) /\ t \notin DOMAIN f
      BY <2>3, FinitelyBilled DEF Drawn
    <3>2. (\A u \in DOMAIN f : f[u] \in Int /\ g[u] = f[u]) /\ g[t] = draw
      BY <2>1, <2>2, <2>3 DEF Drawn, BilledTokens, draw
    <3> HIDE DEF f, g
    <3>3. SumFunction(g) = SumFunction(f) + g[t]
      BY <2>2, <3>1, <3>2, SumAdd
    <3>4. SumFunction(f) \in Int
      BY <3>1, <3>2, SumIsInt
    <3>5. QED
      BY <3>2, <3>3, <3>4 DEF f, g
  <2>6. stock' + SumFunction(Drawn') = OpeningStock
    BY <2>2, <2>4, <2>5
  <2>7. QED
    BY <2>6 DEF StockDrawnOnce, Drawn
<1>3. QED
  BY <1>1, <1>2, StockSteps

-----------------------------------------------------------------------------
LEMMA InvInit == Init => IInv
<1> SUFFICES ASSUME Init PROVE IInv
  OBVIOUS
<1> USE CheckoutAssumption DEF Init
<1>1. TablesTyped
  BY DEF TablesTyped, NoSnapshot
<1>2. HandlersTyped
  BY DEF HandlersTyped, Steps
<1>3. Running /\ NumbersReserved /\ OneBillPerToken /\ NumbersDense
  BY DEF Running, NumbersReserved, OneBillPerToken, NumbersDense
<1>4. SnapshotsLinked /\ AnswersHold
  BY DEF SnapshotsLinked, AnswersHold, NoSnapshot
<1>5. StockDrawnOnce
  <2>1. DOMAIN Drawn = {}
    BY DEF Drawn, BilledTokens, Billed
  <2>2. SumFunction(Drawn) = 0
    BY <2>1, SumEmpty, Zenon DEF SumFunction
  <2>3. QED
    BY <2>2 DEF StockDrawnOnce, Drawn
<1>6. QED
  BY <1>1, <1>2, <1>3, <1>4, <1>5 DEF IInv, TypeOK

LEMMA InvStep == IInv /\ [Next]_vars => IInv'
<1> SUFFICES ASSUME IInv, [Next]_vars PROVE IInv'
  OBVIOUS
<1> USE DEF IInv
<1>1. /\ TypeOK' /\ Running' /\ OneBillPerToken' /\ NumbersDense'
      /\ SnapshotsLinked' /\ AnswersHold' /\ StockDrawnOnce'
  BY TypeStep, RunningStep, OneBillStep, NumbersDenseStep, SnapshotsLinkedStep,
     AnswersHoldStep, StockDrawnStep
<1>2. NumbersReserved'
  <2>1. CASE Tick \/ SetPrice \/ (\E t \in Tokens : Preview(t)) \/ UNCHANGED vars
    BY <2>1 DEF Tick, SetPrice, Preview, vars, NumbersReserved, MonthOf, Billed
  <2>2. ASSUME NEW h \in Handlers, NEW t \in Tokens, Send(h, t) PROVE NumbersReserved'
    <3>1. UNCHANGED <<bills, sequence>> /\ pc'[h] = "load"
      BY <2>2 DEF Send, TypeOK, HandlersTyped
    <3>2. \A g \in Handlers \ {h} :
            /\ pc'[g] = pc[g] /\ tok'[g] = tok[g] /\ no'[g] = no[g] /\ at'[g] = at[g]
            /\ \A m \in Months : holder[m] = g => holder'[m] = g
      BY <2>2 DEF Send, TypeOK, HandlersTyped
    <3>3. QED
      BY <3>1, <3>2, OthersKeepReservations
  <2>3. ASSUME NEW h \in Handlers, CreateBill(h) PROVE NumbersReserved'
    BY <2>3, CreateBillReserves
  <2>4. ASSUME NEW h \in Handlers, Crash(h) PROVE NumbersReserved'
    <3>1. UNCHANGED <<bills, sequence>> /\ EndRequest(h)
      BY <2>4 DEF Crash, Refuse
    <3>2. \A g \in Handlers \ {h} :
            /\ pc'[g] = pc[g] /\ tok'[g] = tok[g] /\ no'[g] = no[g] /\ at'[g] = at[g]
            /\ \A m \in Months : holder[m] = g => holder'[m] = g
      BY <3>1 DEF EndRequest, TypeOK, HandlersTyped
    <3>3. pc'[h] = "idle"
      BY <3>1 DEF EndRequest, TypeOK, HandlersTyped
    <3>4. QED
      BY <3>1, <3>2, <3>3, OthersKeepReservations
  <2>5. QED
    BY <2>1, <2>2, <2>3, <2>4 DEF Next, Quiescent
<1>3. QED
  BY <1>1, <1>2

\* The inductive invariant holds in every state of the checkout.
THEOREM Invariance == Spec => []IInv
BY InvInit, InvStep, PTL DEF Spec

\* The tables and the handlers' variables always have their types.
THEOREM TypeCorrect == Spec => []TypeOK
<1>1. IInv => TypeOK
  BY DEF IInv
<1>2. QED
  BY <1>1, Invariance, PTL

\* create_bill is idempotent: a checkout token never has two bills, however
\* many handlers, resends and crashes there are.
THEOREM TokenBilledOnce == Spec => []OneBillPerToken
<1>1. IInv => OneBillPerToken
  BY DEF IInv
<1>2. QED
  BY <1>1, Invariance, PTL

\* The bills of a month are numbered 1, 2, 3, ... in commit order, without a
\* gap or a duplicate, whatever rolls back or crashes in between.
THEOREM BillNumbersDense == Spec => []NumbersDense
<1>1. IInv => NumbersDense
  BY DEF IInv
<1>2. QED
  BY <1>1, Invariance, PTL

\* A bill and its snapshot name each other, and the bill charges the total the
\* preview froze, whatever happens to the daily price afterwards.
THEOREM SnapshotsStayLinked == Spec => []SnapshotsLinked
<1>1. IInv => SnapshotsLinked
  BY DEF IInv
<1>2. QED
  BY <1>1, Invariance, PTL

\* No answer is ever taken back: the bill a client was given stays the bill of
\* its token, and at most one answer claims to have created it.
THEOREM AnswersStayTrue == Spec => []AnswersHold
<1>1. IInv => AnswersHold
  BY DEF IInv
<1>2. QED
  BY <1>1, Invariance, PTL

\* The stock is the opening stock less what each billed cart drew, once: no second bill, resend,
\* rollback or crash draws a cart again or gives it back.
THEOREM BilledStockDrawnOnce == Spec => []StockDrawnOnce
<1>1. IInv => StockDrawnOnce
  BY DEF IInv
<1>2. QED
  BY <1>1, Invariance, PTL

\* An open transaction that holds a number holds the month's row, the number
\* is the next one, and nobody else has inserted a bill of its token.
THEOREM ReservationsHold == Spec => []NumbersReserved
<1>1. IInv => NumbersReserved
  BY DEF IInv
<1>2. QED
  BY <1>1, Invariance, PTL

\* A step keeps the quotes or previews a cart that has none.
LEMMA QuoteSteps ==
  ASSUME IInv, [Next]_vars
  PROVE  \/ Quotes' = Quotes
         \/ UNCHANGED <<bills, sequence>> /\ Book!Next
<1>0. snapshots \in [Tokens -> [expires : Nat, total : Prices \cup {0}, bill : Nat]]
  BY DEF IInv, TypeOK, TablesTyped
<1>1. CASE UNCHANGED <<bills, snapshots>>
  BY <1>1 DEF Quotes
<1>2. ASSUME NEW t \in Tokens, Preview(t) PROVE UNCHANGED <<bills, sequence>> /\ Book!Next
  <2>1. /\ snapshots[t].total = 0 /\ price \in Prices /\ price > 0
        /\ UNCHANGED <<bills, sequence>>
        /\ snapshots' = [snapshots EXCEPT ![t] = [expires |-> now + Window, total |-> price, bill |-> 0]]
    BY <1>2 DEF Preview, Issued, Priced, IInv, TypeOK, TablesTyped
  <2>2. Quotes' = [Quotes EXCEPT ![t] = price]
    BY <1>0, <2>1 DEF Quotes
  <2>3. Book!Quote(t, price)
    BY <2>1, <2>2 DEF Book!Quote, Quotes
  <2>4. QED
    BY <2>1, <2>3 DEF Book!Next
<1>3. ASSUME NEW h \in Handlers, AnswerExisting(h) \/ CommitBill(h) PROVE Quotes' = Quotes
  <2>1. PICK n : snapshots' = [snapshots EXCEPT ![tok[h]].bill = n]
    BY <1>3 DEF AnswerExisting, CommitBill
  <2>2. \A t \in Tokens : snapshots'[t].total = snapshots[t].total
    BY <1>0, <2>1
  <2>3. QED
    BY <2>2 DEF Quotes
<1>4. QED
  BY <1>1, <1>2, <1>3, SnapshotSteps

\* Checkout implements the book of bills: every step quotes a cart, appends the next number of a
\* month for a token without a bill, at its quote, or leaves the book alone.
THEOREM Refinement == Spec => BookSpec
<1>1. Init => Book!Init
  BY DEF Init, Book!Init, Quotes, NoSnapshot
<1>2. IInv /\ [Next]_vars => [Book!Next]_(Book!vars)
  <2> SUFFICES ASSUME IInv, [Next]_vars PROVE [Book!Next]_(Book!vars)
    OBVIOUS
  <2>1. CASE UNCHANGED <<bills, sequence>>
    BY <2>1, QuoteSteps DEF Book!vars
  <2>2. ASSUME NEW h \in Handlers, CommitBill(h), Quotes' = Quotes PROVE Book!Next
    <3>1. /\ NewBill(h) \in BillRow
          /\ sequence \in [Months -> 0..MaxSequence]
      BY <2>2, NewBillTyped DEF IInv, CommitBill, TypeOK, TablesTyped
    <3>2. /\ tok[h] \in Tokens /\ MonthOf(h) \in Months
          /\ no[h] \in 1..MaxSequence /\ snapshots[tok[h]].total = Quotes[tok[h]]
      BY <3>1 DEF NewBill, BillRow, Quotes
    <3>3. ~ Billed(tok[h]) /\ no[h] = sequence[MonthOf(h)] + 1 /\ Quotes[tok[h]] # 0
      BY <2>2, <3>2 DEF IInv, NumbersReserved, Running, Issued, CommitBill
    <3>4. sequence[MonthOf(h)] < MaxSequence
      BY <3>1, <3>2, <3>3, CheckoutAssumption
    <3>5. /\ sequence' = [sequence EXCEPT ![MonthOf(h)] = @ + 1]
          /\ bills' = Append(bills, [token |-> tok[h], month |-> MonthOf(h),
                                     no |-> sequence[MonthOf(h)] + 1,
                                     total |-> Quotes[tok[h]]])
      BY <2>2, <3>2, <3>3 DEF CommitBill, NewBill
    <3>6. Book!Issue(tok[h], MonthOf(h))
      BY <2>2, <3>3, <3>4, <3>5 DEF Book!Issue, Book!Billed, Billed
    <3>7. QED
      BY <3>2, <3>6 DEF Book!Next
  <2>3. ASSUME NEW h \in Handlers, CommitBill(h) PROVE Quotes' = Quotes
    <3>1. bills' # bills
      BY <2>3, Appended DEF IInv
    <3>2. QED
      BY <3>1, QuoteSteps
  <2>4. QED
    BY <2>1, <2>2, <2>3, BookSteps
<1>3. QED
  BY <1>1, <1>2, Invariance, PTL DEF Spec, BookSpec, Book!Spec

-----------------------------------------------------------------------------
(* The administration of a bill.                                           *)

\* The sums and the sizes of sets in BillAdmin are those of SumFacts.
LEMMA SumsAgree ==
  ASSUME NEW s
  PROVE  /\ Bills!SumFunction(s) = SumFunction(s)
         /\ Bills!IsFiniteSet(s) <=> IsFiniteSet(s)
         /\ Bills!Cardinality(s) = Cardinality(s)
<1>1. Bills!SumFunction(s) = SumFunction(s)
  BY DEF Bills!SumFunction, SumFunction, Bills!SumFunctionOnSet, SumFunctionOnSet,
         Bills!FoldFunctionOnSet, FoldFunctionOnSet, Bills!MapThenFoldSet, MapThenFoldSet
<1>2. Bills!IsFiniteSet(s) <=> IsFiniteSet(s)
  BY DEF Bills!IsFiniteSet, IsFiniteSet
<1>3. Bills!Cardinality(s) = Cardinality(s)
  BY Zenon DEF Bills!Cardinality, Cardinality
<1> QED BY <1>1, <1>2, <1>3

\* The bill as it was checked out, and what is asked for it to become.
Requested == Edits \cup {Opening}

\* The lines of an edit are finitely many.
LEMMA LinesAre ==
  ASSUME NEW e \in Requested
  PROVE  /\ e.lines \in Seq([item : Items, total : Nat]) /\ e.cash \in Nat /\ e.upi \in Nat
         /\ Len(e.lines) \in Nat \ {0} /\ DOMAIN e.lines = 1..Len(e.lines)
         /\ \A i \in DOMAIN e.lines : e.lines[i].item \in Items /\ e.lines[i].total \in Nat
<1>1. e.lines \in Seq([item : Items, total : Nat]) /\ e.lines # <<>> /\ e.cash \in Nat /\ e.upi \in Nat
  BY BillingAssumption DEF Bills!BillAdminAssumption, Requested
<1> DEFINE s == e.lines
           L == [item : Items, total : Nat]
<1>2. /\ Len(s) \in Nat \ {0} /\ DOMAIN s = 1..Len(s)
      /\ \A i \in DOMAIN s : s[i] \in L
  <2>1. s \in Seq(L) /\ s # <<>>
    BY <1>1
  <2> HIDE DEF s, L
  <2>2. /\ Len(s) \in Nat /\ DOMAIN s = 1..Len(s)
        /\ \A i \in DOMAIN s : s[i] \in L
    BY <2>1
  <2>3. Len(s) # 0
    BY <2>1
  <2> QED BY <2>2, <2>3
<1>3. \A i \in DOMAIN s : s[i].item \in Items /\ s[i].total \in Nat
  BY <1>2
<1> QED BY <1>1, <1>2, <1>3

\* Some line is the last one for its item.
LEMMA LastLine ==
  ASSUME NEW n \in Nat, NEW X \in SUBSET (1..n), X # {}
  PROVE  Bills!Max(X) \in X
<1> DEFINE T == {i..n : i \in X}
<1>1. IsFiniteSet(1..n) /\ T \subseteq SUBSET (1..n) /\ T # {}
  <2>1. IsFiniteSet(1..n)
    BY FS_Interval
  <2>2. \A i \in X : i..n \subseteq 1..n
    BY Z3
  <2>3. T \subseteq SUBSET (1..n)
    BY <2>2
  <2> QED BY <2>1, <2>3
<1>2. PICK U \in T : \A V \in T : V \subseteq U => V = U
  <2> DEFINE S == 1..n
  <2>1. IsFiniteSet(S) /\ T \subseteq SUBSET S /\ T # {}
    BY <1>1
  <2> HIDE DEF T, S
  <2> QED BY <2>1, MinimalSubset
<1>3. PICK i \in X : U = i..n
  BY <1>2
<1>4. \A j \in X : i >= j
  <2> SUFFICES ASSUME NEW j \in X, j > i PROVE FALSE
    OBVIOUS
  <2>1. j..n \in T /\ j..n \subseteq U
    BY <1>3
  <2>2. j..n = U
    BY <1>2, <2>1
  <2>3. i \in U /\ i \notin j..n
    BY <1>3
  <2> QED BY <2>2, <2>3
<1>5. \E x \in X : \A y \in X : x >= y
  BY <1>4
<1> QED BY <1>5 DEF Bills!Max

\* Each item gets the total of a line of its own, the only one if there is no other.
LEMMA LineTotalsAre ==
  ASSUME NEW e \in Requested
  PROVE  /\ DOMAIN Bills!LineTotals(e) = Bills!ItemsOf(e) /\ Bills!ItemsOf(e) \subseteq Items
         /\ Bills!LineTotals(e) \in [Bills!ItemsOf(e) -> Nat]
         /\ Bills!OneLineEach(e) =>
              \A i \in DOMAIN e.lines : Bills!LineTotals(e)[e.lines[i].item] = e.lines[i].total
<1> DEFINE last(item) == {j \in DOMAIN e.lines : e.lines[j].item = item}
           g == Bills!LineTotals(e)
<1>1. DOMAIN g = Bills!ItemsOf(e) /\ Bills!ItemsOf(e) \subseteq Items
  BY LinesAre DEF Bills!LineTotals, Bills!ItemsOf
<1>2. ASSUME NEW x \in Bills!ItemsOf(e)
      PROVE  /\ Bills!Max(last(x)) \in last(x)
             /\ g[x] = e.lines[Bills!Max(last(x))].total /\ g[x] \in Nat
  <2>1. Len(e.lines) \in Nat /\ last(x) \subseteq 1..Len(e.lines) /\ last(x) # {}
    BY LinesAre DEF Bills!ItemsOf
  <2>2. g[x] = e.lines[Bills!Max(last(x))].total
    BY DEF Bills!LineTotals
  <2> HIDE DEF last, g
  <2>3. Bills!Max(last(x)) \in last(x)
    BY <2>1, LastLine
  <2>4. Bills!Max(last(x)) \in DOMAIN e.lines
    BY <2>3 DEF last
  <2> QED BY <2>2, <2>3, <2>4, LinesAre
<1>3. ASSUME Bills!OneLineEach(e), NEW i \in DOMAIN e.lines PROVE g[e.lines[i].item] = e.lines[i].total
  <2> DEFINE x == e.lines[i].item
             m == Bills!Max(last(x))
  <2>1. x \in Bills!ItemsOf(e)
    BY DEF Bills!ItemsOf
  <2>2. m \in last(x) /\ g[x] = e.lines[m].total
    BY <1>2, <2>1
  <2> HIDE DEF g, m
  <2>3. m = i
    BY <1>3, <2>2 DEF Bills!OneLineEach
  <2> QED BY <2>2, <2>3
<1>4. g = [x \in Bills!ItemsOf(e) |-> g[x]]
  BY Zenon DEF Bills!LineTotals
<1> HIDE DEF g, last
<1>5. g \in [Bills!ItemsOf(e) -> Nat]
  BY <1>2, <1>4
<1> QED BY <1>1, <1>3, <1>5 DEF g

\* The total of a request is the sum of what its items get, and it has a line for each, if it
\* names none twice.
LEMMA EditAddsUp ==
  ASSUME NEW e \in Requested
  PROVE  /\ Bills!Total(e) \in Nat
         /\ Bills!OneLineEach(e) =>
              /\ Bills!Total(e) = SumFunction(Bills!LineTotals(e))
              /\ Len(e.lines) = Cardinality(Bills!ItemsOf(e))
<1> DEFINE D == DOMAIN e.lines
           f == [i \in D |-> e.lines[i].total]
           b == [i \in D |-> e.lines[i].item]
           g == Bills!LineTotals(e)
<1>1. IsFiniteSet(D) /\ Cardinality(D) = Len(e.lines)
  <2>1. D = 1..Len(e.lines) /\ Len(e.lines) \in Nat
    BY LinesAre
  <2>2. IsFiniteSet(1..Len(e.lines)) /\ Cardinality(1..Len(e.lines)) = Len(e.lines)
    BY <2>1, FS_Interval
  <2> QED BY <2>1, <2>2, Zenon
<1>2. Bills!Total(e) = SumFunction(f)
  BY SumsAgree, Zenon DEF Bills!Total
<1>3. DOMAIN f = D /\ DOMAIN g = Bills!ItemsOf(e) /\ \A i \in D : f[i] \in Nat
  BY LinesAre, LineTotalsAre
<1>4. Bills!Total(e) \in Nat
  <2> HIDE DEF f, D
  <2> QED BY <1>1, <1>2, <1>3, SumIsNat
<1>5. ASSUME Bills!OneLineEach(e)
      PROVE  /\ Bills!Total(e) = SumFunction(Bills!LineTotals(e))
             /\ Len(e.lines) = Cardinality(Bills!ItemsOf(e))
  <2>1. \A i, j \in D : b[i] = b[j] => i = j
    BY <1>5 DEF Bills!OneLineEach
  <2>2. {b[i] : i \in D} = Bills!ItemsOf(e)
    BY DEF Bills!ItemsOf
  <2>3. \A i \in D : f[i] \in Int /\ f[i] = g[b[i]]
    BY <1>5, LinesAre, LineTotalsAre
  <2> HIDE DEF f, b, g, D
  <2>4. SumFunctionOnSet(f, D) = SumFunctionOnSet(g, {b[i] : i \in D})
    BY <1>1, <2>1, <2>3, SumRenamed
  <2>5. Bills!Total(e) = SumFunction(g)
    BY <1>2, <1>3, <2>2, <2>4, Zenon DEF SumFunction
  <2>6. Cardinality({b[i] : i \in D}) = Cardinality(D)
    BY <1>1, <2>1, RenamedSet
  <2> QED BY <1>1, <2>2, <2>5, <2>6 DEF g
<1> QED BY <1>4, <1>5

\* A row that is as it was read becomes what was written.
LEMMA UpdateFresh ==
  ASSUME NEW row, NEW new, DOMAIN new = DOMAIN row, new = [c \in DOMAIN new |-> new[c]]
  PROVE  Bills!Update(row, row, new) = new
<1>1. \A c \in DOMAIN row : (IF new[c] # row[c] THEN new[c] ELSE row[c]) = new[c]
  OBVIOUS
<1> QED BY <1>1, Zenon DEF Bills!Update

-----------------------------------------------------------------------------
(* The inductive invariant.                                                *)

\* The rows.
IssuedRow == [status : {"paid", "cancelled"}, total : Nat, count : Nat \ {0}]
PaymentRow == [cash : Nat, upi : Nat, paid : Nat]
ReceiptRow == [status : Bills!Outcomes, attempts : Nat]
Entries == [action : {"edited"}, total : Nat, paid : PaymentRow] \cup [action : {"cancelled"}]
Columns == {"op", "step", "bill", "lines", "payment", "receipt", "crossed"}

\* The tables.
Tables ==
  /\ age \in 0..MaxTime
  /\ issued \in IssuedRow
  /\ lines \in [DOMAIN lines -> Nat] /\ DOMAIN lines \subseteq Items /\ DOMAIN lines # {}
  /\ payment \in PaymentRow /\ receipt \in ReceiptRow
  /\ audit \in Seq(Entries)
  /\ requests \in 0..MaxRequests /\ reports \in Nat
  /\ crew \in Crews /\ flaws \subseteq Bills!Flaws

Serving(h) == txn[h].op # None
Kind(h) == txn[h].op.kind
Past(h, n) == txn[h].step > n
Writer(h) == Kind(h) \in {"edit", "cancel"}
Reporter(h) == Kind(h) \in {"report", "reprint"}

Unseen(h, write) == write \notin txn[h].crossed

\* What a handler has read was in the tables, and is there still unless another has crossed it.
Knows(h) ==
  /\ txn[h].op \in Bills!Requests
  /\ txn[h].step \in 1..Len(Bills!Script[Kind(h)])
  /\ Writer(h) /\ Past(h, 1) =>
       /\ txn[h].bill \in IssuedRow
       /\ Unseen(h, "edit") => txn[h].bill.total = issued.total /\ txn[h].bill.count = issued.count
       /\ Unseen(h, "cancel") => txn[h].bill.status = issued.status
  /\ Kind(h) = "edit" /\ Past(h, 2) =>
       /\ txn[h].lines \in [DOMAIN lines -> Nat]
       /\ Unseen(h, "edit") => txn[h].lines = lines
  /\ Kind(h) = "edit" /\ Past(h, 3) =>
       /\ txn[h].payment \in PaymentRow
       /\ Unseen(h, "edit") => txn[h].payment = payment
  /\ Reporter(h) /\ Past(h, 1) =>
       /\ txn[h].receipt \in ReceiptRow /\ txn[h].receipt.attempts <= reports
       /\ Unseen(h, "attempt") => txn[h].receipt = receipt

\* The handlers' transactions.
Sessions ==
  /\ DOMAIN txn = Handlers /\ txn = [h \in Handlers |-> txn[h]]
  /\ \A h \in Handlers : DOMAIN txn[h] = Columns /\ txn[h].step \in 0..4 /\ txn[h].crossed \subseteq Bills!Writes
  /\ \A h \in Handlers : Serving(h) => Knows(h)

\* The inductive invariant: the rows agree, and whoever will write them knows what it reads.
BillIndInv ==
  /\ Tables /\ Bills!PaymentSettles /\ Bills!LinesAddUp /\ Bills!AttemptsCounted /\ Bills!AuditTellsLast
  /\ Sessions

-----------------------------------------------------------------------------
\* What a request is.
LEMMA OpFields ==
  ASSUME NEW op \in Bills!Requests
  PROVE  /\ op.kind \in Bills!Kinds
         /\ op.kind = "edit" => op.edit \in Edits
         /\ op.kind = "report" => op.outcome \in Bills!Outcomes
BY DEF Bills!Requests, Bills!Kinds

\* Where in its script each statement is.
LEMMA AtStep ==
  ASSUME NEW h, Serving(h), Knows(h)
  PROVE  LET k == Kind(h)
             n == txn[h].step
         IN /\ k \in Bills!Kinds /\ n \in 1..4
            /\ Bills!Step(h) # "idle"
            /\ Bills!Step(h) = "bill" => Writer(h) /\ n = 1
            /\ Bills!Step(h) = "lines" => k = "edit" /\ n = 2
            /\ Bills!Step(h) = "payment" => k = "edit" /\ n = 3
            /\ Bills!Step(h) = "receipt" => Reporter(h) /\ n = 1
            /\ Bills!Step(h) = "commit" => n = Len(Bills!Script[k])
            /\ Len(Bills!Script[k]) = IF k = "edit" THEN 4 ELSE 2
            /\ (n < Len(Bills!Script[k]) <=> Bills!Step(h) # "commit")
<1> DEFINE k == Kind(h)
           n == txn[h].step
<1>1. k \in Bills!Kinds /\ n \in 1..Len(Bills!Script[k])
  BY OpFields DEF Knows, Kind
<1>2. Bills!Step(h) = Bills!Script[k][n]
  BY DEF Bills!Step, Serving, Kind
<1>3. Writer(h) <=> k \in {"edit", "cancel"}
  BY DEF Writer
<1>r. Reporter(h) <=> k \in {"report", "reprint"}
  BY DEF Reporter
<1> DEFINE statement == Bills!Step(h)
<1> HIDE DEF k, n, statement
<1>4. CASE k = "edit"
  <2>1. Bills!Script[k] = <<"bill", "lines", "payment", "commit">> /\ Len(Bills!Script[k]) = 4
    BY <1>4 DEF Bills!Script
  <2>2. n \in {1, 2, 3, 4}
    BY <1>1, <2>1
  <2>3. statement = <<"bill", "lines", "payment", "commit">>[n]
    BY <1>2, <2>1 DEF statement
  <2>4. /\ n = 1 => statement = "bill"
        /\ n = 2 => statement = "lines"
        /\ n = 3 => statement = "payment"
        /\ n = 4 => statement = "commit"
    BY <2>3
  <2> QED BY <1>1, <1>3, <1>4, <2>1, <2>2, <2>4 DEF k, n, statement
<1>5. CASE k # "edit"
  <2>1. /\ Len(Bills!Script[k]) = 2
        /\ Bills!Script[k] = IF k = "cancel" THEN <<"bill", "commit">> ELSE <<"receipt", "commit">>
    <3>1. CASE k = "cancel"
      BY <3>1 DEF Bills!Script
    <3>2. CASE k = "report"
      BY <3>2 DEF Bills!Script
    <3>3. CASE k = "reprint"
      BY <3>3 DEF Bills!Script
    <3> QED BY <1>1, <1>5, <3>1, <3>2, <3>3 DEF Bills!Kinds
  <2>2. n \in {1, 2}
    BY <1>1, <2>1
  <2>3. /\ n = 1 => statement = IF k = "cancel" THEN "bill" ELSE "receipt"
        /\ n = 2 => statement = "commit"
    BY <1>2, <2>1 DEF statement
  <2>4. k \in {"cancel", "report", "reprint"}
    BY <1>1, <1>5 DEF Bills!Kinds
  <2> QED BY <1>1, <1>3, <1>r, <1>5, <2>1, <2>2, <2>3, <2>4 DEF k, n, statement
<1> QED BY <1>4, <1>5

\* What was read stays known when another commits what crosses it.
LEMMA OthersKnow ==
  ASSUME Tables, Tables', NEW g \in Handlers, Knows(g), DOMAIN txn[g] = Columns, NEW writes,
         txn'[g] = Bills!Crosses(g, writes),
         "edit" \notin writes =>
           issued'.total = issued.total /\ issued'.count = issued.count /\ UNCHANGED <<lines, payment>>,
         "cancel" \notin writes => issued'.status = issued.status,
         "attempt" \notin writes => UNCHANGED receipt,
         DOMAIN lines' = DOMAIN lines, reports' >= reports
  PROVE  Knows(g)'
<1>1. /\ txn'[g].op = txn[g].op /\ txn'[g].step = txn[g].step /\ txn'[g].bill = txn[g].bill
      /\ txn'[g].lines = txn[g].lines /\ txn'[g].payment = txn[g].payment /\ txn'[g].receipt = txn[g].receipt
      /\ txn'[g].crossed = IF txn[g].step > 1 THEN txn[g].crossed \cup writes ELSE txn[g].crossed
  BY DEF Bills!Crosses, Columns
<1>2. Kind(g)' = Kind(g) /\ Writer(g)' = Writer(g) /\ Reporter(g)' = Reporter(g)
  BY <1>1 DEF Kind, Writer, Reporter
<1>3. \A n \in 1..3 : Past(g, n)' = Past(g, n)
  BY <1>1 DEF Past
<1>4. \A n \in 1..3 : Past(g, n) => \A w : Unseen(g, w)' <=> Unseen(g, w) /\ w \notin writes
  <2> SUFFICES ASSUME NEW n \in 1..3, Past(g, n) PROVE \A w : Unseen(g, w)' <=> Unseen(g, w) /\ w \notin writes
    OBVIOUS
  <2>1. txn[g].step > 1
    BY DEF Past, Knows
  <2> QED BY <1>1, <2>1 DEF Unseen
<1>5. /\ txn'[g].op \in Bills!Requests /\ txn'[g].step \in 1..Len(Bills!Script[Kind(g)'])
  BY <1>1, <1>2 DEF Knows
<1>6. Writer(g) /\ Past(g, 1) =>
        /\ txn'[g].bill \in IssuedRow
        /\ Unseen(g, "edit")' => txn'[g].bill.total = issued'.total /\ txn'[g].bill.count = issued'.count
        /\ Unseen(g, "cancel")' => txn'[g].bill.status = issued'.status
  BY <1>1, <1>4 DEF Knows
<1>7. /\ Kind(g) = "edit" /\ Past(g, 2) =>
           /\ txn'[g].lines \in [DOMAIN lines' -> Nat]
           /\ Unseen(g, "edit")' => txn'[g].lines = lines'
      /\ Kind(g) = "edit" /\ Past(g, 3) =>
           /\ txn'[g].payment \in PaymentRow
           /\ Unseen(g, "edit")' => txn'[g].payment = payment'
  BY <1>1, <1>4 DEF Knows
<1>8. Reporter(g) /\ Past(g, 1) =>
        /\ txn'[g].receipt \in ReceiptRow /\ txn'[g].receipt.attempts <= reports'
        /\ Unseen(g, "attempt")' => txn'[g].receipt = receipt'
  <2> SUFFICES ASSUME Reporter(g), Past(g, 1)
               PROVE  /\ txn'[g].receipt \in ReceiptRow /\ txn'[g].receipt.attempts <= reports'
                      /\ Unseen(g, "attempt")' => txn'[g].receipt = receipt'
    OBVIOUS
  <2>1. /\ txn[g].receipt \in ReceiptRow /\ txn[g].receipt.attempts <= reports
        /\ Unseen(g, "attempt") => txn[g].receipt = receipt
    BY DEF Knows
  <2>2. txn[g].receipt.attempts \in Nat /\ reports \in Nat /\ reports' \in Nat
    BY <2>1 DEF Tables, ReceiptRow
  <2> QED BY <1>1, <1>4, <2>1, <2>2
<1> QED BY <1>2, <1>3, <1>5, <1>6, <1>7, <1>8 DEF Knows

\* A request ends, and what it wrote crosses the others.
LEMMA EndKeeps ==
  ASSUME BillIndInv, Tables', NEW h \in Handlers, NEW writes \in SUBSET Bills!Writes, Bills!End(h, writes),
         "edit" \notin writes =>
           issued'.total = issued.total /\ issued'.count = issued.count /\ UNCHANGED <<lines, payment>>,
         "cancel" \notin writes => issued'.status = issued.status,
         "attempt" \notin writes => UNCHANGED receipt,
         DOMAIN lines' = DOMAIN lines, reports' >= reports
  PROVE  Sessions'
<1>1. \A g \in Handlers : txn'[g] = IF g = h THEN Bills!Idle ELSE Bills!Crosses(g, writes)
  BY DEF Bills!End
<1>2. DOMAIN Bills!Idle = Columns /\ Bills!Idle.step = 0 /\ Bills!Idle.op = None /\ Bills!Idle.crossed = {}
  BY DEF Bills!Idle, Columns
<1>3. DOMAIN txn' = Handlers /\ txn' = [g \in Handlers |-> txn'[g]]
  BY DEF Bills!End
<1>4. \A g \in Handlers : /\ DOMAIN txn[g] = Columns /\ txn[g].step \in 0..4
                          /\ txn[g].crossed \subseteq Bills!Writes
  BY DEF BillIndInv, Sessions
<1>5. ASSUME NEW g \in Handlers
      PROVE  LET c == Bills!Crosses(g, writes) IN
             /\ DOMAIN c = Columns /\ c.op = txn[g].op /\ c.step = txn[g].step
             /\ c.crossed \subseteq txn[g].crossed \cup writes
  BY <1>4 DEF Bills!Crosses, Columns
<1>6. \A g \in Handlers : /\ DOMAIN txn'[g] = Columns /\ txn'[g].step \in 0..4
                          /\ txn'[g].crossed \subseteq Bills!Writes
  <2> SUFFICES ASSUME NEW g \in Handlers
               PROVE  DOMAIN txn'[g] = Columns /\ txn'[g].step \in 0..4 /\ txn'[g].crossed \subseteq Bills!Writes
    OBVIOUS
  <2>1. CASE g = h
    <3>1. txn'[g] = Bills!Idle
      BY <1>1, <2>1
    <3> QED BY <1>2, <3>1
  <2>2. CASE g # h
    <3>1. txn'[g] = Bills!Crosses(g, writes)
      BY <1>1, <2>2
    <3> QED BY <1>4, <1>5, <3>1
  <2> QED BY <2>1, <2>2
<1>7. ASSUME NEW g \in Handlers, Serving(g)' PROVE Knows(g)'
  <2>1. g # h
    <3>1. txn'[h] = Bills!Idle
      BY <1>1
    <3> QED BY <1>2, <1>7, <3>1 DEF Serving
  <2>2. txn'[g] = Bills!Crosses(g, writes)
    BY <1>1, <2>1
  <2>3. Serving(g)
    BY <1>5, <1>7, <2>2 DEF Serving
  <2>4. Knows(g) /\ Tables /\ DOMAIN txn[g] = Columns
    BY <2>3 DEF BillIndInv, Sessions
  <2> QED BY <2>2, <2>4, OthersKnow
<1> QED BY <1>3, <1>6, <1>7 DEF Sessions

\* A SELECT that leaves its handler knowing what it read.
LEMMA ReadKeeps ==
  ASSUME BillIndInv, NEW h \in Handlers, UNCHANGED <<age, Bills!tables, requests, reports, crew, flaws>>,
         NEW next, txn' = [txn EXCEPT ![h] = next],
         DOMAIN next = Columns, next.step \in 0..4, next.crossed \subseteq Bills!Writes, Knows(h)'
  PROVE  BillIndInv'
<1>1. UNCHANGED <<age, issued, lines, payment, receipt, audit, requests, reports, crew, flaws>>
  BY DEF Bills!tables
<1>2. Tables' /\ Bills!PaymentSettles' /\ Bills!LinesAddUp' /\ Bills!AttemptsCounted' /\ Bills!AuditTellsLast'
  BY <1>1 DEF BillIndInv, Tables, Bills!PaymentSettles, Bills!LinesAddUp, Bills!AttemptsCounted, Bills!AuditTellsLast
<1>3. DOMAIN txn = Handlers
  BY DEF BillIndInv, Sessions
<1>4. DOMAIN txn' = Handlers /\ txn' = [g \in Handlers |-> txn'[g]]
  BY <1>3
<1>5. \A g \in Handlers : txn'[g] = IF g = h THEN next ELSE txn[g]
  BY <1>3
<1>6. \A g \in Handlers : /\ DOMAIN txn'[g] = Columns /\ txn'[g].step \in 0..4
                          /\ txn'[g].crossed \subseteq Bills!Writes
  BY <1>5 DEF BillIndInv, Sessions
<1>7. ASSUME NEW g \in Handlers, Serving(g)' PROVE Knows(g)'
  <2>1. CASE g = h
    BY <2>1
  <2>2. CASE g # h
    <3>1. txn'[g] = txn[g]
      BY <1>5, <2>2
    <3>2. Knows(g)
      BY <1>7, <3>1 DEF Serving, BillIndInv, Sessions
    <3> QED BY <1>1, <3>1, <3>2 DEF Knows, Kind, Past, Writer, Reporter, Unseen
  <2> QED BY <2>1, <2>2
<1> QED BY <1>2, <1>4, <1>6, <1>7 DEF BillIndInv, Sessions

-----------------------------------------------------------------------------
(* The statements.                                                         *)

\* What each SELECT adds to what is known.
LEMMA ReadsKeep ==
  ASSUME BillIndInv, NEW h \in Handlers,
         Bills!ReadBill(h) \/ Bills!ReadLines(h) \/ Bills!ReadPayment(h) \/ Bills!ReadReceipt(h)
  PROVE  BillIndInv'
<1>1. Bills!Step(h) \in {"bill", "lines", "payment", "receipt"}
  BY DEF Bills!ReadBill, Bills!ReadLines, Bills!ReadPayment, Bills!ReadReceipt, Bills!Read
<1>2. /\ Serving(h) /\ Knows(h) /\ Tables
      /\ DOMAIN txn[h] = Columns /\ txn[h].crossed \subseteq Bills!Writes
  BY <1>1 DEF Bills!Step, Serving, BillIndInv, Sessions
<1>3. /\ Bills!Step(h) = "bill" => Writer(h) /\ txn[h].step = 1
      /\ Bills!Step(h) = "lines" => Kind(h) = "edit" /\ txn[h].step = 2
      /\ Bills!Step(h) = "payment" => Kind(h) = "edit" /\ txn[h].step = 3
      /\ Bills!Step(h) = "receipt" => Reporter(h) /\ txn[h].step = 1
      /\ Kind(h) \in Bills!Kinds
      /\ txn[h].step < Len(Bills!Script[Kind(h)]) /\ Len(Bills!Script[Kind(h)]) \in {2, 4}
  <2>1. /\ Bills!Step(h) = "bill" => Writer(h) /\ txn[h].step = 1
        /\ Bills!Step(h) = "lines" => Kind(h) = "edit" /\ txn[h].step = 2
        /\ Bills!Step(h) = "payment" => Kind(h) = "edit" /\ txn[h].step = 3
        /\ Bills!Step(h) = "receipt" => Reporter(h) /\ txn[h].step = 1
        /\ Kind(h) \in Bills!Kinds
        /\ (txn[h].step < Len(Bills!Script[Kind(h)]) <=> Bills!Step(h) # "commit")
        /\ Len(Bills!Script[Kind(h)]) = IF Kind(h) = "edit" THEN 4 ELSE 2
    BY <1>2, AtStep, Zenon
  <2> QED BY <1>1, <2>1
<1>4. /\ Writer(h) <=> Kind(h) \in {"edit", "cancel"}
      /\ Reporter(h) <=> Kind(h) \in {"report", "reprint"}
  BY DEF Writer, Reporter
<1>5. DOMAIN txn = Handlers
  BY DEF BillIndInv, Sessions
\* What all SELECTs leave alone.
<1> DEFINE Advanced(session) == [session EXCEPT !.step = @ + 1]
<1>6. ASSUME NEW table, NEW session, Bills!Read(h, table, session),
             DOMAIN session = Columns, session.op = txn[h].op, session.step = txn[h].step,
             session.crossed = txn[h].crossed
      PROVE  /\ UNCHANGED <<age, Bills!tables, requests, reports, crew, flaws>>
             /\ txn' = [txn EXCEPT ![h] = Advanced(session)]
             /\ DOMAIN Advanced(session) = Columns /\ Advanced(session).step \in 0..4
             /\ Advanced(session).crossed \subseteq Bills!Writes
             /\ txn'[h].bill = session.bill /\ txn'[h].lines = session.lines
             /\ txn'[h].payment = session.payment /\ txn'[h].receipt = session.receipt
             /\ txn'[h].op \in Bills!Requests /\ txn'[h].step \in 1..Len(Bills!Script[Kind(h)'])
             /\ txn'[h].step = txn[h].step + 1
             /\ Kind(h)' = Kind(h) /\ (Writer(h)' <=> Writer(h)) /\ (Reporter(h)' <=> Reporter(h))
             /\ \A w : Unseen(h, w)' <=> Unseen(h, w)
             /\ UNCHANGED <<issued, lines, payment, receipt, reports>>
  <2>1. /\ UNCHANGED <<age, Bills!tables, requests, reports, crew, flaws>>
        /\ txn' = [txn EXCEPT ![h] = Advanced(session)]
    BY <1>6 DEF Bills!Read
  <2>2. /\ DOMAIN Advanced(session) = Columns /\ Advanced(session).step = txn[h].step + 1
        /\ Advanced(session).op = txn[h].op /\ Advanced(session).crossed = txn[h].crossed
        /\ Advanced(session).bill = session.bill /\ Advanced(session).lines = session.lines
        /\ Advanced(session).payment = session.payment /\ Advanced(session).receipt = session.receipt
    BY <1>6 DEF Columns
  <2> HIDE DEF Advanced
  <2>3. txn'[h] = Advanced(session)
    BY <1>5, <2>1
  <2>4. txn[h].step \in 1..3
    BY <1>1, <1>3
  <2>5. Kind(h)' = Kind(h) /\ (Writer(h)' <=> Writer(h)) /\ (Reporter(h)' <=> Reporter(h))
        /\ \A w : Unseen(h, w)' <=> Unseen(h, w)
    BY <2>2, <2>3 DEF Kind, Writer, Reporter, Unseen
  <2>6. txn'[h].op \in Bills!Requests /\ txn'[h].step \in 1..Len(Bills!Script[Kind(h)'])
    BY <1>2, <1>3, <2>2, <2>3, <2>4, <2>5 DEF Knows
  <2> QED BY <1>2, <2>1, <2>2, <2>3, <2>4, <2>5, <2>6 DEF Bills!tables
<1> HIDE DEF Advanced
<1>7. CASE Bills!ReadBill(h)
  <2> DEFINE s == [txn[h] EXCEPT !.bill = issued]
  <2>1. /\ DOMAIN s = Columns /\ s.op = txn[h].op /\ s.step = txn[h].step /\ s.crossed = txn[h].crossed
        /\ s.bill = issued
    BY <1>2 DEF Columns
  <2>2. Bills!Read(h, "bill", s) /\ Bills!Step(h) = "bill"
    BY <1>7 DEF Bills!ReadBill, Bills!Read
  <2> HIDE DEF s
  <2>3. txn'[h].step = 2 /\ txn'[h].bill = issued' /\ ~ Reporter(h)' /\ issued' \in IssuedRow
    BY <1>2, <1>3, <1>4, <1>6, <2>1, <2>2 DEF Tables
  <2>4. Knows(h)'
    BY <1>6, <2>1, <2>2, <2>3 DEF Knows, Past
  <2> QED BY <1>6, <2>1, <2>2, <2>4, ReadKeeps
<1>8. CASE Bills!ReadLines(h)
  <2> DEFINE s == [txn[h] EXCEPT !.lines = lines]
  <2>1. /\ DOMAIN s = Columns /\ s.op = txn[h].op /\ s.step = txn[h].step /\ s.crossed = txn[h].crossed
        /\ s.lines = lines /\ s.bill = txn[h].bill
    BY <1>2 DEF Columns
  <2>2. Bills!Read(h, "lines", s) /\ Bills!Step(h) = "lines"
    BY <1>8 DEF Bills!ReadLines, Bills!Read
  <2> HIDE DEF s
  <2>3. /\ txn'[h].step = 3 /\ txn'[h].lines = lines' /\ ~ Reporter(h)' /\ lines' \in [DOMAIN lines' -> Nat]
        /\ txn'[h].bill = txn[h].bill
    BY <1>2, <1>3, <1>4, <1>6, <2>1, <2>2 DEF Tables
  <2>4. /\ txn[h].bill \in IssuedRow
        /\ Unseen(h, "edit") => txn[h].bill.total = issued.total /\ txn[h].bill.count = issued.count
        /\ Unseen(h, "cancel") => txn[h].bill.status = issued.status
    BY <1>2, <1>3, <1>4, <2>2 DEF Knows, Past
  <2>5. Knows(h)'
    BY <1>6, <2>1, <2>2, <2>3, <2>4 DEF Knows, Past
  <2> QED BY <1>6, <2>1, <2>2, <2>5, ReadKeeps
<1>9. CASE Bills!ReadPayment(h)
  <2> DEFINE s == [txn[h] EXCEPT !.payment = payment]
  <2>1. /\ DOMAIN s = Columns /\ s.op = txn[h].op /\ s.step = txn[h].step /\ s.crossed = txn[h].crossed
        /\ s.payment = payment /\ s.bill = txn[h].bill /\ s.lines = txn[h].lines
    BY <1>2 DEF Columns
  <2>2. Bills!Read(h, "payment", s) /\ Bills!Step(h) = "payment"
    BY <1>9 DEF Bills!ReadPayment, Bills!Read
  <2> HIDE DEF s
  <2>3. /\ txn'[h].step = 4 /\ txn'[h].payment = payment' /\ ~ Reporter(h)' /\ payment' \in PaymentRow
        /\ txn'[h].bill = txn[h].bill /\ txn'[h].lines = txn[h].lines
    BY <1>2, <1>3, <1>4, <1>6, <2>1, <2>2 DEF Tables
  <2>4. /\ txn[h].bill \in IssuedRow
        /\ Unseen(h, "edit") => txn[h].bill.total = issued.total /\ txn[h].bill.count = issued.count
        /\ Unseen(h, "cancel") => txn[h].bill.status = issued.status
        /\ txn[h].lines \in [DOMAIN lines -> Nat]
        /\ Unseen(h, "edit") => txn[h].lines = lines
    BY <1>2, <1>3, <1>4, <2>2 DEF Knows, Past
  <2>5. Knows(h)'
    BY <1>6, <2>1, <2>2, <2>3, <2>4 DEF Knows, Past
  <2> QED BY <1>6, <2>1, <2>2, <2>5, ReadKeeps
<1>10. CASE Bills!ReadReceipt(h)
  <2> DEFINE s == [txn[h] EXCEPT !.receipt = receipt]
  <2>1. /\ DOMAIN s = Columns /\ s.op = txn[h].op /\ s.step = txn[h].step /\ s.crossed = txn[h].crossed
        /\ s.receipt = receipt
    BY <1>2 DEF Columns
  <2>2. Bills!Read(h, "receipt", s) /\ Bills!Step(h) = "receipt"
    BY <1>10 DEF Bills!ReadReceipt, Bills!Read
  <2> HIDE DEF s
  <2>3. /\ txn'[h].step = 2 /\ txn'[h].receipt = receipt' /\ ~ Writer(h)' /\ Kind(h)' # "edit"
        /\ receipt' \in ReceiptRow /\ receipt'.attempts <= reports'
    <3>1. receipt \in ReceiptRow /\ receipt.attempts <= reports
      BY DEF BillIndInv, Tables, Bills!AttemptsCounted
    <3> QED BY <1>3, <1>4, <1>6, <2>1, <2>2, <3>1
  <2>4. Knows(h)'
    BY <1>6, <2>1, <2>2, <2>3 DEF Knows
  <2> QED BY <1>6, <2>1, <2>2, <2>4, ReadKeeps
<1> QED BY <1>7, <1>8, <1>9, <1>10

\* What a handler that commits has read.
LEMMA AtCommit ==
  ASSUME BillIndInv, NEW h \in Handlers, Bills!Step(h) = "commit"
  PROVE  /\ Serving(h) /\ Knows(h) /\ txn[h].op \in Bills!Requests
         /\ Past(h, 1) /\ (Kind(h) = "edit" => Past(h, 2) /\ Past(h, 3) /\ Writer(h))
<1>1. Serving(h) /\ Knows(h)
  BY DEF Bills!Step, Serving, BillIndInv, Sessions
<1>2. txn[h].step = IF Kind(h) = "edit" THEN 4 ELSE 2
  BY <1>1, AtStep, Zenon
<1>3. Past(h, 1) /\ (Kind(h) = "edit" => Past(h, 2) /\ Past(h, 3) /\ Writer(h))
  BY <1>2 DEF Past, Writer
<1> QED BY <1>1, <1>3 DEF Knows

\* An edit is accepted for the items of the bill, paid in full: all columns that differ from what
\* was read become what it asks for, which is all of them unless another edit crossed it.
LEMMA EditKeeps ==
  ASSUME BillIndInv, NEW h \in Handlers, Bills!CommitEdit(h)
  PROVE  BillIndInv'
<1> DEFINE e == txn[h].op.edit
           sum == Bills!Total(e)
           n == Len(e.lines)
           seen == txn[h].bill
           new == [seen EXCEPT !.total = sum, !.count = n]
           totals == Bills!LineTotals(e)
           paid == Bills!Paid(e)
           entry == [action |-> "edited", total |-> sum, paid |-> paid]
           clean == Unseen(h, "edit")
<1>1. /\ Kind(h) = "edit" /\ Bills!Step(h) = "commit" /\ Bills!End(h, {"edit"}) /\ Bills!Accepted(h)
      /\ audit' = Append(audit, entry)
      /\ issued' = Bills!Update(issued, seen, new)
      /\ lines' = Bills!Update(lines, txn[h].lines, totals)
      /\ payment' = Bills!Update(payment, txn[h].payment, paid)
      /\ flaws' = (flaws \ {"mixed", "doubled"}) \cup Bills!EditFlaws(txn[h])
      /\ UNCHANGED <<receipt, reports, age, requests, crew>>
  BY DEF Bills!CommitEdit, Bills!Committing, Kind, Bills!End, Bills!Count
<1>2. /\ txn[h].op \in Bills!Requests /\ Knows(h) /\ Past(h, 1) /\ Past(h, 2) /\ Past(h, 3) /\ Writer(h)
  BY <1>1, AtCommit
<1>3. e \in Edits
  BY <1>1, <1>2, OpFields DEF Kind
<1>4. /\ seen \in IssuedRow /\ txn[h].lines \in [DOMAIN lines -> Nat] /\ txn[h].payment \in PaymentRow
      /\ clean => /\ seen.total = issued.total /\ seen.count = issued.count
                  /\ txn[h].lines = lines /\ txn[h].payment = payment
      /\ Unseen(h, "cancel") => seen.status = issued.status
  BY <1>1, <1>2 DEF Knows
<1>5. /\ sum \in Nat /\ n \in Nat \ {0} /\ totals \in [Bills!ItemsOf(e) -> Nat]
      /\ DOMAIN totals = Bills!ItemsOf(e) /\ e.cash \in Nat /\ e.upi \in Nat
      /\ Bills!OneLineEach(e) => sum = SumFunction(totals) /\ n = Cardinality(Bills!ItemsOf(e))
  BY <1>3, EditAddsUp, LinesAre, LineTotalsAre DEF Requested
<1>6. seen.status # "cancelled" /\ Bills!ItemsOf(e) = DOMAIN lines /\ e.cash + e.upi = sum
  BY <1>1, <1>4 DEF Bills!Accepted, Bills!Modifiable
<1>7. /\ issued \in IssuedRow /\ payment \in PaymentRow /\ lines \in [DOMAIN lines -> Nat]
      /\ DOMAIN lines \subseteq Items /\ DOMAIN lines # {} /\ audit \in Seq(Entries)
      /\ flaws \subseteq Bills!Flaws
  BY DEF BillIndInv, Tables
<1>8. paid = [cash |-> e.cash, upi |-> e.upi, paid |-> sum]
  BY <1>6 DEF Bills!Paid
<1> DEFINE doubled == ~ Bills!OneLineEach(e)
<1>9. /\ flaws' \subseteq Bills!Flaws
      /\ "mixed" \in flaws' <=> ~ clean
      /\ "doubled" \in flaws' <=> doubled
      /\ "late" \in flaws' <=> "late" \in flaws \/ ~ Unseen(h, "cancel")
      /\ "uncounted" \in flaws' <=> "uncounted" \in flaws
  BY <1>1, <1>7 DEF Bills!EditFlaws, Bills!Flaws, Unseen
<1>10. /\ DOMAIN issued = {"status", "total", "count"} /\ DOMAIN seen = {"status", "total", "count"}
       /\ DOMAIN payment = {"cash", "upi", "paid"}
  BY <1>4, <1>7 DEF IssuedRow, PaymentRow
<1>11. /\ new.status = seen.status /\ new.total = sum /\ new.count = n
  BY <1>10
<1>12. /\ issued'.status = issued.status
       /\ issued'.total \in {sum, issued.total} /\ issued'.count \in {n, issued.count}
       /\ clean => issued'.total = sum /\ issued'.count = n
       /\ issued' \in IssuedRow
  <2> HIDE DEF new, sum, n, seen, clean
  <2>1. issued' = [c \in {"status", "total", "count"} |-> IF new[c] # seen[c] THEN new[c] ELSE issued[c]]
    BY <1>1, <1>10 DEF Bills!Update
  <2>2. /\ issued'.status = issued.status
        /\ issued'.total = IF sum # seen.total THEN sum ELSE issued.total
        /\ issued'.count = IF n # seen.count THEN n ELSE issued.count
    BY <1>11, <2>1
  <2>3. /\ issued'.total \in {sum, issued.total} /\ issued'.count \in {n, issued.count}
        /\ clean => issued'.total = sum /\ issued'.count = n
    BY <1>4, <2>2
  <2>4. issued.status \in {"paid", "cancelled"} /\ issued.total \in Nat /\ issued.count \in Nat \ {0}
    BY <1>7 DEF IssuedRow
  <2>5. issued' = [status |-> issued'.status, total |-> issued'.total, count |-> issued'.count]
    BY <2>1
  <2>6. issued'.status \in {"paid", "cancelled"} /\ issued'.total \in Nat /\ issued'.count \in Nat \ {0}
    BY <1>5, <2>2, <2>3, <2>4
  <2> QED BY <2>2, <2>3, <2>5, <2>6 DEF IssuedRow
<1>13. /\ DOMAIN lines' = DOMAIN lines /\ lines' \in [DOMAIN lines -> Nat]
       /\ clean => lines' = totals
  <2> HIDE DEF totals, clean, e
  <2>1. lines' = [c \in DOMAIN lines |-> IF totals[c] # txn[h].lines[c] THEN totals[c] ELSE lines[c]]
    BY <1>1 DEF Bills!Update
  <2>2. \A c \in DOMAIN lines : totals[c] \in Nat /\ lines[c] \in Nat
    BY <1>5, <1>6, <1>7
  <2>3. DOMAIN lines' = DOMAIN lines /\ lines' \in [DOMAIN lines -> Nat]
    BY <2>1, <2>2
  <2>4. ASSUME clean PROVE lines' = totals
    <3>1. \A c \in DOMAIN lines : lines'[c] = totals[c]
      BY <1>4, <2>1, <2>4
    <3> QED BY <1>5, <1>6, <2>3, <3>1
  <2> QED BY <2>3, <2>4
<1>14. /\ payment' \in PaymentRow /\ paid \in PaymentRow
       /\ clean => payment' = paid
  <2> DEFINE was == txn[h].payment
  <2>1. paid \in PaymentRow
    BY <1>5, <1>8 DEF PaymentRow
  <2>2. paid.cash \in Nat /\ paid.upi \in Nat /\ paid.paid \in Nat
        /\ payment.cash \in Nat /\ payment.upi \in Nat /\ payment.paid \in Nat
    BY <1>7, <2>1 DEF PaymentRow
  <2> HIDE DEF paid, clean, was
  <2>3. payment' = [c \in {"cash", "upi", "paid"} |-> IF paid[c] # was[c] THEN paid[c] ELSE payment[c]]
    BY <1>1, <1>10 DEF Bills!Update, was
  <2>4. /\ payment'.cash \in Nat /\ payment'.upi \in Nat /\ payment'.paid \in Nat
        /\ payment' = [cash |-> payment'.cash, upi |-> payment'.upi, paid |-> payment'.paid]
    BY <2>2, <2>3
  <2>5. payment' \in PaymentRow
    BY <2>4 DEF PaymentRow
  <2>6. ASSUME clean PROVE payment' = paid
    <3>1. was = payment
      BY <1>4, <2>6 DEF was
    <3>2. payment' = Bills!Update(payment, payment, paid)
      BY <1>1, <3>1 DEF was
    <3>3. DOMAIN paid = DOMAIN payment /\ paid = [c \in DOMAIN paid |-> paid[c]]
      BY <1>10, <2>1 DEF PaymentRow
    <3> QED BY <3>2, <3>3, UpdateFresh
  <2> QED BY <2>1, <2>5, <2>6
<1>15. entry \in Entries /\ entry.action = "edited" /\ entry.total = sum /\ entry.paid = paid
  BY <1>5, <1>14 DEF Entries
<1> HIDE DEF sum, n, e, seen, new, totals, paid, entry, clean, doubled
<1>16. audit' \in Seq(Entries)
  BY <1>1, <1>7, <1>15
<1>17. Tables'
  BY <1>1, <1>7, <1>9, <1>12, <1>13, <1>14, <1>16 DEF BillIndInv, Tables
<1>18. Bills!PaymentSettles'
  BY <1>6, <1>8, <1>9, <1>12, <1>14 DEF Bills!PaymentSettles
<1>19. Bills!LinesAddUp'
  <2> SUFFICES ASSUME clean, ~ doubled
               PROVE  issued'.total = SumFunction(lines') /\ issued'.count = Cardinality(DOMAIN lines')
    BY <1>9, SumsAgree DEF Bills!LinesAddUp
  <2>1. sum = SumFunction(totals) /\ n = Cardinality(DOMAIN lines)
    BY <1>5, <1>6 DEF doubled
  <2> QED BY <1>12, <1>13, <2>1
<1>20. Bills!AttemptsCounted'
  BY <1>1, <1>9 DEF Bills!AttemptsCounted, BillIndInv
<1>21. Bills!AuditTellsLast'
  <2> DEFINE k == Len(audit)
  <2>1. /\ k \in Nat /\ k = Len(audit) /\ Len(audit') = k + 1 /\ DOMAIN audit = 1..k /\ DOMAIN audit' = 1..k + 1
        /\ audit'[k + 1] = entry /\ \A i \in 1..k : audit'[i] = audit[i]
    BY <1>1, <1>7
  <2>0. Bills!AuditTellsLast
    BY DEF BillIndInv
  <2> HIDE DEF k
  <2>2. \A i \in 1..k : audit[i].action = "cancelled" => issued.status = "cancelled" /\ (i = k \/ "late" \in flaws)
    BY ONLY <2>0, <2>1 DEF Bills!AuditTellsLast
  <2>3. ASSUME NEW i \in 1..k + 1, audit'[i].action = "cancelled"
        PROVE  issued'.status = "cancelled" /\ "late" \in flaws'
    <3>1. i \in 1..k /\ audit[i].action = "cancelled"
      BY <1>15, <2>1, <2>3
    <3>2. issued.status = "cancelled"
      BY <2>2, <3>1
    <3>3. ~ Unseen(h, "cancel")
      BY <1>4, <1>6, <3>2
    <3> QED BY <1>9, <1>12, <3>2, <3>3
  <2>4. ASSUME NEW i \in 1..k + 1, \A j \in (i + 1)..k + 1 : audit'[j].action # "edited"
        PROVE  i = k + 1
    BY <1>15, <2>1, <2>4
  <2>5. ASSUME "mixed" \notin flaws', NEW i \in 1..k + 1, \A j \in (i + 1)..k + 1 : audit'[j].action # "edited"
        PROVE  issued'.total = audit'[i].total /\ payment' = audit'[i].paid
    <3>1. i = k + 1 /\ clean
      BY <1>9, <2>4, <2>5
    <3> QED BY <1>12, <1>14, <1>15, <2>1, <3>1
  <2> QED BY <2>1, <2>3, <2>5 DEF Bills!AuditTellsLast
<1>22. Sessions'
  <2>1. {"edit"} \in SUBSET Bills!Writes /\ reports' >= reports
    BY <1>1 DEF Bills!Writes, BillIndInv, Tables
  <2> QED BY <1>1, <1>12, <1>13, <1>17, <2>1, EndKeeps
<1> QED BY <1>17, <1>18, <1>19, <1>20, <1>21, <1>22 DEF BillIndInv

\* A cancellation changes the status of a bill that was not cancelled when it was read.
LEMMA CancelKeeps ==
  ASSUME BillIndInv, NEW h \in Handlers, Bills!CommitCancel(h)
  PROVE  BillIndInv'
<1>1. /\ Kind(h) = "cancel" /\ Bills!Step(h) = "commit" /\ Bills!End(h, {"cancel"}) /\ Bills!Modifiable(txn[h].bill)
      /\ issued' = [issued EXCEPT !.status = "cancelled"]
      /\ audit' = Append(audit, [action |-> "cancelled"])
      /\ flaws' = flaws \cup IF "cancel" \in txn[h].crossed THEN {"late"} ELSE {}
      /\ UNCHANGED <<lines, payment, receipt, reports, age, requests, crew>>
  BY DEF Bills!CommitCancel, Bills!Committing, Kind, Bills!End
<1>2. Writer(h) /\ Past(h, 1) /\ Knows(h)
  BY <1>1, AtCommit DEF Writer
<1>3. txn[h].bill.status # "cancelled" /\ (Unseen(h, "cancel") => txn[h].bill.status = issued.status)
  BY <1>1, <1>2 DEF Bills!Modifiable, Knows
<1>4. issued \in IssuedRow /\ audit \in Seq(Entries) /\ flaws \subseteq Bills!Flaws
  BY DEF BillIndInv, Tables
<1>5. /\ issued' \in IssuedRow /\ issued'.total = issued.total /\ issued'.count = issued.count
      /\ issued'.status = "cancelled"
  BY <1>1, <1>4 DEF IssuedRow
<1>6. /\ flaws' \subseteq Bills!Flaws
      /\ "late" \in flaws' <=> "late" \in flaws \/ ~ Unseen(h, "cancel")
      /\ \A f \in {"mixed", "doubled", "uncounted"} : f \in flaws' <=> f \in flaws
  BY <1>1, <1>4 DEF Bills!Flaws, Unseen
<1> DEFINE entry == [action |-> "cancelled"]
<1>7. entry \in Entries /\ entry.action = "cancelled"
  BY DEF Entries
<1> HIDE DEF entry
<1>8. audit' \in Seq(Entries)
  BY <1>1, <1>4, <1>7 DEF entry
<1>9. Tables'
  BY <1>1, <1>5, <1>6, <1>8 DEF BillIndInv, Tables
<1>10. Bills!PaymentSettles' /\ Bills!LinesAddUp' /\ Bills!AttemptsCounted'
  BY <1>1, <1>5, <1>6 DEF BillIndInv, Bills!PaymentSettles, Bills!LinesAddUp, Bills!AttemptsCounted
<1>11. Bills!AuditTellsLast'
  <2> DEFINE k == Len(audit)
  <2>1. /\ k \in Nat /\ k = Len(audit) /\ Len(audit') = k + 1 /\ DOMAIN audit = 1..k /\ DOMAIN audit' = 1..k + 1
        /\ audit'[k + 1] = entry /\ \A i \in 1..k : audit'[i] = audit[i]
    BY <1>1, <1>4 DEF entry
  <2>0. Bills!AuditTellsLast
    BY DEF BillIndInv
  <2> HIDE DEF k
  <2>2. /\ \A i \in 1..k : audit[i].action = "cancelled" => issued.status = "cancelled" /\ (i = k \/ "late" \in flaws)
        /\ "mixed" \notin flaws =>
             \A i \in 1..k :
               (/\ audit[i].action = "edited"
                /\ \A j \in (i + 1)..k : audit[j].action # "edited")
               => issued.total = audit[i].total /\ payment = audit[i].paid
    BY ONLY <2>0, <2>1 DEF Bills!AuditTellsLast
  <2>3. ASSUME NEW i \in 1..k + 1, audit'[i].action = "cancelled" PROVE i = k + 1 \/ "late" \in flaws'
    <3>1. CASE i \in 1..k
      <4>1. issued.status = "cancelled"
        BY <2>1, <2>2, <2>3, <3>1
      <4> QED BY <1>3, <1>6, <4>1
    <3> QED BY <2>1, <2>3, <3>1
  <2>4. ASSUME "mixed" \notin flaws', NEW i \in 1..k + 1, audit'[i].action = "edited",
               \A j \in (i + 1)..k + 1 : audit'[j].action # "edited"
        PROVE  issued'.total = audit'[i].total /\ payment' = audit'[i].paid
    <3>1. i \in 1..k
      BY <1>7, <2>1, <2>4
    <3>2. \A j \in (i + 1)..k : audit[j].action # "edited"
      BY <2>1, <2>4, <3>1
    <3> QED BY <1>1, <1>5, <1>6, <2>1, <2>2, <2>4, <3>1, <3>2
  <2> QED BY <1>5, <2>1, <2>3, <2>4 DEF Bills!AuditTellsLast
<1>12. Sessions'
  <2>1. {"cancel"} \in SUBSET Bills!Writes /\ reports' >= reports
    BY <1>1 DEF Bills!Writes, BillIndInv, Tables
  <2> QED BY <1>1, <1>5, <1>9, <2>1, EndKeeps
<1> QED BY <1>9, <1>10, <1>11, <1>12 DEF BillIndInv

\* A report counts one attempt more than were counted when it read the receipt.
LEMMA AttemptKeeps ==
  ASSUME BillIndInv, NEW h \in Handlers, Bills!CommitAttempt(h)
  PROVE  BillIndInv'
<1> DEFINE seen == txn[h].receipt
           outcome == IF Kind(h) = "report" THEN txn[h].op.outcome ELSE seen.status
           new == Bills!Attempted(seen, outcome)
<1>1. /\ Kind(h) \in {"report", "reprint"} /\ Bills!Step(h) = "commit" /\ Bills!End(h, {"attempt"})
      /\ receipt' = Bills!Update(receipt, seen, new) /\ reports' = reports + 1
      /\ flaws' = flaws \cup IF "attempt" \in txn[h].crossed THEN {"uncounted"} ELSE {}
      /\ UNCHANGED <<issued, lines, payment, audit, age, requests, crew>>
  BY DEF Bills!CommitAttempt, Bills!Committing, Kind, Bills!End
<1>2. Reporter(h) /\ Past(h, 1) /\ Knows(h) /\ txn[h].op \in Bills!Requests
  BY <1>1, AtCommit DEF Reporter
<1>3. seen \in ReceiptRow /\ seen.attempts <= reports /\ (Unseen(h, "attempt") => seen = receipt)
  BY <1>2 DEF Knows
<1>4. receipt \in ReceiptRow /\ reports \in Nat /\ flaws \subseteq Bills!Flaws
  BY DEF BillIndInv, Tables
<1>5. outcome \in Bills!Outcomes
  BY <1>1, <1>2, <1>3, OpFields DEF Kind, ReceiptRow
<1>6. new.status = outcome /\ new.attempts = seen.attempts + 1
  BY DEF Bills!Attempted
<1>7. receipt' \in ReceiptRow /\ receipt'.attempts = seen.attempts + 1
  <2> HIDE DEF seen, outcome, new
  <2>1. /\ DOMAIN receipt = {"status", "attempts"} /\ receipt.status \in Bills!Outcomes
        /\ seen.attempts \in Nat
    BY <1>3, <1>4 DEF ReceiptRow
  <2>2. receipt' = [c \in {"status", "attempts"} |-> IF new[c] # seen[c] THEN new[c] ELSE receipt[c]]
    BY <1>1, <2>1 DEF Bills!Update
  <2>3. receipt'.attempts = seen.attempts + 1 /\ receipt'.status \in Bills!Outcomes
    BY <1>5, <1>6, <2>1, <2>2
  <2>4. receipt' = [status |-> receipt'.status, attempts |-> receipt'.attempts]
    BY <2>2
  <2> QED BY <2>1, <2>3, <2>4 DEF ReceiptRow
<1>8. /\ flaws' \subseteq Bills!Flaws
      /\ "uncounted" \in flaws' <=> "uncounted" \in flaws \/ ~ Unseen(h, "attempt")
      /\ \A f \in {"mixed", "doubled", "late"} : f \in flaws' <=> f \in flaws
  BY <1>1, <1>4 DEF Bills!Flaws, Unseen
<1>9. Tables'
  BY <1>1, <1>4, <1>7, <1>8 DEF BillIndInv, Tables
<1>10. Bills!PaymentSettles' /\ Bills!LinesAddUp' /\ Bills!AuditTellsLast'
  BY <1>1, <1>8 DEF BillIndInv, Bills!PaymentSettles, Bills!LinesAddUp, Bills!AuditTellsLast
<1>11. Bills!AttemptsCounted'
  <2> HIDE DEF seen
  <2>1. seen.attempts \in Nat /\ receipt.attempts \in Nat
    BY <1>3, <1>4 DEF ReceiptRow
  <2>2. "uncounted" \notin flaws => receipt.attempts = reports
    BY DEF BillIndInv, Bills!AttemptsCounted
  <2> QED BY <1>1, <1>3, <1>4, <1>7, <1>8, <2>1, <2>2 DEF Bills!AttemptsCounted
<1>12. Sessions'
  <2>1. {"attempt"} \in SUBSET Bills!Writes /\ reports' >= reports
    BY <1>1, <1>4 DEF Bills!Writes
  <2> QED BY <1>1, <1>9, <2>1, EndKeeps
<1> QED BY <1>9, <1>10, <1>11, <1>12 DEF BillIndInv

\* A request that ends without a write.
LEMMA RefusalKeeps ==
  ASSUME BillIndInv, NEW h \in Handlers, Bills!End(h, {}), UNCHANGED <<Bills!tables, reports, flaws>>
  PROVE  BillIndInv'
<1>1. UNCHANGED <<issued, lines, payment, receipt, audit, reports, flaws, age, requests, crew>>
  BY DEF Bills!tables, Bills!End
<1>2. Tables' /\ Bills!PaymentSettles' /\ Bills!LinesAddUp' /\ Bills!AttemptsCounted' /\ Bills!AuditTellsLast'
  BY <1>1 DEF BillIndInv, Tables, Bills!PaymentSettles, Bills!LinesAddUp, Bills!AttemptsCounted, Bills!AuditTellsLast
<1>3. Sessions'
  <2>1. {} \in SUBSET Bills!Writes /\ reports' >= reports
    BY <1>1 DEF BillIndInv, Tables
  <2> QED BY <1>1, <1>2, <2>1, EndKeeps
<1> QED BY <1>2, <1>3 DEF BillIndInv

\* A request that begins has read nothing.
LEMMA ServeKeeps ==
  ASSUME BillIndInv, NEW h \in Handlers, NEW op \in Bills!Requests, Bills!Serve(h, op)
  PROVE  BillIndInv'
<1> DEFINE session == [Bills!Idle EXCEPT !.op = op, !.step = 1]
<1>1. /\ requests < MaxRequests /\ requests' = requests + 1
      /\ txn' = [txn EXCEPT ![h] = session]
      /\ UNCHANGED <<age, issued, lines, payment, receipt, audit, reports, crew, flaws>>
  BY DEF Bills!Serve, Bills!tables
<1>2. DOMAIN session = Columns /\ session.op = op /\ session.step = 1 /\ session.crossed = {}
  BY DEF Bills!Idle, Columns
<1> HIDE DEF session
<1>3. DOMAIN txn = Handlers /\ Tables
  BY DEF BillIndInv, Sessions
<1>4. DOMAIN txn' = Handlers /\ txn' = [g \in Handlers |-> txn'[g]]
  BY <1>1, <1>3
<1>5. \A g \in Handlers : txn'[g] = IF g = h THEN session ELSE txn[g]
  BY <1>1, <1>3
<1>6. \A g \in Handlers : DOMAIN txn'[g] = Columns /\ txn'[g].step \in 0..4 /\ txn'[g].crossed \subseteq Bills!Writes
  BY <1>2, <1>5 DEF BillIndInv, Sessions
<1>7. MaxRequests \in Nat
  BY BillingAssumption DEF Bills!BillAdminAssumption
<1>8. Tables'
  BY <1>1, <1>3, <1>7 DEF Tables
<1>9. Bills!PaymentSettles' /\ Bills!LinesAddUp' /\ Bills!AttemptsCounted' /\ Bills!AuditTellsLast'
  BY <1>1 DEF BillIndInv, Bills!PaymentSettles, Bills!LinesAddUp, Bills!AttemptsCounted, Bills!AuditTellsLast
<1>10. ASSUME NEW g \in Handlers, Serving(g)' PROVE Knows(g)'
  <2>1. CASE g = h
    <3>1. txn'[h] = session
      BY <1>5
    <3>2. Kind(h)' = op.kind /\ ~ Past(h, 1)' /\ ~ Past(h, 2)' /\ ~ Past(h, 3)'
      BY <1>2, <3>1 DEF Kind, Past
    <3>3. 1 \in 1..Len(Bills!Script[op.kind])
      <4>1. op.kind \in Bills!Kinds
        BY OpFields
      <4> QED BY <4>1 DEF Bills!Kinds, Bills!Script
    <3> QED BY <1>1, <1>2, <2>1, <3>1, <3>2, <3>3 DEF Knows
  <2>2. CASE g # h
    <3>1. txn'[g] = txn[g]
      BY <1>5, <2>2
    <3>2. Knows(g)
      BY <1>10, <3>1 DEF Serving, BillIndInv, Sessions
    <3> QED BY <1>1, <3>1, <3>2 DEF Knows, Kind, Past, Writer, Reporter, Unseen
  <2> QED BY <2>1, <2>2
<1> QED BY <1>4, <1>6, <1>8, <1>9, <1>10 DEF BillIndInv, Sessions

-----------------------------------------------------------------------------
\* The bill as it was checked out agrees with its rows.
LEMMA BillStarts == ASSUME Bills!Init PROVE BillIndInv
<1>0. Bills!OneLineEach(Opening)
  BY BillingAssumption DEF Bills!BillAdminAssumption
<1>1. /\ Bills!Total(Opening) \in Nat /\ Bills!Total(Opening) = SumFunction(Bills!LineTotals(Opening))
      /\ Len(Opening.lines) = Cardinality(Bills!ItemsOf(Opening)) /\ Len(Opening.lines) \in Nat \ {0}
      /\ Bills!ItemsOf(Opening) \subseteq Items /\ Bills!LineTotals(Opening) \in [Bills!ItemsOf(Opening) -> Nat]
      /\ DOMAIN Bills!LineTotals(Opening) = Bills!ItemsOf(Opening)
      /\ Opening.cash \in Nat /\ Opening.upi \in Nat
  BY <1>0, EditAddsUp, LinesAre, LineTotalsAre DEF Requested
<1>2. Bills!ItemsOf(Opening) # {}
  <2>1. 1 \in DOMAIN Opening.lines
    BY <1>1, LinesAre DEF Requested
  <2> QED BY <2>1 DEF Bills!ItemsOf
<1>3. issued = [status |-> "paid", total |-> Bills!Total(Opening), count |-> Len(Opening.lines)]
  BY DEF Bills!Init, Bills!Checked
<1>4. payment = [cash |-> Opening.cash, upi |-> Opening.upi, paid |-> Bills!Total(Opening)]
  BY BillingAssumption DEF Bills!OpeningSettled, Bills!Init, Bills!Paid
<1>5. lines = Bills!LineTotals(Opening) /\ DOMAIN lines = Bills!ItemsOf(Opening)
  BY <1>1 DEF Bills!Init
<1>6. /\ receipt = [status |-> "pending", attempts |-> 0] /\ reports = 0 /\ requests = 0 /\ audit = <<>>
      /\ flaws = {}
  BY DEF Bills!Init
<1>7. Tables
  <2>1. issued \in IssuedRow /\ payment \in PaymentRow /\ receipt \in ReceiptRow
    BY <1>1, <1>3, <1>4, <1>6 DEF IssuedRow, PaymentRow, ReceiptRow, Bills!Outcomes
  <2>2. lines \in [DOMAIN lines -> Nat] /\ DOMAIN lines \subseteq Items /\ DOMAIN lines # {}
    BY <1>1, <1>2, <1>5
  <2>3. age \in 0..MaxTime /\ crew \in Crews /\ requests \in 0..MaxRequests /\ reports \in Nat
    BY <1>6, BillingAssumption DEF Bills!BillAdminAssumption, Bills!Init
  <2>4. audit \in Seq(Entries) /\ flaws \subseteq Bills!Flaws
    BY <1>6
  <2> QED BY <2>1, <2>2, <2>3, <2>4 DEF Tables
<1>8. Bills!PaymentSettles
  BY <1>3, <1>4, BillingAssumption DEF Bills!OpeningSettled, Bills!PaymentSettles
<1>9. Bills!LinesAddUp
  BY <1>1, <1>3, <1>5, SumsAgree DEF Bills!LinesAddUp
<1>10. Bills!AttemptsCounted
  BY <1>6 DEF Bills!AttemptsCounted
<1>11. Bills!AuditTellsLast
  BY <1>6 DEF Bills!AuditTellsLast
<1>12. /\ txn = [h \in Handlers |-> Bills!Idle] /\ DOMAIN Bills!Idle = Columns /\ Bills!Idle.step = 0
       /\ Bills!Idle.op = None /\ Bills!Idle.crossed = {}
  BY DEF Bills!Init, Bills!Idle, Columns
<1>13. Sessions
  BY <1>12 DEF Serving, Sessions
<1> QED BY <1>7, <1>8, <1>9, <1>10, <1>11, <1>13 DEF BillIndInv

\* Every step keeps what is known and what agrees.
LEMMA BillStep == ASSUME BillIndInv, [Bills!Next]_(Bills!vars) PROVE BillIndInv'
<1>1. CASE UNCHANGED Bills!vars
  BY <1>1 DEF Bills!vars, Bills!tables, BillIndInv, Tables, Bills!PaymentSettles, Bills!LinesAddUp,
              Bills!AttemptsCounted, Bills!AuditTellsLast,
              Sessions, Serving, Knows, Kind, Past, Writer, Reporter, Unseen
<1>2. CASE Bills!Tick
  <2>1. Tables' /\ UNCHANGED <<Bills!tables, txn, requests, reports, crew, flaws>>
    BY <1>2, BillingAssumption DEF Bills!BillAdminAssumption, Bills!Tick, BillIndInv, Tables, Bills!tables
  <2> QED BY <2>1 DEF Bills!tables, BillIndInv, Bills!PaymentSettles, Bills!LinesAddUp,
                   Bills!AttemptsCounted, Bills!AuditTellsLast,
                   Sessions, Serving, Knows, Kind, Past, Writer, Reporter, Unseen
<1>3. ASSUME NEW h \in Handlers, NEW op \in Bills!Requests, Bills!Serve(h, op) PROVE BillIndInv'
  BY <1>3, ServeKeeps
<1>4. ASSUME NEW h \in Handlers, Bills!Statement(h) PROVE BillIndInv'
  <2>1. CASE Bills!ReadBill(h) \/ Bills!ReadLines(h) \/ Bills!ReadPayment(h) \/ Bills!ReadReceipt(h)
    BY <2>1, ReadsKeep
  <2>2. CASE Bills!CommitEdit(h)
    BY <2>2, EditKeeps
  <2>3. CASE Bills!CommitCancel(h)
    BY <2>3, CancelKeeps
  <2>4. CASE Bills!CommitAttempt(h)
    BY <2>4, AttemptKeeps
  <2>5. CASE Bills!RefuseEdit(h) \/ Bills!RefuseCancel(h) \/ Bills!Crash(h)
    <3>1. Bills!End(h, {}) /\ UNCHANGED <<Bills!tables, reports, flaws>>
      BY <2>5 DEF Bills!RefuseEdit, Bills!RefuseCancel, Bills!Crash, Bills!Committing
    <3> QED BY <3>1, RefusalKeeps
  <2> QED BY <1>4, <2>1, <2>2, <2>3, <2>4, <2>5 DEF Bills!Statement
<1>5. CASE Bills!Quiescent
  BY <1>1, <1>5 DEF Bills!Quiescent
<1> QED BY <1>1, <1>2, <1>3, <1>4, <1>5 DEF Bills!Next

LEMMA BillIndInvHolds == Bills!Spec => []BillIndInv
<1>1. Bills!Init => BillIndInv
  BY BillStarts
<1>2. BillIndInv /\ [Bills!Next]_(Bills!vars) => BillIndInv'
  BY BillStep
<1> QED BY <1>1, <1>2, PTL DEF Bills!Spec

\* The invariant implies what is checked.
LEMMA BillIndInvGives == BillIndInv => BillInv /\ AuditTellsLast
BY DEF BillInv, Bills!BillInv, AuditTellsLast, BillIndInv, Bills!TypeOK, Tables, Sessions,
       IssuedRow, PaymentRow, ReceiptRow

\* However many handlers serve and whatever they are asked, a bill was paid to the last paisa until
\* two edits cross, charges the sum of its lines until they cross or one names an item twice (the
\* next edit by itself repairs both), and counts each report until two of them cross
\* (edit_shop_bill, cancel_shop_bill, update_bill_receipt_status, begin_bill_reprint).
THEOREM BillsAgree == Bills!Spec => []BillInv
<1>1. Bills!Spec => []BillIndInv
  BY BillIndInvHolds
<1>2. BillIndInv => BillInv
  BY BillIndInvGives
<1> QED BY <1>1, <1>2, PTL

\* A bill that audit_logs says was cancelled is cancelled, whatever was committed over it, and only
\* who read the bill before comes after (_assert_bill_admin_modifiable); the last edit in the log is
\* what the bill and the payment say unless another edit crossed it.
THEOREM AuditIsTrue == Bills!Spec => []AuditTellsLast
<1>1. Bills!Spec => []BillIndInv
  BY BillIndInvHolds
<1>2. BillIndInv => AuditTellsLast
  BY BillIndInvGives
<1> QED BY <1>1, <1>2, PTL
=============================================================================
