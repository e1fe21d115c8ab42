------------------------------ MODULE BillAdmin ------------------------------
(***************************************************************************)
(* What happens to a retail bill after its checkout (billing.py): an       *)
(* administrator edits or cancels it within a day, and the shop's devices  *)
(* report how the printing of its receipt went.                            *)
(*                                                                         *)
(* A handler reads the bill, its lines, its payment and its receipt with   *)
(* one SELECT each and locks nothing.  The flush writes the columns that   *)
(* differ from what was read.  All transactions write the tables in the    *)
(* same order, so that flush and commit can be one step.                   *)
(*                                                                         *)
(* Nothing stops two administrators from working on one bill, or an edit   *)
(* from naming an item twice.  `flaws`, a history variable, says what of   *)
(* this kind the bill has met; the promises hold for all the rest.         *)
(***************************************************************************)
EXTENDS Integers, Sequences, FiniteSets, FiniteSetsExt

CONSTANTS
  Handlers,     \* request handlers of the API processes
  Crews,        \* the kinds of requests each handler serves, one such function
  Items,        \* items of the bill
  Edits,        \* edit requests: lines and how they are paid
  Opening,      \* the bill as it was checked out, as an edit
  Window,       \* ADMIN_BILL_MODIFICATION_WINDOW
  MaxTime,      \* bound: the clock stops here
  MaxRequests,  \* bound: requests served
  None          \* no request

VARIABLES
  now,          \* time since the bill's checkout
  bill,         \* bills: status, total_amount, item_count
  lines,        \* bill_items: line_total of each item
  payment,      \* payments: cash_amount, upi_amount, total_paid
  receipt,      \* receipts: receipt_status, print_attempts
  audit,        \* audit_logs about the bill, in commit order
  txn,          \* transaction of each handler
  requests,     \* requests served so far
  reports,      \* reports on the printing that were committed
  crew,         \* who serves what
  flaws         \* history: what the bill has met that its rows may still show

tables == <<bill, lines, payment, receipt, audit>>
vars == <<now, tables, txn, requests, reports, crew, flaws>>

Kinds == {"edit", "cancel", "report", "reprint"}
Outcomes == {"pending", "printed", "failed"}

\* What a request writes: both kinds of attempt write the receipt.
Writes == {"edit", "cancel", "attempt"}

\* "mixed": an edit was committed between the first SELECT of another and its commit;
\* "doubled": an edit named an item twice; "late": an edit or a cancellation was committed over
\* a cancellation it had not seen; "uncounted": an attempt over an attempt it had not seen.
Flaws == {"mixed", "doubled", "late", "uncounted"}

\* _prepare_bill_edit_lines compares sets of items: of two lines for one item the edit charges
\* both and stores the last.
OneLineEach(e) == \A i, j \in DOMAIN e.lines : e.lines[i].item = e.lines[j].item => i = j

\* Billing assumes these of the constants.  The cart a bill comes from has one line per item.
BillAdminAssumption ==
  /\ Crews \subseteq [Handlers -> SUBSET Kinds]
  /\ IsFiniteSet(Items)
  /\ \A e \in Edits \cup {Opening} :
       /\ e.lines \in Seq([item : Items, total : Nat]) /\ e.lines # <<>>
       /\ {e.cash, e.upi} \subseteq Nat
  /\ OneLineEach(Opening)
  /\ {Window, MaxTime, MaxRequests} \subseteq Nat

-----------------------------------------------------------------------------
(* Edits.                                                                  *)

Total(e) == SumFunction([i \in DOMAIN e.lines |-> e.lines[i].total])
ItemsOf(e) == {e.lines[i].item : i \in DOMAIN e.lines}

\* item_count: the lines of the request.
Count(e, seen) == Len(e.lines)

\* The lines are assigned in the order of the request: the last one counts.
LineTotals(e) ==
  [item \in ItemsOf(e) |->
     e.lines[Max({i \in DOMAIN e.lines : e.lines[i].item = item})].total]

Checked(e) == [status |-> "paid", total |-> Total(e), count |-> Len(e.lines)]
Paid(e) == [cash |-> e.cash, upi |-> e.upi, paid |-> e.cash + e.upi]

\* _validate_payment of the checkout: the bill was paid to the last paisa.
OpeningSettled == Opening.cash + Opening.upi = Total(Opening)

\* The UPDATE of a flush: the columns that changed since they were read.
Update(row, seen, new) == [c \in DOMAIN row |-> IF new[c] # seen[c] THEN new[c] ELSE row[c]]

-----------------------------------------------------------------------------
(* Requests and reads.                                                     *)

Requests == [kind : {"edit"}, edit : Edits] \cup [kind : {"cancel", "reprint"}]
            \cup [kind : {"report"}, outcome : Outcomes]

Script == [edit |-> <<"bill", "lines", "payment", "commit">>,
           cancel |-> <<"bill", "commit">>,
           report |-> <<"receipt", "commit">>,
           reprint |-> <<"receipt", "commit">>]

\* `crossed`, history: what others committed since the first SELECT.
Idle == [op |-> None, step |-> 0, bill |-> None, lines |-> None,
         payment |-> None, receipt |-> None, crossed |-> {}]
Step(h) == IF txn[h].op = None THEN "idle" ELSE Script[txn[h].op.kind][txn[h].step]

Init ==
  /\ crew \in Crews
  /\ now = 0
  /\ bill = Checked(Opening)
  /\ lines = LineTotals(Opening)
  /\ payment = Paid(Opening)
  /\ receipt = [status |-> "pending", attempts |-> 0]
  /\ audit = <<>>
  /\ txn = [h \in Handlers |-> Idle]
  /\ requests = 0
  /\ reports = 0
  /\ flaws = {}

Tick ==
  /\ now < MaxTime
  /\ now' = now + 1
  /\ UNCHANGED <<tables, txn, requests, reports, crew, flaws>>

Serve(h, op) ==
  /\ Step(h) = "idle"
  /\ op.kind \in crew[h]
  /\ requests < MaxRequests
  /\ requests' = requests + 1
  /\ txn' = [txn EXCEPT ![h] = [Idle EXCEPT !.op = op, !.step = 1]]
  /\ UNCHANGED <<now, tables, reports, crew, flaws>>

\* One SELECT: the handler now knows `session`.
Read(h, table, session) ==
  /\ Step(h) = table
  /\ txn' = [txn EXCEPT ![h] = [session EXCEPT !.step = @ + 1]]
  /\ UNCHANGED <<now, tables, requests, reports, crew, flaws>>

ReadBill(h) == Read(h, "bill", [txn[h] EXCEPT !.bill = bill])
ReadLines(h) == Read(h, "lines", [txn[h] EXCEPT !.lines = lines])
ReadPayment(h) == Read(h, "payment", [txn[h] EXCEPT !.payment = payment])
ReadReceipt(h) == Read(h, "receipt", [txn[h] EXCEPT !.receipt = receipt])

\* The transaction ends; who is past its first SELECT does not see what it wrote.
Crosses(g, writes) ==
  [txn[g] EXCEPT !.crossed = IF txn[g].step > 1 THEN @ \cup writes ELSE @]

End(h, writes) ==
  /\ txn' = [g \in Handlers |-> IF g = h THEN Idle ELSE Crosses(g, writes)]
  /\ UNCHANGED <<now, requests, crew>>

-----------------------------------------------------------------------------
(* Commits.                                                                *)

\* Faulty: only the age of the bill is looked at.
ModifiableCancelled(seen) == now < Window

\* _assert_bill_admin_modifiable, on the bill that was read.
Modifiable(seen) == seen.status # "cancelled" /\ now < Window

\* The checks of edit_shop_bill: same items, paid to the last paisa.
Accepted(h) ==
  LET t == txn[h] IN
  /\ Modifiable(t.bill)
  /\ ItemsOf(t.op.edit) = DOMAIN t.lines
  /\ t.op.edit.cash + t.op.edit.upi = Total(t.op.edit)

Committing(h, kinds, writes) == Step(h) = "commit" /\ txn[h].op.kind \in kinds /\ End(h, writes)

\* History: an edit is what the bill says, unless it wrote over what it had not read.
EditFlaws(t) ==
  {f \in {"mixed", "doubled", "late"} :
     \/ f = "mixed" /\ "edit" \in t.crossed
     \/ f = "doubled" /\ ~ OneLineEach(t.op.edit)
     \/ f = "late" /\ "cancel" \in t.crossed}

\* Faulty: the edit reaches the bill and its payment, not its lines.
CommitEditOfTotals(h) ==
  LET t == txn[h] IN
  /\ Committing(h, {"edit"}, {"edit"})
  /\ Accepted(h)
  /\ flaws' = (flaws \ {"mixed", "doubled"}) \cup EditFlaws(t)
  /\ bill' = [bill EXCEPT !.total = Total(t.op.edit)]
  /\ payment' = Update(payment, t.payment, Paid(t.op.edit))
  /\ audit' = Append(audit, [action |-> "edited", total |-> Total(t.op.edit), paid |-> Paid(t.op.edit)])
  /\ UNCHANGED <<lines, receipt, reports>>

CommitEdit(h) ==
  LET t == txn[h]
      e == t.op.edit
      new == [t.bill EXCEPT !.total = Total(e), !.count = Count(e, t.lines)]
  IN /\ Committing(h, {"edit"}, {"edit"})
     /\ Accepted(h)
     /\ flaws' = (flaws \ {"mixed", "doubled"}) \cup EditFlaws(t)
     /\ bill' = Update(bill, t.bill, new)
     /\ lines' = Update(lines, t.lines, LineTotals(e))
     /\ payment' = Update(payment, t.payment, Paid(e))
     /\ audit' = Append(audit, [action |-> "edited", total |-> Total(e), paid |-> Paid(e)])
     /\ UNCHANGED <<receipt, reports>>

RefuseEdit(h) ==
  /\ Committing(h, {"edit"}, {})
  /\ ~ Accepted(h)
  /\ UNCHANGED <<tables, reports, flaws>>

CommitCancel(h) ==
  /\ Committing(h, {"cancel"}, {"cancel"})
  /\ Modifiable(txn[h].bill)
  /\ flaws' = flaws \cup IF "cancel" \in txn[h].crossed THEN {"late"} ELSE {}
  /\ bill' = [bill EXCEPT !.status = "cancelled"]
  /\ audit' = Append(audit, [action |-> "cancelled"])
  /\ UNCHANGED <<lines, payment, receipt, reports>>

RefuseCancel(h) ==
  /\ Committing(h, {"cancel"}, {})
  /\ ~ Modifiable(txn[h].bill)
  /\ UNCHANGED <<tables, reports, flaws>>

\* What a report makes of the receipt that was read.
Attempted(seen, outcome) == [status |-> outcome, attempts |-> seen.attempts + 1]

\* update_bill_receipt_status, and begin_bill_reprint, which leaves the status.
CommitAttempt(h) ==
  LET t == txn[h]
      outcome == IF t.op.kind = "report" THEN t.op.outcome ELSE t.receipt.status
  IN /\ Committing(h, {"report", "reprint"}, {"attempt"})
     /\ flaws' = flaws \cup IF "attempt" \in t.crossed THEN {"uncounted"} ELSE {}
     /\ receipt' = Update(receipt, t.receipt, Attempted(t.receipt, outcome))
     /\ reports' = reports + 1
     /\ UNCHANGED <<bill, lines, payment, audit>>

\* The process dies or the connection drops: PostgreSQL rolls back.
Crash(h) ==
  /\ Step(h) # "idle"
  /\ End(h, {})
  /\ UNCHANGED <<tables, reports, flaws>>

-----------------------------------------------------------------------------
Statement(h) ==
  \/ ReadBill(h) \/ ReadLines(h) \/ ReadPayment(h) \/ ReadReceipt(h)
  \/ CommitEdit(h) \/ RefuseEdit(h) \/ CommitCancel(h) \/ RefuseCancel(h)
  \/ CommitAttempt(h)
  \/ Crash(h)

\* The bounds are reached and every handler is idle.
Quiescent ==
  /\ requests = MaxRequests
  /\ \A h \in Handlers : Step(h) = "idle"
  /\ UNCHANGED vars

Next ==
  \/ Tick
  \/ \E h \in Handlers, op \in Requests : Serve(h, op)
  \/ \E h \in Handlers : Statement(h)
  \/ Quiescent

Spec == Init /\ [][Next]_vars

-----------------------------------------------------------------------------
(* What the bill promises.                                                 *)

TypeOK ==
  /\ now \in 0..MaxTime
  /\ bill \in [status : {"paid", "cancelled"}, total : Nat, count : Nat \ {0}]
  /\ lines \in [DOMAIN lines -> Nat] /\ DOMAIN lines \subseteq Items
  /\ payment \in [cash : Nat, upi : Nat, paid : Nat]
  /\ receipt \in [status : Outcomes, attempts : Nat]
  /\ \A h \in Handlers : txn[h].step \in 0..4 /\ txn[h].crossed \subseteq Writes
  /\ flaws \subseteq Flaws

\* The money taken in cash and by UPI is what the payment says and what the
\* bill charges: "Payment pending" and overpaid edits never get in.  Two edits at the same time
\* may leave columns of both, until the next edit by itself.
PaymentSettles ==
  "mixed" \notin flaws =>
    /\ payment.cash + payment.upi = payment.paid
    /\ payment.paid = bill.total

\* The bill charges the sum of its lines and counts them.  Two edits at the same time, and an edit
\* that names an item twice, may leave them apart, until the next edit by itself.
LinesAddUp ==
  flaws \cap {"mixed", "doubled"} = {} =>
    /\ bill.total = SumFunction(lines)
    /\ bill.count = Cardinality(DOMAIN lines)

\* A report on the printing counts as one attempt, edits and cancellations of the bill meanwhile
\* notwithstanding; reports that cross may count as one, and no attempt is made up.
AttemptsCounted ==
  /\ receipt.attempts <= reports
  /\ "uncounted" \notin flaws => receipt.attempts = reports

\* A bill, its lines, its payment and its receipt agree, whichever edit, cancellation or
\* report of a device is committed last; what a flaw named above has put apart agrees again after
\* the next edit by itself.
BillInv == TypeOK /\ PaymentSettles /\ LinesAddUp /\ AttemptsCounted

\* Once cancelled a bill stays so, whatever a slower edit or cancellation writes over it, and it
\* takes one that has not seen the cancellation to be committed after it: "Bill is already
\* cancelled".  The last edit of the audit log is what the bill and the payment say.
AuditTellsLast ==
  /\ \A i \in DOMAIN audit :
       audit[i].action = "cancelled" => bill.status = "cancelled" /\ (i = Len(audit) \/ "late" \in flaws)
  /\ "mixed" \notin flaws =>
       \A i \in DOMAIN audit :
         (/\ audit[i].action = "edited"
          /\ \A j \in (i + 1)..Len(audit) : audit[j].action # "edited")
         => bill.total = audit[i].total /\ payment = audit[i].paid
=============================================================================
