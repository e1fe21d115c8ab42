------------------------------ MODULE Counter ------------------------------
(***************************************************************************)
(* The counter of a shop: the price board on the phone, the cart, and the  *)
(* checkout screen, for customers who walk in (screens Billing, Checkout)  *)
(* and for retailers (RetailerBilling, RetailerCheckout).  The office may  *)
(* change prices, items and the way goods are entered at any time; the     *)
(* board is loaded anew whenever the screen is shown, the cart is not.     *)
(* Money is in paise; quantities are in thousandths, and prices per 1000.  *)
(***************************************************************************)
EXTENDS Integers, FiniteSets, FiniteSetsExt

CONSTANTS
  Goods,       \* the items
  Pieces,      \* those sold by the piece, the others by weight
  Catalogue,   \* the catalogue (category) of each item
  Prices,      \* prices the office may set
  Typed,       \* what may be typed: thousandths where goods are weighed, paise where amounts are
  Kinds,       \* the counters under check: "walk-in", "retailer"
  MaxChanges,  \* bound: changes by the office
  MaxAdded,    \* bound: lines added
  MaxPresses   \* bound: checkouts begun

VARIABLES
  counter,   \* whom this counter serves
  office,    \* the server's prices, listed items and entry mode
  board,     \* what the phone shows of them
  chosen,    \* the catalogue chosen there
  cart,      \* a line per item
  customer,  \* the carts emptied so far
  at,        \* the screen: "billing" or "checkout"
  busy,      \* its checkout button is busy
  runs,      \* checkouts on their way
  bills,     \* what the server has billed
  doubted,   \* carts whose checkout failed, or was left, as far as the phone knows
  changes, added, presses  \* counted for the bounds

vars == <<counter, office, board, chosen, cart, customer, at, busy, runs, bills, doubted,
          changes, added, presses>>

counted == <<changes, added, presses>>

ASSUME CounterAssumption ==
  /\ Pieces \subseteq Goods /\ Prices \subseteq Nat \ {0} /\ Max(Prices) \in Prices
  /\ Typed \subseteq Nat
  /\ Kinds \subseteq {"walk-in", "retailer"}
  /\ MaxChanges \in Nat /\ MaxAdded \in Nat /\ MaxPresses \in Nat

-----------------------------------------------------------------------------
(* Money and quantities: to the nearest paisa and thousandth, halves up.   *)

Rounded(a, b) == (2 * a + b) \div (2 * b)

Cost(quantity, price) == Rounded(quantity * price, 1000)

\* A quantity typed for a piece is a whole number.
Entered(g, typed) == IF g \in Pieces THEN 1000 * Rounded(typed, 1000) ELSE typed

quantityFromAmount(g, total, price) ==
  IF g \in Pieces THEN 1000 * Rounded(total, price) ELSE Rounded(1000 * total, price)

NoLine == [price |-> 0, quantity |-> 0, total |-> 0]

EmptyCart == [g \in Goods |-> NoLine]

InCart(lines) == {g \in Goods : lines[g].price > 0}

getCartTotal(lines) == MapThenSumSet(LAMBDA g : lines[g].total, InCart(lines))

\* The retailer's total is rounded once, its lines are shown rounded each.
getRetailerCartTotal(lines) ==
  Rounded(MapThenSumSet(LAMBDA g : lines[g].quantity * lines[g].price, InCart(lines)), 1000)

Total(lines) == IF counter = "walk-in" THEN getCartTotal(lines) ELSE getRetailerCartTotal(lines)

-----------------------------------------------------------------------------
(* The office and the board.                                               *)

Change(next) ==
  /\ changes < MaxChanges /\ changes' = changes + 1
  /\ office' = next
  /\ UNCHANGED <<counter, board, chosen, cart, customer, at, busy, runs, bills, doubted, added, presses>>

SetPrice(g, p) == office.prices[g] # p /\ Change([office EXCEPT !.prices[g] = p])

List(g) ==
  Change([office EXCEPT !.listed = IF g \in @ THEN @ \ {g} ELSE @ \cup {g}])

SwitchMode ==
  /\ counter = "walk-in"
  /\ Change([office EXCEPT !.mode = IF @ = "kg" THEN "amount" ELSE "kg"])

Priced(o) == {g \in o.listed : o.prices[g] > 0}

\* The catalogue of a retailer lists priced items only.
Shown(b) == IF counter = "walk-in" THEN b.listed ELSE Priced(b)

Catalogues(b) == {Catalogue[g] : g \in Shown(b)}

\* A chosen catalogue that is gone gives way to another; a retailer's has no catalogues.
ActiveCatalogue(b, c) == c \in Catalogues(b) \/ (c = "none" /\ Catalogues(b) = {})

locked == Priced(board) = {}

Refresh ==
  /\ board' = office
  /\ \E c \in Catalogues(office) \cup {"none"} :
       /\ ActiveCatalogue(office, c)
       /\ chosen \in Catalogues(office) => c = chosen
       /\ chosen' = c
  /\ UNCHANGED <<counter, office, cart, customer, at, busy, runs, bills, doubted, counted>>

Choose(c) ==
  /\ counter = "walk-in" /\ at = "billing" /\ ~locked
  /\ c \in Catalogues(board) /\ chosen' = c
  /\ UNCHANGED <<counter, office, board, cart, customer, at, busy, runs, bills, doubted, counted>>

visible == {g \in Shown(board) : counter = "retailer" \/ Catalogue[g] = chosen}

-----------------------------------------------------------------------------
(* The cart.                                                               *)

\* An amount buys what it pays for; a quantity costs what it costs.
AmountLine(g, typed, price) ==
  [price |-> price, quantity |-> quantityFromAmount(g, typed, price), total |-> typed]

QuantityLine(g, typed, price) ==
  [price |-> price, quantity |-> Entered(g, typed), total |-> Cost(Entered(g, typed), price)]

LineOf(g, typed, price) ==
  IF counter = "walk-in" /\ board.mode = "amount"
  THEN AmountLine(g, typed, price) ELSE QuantityLine(g, typed, price)

\* Too small an amount for one piece is refused; a fraction of a piece that is typed is not.
Refused(g, line) ==
  counter = "walk-in" /\ board.mode = "amount" /\ g \in Pieces /\ line.quantity < 1000

\* Faulty: a line that is added to sums both columns at whatever prices they had.
MergedColumns(g, line, more) ==
  [line EXCEPT !.quantity = @ + more.quantity, !.total = @ + more.total]

\* A line that is added to keeps its price.
Merged(g, line, more) ==
  IF counter = "walk-in"
  THEN [line EXCEPT !.total = @ + more.total,
                    !.quantity = quantityFromAmount(g, line.total + more.total, line.price)]
  ELSE [line EXCEPT !.quantity = @ + more.quantity,
                    !.total = Cost(line.quantity + more.quantity, line.price)]

\* An item without a price is shown, with its button disabled.
CanAdd(g) == at = "billing" /\ ~locked /\ g \in visible /\ board.prices[g] > 0

Add(g, typed) ==
  /\ added < MaxAdded /\ added' = added + 1
  /\ CanAdd(g) /\ typed > 0
  /\ LET line == LineOf(g, typed, board.prices[g])
     IN  /\ ~Refused(g, line)
         /\ cart' = [cart EXCEPT ![g] = IF @ = NoLine THEN line ELSE Merged(g, @, line)]
  /\ UNCHANGED <<counter, office, board, chosen, customer, at, busy, runs, bills, doubted, changes, presses>>

CanRemove(g) == at = "billing" /\ ~locked /\ g \in InCart(cart)

Remove(g) ==
  /\ CanRemove(g)
  /\ cart' = [cart EXCEPT ![g] = NoLine]
  /\ UNCHANGED <<counter, office, board, chosen, customer, at, busy, runs, bills, doubted, counted>>

resetCart ==
  /\ cart' = EmptyCart
  /\ customer' = IF cart = EmptyCart THEN customer ELSE customer + 1

\* Whoever bills is left: the checkout goes on without its screen.
Away == {[r EXCEPT !.here = FALSE] : r \in runs}

Doubted == IF busy THEN doubted \cup {customer} ELSE doubted

\* A retailer is chosen, the same one or another.
SelectRetailer ==
  /\ counter = "retailer"
  /\ resetCart /\ at' = "billing" /\ busy' = FALSE
  /\ runs' = Away /\ doubted' = Doubted
  /\ UNCHANGED <<counter, office, board, chosen, bills, counted>>

CanCheckOut == at = "billing" /\ ~locked /\ InCart(cart) # {}

OpenCheckout ==
  /\ CanCheckOut
  /\ at' = "checkout" /\ busy' = FALSE
  /\ UNCHANGED <<counter, office, board, chosen, cart, customer, runs, bills, doubted, counted>>

Leave ==
  /\ at = "checkout"
  /\ at' = "billing" /\ busy' = FALSE
  /\ runs' = Away /\ doubted' = Doubted
  /\ UNCHANGED <<counter, office, board, chosen, cart, customer, bills, counted>>

-----------------------------------------------------------------------------
(* Checking out: a preview, and the bill with the preview's token.         *)

\* Walk-in customers pay exactly; retailers may pay a part, or nothing.
ExactPayments == {Total(cart)} \ {0}

PartPayments == {0, Total(cart)}

Payments == IF counter = "walk-in" THEN ExactPayments ELSE PartPayments

\* Faulty: the button is not disabled while a checkout runs.
BusyIgnored == TRUE

CanPress == ~busy

Press ==
  /\ presses < MaxPresses /\ presses' = presses + 1
  /\ at = "checkout" /\ CanPress /\ InCart(cart) # {}
  /\ \E paid \in Payments :
       runs' = runs \cup {[id |-> presses + 1, customer |-> customer, lines |-> cart,
                           paid |-> paid, due |-> Total(cart), step |-> "preview",
                           priced |-> EmptyCart, here |-> TRUE]}
  /\ busy' = TRUE
  /\ UNCHANGED <<counter, office, board, chosen, cart, customer, at, bills, doubted, changes, added>>

\* The line is what the office's price and entry mode make of it.
LineAccepted(g, line) ==
  /\ line.quantity > 0 /\ line.total > 0
  /\ IF office.mode = "amount"
     THEN line.quantity = quantityFromAmount(g, line.total, office.prices[g])
     ELSE line.total = Cost(line.quantity, office.prices[g])

\* The server's own lines.
Repriced(lines) ==
  [g \in Goods |->
     CASE g \notin InCart(lines) -> NoLine
       [] OTHER -> [price |-> office.prices[g], quantity |-> lines[g].quantity,
                    total |-> IF counter = "walk-in" THEN lines[g].total
                              ELSE Cost(lines[g].quantity, office.prices[g])]]

\* Faulty: the payment is not compared with what the server makes of the cart.
PaidAnything(paid, lines) == TRUE

PaidRight(paid, lines) ==
  IF counter = "walk-in" THEN paid = getCartTotal(lines) ELSE paid <= getCartTotal(lines)

Prepared(r, lines) ==
  /\ InCart(lines) \subseteq Priced(office)
  /\ \A g \in InCart(lines) :
       IF counter = "walk-in" THEN LineAccepted(g, lines[g]) ELSE lines[g].quantity > 0
  /\ PaidRight(r.paid, Repriced(lines))

Update(r, new) == runs' = (runs \ {r}) \cup {new}

\* The preview is accepted, and the phone asks for the bill.
Preview(r) ==
  /\ r.step = "preview" /\ Prepared(r, r.lines)
  /\ Update(r, [r EXCEPT !.step = "commit", !.priced = Repriced(r.lines)])
  /\ UNCHANGED <<counter, office, board, chosen, cart, customer, at, busy, bills, doubted, counted>>

\* A shop's bill is the preview's snapshot; a retailer's sale is priced anew.
Commit(r) ==
  /\ r.step = "commit"
  /\ counter = "retailer" => Prepared(r, r.lines)
  /\ Update(r, [r EXCEPT !.step = "saved"])
  /\ bills' = bills \cup
       {[id |-> r.id, customer |-> r.customer, paid |-> r.paid, due |-> r.due, shown |-> r.priced,
         lines |-> IF counter = "walk-in" THEN r.priced ELSE Repriced(r.lines)]}
  /\ UNCHANGED <<counter, office, board, chosen, cart, customer, at, busy, doubted, counted>>

\* The bill is saved: the cart, whatever is in it by now, is emptied, and the screen closes.
Billed(r) ==
  /\ r.step = "saved"
  /\ runs' = {[x EXCEPT !.here = FALSE] : x \in runs \ {r}} /\ resetCart
  /\ at' = "billing" /\ busy' = FALSE
  /\ UNCHANGED <<counter, office, board, chosen, bills, doubted, counted>>

\* A call is refused, or its answer is lost.
Failed(r) ==
  /\ runs' = runs \ {r} /\ doubted' = doubted \cup {r.customer}
  /\ busy' = IF r.here THEN FALSE ELSE busy
  /\ UNCHANGED <<counter, office, board, chosen, cart, customer, at, bills, counted>>

-----------------------------------------------------------------------------
Init ==
  /\ counter \in Kinds
  /\ \E m \in {"kg", "amount"} :
       office = [prices |-> [g \in Goods |-> Max(Prices)], listed |-> Goods, mode |-> m]
  /\ board = office /\ chosen \in Catalogues(office)
  /\ cart = EmptyCart /\ customer = 0 /\ at = "billing" /\ busy = FALSE
  /\ runs = {} /\ bills = {} /\ doubted = {}
  /\ changes = 0 /\ added = 0 /\ presses = 0

Office == (\E g \in Goods, p \in Prices : SetPrice(g, p)) \/ (\E g \in Goods : List(g)) \/ SwitchMode

Customer == (\E g \in Goods, typed \in Typed : Add(g, typed)) \/ (\E g \in Goods : Remove(g))
            \/ SelectRetailer \/ OpenCheckout \/ Leave \/ Press

Calls == \E r \in runs : Preview(r) \/ Commit(r) \/ Billed(r) \/ Failed(r)

Next == Office \/ Refresh \/ (\E c \in {Catalogue[g] : g \in Goods} : Choose(c)) \/ Customer \/ Calls

Spec == Init /\ [][Next]_vars

-----------------------------------------------------------------------------
(* Properties.                                                             *)

\* Within the rounding of the column that was computed: half a thousandth of the price or half
\* a paisa; half a piece where an amount buys pieces.
Slack(g, price) == IF g \in Pieces THEN 1000 * price ELSE Max({price, 1000})

AddsUp(lines) ==
  \A g \in InCart(lines) :
    LET gap == lines[g].quantity * lines[g].price - 1000 * lines[g].total
    IN  2 * Max({gap, -gap}) <= Slack(g, lines[g].price)

\* Every line of the cart, of a preview and of a bill costs its quantity at its price: carts
\* outlive changes of prices and of the entry mode, lines are merged across them, and the
\* server bills at a price the phone never sends.
LinesAddUp ==
  /\ AddsUp(cart)
  /\ \A b \in bills : AddsUp(b.lines) /\ AddsUp(b.shown)

\* A walk-in customer is billed the total the screen showed, and paid it; a retailer never
\* pays more than the sale comes to, at whatever price it is recorded.
BilledAsPaid ==
  \A b \in bills :
    IF counter = "walk-in"
    THEN b.paid = b.due /\ getCartTotal(b.lines) = b.due
    ELSE b.paid <= getCartTotal(b.lines)

\* A cart is billed again only where the phone was told of a failure, or its checkout was left
\* while it ran.
BilledOnce ==
  \A a, b \in bills : a # b /\ a.customer = b.customer => a.customer \in doubted
=============================================================================
