---------------------------- MODULE ScreenProofs ----------------------------
(***************************************************************************)
(* The screens of the app, each by itself: the counter (Counter) and the   *)
(* forms (FormScreen, AppForms), the editors of an item with an image      *)
(* (ItemEditor) and the lists (ListScreen, AppLists).  They share no       *)
(* state.                                                                  *)
(***************************************************************************)
EXTENDS Counter, AppForms, ItemEditor, AppLists, TLAPS

(***************************************************************************)
(* The counter.  That a cart is billed twice only where the phone was told *)
(* of a failure or left a running checkout; that the lines of a cart add   *)
(* up to their price in spite of all rounding; and that what is billed is  *)
(* what was paid: for any goods, prices and bounds.                        *)
(***************************************************************************)

\* What a press left behind: the checkout on its way and the bill it made.
Traces == runs \cup bills

\* Presses are told apart by their number, and a bill is made by the last step of its press.
NumberInv ==
  /\ presses \in Nat /\ customer \in Nat
  /\ \A r \in runs : {"id", "customer", "step", "here"} \subseteq DOMAIN r
  /\ \A x \in Traces : x.id \in 1..presses /\ x.customer \in 0..customer
  /\ \A r, q \in runs : r.id = q.id => r = q
  /\ \A a, b \in bills : a.id = b.id => a = b
  /\ \A r \in runs, b \in bills : r.id = b.id => r.step = "saved" /\ r.customer = b.customer

\* While the button is disabled its cart is on the screen; once it is back, a cart that was
\* pressed for is gone or doubted.
ButtonInv ==
  /\ busy \in BOOLEAN
  /\ busy => at = "checkout" /\ cart # EmptyCart
  /\ \A r \in runs : r.here => r.customer = customer
  /\ \A x \in Traces : x.customer = customer => busy \/ customer \in doubted

\* Two presses for one cart are doubted.
PressedOnce == \A x, y \in Traces : x.id # y.id /\ x.customer = y.customer => x.customer \in doubted

CartInv == NumberInv /\ ButtonInv /\ PressedOnce

-----------------------------------------------------------------------------
LEMMA CartInvInit == Init => CartInv
<1> SUFFICES ASSUME Init PROVE CartInv
  OBVIOUS
<1>1. runs = {} /\ bills = {} /\ presses = 0 /\ customer = 0 /\ busy = FALSE
  BY DEF Init
<1> QED
  BY <1>1 DEF CartInv, NumberInv, ButtonInv, PressedOnce, Traces

\* The carts and the screen change; nothing is pressed.
LEMMA CartKeeps ==
  ASSUME CartInv,
         UNCHANGED <<runs, bills, doubted, presses, customer, busy>>,
         busy => UNCHANGED <<cart, at>>
  PROVE  CartInv'
  BY DEF CartInv, NumberInv, ButtonInv, PressedOnce, Traces, EmptyCart

\* Checkouts are left: their screens are gone, and what was busy is doubted.
LEMMA AwayKeeps ==
  ASSUME CartInv,
         runs' = Away, doubted' = Doubted, busy' = FALSE, UNCHANGED <<bills, presses>>,
         customer' \in Nat,
         \/ UNCHANGED customer
         \/ customer' = customer + 1
  PROVE  CartInv'
<1>1. \A q \in runs' : \E r \in runs : q = [r EXCEPT !.here = FALSE]
  BY DEF Away
<1>2. \A q \in runs' : \E r \in runs : /\ q.id = r.id /\ q.customer = r.customer /\ q.step = r.step
                                      /\ ~q.here /\ DOMAIN q = DOMAIN r /\ q = [r EXCEPT !.here = FALSE]
  BY <1>1 DEF CartInv, NumberInv
<1>3. NumberInv'
  <2>1. ASSUME NEW p \in runs', NEW q \in runs', p.id = q.id PROVE p = q
    <3>1. PICK x \in runs : p.id = x.id /\ p = [x EXCEPT !.here = FALSE]
      BY <1>2
    <3>2. PICK y \in runs : q.id = y.id /\ q = [y EXCEPT !.here = FALSE]
      BY <1>2
    <3> QED
      BY <2>1, <3>1, <3>2 DEF CartInv, NumberInv
  <2>2. \A r \in runs' : {"id", "customer", "step", "here"} \subseteq DOMAIN r
    BY <1>2 DEF CartInv, NumberInv
  <2>3. \A x \in Traces' : x.id \in 1..presses' /\ x.customer \in 0..customer'
    BY <1>2 DEF CartInv, NumberInv, Traces
  <2>4. \A r \in runs', b \in bills' : r.id = b.id => r.step = "saved" /\ r.customer = b.customer
    BY <1>2 DEF CartInv, NumberInv
  <2> QED
    BY <2>1, <2>2, <2>3, <2>4 DEF CartInv, NumberInv
<1>4. doubted \subseteq doubted' /\ (busy => customer \in doubted')
  BY DEF Doubted
<1>5. ButtonInv'
  <2>1. \A r \in runs' : ~r.here
    BY <1>2
  <2>2. ASSUME NEW x \in Traces', x.customer = customer' PROVE customer' \in doubted'
    <3>1. PICK y \in Traces : y.customer = x.customer
      BY <1>2 DEF Traces
    <3>2. y.customer \in 0..customer /\ customer \in Nat
      BY DEF CartInv, NumberInv
    <3>3. customer' = customer
      BY <2>2, <3>1, <3>2
    <3> QED
      BY <2>2, <3>1, <3>3, <1>4 DEF CartInv, ButtonInv
  <2> QED
    BY <2>1, <2>2 DEF ButtonInv
<1>6. PressedOnce'
  BY <1>2, <1>4 DEF CartInv, PressedOnce, Traces
<1> QED
  BY <1>3, <1>5, <1>6 DEF CartInv

LEMMA PressKeeps == ASSUME CartInv, Press PROVE CartInv'
<1>1. PICK r : /\ runs' = runs \cup {r} /\ r.id = presses + 1 /\ r.customer = customer
               /\ {"id", "customer", "step", "here"} \subseteq DOMAIN r
               /\ r.step = "preview"
  <2> DEFINE pressed(paid) ==
        [id |-> presses + 1, customer |-> customer, lines |-> cart, paid |-> paid,
         due |-> Total(cart), step |-> "preview", priced |-> EmptyCart, here |-> TRUE]
  <2>1. PICK paid : runs' = runs \cup {pressed(paid)}
    BY DEF Press
  <2>2. /\ pressed(paid).id = presses + 1 /\ pressed(paid).customer = customer
        /\ {"id", "customer", "step", "here"} \subseteq DOMAIN pressed(paid)
        /\ pressed(paid).step = "preview"
    OBVIOUS
  <2> HIDE DEF pressed
  <2> QED
    BY <2>1, <2>2
<1>2. ~busy /\ busy' /\ at' = "checkout" /\ presses' = presses + 1
      /\ UNCHANGED <<customer, bills, doubted, cart>>
  BY DEF Press, CanPress, CartInv, ButtonInv
<1>3. cart' # EmptyCart'
  BY <1>2 DEF Press, InCart, EmptyCart, NoLine
<1>4. NumberInv'
  BY <1>1, <1>2 DEF CartInv, NumberInv, Traces
<1>5. ButtonInv'
  BY <1>1, <1>2, <1>3 DEF Press, CartInv, ButtonInv, Traces
<1>6. PressedOnce'
  BY <1>1, <1>2 DEF CartInv, ButtonInv, PressedOnce, Traces
<1> QED
  BY <1>4, <1>5, <1>6 DEF CartInv

LEMMA PreviewKeeps == ASSUME CartInv, NEW r \in runs, Preview(r) PROVE CartInv'
<1>1. PICK q : /\ runs' = (runs \ {r}) \cup {q} /\ q.id = r.id /\ q.customer = r.customer
               /\ q.here = r.here /\ DOMAIN q = DOMAIN r
  <2> DEFINE q == [r EXCEPT !.step = "commit", !.priced = Repriced(r.lines)]
  <2>1. runs' = (runs \ {r}) \cup {q}
    BY DEF Preview, Update
  <2>2. q.id = r.id /\ q.customer = r.customer /\ q.here = r.here /\ DOMAIN q = DOMAIN r
    BY DEF CartInv, NumberInv
  <2> QED
    BY <2>1, <2>2
<1>2. UNCHANGED <<bills, customer, doubted, presses, busy, at, cart>> /\ r.step = "preview"
  BY DEF Preview, counted
<1>3. NumberInv'
  BY <1>1, <1>2 DEF CartInv, NumberInv, Traces
<1>4. ButtonInv'
  BY <1>1, <1>2 DEF CartInv, ButtonInv, Traces, EmptyCart
<1>5. PressedOnce'
  BY <1>1, <1>2 DEF CartInv, PressedOnce, Traces
<1> QED
  BY <1>3, <1>4, <1>5 DEF CartInv

LEMMA CommitKeeps == ASSUME CartInv, NEW r \in runs, Commit(r) PROVE CartInv'
<1>1. PICK q : /\ runs' = (runs \ {r}) \cup {q} /\ q.id = r.id /\ q.customer = r.customer
               /\ q.here = r.here /\ DOMAIN q = DOMAIN r /\ q.step = "saved"
  <2> DEFINE q == [r EXCEPT !.step = "saved"]
  <2>1. runs' = (runs \ {r}) \cup {q}
    BY DEF Commit, Update
  <2>2. /\ q.id = r.id /\ q.customer = r.customer /\ q.here = r.here /\ DOMAIN q = DOMAIN r
        /\ q.step = "saved"
    BY DEF CartInv, NumberInv
  <2> QED
    BY <2>1, <2>2
<1>2. PICK b : bills' = bills \cup {b} /\ b.id = r.id /\ b.customer = r.customer
  <2> DEFINE b == [id |-> r.id, customer |-> r.customer, paid |-> r.paid, due |-> r.due,
                   shown |-> r.priced,
                   lines |-> IF counter = "walk-in" THEN r.priced ELSE Repriced(r.lines)]
  <2>1. bills' = bills \cup {b} /\ b.id = r.id /\ b.customer = r.customer
    BY DEF Commit
  <2> HIDE DEF b
  <2> QED
    BY <2>1
<1>3. UNCHANGED <<customer, doubted, presses, busy, at, cart>> /\ r.step = "commit"
  BY DEF Commit, counted
<1>4. NumberInv'
  BY <1>1, <1>2, <1>3 DEF CartInv, NumberInv, Traces
<1>5. ButtonInv'
  BY <1>1, <1>2, <1>3 DEF CartInv, ButtonInv, Traces, EmptyCart
<1>6. PressedOnce'
  BY <1>1, <1>2, <1>3 DEF CartInv, PressedOnce, Traces
<1> QED
  BY <1>4, <1>5, <1>6 DEF CartInv

LEMMA BilledKeeps == ASSUME CartInv, NEW r \in runs, Billed(r) PROVE CartInv'
<1>1. \A q \in runs' : \E x \in runs : /\ q.id = x.id /\ q.customer = x.customer /\ q.step = x.step
                                       /\ ~q.here /\ DOMAIN q = DOMAIN x /\ q = [x EXCEPT !.here = FALSE]
  BY DEF Billed, CartInv, NumberInv
<1>2. UNCHANGED <<bills, doubted, presses>> /\ ~busy' /\ busy' \in BOOLEAN
  BY DEF Billed, counted
<1>3. IF cart = EmptyCart THEN customer' = customer /\ ~busy ELSE customer' = customer + 1
  BY DEF Billed, resetCart, CartInv, ButtonInv
<1>4. NumberInv'
  <2>1. ASSUME NEW p \in runs', NEW q \in runs', p.id = q.id PROVE p = q
    <3>1. PICK x \in runs : p.id = x.id /\ p = [x EXCEPT !.here = FALSE]
      BY <1>1
    <3>2. PICK y \in runs : q.id = y.id /\ q = [y EXCEPT !.here = FALSE]
      BY <1>1
    <3> QED
      BY <2>1, <3>1, <3>2 DEF CartInv, NumberInv
  <2>2. \A p \in runs' : {"id", "customer", "step", "here"} \subseteq DOMAIN p
    BY <1>1, <1>2, <1>3 DEF CartInv, NumberInv
  <2>3. \A x \in Traces' : x.id \in 1..presses' /\ x.customer \in 0..customer'
    BY <1>1, <1>2, <1>3 DEF CartInv, NumberInv, Traces
  <2>4. \A p \in runs', b \in bills' : p.id = b.id => p.step = "saved" /\ p.customer = b.customer
    BY <1>1, <1>2, <1>3 DEF CartInv, NumberInv
  <2> QED
    BY <2>1, <2>2, <2>3, <2>4, <1>2, <1>3 DEF CartInv, NumberInv
<1>5. ButtonInv'
  BY <1>1, <1>2, <1>3 DEF CartInv, NumberInv, ButtonInv, Traces
<1>6. PressedOnce'
  BY <1>1, <1>2 DEF CartInv, PressedOnce, Traces
<1> QED
  BY <1>4, <1>5, <1>6 DEF CartInv

LEMMA FailedKeeps == ASSUME CartInv, NEW r \in runs, Failed(r) PROVE CartInv'
<1>1. /\ UNCHANGED <<bills, presses, customer, at, cart>>
      /\ runs' = runs \ {r} /\ doubted' = doubted \cup {r.customer}
      /\ busy' = IF r.here THEN FALSE ELSE busy
  BY DEF Failed, counted
<1> QED
  BY <1>1 DEF CartInv, NumberInv, ButtonInv, PressedOnce, Traces, EmptyCart

-----------------------------------------------------------------------------
LEMMA NextKeeps == CartInv /\ [Next]_vars => CartInv'
<1> SUFFICES ASSUME CartInv, [Next]_vars PROVE CartInv'
  OBVIOUS
<1>1. CASE Office
  BY <1>1, CartKeeps DEF Office, SetPrice, List, SwitchMode, Change
<1>2. CASE Refresh
  BY <1>2, CartKeeps DEF Refresh, counted
<1>3. CASE \E c \in {Catalogue[g] : g \in Goods} : Choose(c)
  BY <1>3, CartKeeps DEF Choose, counted
<1>4. CASE \E g \in Goods, keyed \in Typed : Add(g, keyed)
  BY <1>4, CartKeeps DEF Add, CanAdd, CartInv, ButtonInv
<1>5. CASE \E g \in Goods : Remove(g)
  BY <1>5, CartKeeps DEF Remove, CanRemove, CartInv, ButtonInv, counted
<1>6. CASE SelectRetailer
  <2>1. runs' = Away /\ doubted' = Doubted /\ busy' = FALSE /\ UNCHANGED <<bills, presses>>
    BY <1>6 DEF SelectRetailer, counted
  <2>2. customer' = customer \/ customer' = customer + 1
    BY <1>6 DEF SelectRetailer, resetCart
  <2>3. customer' \in Nat
    BY <2>2 DEF CartInv, NumberInv
  <2> QED
    BY <2>1, <2>2, <2>3, AwayKeeps
<1>7. CASE OpenCheckout
  BY <1>7, CartKeeps DEF OpenCheckout, CanCheckOut, CartInv, ButtonInv, counted
<1>8. CASE Leave
  BY <1>8, AwayKeeps DEF Leave, CartInv, NumberInv, counted
<1>9. CASE Press
  BY <1>9, PressKeeps
<1>10. CASE Calls
  BY <1>10, PreviewKeeps, CommitKeeps, BilledKeeps, FailedKeeps DEF Calls
<1>11. CASE UNCHANGED vars
  BY <1>11, CartKeeps DEF vars, counted
<1> QED
  BY <1>1, <1>2, <1>3, <1>4, <1>5, <1>6, <1>7, <1>8, <1>9, <1>10, <1>11 DEF Next, Customer

-----------------------------------------------------------------------------
\* A cart is billed a second time only where the phone was told of a failure, or its checkout was
\* left while it ran: no press of the button alone does it, whatever other carts, prices and late
\* answers there are (the checkout screens, create_bill, the retailer's sale).
THEOREM CartsBilledOnce == Spec => []BilledOnce
<1>1. CartInv => BilledOnce
  BY DEF CartInv, NumberInv, PressedOnce, Traces, BilledOnce
<1>2. Spec => []CartInv
  BY CartInvInit, NextKeeps, PTL DEF Spec
<1> QED
  BY <1>1, <1>2, PTL

-----------------------------------------------------------------------------
(* Lines add up, and bills are what was paid.                              *)

\* The nearest whole number is at most half a unit away, halves included.
LEMMA RoundedIsNear ==
  ASSUME NEW a \in Nat, NEW b \in Nat \ {0}
  PROVE  /\ Rounded(a, b) \in Nat
         /\ 2 * (b * Rounded(a, b) - a) <= b
         /\ 2 * (a - b * Rounded(a, b)) <= b
<1> DEFINE n == 2 * a + b
           d == 2 * b
           q == n \div d
<1>1. n \in Nat /\ d \in Nat /\ d > 0
  OBVIOUS
<1>2. q \in Nat /\ d * q <= n /\ n < d * q + d
  <2> HIDE DEF n, d
  <2> QED BY <1>1
<1>3. d * q = 2 * (b * q) /\ b * q \in Nat
  <2>1. q \in Nat
    BY <1>2
  <2> HIDE DEF q
  <2> QED BY <2>1
<1>4. Rounded(a, b) = q
  BY DEF Rounded
<1> HIDE DEF q
<1> QED BY <1>2, <1>3, <1>4

LEMMA MaxOfTwo ==
  ASSUME NEW x \in Int, NEW y \in Int
  PROVE  Max({x, y}) \in {x, y} /\ Max({x, y}) >= x /\ Max({x, y}) >= y
<1>1. \E z \in {x, y} : \A w \in {x, y} : z >= w
  OBVIOUS
<1> QED BY <1>1, Zenon DEF Max

\* What a line is made of, and how far its total may be from its quantity at its price.
LineType == [price : Nat, quantity : Nat, total : Nat]

Close(g, quantity, total, price) ==
  /\ 2 * (quantity * price - 1000 * total) <= Slack(g, price)
  /\ 2 * (1000 * total - quantity * price) <= Slack(g, price)

LEMMA SlackAtLeast ==
  ASSUME NEW g, NEW price \in Nat \ {0}
  PROVE  /\ Slack(g, price) \in Nat /\ Slack(g, price) >= 1000
         /\ g \in Pieces => Slack(g, price) = 1000 * price
         /\ g \notin Pieces => Slack(g, price) >= price
<1>1. Max({price, 1000}) \in {price, 1000} /\ Max({price, 1000}) >= price /\ Max({price, 1000}) >= 1000
  BY MaxOfTwo
<1> HIDE DEF Max
<1> QED BY <1>1 DEF Slack

LEMMA CostIsClose ==
  ASSUME NEW g, NEW quantity \in Nat, NEW price \in Nat \ {0}
  PROVE  /\ Cost(quantity, price) \in Nat
         /\ Close(g, quantity, Cost(quantity, price), price)
<1> DEFINE worth == quantity * price
<1>1. worth \in Nat
  OBVIOUS
<1>2. Cost(quantity, price) = Rounded(worth, 1000)
  BY DEF Cost
<1> HIDE DEF worth
<1>3. /\ Rounded(worth, 1000) \in Nat
      /\ 2 * (1000 * Rounded(worth, 1000) - worth) <= 1000
      /\ 2 * (worth - 1000 * Rounded(worth, 1000)) <= 1000
  BY <1>1, RoundedIsNear
<1> USE DEF worth
<1> QED BY <1>1, <1>2, <1>3, SlackAtLeast DEF Close

LEMMA AmountIsClose ==
  ASSUME NEW g, NEW total \in Nat, NEW price \in Nat \ {0}
  PROVE  /\ quantityFromAmount(g, total, price) \in Nat
         /\ Close(g, quantityFromAmount(g, total, price), total, price)
<1>1. CASE g \in Pieces
  <2> DEFINE n == Rounded(total, price)
             worth == price * n
  <2>1. n \in Nat /\ 2 * (worth - total) <= price /\ 2 * (total - worth) <= price
    BY RoundedIsNear
  <2>2. quantityFromAmount(g, total, price) = 1000 * n
    BY <1>1 DEF quantityFromAmount
  <2>3. (1000 * n) * price = 1000 * worth /\ worth \in Nat
    <3> HIDE DEF n
    <3> QED BY <2>1
  <2>4. Slack(g, price) = 1000 * price
    BY <1>1, SlackAtLeast
  <2> HIDE DEF n, worth
  <2> QED BY <2>1, <2>2, <2>3, <2>4 DEF Close
<1>2. CASE g \notin Pieces
  <2> DEFINE n == Rounded(1000 * total, price)
             worth == price * n
  <2>1. n \in Nat /\ 2 * (worth - 1000 * total) <= price /\ 2 * (1000 * total - worth) <= price
    BY RoundedIsNear
  <2>2. quantityFromAmount(g, total, price) = n
    BY <1>2 DEF quantityFromAmount
  <2>3. n * price = worth /\ worth \in Nat
    <3> HIDE DEF n
    <3> QED BY <2>1
  <2>4. Slack(g, price) >= price /\ Slack(g, price) \in Nat
    BY <1>2, SlackAtLeast
  <2> HIDE DEF n, worth
  <2> QED BY <2>1, <2>2, <2>3, <2>4 DEF Close
<1> QED BY <1>1, <1>2

LEMMA EnteredIsNat ==
  ASSUME NEW g, NEW keyed \in Nat
  PROVE  Entered(g, keyed) \in Nat
  BY RoundedIsNear DEF Entered

\* A line that is empty, or has a price and costs its quantity at it.
Fits(g, line) ==
  /\ line \in LineType
  /\ line = NoLine \/ (line.price > 0 /\ Close(g, line.quantity, line.total, line.price))

Fitting(lines) ==
  /\ DOMAIN lines = Goods
  /\ \A g \in Goods : Fits(g, lines[g])

LEMMA FittingAddsUp == ASSUME NEW lines, Fitting(lines) PROVE AddsUp(lines)
<1> SUFFICES ASSUME NEW g \in InCart(lines)
             PROVE LET gap == lines[g].quantity * lines[g].price - 1000 * lines[g].total
                   IN  2 * Max({gap, -gap}) <= Slack(g, lines[g].price)
  BY DEF AddsUp
<1> DEFINE q == lines[g].quantity
           t == lines[g].total
           p == lines[g].price
           worth == q * p
<1>1. q \in Nat /\ t \in Nat /\ p \in Nat \ {0} /\ worth \in Nat /\ Close(g, q, t, p)
  BY DEF InCart, Fitting, Fits, LineType, NoLine
<1>2. 2 * (worth - 1000 * t) <= Slack(g, p) /\ 2 * (1000 * t - worth) <= Slack(g, p)
  BY <1>1 DEF Close
<1>3. Slack(g, p) \in Nat
  BY <1>1, SlackAtLeast
<1> HIDE DEF q, t, p, worth
<1> DEFINE gap == worth - 1000 * t
<1>4. gap \in Int /\ -gap \in Int /\ 2 * gap <= Slack(g, p) /\ 2 * (-gap) <= Slack(g, p)
  BY <1>1, <1>2, <1>3
<1> HIDE DEF gap
<1>5. Max({gap, -gap}) \in {gap, -gap}
  BY <1>4, MaxOfTwo
<1>6. 2 * Max({gap, -gap}) <= Slack(g, p)
  <2>1. CASE Max({gap, -gap}) = gap
    BY <1>4, <2>1
  <2>2. CASE Max({gap, -gap}) = -gap
    BY <1>4, <2>2
  <2> QED BY <1>5, <2>1, <2>2
<1> QED BY <1>6, Zenon DEF gap, worth, q, t, p

LEMMA EmptyCartFits == Fitting(EmptyCart)
  BY DEF Fitting, Fits, EmptyCart, NoLine, LineType

Boards == [prices : [Goods -> Prices], listed : SUBSET Goods, mode : {"kg", "amount"}]

LEMMA NewLineFits ==
  ASSUME board \in Boards, NEW g \in Goods, NEW keyed \in Nat
  PROVE  LET line == LineOf(g, keyed, board.prices[g]) IN Fits(g, line) /\ line.price > 0
<1> DEFINE price == board.prices[g]
<1>1. price \in Nat \ {0}
  BY CounterAssumption DEF Boards
<1> HIDE DEF price
<1>2. Fits(g, AmountLine(g, keyed, price)) /\ AmountLine(g, keyed, price).price > 0
  BY <1>1, AmountIsClose DEF Fits, AmountLine, LineType
<1>3. Fits(g, QuantityLine(g, keyed, price)) /\ QuantityLine(g, keyed, price).price > 0
  BY <1>1, EnteredIsNat, CostIsClose DEF Fits, QuantityLine, LineType
<1> QED BY <1>2, <1>3, Zenon DEF LineOf, price

LEMMA MergedLineFits ==
  ASSUME NEW g, NEW line, Fits(g, line), line # NoLine, NEW more \in LineType
  PROVE  Fits(g, Merged(g, line, more))
<1>1. line \in LineType /\ line.price \in Nat \ {0} /\ more.total \in Nat /\ more.quantity \in Nat
      /\ line.total + more.total \in Nat /\ line.quantity + more.quantity \in Nat
  BY DEF Fits, LineType
<1>2. CASE counter = "walk-in"
  <2> DEFINE total == line.total + more.total
             quantity == quantityFromAmount(g, total, line.price)
  <2>1. quantity \in Nat /\ total \in Nat /\ Close(g, quantity, total, line.price)
    BY <1>1, AmountIsClose
  <2>2. Merged(g, line, more) = [line EXCEPT !.total = total, !.quantity = quantity]
    BY <1>1, <1>2 DEF Merged, LineType
  <2> HIDE DEF total, quantity
  <2> QED BY <1>1, <2>1, <2>2 DEF Fits, LineType
<1>3. CASE counter # "walk-in"
  <2> DEFINE quantity == line.quantity + more.quantity
             total == Cost(quantity, line.price)
  <2>1. quantity \in Nat /\ total \in Nat /\ Close(g, quantity, total, line.price)
    BY <1>1, CostIsClose
  <2>2. Merged(g, line, more) = [line EXCEPT !.quantity = quantity, !.total = total]
    BY <1>1, <1>3 DEF Merged, LineType
  <2> HIDE DEF total, quantity
  <2> QED BY <1>1, <2>1, <2>2 DEF Fits, LineType
<1> QED BY <1>2, <1>3

\* The server's lines fit wherever it prepared the cart.
LEMMA RepricedFits ==
  ASSUME office \in Boards, NEW r, Fitting(r.lines), Prepared(r, r.lines)
  PROVE  Fitting(Repriced(r.lines))
<1> DEFINE lines == r.lines
<1>1. ASSUME NEW g \in Goods PROVE Fits(g, Repriced(lines)[g])
  <2> DEFINE price == office.prices[g]
             line == lines[g]
  <2>1. price \in Nat \ {0}
    BY CounterAssumption DEF Boards
  <2>2. line \in LineType
    BY DEF Fitting, Fits
  <2>3. CASE g \notin InCart(lines)
    BY <2>3 DEF Repriced, Fits, NoLine, LineType
  <2>4. CASE g \in InCart(lines) /\ counter = "walk-in"
    <3>1. LineAccepted(g, line)
      BY <2>4 DEF Prepared
    <3>2. Repriced(lines)[g] = [price |-> price, quantity |-> line.quantity, total |-> line.total]
      BY <2>4 DEF Repriced
    <3>3. Close(g, line.quantity, line.total, price)
      <4>1. CASE office.mode = "amount"
        BY <2>1, <2>2, <3>1, <4>1, AmountIsClose DEF LineAccepted, LineType
      <4>2. CASE office.mode # "amount"
        BY <2>1, <2>2, <3>1, <4>2, CostIsClose DEF LineAccepted, LineType
      <4> QED BY <4>1, <4>2
    <3> HIDE DEF price, line
    <3> QED BY <2>1, <2>2, <3>2, <3>3 DEF Fits, LineType
  <2>5. CASE g \in InCart(lines) /\ counter # "walk-in"
    <3> DEFINE total == Cost(line.quantity, price)
    <3>1. Repriced(lines)[g] = [price |-> price, quantity |-> line.quantity, total |-> total]
      BY <2>5 DEF Repriced
    <3>2. total \in Nat /\ Close(g, line.quantity, total, price)
      BY <2>1, <2>2, CostIsClose DEF LineType
    <3> HIDE DEF price, line, total
    <3> QED BY <2>1, <2>2, <3>1, <3>2 DEF Fits, LineType
  <2> QED BY <2>3, <2>4, <2>5
<1>2. DOMAIN Repriced(lines) = Goods
  BY DEF Repriced
<1> QED BY <1>1, <1>2 DEF Fitting

-----------------------------------------------------------------------------
\* A checkout on its way carries lines that fit, and what is paid for a walk-in customer is what
\* the screen showed and, once it is prepared, what the server makes of it.
RunFits(c, r) ==
  /\ {"id", "customer", "lines", "paid", "due", "step", "priced", "here"} \subseteq DOMAIN r
  /\ Fitting(r.lines) /\ Fitting(r.priced)
  /\ c = "walk-in" => r.paid = r.due
  /\ c = "walk-in" /\ r.step # "preview" => r.paid = getCartTotal(r.priced)

PaidFor(c, b) ==
  IF c = "walk-in" THEN b.paid = b.due /\ getCartTotal(b.lines) = b.due
                         ELSE b.paid <= getCartTotal(b.lines)

LinesInv ==
  /\ counter \in {"walk-in", "retailer"}
  /\ office \in Boards /\ board \in Boards
  /\ Fitting(cart)
  /\ \A r \in runs : RunFits(counter, r)
  /\ \A b \in bills : Fitting(b.lines) /\ Fitting(b.shown) /\ PaidFor(counter, b)

LEMMA InitLines == Init => LinesInv
<1> SUFFICES ASSUME Init PROVE LinesInv
  OBVIOUS
<1>1. office \in Boards /\ board = office
  BY CounterAssumption DEF Init, Boards
<1>2. Fitting(cart)
  BY EmptyCartFits DEF Init
<1>3. counter \in {"walk-in", "retailer"} /\ runs = {} /\ bills = {}
  BY CounterAssumption DEF Init
<1> QED
  BY <1>1, <1>2, <1>3 DEF LinesInv

\* Checkouts that are kept as they are, or lose their screen, or are gone.
LEMMA RunsKept ==
  ASSUME LinesInv, UNCHANGED <<counter, bills>>,
         office' \in Boards, board' \in Boards, Fitting(cart'),
         \A q \in runs' : \E r \in runs : q = r \/ q = [r EXCEPT !.here = FALSE]
  PROVE  LinesInv'
<1>1. ASSUME NEW q \in runs' PROVE RunFits(counter, q)
  <2>1. PICK r \in runs : q = r \/ q = [r EXCEPT !.here = FALSE]
    OBVIOUS
  <2>2. RunFits(counter, r)
    BY DEF LinesInv
  <2>3. /\ DOMAIN q = DOMAIN r /\ q.lines = r.lines /\ q.priced = r.priced /\ q.paid = r.paid
        /\ q.due = r.due /\ q.step = r.step
    BY <2>1, <2>2 DEF RunFits
  <2> QED
    BY <2>2, <2>3 DEF RunFits
<1>2. \A q \in runs' : RunFits(counter, q)'
  BY <1>1
<1>3. \A b \in bills : (Fitting(b.lines) /\ Fitting(b.shown) /\ PaidFor(counter, b))'
  BY DEF LinesInv
<1> QED
  BY <1>2, <1>3 DEF LinesInv

LEMMA OfficeKeepsLines == ASSUME LinesInv, Office PROVE LinesInv'
<1>1. UNCHANGED <<counter, board, cart, runs, bills>> /\ office' \in Boards
  <2>1. CASE \E g \in Goods, q \in Prices : SetPrice(g, q)
    BY <2>1 DEF SetPrice, Change, LinesInv, Boards
  <2>2. CASE \E g \in Goods : List(g)
    BY <2>2 DEF List, Change, LinesInv, Boards
  <2>3. CASE SwitchMode
    BY <2>3 DEF SwitchMode, Change, LinesInv, Boards
  <2> QED BY <2>1, <2>2, <2>3 DEF Office
<1> QED BY <1>1, RunsKept DEF LinesInv

LEMMA AddKeepsLines ==
  ASSUME LinesInv, NEW g \in Goods, NEW keyed \in Typed, Add(g, keyed)
  PROVE  LinesInv'
<1> DEFINE line == LineOf(g, keyed, board.prices[g])
           new == IF cart[g] = NoLine THEN line ELSE Merged(g, cart[g], line)
<1>1. Fits(g, line) /\ line \in LineType
  <2>1. keyed \in Nat
    BY CounterAssumption
  <2>2. Fits(g, line)
    BY <2>1, NewLineFits DEF LinesInv
  <2> QED BY <2>2 DEF Fits
<1>2. Fits(g, cart[g]) /\ DOMAIN cart = Goods
  BY DEF LinesInv, Fitting
<1>3. Fits(g, new)
  BY <1>1, <1>2, MergedLineFits, Zenon
<1>4. cart' = [cart EXCEPT ![g] = new]
  BY Zenon DEF Add
<1> HIDE DEF new
<1>5. Fitting(cart')
  <2>1. DOMAIN cart' = Goods /\ \A x \in Goods : cart'[x] = IF x = g THEN new ELSE cart[x]
    BY <1>2, <1>4
  <2> QED BY <1>3, <2>1 DEF LinesInv, Fitting
<1>6. UNCHANGED <<counter, office, board, runs, bills>>
  BY DEF Add
<1> QED BY <1>5, <1>6, RunsKept DEF LinesInv

LEMMA RemoveKeepsLines == ASSUME LinesInv, NEW g \in Goods, Remove(g) PROVE LinesInv'
<1>1. Fits(g, NoLine)
  BY DEF Fits, NoLine, LineType
<1>2. cart' = [cart EXCEPT ![g] = NoLine] /\ UNCHANGED <<counter, office, board, runs, bills>>
  BY DEF Remove, counted
<1>3. Fitting(cart')
  BY <1>1, <1>2 DEF LinesInv, Fitting
<1> QED BY <1>2, <1>3, RunsKept DEF LinesInv

LEMMA PressKeepsLines == ASSUME LinesInv, Press PROVE LinesInv'
<1> DEFINE pressed(paid) ==
      [id |-> presses + 1, customer |-> customer, lines |-> cart, paid |-> paid,
       due |-> Total(cart), step |-> "preview", priced |-> EmptyCart, here |-> TRUE]
<1>1. PICK paid \in Payments : runs' = runs \cup {pressed(paid)}
  BY Zenon DEF Press
<1>2. counter = "walk-in" => paid = Total(cart)
  BY DEF Payments, ExactPayments
<1>3. RunFits(counter, pressed(paid))
  BY <1>2, EmptyCartFits DEF RunFits, LinesInv
<1> HIDE DEF pressed
<1>4. UNCHANGED <<counter, office, board, cart, bills>>
  BY DEF Press
<1> QED BY <1>1, <1>3, <1>4 DEF LinesInv

\* What the server makes of the cart is what is paid for it.
LEMMA PreviewKeepsLines == ASSUME LinesInv, NEW r \in runs, Preview(r) PROVE LinesInv'
<1> DEFINE priced == Repriced(r.lines)
           q == [r EXCEPT !.step = "commit", !.priced = priced]
<1>1. RunFits(counter, r) /\ Fitting(r.lines) /\ Prepared(r, r.lines)
  BY DEF LinesInv, RunFits, Preview
<1>2. Fitting(priced)
  BY <1>1, RepricedFits DEF LinesInv
<1>3. counter = "walk-in" => r.paid = getCartTotal(priced)
  BY <1>1 DEF Prepared, PaidRight
<1>4. runs' = (runs \ {r}) \cup {q} /\ UNCHANGED <<counter, office, board, cart, bills>>
  BY DEF Preview, Update, counted
<1> HIDE DEF priced
<1>5. RunFits(counter, q)
  BY <1>1, <1>2, <1>3 DEF RunFits
<1> HIDE DEF q
<1> QED BY <1>4, <1>5 DEF LinesInv

\* The bill is the preview's or, for a retailer, prepared once more.
LEMMA CommitKeepsLines == ASSUME LinesInv, NEW r \in runs, Commit(r) PROVE LinesInv'
<1> DEFINE q == [r EXCEPT !.step = "saved"]
           lines == IF counter = "walk-in" THEN r.priced ELSE Repriced(r.lines)
           b == [id |-> r.id, customer |-> r.customer, paid |-> r.paid, due |-> r.due,
                 shown |-> r.priced, lines |-> lines]
<1>1. RunFits(counter, r) /\ r.step = "commit"
  BY DEF LinesInv, Commit
<1>2. counter # "walk-in" => Fitting(Repriced(r.lines)) /\ r.paid <= getCartTotal(Repriced(r.lines))
  BY <1>1, RepricedFits DEF LinesInv, RunFits, Commit, Prepared, PaidRight
<1>3. Fitting(b.lines) /\ Fitting(b.shown) /\ PaidFor(counter, b)
  <2>1. b.lines = lines /\ b.shown = r.priced /\ b.paid = r.paid /\ b.due = r.due
    OBVIOUS
  <2>2. counter = "walk-in" => lines = r.priced
    OBVIOUS
  <2>3. counter # "walk-in" => lines = Repriced(r.lines)
    OBVIOUS
  <2> HIDE DEF b, lines
  <2> QED BY <1>1, <1>2, <2>1, <2>2, <2>3 DEF RunFits, PaidFor
<1>4. RunFits(counter, q)
  BY <1>1 DEF RunFits
<1>5. /\ runs' = (runs \ {r}) \cup {q} /\ bills' = bills \cup {b}
      /\ UNCHANGED <<counter, office, board, cart>>
  BY DEF Commit, Update, counted
<1> HIDE DEF q, b
<1> QED BY <1>3, <1>4, <1>5 DEF LinesInv

LEMMA NextKeepsLines == LinesInv /\ [Next]_vars => LinesInv'
<1> SUFFICES ASSUME LinesInv, [Next]_vars PROVE LinesInv'
  OBVIOUS
<1>1. CASE Office
  BY <1>1, OfficeKeepsLines
<1>2. CASE Refresh
  BY <1>2, RunsKept DEF Refresh, LinesInv
<1>3. CASE \E c \in {Catalogue[g] : g \in Goods} : Choose(c)
  BY <1>3, RunsKept DEF Choose, LinesInv
<1>4. CASE \E g \in Goods, keyed \in Typed : Add(g, keyed)
  BY <1>4, AddKeepsLines
<1>5. CASE \E g \in Goods : Remove(g)
  BY <1>5, RemoveKeepsLines
<1>6. CASE SelectRetailer
  BY <1>6, RunsKept, EmptyCartFits DEF SelectRetailer, resetCart, Away, LinesInv
<1>7. CASE OpenCheckout
  BY <1>7, RunsKept DEF OpenCheckout, LinesInv
<1>8. CASE Leave
  BY <1>8, RunsKept DEF Leave, Away, LinesInv
<1>9. CASE Press
  BY <1>9, PressKeepsLines
<1>10. ASSUME NEW r \in runs, Billed(r) PROVE LinesInv'
  BY <1>10, RunsKept, EmptyCartFits DEF Billed, resetCart, LinesInv
<1>11. ASSUME NEW r \in runs, Failed(r) PROVE LinesInv'
  BY <1>11, RunsKept DEF Failed, LinesInv
<1>12. CASE Calls
  BY <1>10, <1>11, <1>12, PreviewKeepsLines, CommitKeepsLines DEF Calls
<1>13. CASE UNCHANGED vars
  BY <1>13, RunsKept DEF vars, LinesInv
<1> QED
  BY <1>1, <1>2, <1>3, <1>4, <1>5, <1>6, <1>7, <1>8, <1>9, <1>12, <1>13 DEF Next, Customer

LEMMA LinesInvariance == Spec => []LinesInv
  BY InitLines, NextKeepsLines, PTL DEF Spec

\* Every line of a cart, a preview and a bill costs its quantity at its price, to half a unit of
\* what was rounded, for all prices and amounts: merging lines, changes of the entry mode and the
\* server's own prices never let the rounding add up (cart store, _prepare_checkout).
THEOREM LinesAlwaysAddUp == Spec => []LinesAddUp
<1>1. LinesInv => LinesAddUp
  BY FittingAddsUp DEF LinesInv, LinesAddUp
<1> QED
  BY <1>1, LinesInvariance, PTL

\* A walk-in customer's bill comes to what the screen showed and what was paid, a retailer's to
\* no less than was paid, whatever the office changed between the cart, the preview and the bill.
THEOREM BillsAreAsPaid == Spec => []BilledAsPaid
<1>1. LinesInv => BilledAsPaid
  BY DEF LinesInv, PaidFor, BilledAsPaid
<1> QED
  BY <1>1, LinesInvariance, PTL

(***************************************************************************)
(* The forms.  What is listed after a save is what was saved, unless the   *)
(* user saw it fail or another save crossed it: for any forms, records and *)
(* bounds.                                                                 *)
(***************************************************************************)

\* Saves that may answer for each other's records are remembered as crossed.
Alone ==
  \A s, t \in saves : s # t /\ Meets(s.record, t.record) => s.record \in crossed /\ t.record \in crossed

\* A save under way changed its record once its first call was carried out, the list of a form
\* that shows a change ahead has it, and what was loaded since, or came with the answer, is the
\* server's.
UpToDate(s) ==
  /\ s.way \in {"calls"} \cup form.then \cup form.fails
  /\ s.record \notin told \cup crossed =>
       /\ s.served \/ s.call > 1 \/ Reloading(s) => server[s.record] = s.change
       /\ form.ahead => shown[s.record] = s.change
  /\ s.served /\ (Reloading(s) \/ "list" \in form.then) =>
       \A r \in Records \ (told \cup crossed) : Meets(r, s.record) => s.list[r] = server[r]

\* Nothing but a save that is under way keeps the list from showing what the server has.
ListInv ==
  /\ \A r \in Records \ (told \cup crossed) : (\A s \in saves : s.record # r) => shown[r] = server[r]
  /\ \A s \in saves : UpToDate(s)

FormInv == TypeOK /\ Alone /\ ListInv

-----------------------------------------------------------------------------
LEMMA FormInvInit == FormInit => FormInv
<1> SUFFICES ASSUME FormInit PROVE FormInv
  OBVIOUS
<1>1. [r \in Records |-> 0] \in Changes
  BY FormAssumption DEF Changes
<1>2. TypeOK
  BY <1>1, FormAssumption DEF FormInit, TypeOK
<1> QED
  BY <1>2 DEF FormInit, FormInv, Alone, ListInv

\* A new request is typed.
LEMMA StartType ==
  ASSUME TypeOK, NEW r \in Records, NEW change \in 1..MaxTyped, NEW pressed \in BOOLEAN,
         Start(r, change, pressed)
  PROVE  /\ saves' \subseteq Requests /\ made' \in 0..MaxSaves /\ since \in 0..made'
         /\ saving' \subseteq Records /\ shown' \in Changes /\ told' \subseteq Records
         /\ crossed' \subseteq Records
<1>1. /\ made \in Nat /\ MaxSaves \in Nat /\ made < MaxSaves /\ since \in 0..made
      /\ made' = made + 1
  BY FormAssumption DEF TypeOK, Start
<1>2. made + 1 \in 1..MaxSaves /\ made' \in 0..MaxSaves /\ since \in 0..made'
  BY <1>1
<1>3. [id |-> made + 1, record |-> r, change |-> change, pressed |-> pressed, call |-> 1,
       way |-> "calls", served |-> FALSE, list |-> shown] \in Requests
  BY <1>2 DEF TypeOK, Requests
<1>4. change \in 0..MaxTyped
  BY FormAssumption
<1>5. shown' \in Changes
  BY <1>4 DEF TypeOK, Start, Changes
<1>6. {t.record : t \in {s \in saves : Meets(r, s.record)}} \subseteq Records
  BY DEF TypeOK, Requests
<1>7. crossed' \subseteq Records
  BY <1>6 DEF TypeOK, Start
<1> QED
  BY <1>2, <1>3, <1>5, <1>7 DEF TypeOK, Start

\* The calls of a save, and the loads that follow them.
LEMMA CallsType ==
  ASSUME TypeOK, NEW s \in saves
  PROVE  /\ s \in Requests /\ s.record \in Records /\ s.record # None /\ form \in Behaviours
         /\ \A way \in Reloads : Loading(s, way) \in Requests
         /\ s.call < form.calls => NextCall(s, s.call + 1) \in Requests
         /\ [server EXCEPT ![s.record] = s.change] \in Changes
         /\ [shown EXCEPT ![s.record] = s.change] \in Changes
         /\ [shown EXCEPT ![s.record] = s.list[s.record]] \in Changes
         /\ s.list \in Changes
<1>1. s \in Requests /\ form \in Behaviours
  BY FormAssumption DEF TypeOK
<1>2. /\ s.record \in Records /\ s.record # None /\ s.change \in 0..MaxTyped
      /\ s.call \in 1..2 /\ form.calls \in 1..2 /\ s.list \in Changes
  BY <1>1, FormAssumption DEF Requests, Behaviours
<1>3. \A way \in Reloads : Loading(s, way) \in Requests
  BY <1>1 DEF Loading, Requests
<1>4. s.call < form.calls => NextCall(s, s.call + 1) \in Requests
  <2>1. s.call < form.calls => s.call + 1 \in 1..2
    BY <1>2
  <2> QED
    BY <1>1, <2>1 DEF NextCall, Requests
<1>5. /\ [server EXCEPT ![s.record] = s.change] \in Changes
      /\ [shown EXCEPT ![s.record] = s.change] \in Changes
      /\ [shown EXCEPT ![s.record] = s.list[s.record]] \in Changes
  BY <1>2 DEF TypeOK, Changes
<1> QED
  BY <1>1, <1>2, <1>3, <1>4, <1>5

\* A save ends, or a load follows it.
LEMMA EndType ==
  ASSUME TypeOK, NEW s \in saves, End(s) \/ \E way \in Reloads : Load(s, way)
  PROVE  saves' \subseteq Requests /\ saving' \subseteq Records
<1>1. saving' \subseteq Records
  BY DEF End, Load, Freed, TypeOK
<1> QED
  BY <1>1, CallsType DEF End, Load, TypeOK

LEMMA NextType == TypeOK /\ [FormNext]_formVars => TypeOK'
<1> SUFFICES ASSUME TypeOK, [FormNext]_formVars PROVE TypeOK'
  OBVIOUS
<1> USE FormAssumption
<1>1. ASSUME NEW r \in Records, Open(r) PROVE TypeOK'
  BY <1>1 DEF Open, TypeOK
<1>2. CASE Type
  BY <1>2 DEF Type, TypeOK
<1>3. CASE Dismiss
  BY <1>3 DEF Dismiss, TypeOK
<1>4. CASE Save
  <2>1. open \in Records /\ draft \in 1..MaxTyped
    BY <1>4 DEF Save, TypeOK
  <2> QED
    BY <1>4, <2>1, StartType DEF Save, TypeOK, Start
<1>5. ASSUME NEW r \in Records, PressSave(r) PROVE TypeOK'
  <2>1. typed + 1 \in 1..MaxTyped
    BY <1>5 DEF PressSave, TypeOK
  <2>2. Start(r, typed + 1, TRUE) /\ typed' = typed + 1 /\ UNCHANGED <<since, open, draft>>
    BY <1>5 DEF PressSave
  <2>3. draft \in 0..typed' /\ typed' \in 0..MaxTyped
    BY <2>1, <2>2 DEF TypeOK
  <2> QED
    BY <2>1, <2>2, <2>3, StartType DEF TypeOK, Start
<1>6. ASSUME NEW s \in saves, Serve(s) PROVE TypeOK'
  <2>1. server' \in Changes
    BY <1>6, CallsType DEF Serve, TypeOK
  <2>2. \A list \in Changes : Served(s, list) \in Requests
    <3>1. s \in Requests
      BY CallsType
    <3> QED
      BY <3>1 DEF Served, Requests
  <2>3. saves' \subseteq Requests
    BY <1>6, <2>1, <2>2, CallsType DEF Serve, TypeOK
  <2> QED
    BY <1>6, <2>1, <2>3 DEF Serve, TypeOK
<1>7. ASSUME NEW s \in saves, Continue(s) PROVE TypeOK'
  BY <1>7, CallsType DEF Continue, TypeOK
<1>8. ASSUME NEW s \in saves, Succeed(s) PROVE TypeOK'
  <2>1. open' \in Records \cup {None} /\ draft' \in 0..typed
    BY <1>8 DEF Succeed, EndEditor, TypeOK
  <2>2. shown' \in Changes
    BY <1>8, CallsType DEF Succeed, ListedAfter, TypeOK
  <2>3. saves' \subseteq Requests /\ saving' \subseteq Records
    BY <1>8, EndType DEF Succeed
  <2> QED
    BY <1>8, <2>1, <2>2, <2>3 DEF Succeed, TypeOK
<1>9. ASSUME NEW s \in saves, Fail(s) PROVE TypeOK'
  <2>1. open' \in Records \cup {None} /\ draft' \in 0..typed
    BY <1>9 DEF Fail, EndEditor, TypeOK
  <2>2. told' \subseteq Records
    BY <1>9, CallsType DEF Fail, TypeOK
  <2>3. saves' \subseteq Requests /\ saving' \subseteq Records
    BY <1>9, EndType DEF Fail
  <2> QED
    BY <1>9, <2>1, <2>2, <2>3 DEF Fail, TypeOK
<1>10. ASSUME NEW s \in saves, Reloaded(s) PROVE TypeOK'
  <2>1. open' \in Records \cup {None} /\ draft' \in 0..typed
    BY <1>10 DEF Reloaded, EndEditor, TypeOK
  <2>2. shown' \in Changes
    BY <1>10, CallsType DEF Reloaded
  <2>3. saves' \subseteq Requests /\ saving' \subseteq Records
    BY <1>10, EndType DEF Reloaded
  <2> QED
    BY <1>10, <2>1, <2>2, <2>3 DEF Reloaded, TypeOK
<1>11. ASSUME NEW s \in saves, NotReloaded(s) PROVE TypeOK'
  BY <1>11, CallsType, EndType DEF NotReloaded, TypeOK
<1>12. CASE UNCHANGED formVars
  BY <1>12 DEF formVars, TypeOK
<1> QED
  BY <1>1, <1>2, <1>3, <1>4, <1>5, <1>6, <1>7, <1>8, <1>9, <1>10, <1>11, <1>12
     DEF FormNext, User, Server

-----------------------------------------------------------------------------
\* The form is fixed, and so is whether its saves answer for each other's records.
LEMMA FormFixed == [FormNext]_formVars => UNCHANGED form
<1>1. ASSUME NEW s \in saves,
             Serve(s) \/ Continue(s) \/ Succeed(s) \/ Fail(s) \/ Reloaded(s) \/ NotReloaded(s)
      PROVE  UNCHANGED form
  BY <1>1, Zenon DEF Serve, Continue, Succeed, Fail, Reloaded, NotReloaded
<1>2. ASSUME NEW r, NEW change, NEW pressed, Start(r, change, pressed) PROVE UNCHANGED form
  BY <1>2, Zenon DEF Start
<1>3. ASSUME User PROVE UNCHANGED form
  BY <1>2, <1>3, Zenon DEF User, Open, Type, Dismiss, Save, PressSave
<1> QED
  BY <1>1, <1>3, Zenon DEF FormNext, Server, formVars

\* What the calls of a save do to the others: one of them goes on, or ends.
LEMMA Others ==
  ASSUME TypeOK, NEW s \in saves,
         Serve(s) \/ Continue(s) \/ Succeed(s) \/ Fail(s) \/ Reloaded(s) \/ NotReloaded(s)
  PROVE  /\ UNCHANGED <<form, crossed>>
         /\ \/ saves' = saves \ {s}
            \/ \E u : saves' = (saves \ {s}) \cup {u} /\ u.record = s.record
<1>0. s \in Requests
  BY CallsType
<1>1. UNCHANGED <<form, crossed>>
  BY Zenon DEF Serve, Continue, Succeed, Fail, Reloaded, NotReloaded
<1>2. CASE Serve(s)
  <2>1. PICK list : saves' = (saves \ {s}) \cup {Served(s, list)}
    BY <1>2, Zenon DEF Serve
  <2> QED
    BY <1>0, <1>1, <2>1 DEF Served, Requests
<1>3. CASE Continue(s)
  BY <1>0, <1>1, <1>3 DEF Continue, NextCall, Requests
<1>4. CASE Succeed(s) \/ Fail(s) \/ Reloaded(s) \/ NotReloaded(s)
  <2>1. End(s) \/ \E way \in Reloads : Load(s, way)
    <3>1. CASE Reloaded(s) \/ NotReloaded(s)
      BY <3>1 DEF Reloaded, NotReloaded
    <3>2. CASE Succeed(s)
      BY <3>2 DEF Succeed
    <3>3. CASE Fail(s)
      BY <3>3 DEF Fail
    <3> QED
      BY <1>4, <3>1, <3>2, <3>3
  <2>2. CASE End(s)
    BY <1>1, <2>2 DEF End
  <2>3. CASE \E way \in Reloads : Load(s, way)
    BY <1>0, <1>1, <2>3 DEF Load, Loading, Requests
  <2> QED
    BY <2>1, <2>2, <2>3
<1> QED
  BY <1>2, <1>3, <1>4

\* A save that begins beside others it may answer for marks them all.
LEMMA AloneStep == TypeOK /\ Alone /\ [FormNext]_formVars => Alone'
<1> SUFFICES ASSUME TypeOK, Alone, [FormNext]_formVars PROVE Alone'
  OBVIOUS
<1>1. CASE UNCHANGED <<form, saves, crossed>>
  BY <1>1 DEF Alone, Meets, Whole
<1>2. ASSUME NEW r \in Records, NEW change, NEW pressed, Start(r, change, pressed) PROVE Alone'
  <2> DEFINE Beside == {t.record : t \in {s \in saves : Meets(r, s.record)}}
  <2>1. PICK n : n.record = r /\ saves' = saves \cup {n}
    BY <1>2 DEF Start
  <2>2. UNCHANGED form /\ crossed' = IF Beside = {} THEN crossed \ {r} ELSE crossed \cup {r} \cup Beside
    BY <1>2 DEF Start
  <2>3. \A t \in saves : Meets(r, t.record) => t.record \in Beside
    OBVIOUS
  <2>4. \A q, p : Meets(q, p) = Meets(p, q) /\ (Meets(q, p))' = Meets(q, p)
    BY <2>2 DEF Meets, Whole
  <2> HIDE DEF Beside
  <2>5. ASSUME NEW s \in saves', NEW t \in saves', s # t, Meets(s.record, t.record)
        PROVE  s.record \in crossed' /\ t.record \in crossed'
    <3>1. CASE s \in saves /\ t \in saves
      BY <2>2, <2>3, <2>4, <2>5, <3>1 DEF Alone
    <3>2. CASE s = n /\ t \in saves
      BY <2>1, <2>2, <2>3, <2>5, <3>2
    <3>3. CASE t = n /\ s \in saves
      BY <2>1, <2>2, <2>3, <2>4, <2>5, <3>3
    <3> QED
      BY <2>1, <2>5, <3>1, <3>2, <3>3
  <2> QED
    BY <2>4, <2>5 DEF Alone
<1>3. ASSUME NEW s \in saves,
             Serve(s) \/ Continue(s) \/ Succeed(s) \/ Fail(s) \/ Reloaded(s) \/ NotReloaded(s)
      PROVE  Alone'
  BY <1>3, Others DEF Alone, Meets, Whole
<1>4. CASE \E r \in Records : Open(r)
  BY <1>1, <1>4 DEF Open
<1>5. CASE Type \/ Dismiss \/ UNCHANGED formVars
  BY <1>1, <1>5 DEF Type, Dismiss, formVars
<1>6. CASE Save
  BY <1>2, <1>6 DEF Save, TypeOK
<1>7. CASE \E r \in Records : PressSave(r)
  BY <1>2, <1>7 DEF PressSave
<1> QED
  BY <1>3, <1>4, <1>5, <1>6, <1>7 DEF FormNext, User, Server

\* A save that begins alone starts from a list that is right, or will be.
LEMMA ListStart ==
  ASSUME TypeOK, Alone, ListInv, NEW r \in Records, NEW change, NEW pressed, Start(r, change, pressed)
  PROVE  ListInv'
<1> DEFINE Beside == {t.record : t \in {s \in saves : Meets(r, s.record)}}
<1>1. PICK n : /\ n.record = r /\ n.change = change /\ n.call = 1 /\ n.way = "calls" /\ ~n.served
               /\ saves' = saves \cup {n}
  BY DEF Start
<1>2. /\ UNCHANGED <<form, server>> /\ told' = told \ {r}
      /\ crossed' = IF Beside = {} THEN crossed \ {r} ELSE crossed \cup {r} \cup Beside
      /\ shown' = IF form.ahead THEN [shown EXCEPT ![r] = change] ELSE shown
  BY DEF Start
<1>3. \A t \in saves : Meets(r, t.record) => t.record \in Beside
  OBVIOUS
<1> HIDE DEF Beside
<1>d. DOMAIN shown = Records
  BY DEF TypeOK, Changes
<1>m. \A q, p : Meets(q, p) = Meets(p, q) /\ (Meets(q, p))' = Meets(q, p)
  BY <1>2 DEF Meets, Whole
<1>r. \A s : (Reloading(s))' = Reloading(s)
  BY DEF Reloading
<1>4. \A q \in Records : q # r /\ q \notin told' \cup crossed' => q \notin told \cup crossed
  BY <1>2
<1>5. r \notin crossed' => \A t \in saves : ~Meets(r, t.record)
  BY <1>2, <1>3
<1>6. ASSUME NEW q \in Records, q \notin told' \cup crossed', \A s \in saves' : s.record # q
      PROVE  shown'[q] = server'[q]
  BY <1>1, <1>2, <1>4, <1>6, <1>d DEF ListInv
<1>7. (UpToDate(n))'
  <2>1. n.way' = "calls" /\ n.served' = FALSE
    BY <1>1
  <2>2. ~(Reloading(n))' /\ ~n.served /\ n.call = 1
    BY <1>1 DEF Reloading
  <2>3. form.ahead => shown'[r] = change
    BY <1>2, <1>d
  <2> QED
    BY <1>1, <1>2, <1>r, <2>2, <2>3 DEF UpToDate, Reloading
<1>8. ASSUME NEW s \in saves PROVE (UpToDate(s))'
  <2>0. s.record \in Records /\ UpToDate(s)
    BY CallsType DEF ListInv
  <2>1. s.way \in {"calls"} \cup form'.then \cup form'.fails
    BY <1>2, <2>0 DEF UpToDate
  <2>2. s.record \notin told' \cup crossed' => s.record # r /\ s.record \notin told \cup crossed
    BY <1>4, <1>5, <2>0 DEF Meets
  <2>3. s.record # r => shown'[s.record] = shown[s.record]
    BY <1>2, <1>d, <2>0
  <2>4. s.record \notin told' \cup crossed' =>
          /\ s.served \/ s.call > 1 \/ Reloading(s) => server[s.record] = s.change
          /\ form.ahead => shown'[s.record] = s.change
    BY <2>0, <2>2, <2>3 DEF UpToDate
  <2>5. ASSUME s.served, Reloading(s) \/ "list" \in form.then, NEW q \in Records \ (told' \cup crossed'),
               Meets(q, s.record)
        PROVE  s.list[q] = server[q]
    BY <1>4, <1>5, <2>0, <2>5 DEF UpToDate
  <2> QED
    BY <1>2, <1>m, <1>r, <2>1, <2>4, <2>5 DEF UpToDate
<1> QED
  BY <1>1, <1>6, <1>7, <1>8 DEF ListInv

\* What the server carries out is what the save asked for, and what a load then finds.
LEMMA ListServe ==
  ASSUME TypeOK, Alone, ListInv, NEW s \in saves, Serve(s)
  PROVE  ListInv'
<1> DEFINE now == IF s.call = 1 /\ ~Reloading(s) THEN [server EXCEPT ![s.record] = s.change] ELSE server
<1>1. /\ UNCHANGED <<form, shown, told, crossed>> /\ server' = now /\ ~s.served
      /\ saves' = (saves \ {s}) \cup
           {Served(s, IF Reloading(s) \/ "list" \in form.then THEN now ELSE s.list)}
  BY DEF Serve
<1>2. /\ s \in Requests /\ s.record \in Records /\ UpToDate(s) /\ s.call \in 1..2
      /\ DOMAIN server = Records
  BY CallsType DEF ListInv, TypeOK, Changes, Requests
<1>3. PICK u : /\ saves' = (saves \ {s}) \cup {u} /\ u.served
               /\ u.record = s.record /\ u.change = s.change /\ u.call = s.call /\ u.way = s.way
               /\ Reloading(s) \/ "list" \in form.then => u.list = server'
  <2>1. \A l : /\ Served(s, l).served /\ Served(s, l).record = s.record /\ Served(s, l).change = s.change
               /\ Served(s, l).call = s.call /\ Served(s, l).way = s.way /\ Served(s, l).list = l
    BY <1>2 DEF Served, Requests
  <2> HIDE DEF now
  <2> QED
    BY <1>1, <2>1
<1>4. \A q \in Records : q # s.record => server'[q] = server[q]
  BY <1>1, <1>2
<1>5. s.record \notin told \cup crossed => server'[s.record] = s.change
  BY <1>1, <1>2 DEF UpToDate
<1> HIDE DEF now
<1>m. \A q, p : Meets(q, p) = Meets(p, q) /\ (Meets(q, p))' = Meets(q, p)
  BY <1>1 DEF Meets, Whole
<1>r. \A t : (Reloading(t))' = Reloading(t)
  BY DEF Reloading
<1>6. ASSUME NEW q \in Records, q \notin told' \cup crossed', \A t \in saves' : t.record # q
      PROVE  shown'[q] = server'[q]
  <2>1. q # s.record /\ \A t \in saves : t.record # q
    BY <1>1, <1>3, <1>6
  <2> QED
    BY <1>1, <1>4, <1>6, <2>1 DEF ListInv
<1>7. (UpToDate(u))'
  <2>1. u.way \in {"calls"} \cup form'.then \cup form'.fails
    BY <1>1, <1>2, <1>3 DEF UpToDate
  <2>2. u.record \notin told \cup crossed =>
          server'[u.record] = u.change /\ (form.ahead => shown[u.record] = u.change)
    BY <1>2, <1>3, <1>5 DEF UpToDate
  <2>3. Reloading(u) = Reloading(s)
    BY <1>3 DEF Reloading
  <2> QED
    BY <1>1, <1>3, <2>1, <2>2, <2>3, <1>r DEF UpToDate
<1>8. ASSUME NEW t \in saves, t # s PROVE (UpToDate(t))'
  <2>1. t.record \in Records /\ UpToDate(t)
    BY CallsType DEF ListInv
  <2>2. Meets(s.record, t.record) => s.record \in crossed /\ t.record \in crossed
    BY <1>8 DEF Alone
  <2>3. \A q \in Records \ (told \cup crossed) : Meets(q, t.record) => server'[q] = server[q]
    BY <1>4, <2>2
  <2>4. Meets(t.record, t.record)
    BY DEF Meets
  <2> QED
    BY <1>1, <1>m, <1>r, <2>1, <2>3, <2>4 DEF UpToDate
<1>9. \A t \in saves' : (UpToDate(t))'
  BY <1>3, <1>7, <1>8
<1> QED
  BY <1>6, <1>9 DEF ListInv

\* A save that goes on to its next call, or to a load, is what it was.
LEMMA ListGoesOn ==
  ASSUME TypeOK, Alone, ListInv, NEW s \in saves, NEW u,
         u.record = s.record, u.change = s.change, u.served = FALSE,
         u.way \in {"calls"} \cup form.then \cup form.fails,
         s.record \in told' \/ s.served,
         saves' = (saves \ {s}) \cup {u}, told \subseteq told',
         UNCHANGED <<form, server, shown, crossed>>
  PROVE  ListInv'
<1>1. s.record \in Records /\ \A t \in saves : UpToDate(t)
  BY CallsType DEF ListInv
<1>m. \A q, p : (Meets(q, p))' = Meets(q, p)
  BY DEF Meets, Whole
<1>r. \A t : (Reloading(t))' = Reloading(t)
  BY DEF Reloading
<1>2. ASSUME NEW q \in Records, q \notin told' \cup crossed', \A t \in saves' : t.record # q
      PROVE  shown'[q] = server'[q]
  BY <1>2 DEF ListInv
<1>3. (UpToDate(u))'
  BY <1>1, <1>r DEF UpToDate
<1>4. ASSUME NEW t \in saves PROVE (UpToDate(t))'
  BY <1>1, <1>m, <1>r, <1>4 DEF UpToDate
<1> QED
  BY <1>2, <1>3, <1>4 DEF ListInv

\* A save ends where the list has its record, as the server has it, or was told to have failed.
LEMMA ListEnds ==
  ASSUME TypeOK, Alone, ListInv, NEW s \in saves,
         saves' = saves \ {s}, told \subseteq told', UNCHANGED <<form, server, crossed>>,
         s.record \notin told' \cup crossed => shown'[s.record] = server[s.record],
         \A q \in Records \ (told' \cup crossed) : q # s.record =>
           \/ shown'[q] = shown[q]
           \/ shown'[q] = server[q] /\ Meets(q, s.record)
  PROVE  ListInv'
<1>1. s.record \in Records /\ \A t \in saves : UpToDate(t)
  BY CallsType DEF ListInv
<1>m. \A q, p : Meets(q, p) = Meets(p, q) /\ (Meets(q, p))' = Meets(q, p)
  BY DEF Meets, Whole
<1>r. \A t : (Reloading(t))' = Reloading(t)
  BY DEF Reloading
<1>2. ASSUME NEW q \in Records, q \notin told' \cup crossed', \A t \in saves' : t.record # q
      PROVE  shown'[q] = server'[q]
  <2>1. CASE q = s.record
    BY <1>2, <2>1
  <2>2. CASE q # s.record
    <3>1. shown[q] = server[q]
      BY <1>2, <2>2 DEF ListInv
    <3> QED
      BY <1>2, <2>2, <3>1
  <2> QED
    BY <2>1, <2>2
<1>3. ASSUME NEW t \in saves, t # s PROVE (UpToDate(t))'
  <2>1. t.record \in Records /\ UpToDate(t)
    BY <1>1, CallsType
  <2>2. t.record \notin told' \cup crossed => t.record # s.record /\ ~Meets(t.record, s.record)
    BY <1>3, <1>m DEF Alone, Meets
  <2>3. t.record \notin told' \cup crossed => shown'[t.record] = shown[t.record]
    BY <2>1, <2>2
  <2> QED
    BY <1>m, <1>r, <2>1, <2>3 DEF UpToDate
<1> QED
  BY <1>2, <1>3 DEF ListInv

\* The list of a save that loads all, or is answered with all, holds what the server has.
LEMMA ListStep == TypeOK /\ Alone /\ ListInv /\ [FormNext]_formVars => ListInv'
<1> SUFFICES ASSUME TypeOK, Alone, ListInv, [FormNext]_formVars PROVE ListInv'
  OBVIOUS
<1>t. form \in Behaviours /\ form.then \subseteq Reloads \cup Answers /\ form.calls \in 1..2
      /\ form.fails \subseteq Reloads \cup {"stays"} /\ ("nothing" \in form.then => form.ahead)
  BY FormAssumption DEF TypeOK, Behaviours
<1>d. DOMAIN shown = Records /\ DOMAIN server = Records
  BY DEF TypeOK, Changes
<1>1. CASE UNCHANGED <<form, saves, server, shown, told, crossed>>
  BY <1>1 DEF ListInv, UpToDate, Reloading, Meets, Whole
<1>2. ASSUME NEW s \in saves, Serve(s) PROVE ListInv'
  BY <1>2, ListServe
<1>s. ASSUME NEW s \in saves
      PROVE  s \in Requests /\ s.record \in Records /\ UpToDate(s) /\ s.call \in 1..2
  BY <1>s, CallsType DEF ListInv, Requests
<1>3. ASSUME NEW s \in saves, Continue(s) PROVE ListInv'
  <2> DEFINE u == NextCall(s, s.call + 1)
  <2>1. u.record = s.record /\ u.change = s.change /\ u.served = FALSE /\ u.way = s.way
    BY <1>s DEF NextCall, Requests
  <2>2. saves' = (saves \ {s}) \cup {u} /\ UNCHANGED <<form, server, shown, told, crossed>> /\ s.served
    BY <1>3 DEF Continue
  <2>3. u.way \in {"calls"} \cup form.then \cup form.fails
    BY <1>s, <2>1 DEF UpToDate
  <2> HIDE DEF u
  <2> QED
    BY <2>1, <2>2, <2>3, ListGoesOn
<1>4. ASSUME NEW s \in saves, NEW way \in Reloads \cap (form.then \cup form.fails), Load(s, way),
             told \subseteq told', UNCHANGED <<form, server, shown, crossed>>,
             s.record \in told' \/ s.served
      PROVE  ListInv'
  <2> DEFINE u == Loading(s, way)
  <2>1. u.record = s.record /\ u.change = s.change /\ u.served = FALSE /\ u.way = way
    BY <1>s DEF Loading, Requests
  <2>2. saves' = (saves \ {s}) \cup {u}
    BY <1>4 DEF Load
  <2> HIDE DEF u
  <2> QED
    BY <1>4, <2>1, <2>2, ListGoesOn
<1>5. ASSUME NEW s \in saves, Succeed(s) PROVE ListInv'
  <2>1. PICK way \in form.then :
          /\ IF way \in Reloads THEN Load(s, way) ELSE End(s)
          /\ shown' = ListedAfter(s, way)
    BY <1>5 DEF Succeed
  <2>2. s.served /\ ~Reloading(s) /\ UNCHANGED <<form, server, told, crossed>>
    BY <1>5 DEF Succeed
  <2>3. CASE way \in Reloads
    <3>1. shown' = shown
      BY <2>1, <2>3 DEF ListedAfter, Reloads
    <3> QED
      BY <1>4, <2>1, <2>2, <2>3, <3>1
  <2>4. CASE way \notin Reloads
    <3>1. saves' = saves \ {s} /\ way \in Answers
      BY <1>t, <2>1, <2>4 DEF End
    <3>2. s.record \notin told \cup crossed =>
            server[s.record] = s.change /\ (form.ahead => shown[s.record] = s.change)
      BY <1>s, <2>2 DEF UpToDate
    <3>3. CASE way = "patch"
      <4>1. shown' = [shown EXCEPT ![s.record] = s.change]
        BY <2>1, <3>3 DEF ListedAfter
      <4>2. /\ shown'[s.record] = s.change
            /\ \A q \in Records : q # s.record => shown'[q] = shown[q]
        BY <1>d, <1>s, <4>1
      <4> QED
        BY <2>2, <3>1, <3>2, <4>2, ListEnds
    <3>4. CASE way = "list"
      <4>1. shown' = s.list /\ Whole
        BY <2>1, <3>4 DEF ListedAfter, Whole
      <4>2. \A q \in Records \ (told \cup crossed) : s.list[q] = server[q] /\ Meets(q, s.record)
        BY <1>s, <2>1, <2>2, <3>4, <4>1 DEF UpToDate, Meets
      <4>3. s.record \notin told' \cup crossed => shown'[s.record] = server[s.record]
        BY <1>s, <2>2, <4>1, <4>2
      <4>4. \A q \in Records \ (told' \cup crossed) : shown'[q] = server[q] /\ Meets(q, s.record)
        BY <2>2, <4>1, <4>2
      <4> QED
        BY <2>2, <3>1, <4>3, <4>4, ListEnds
    <3>5. CASE way = "nothing"
      <4>1. shown' = shown /\ form.ahead
        BY <1>t, <2>1, <3>5 DEF ListedAfter
      <4> QED
        BY <2>2, <3>1, <3>2, <4>1, ListEnds
    <3> QED
      BY <3>1, <3>3, <3>4, <3>5 DEF Answers
  <2> QED
    BY <2>3, <2>4
<1>6. ASSUME NEW s \in saves, Fail(s) PROVE ListInv'
  <2>1. PICK way \in form.fails : IF way \in Reloads THEN Load(s, way) ELSE End(s)
    BY <1>6 DEF Fail
  <2>2. told' = told \cup {s.record} /\ UNCHANGED <<form, server, shown, crossed>>
    BY <1>6 DEF Fail
  <2>3. CASE way \in Reloads
    BY <1>4, <2>1, <2>2, <2>3
  <2>4. CASE way \notin Reloads
    <3>1. saves' = saves \ {s}
      BY <2>1, <2>4 DEF End
    <3> QED
      BY <2>2, <3>1, ListEnds
  <2> QED
    BY <2>3, <2>4
<1>7. ASSUME NEW s \in saves, Reloaded(s) PROVE ListInv'
  <2>1. /\ s.served /\ Reloading(s) /\ saves' = saves \ {s} /\ UNCHANGED <<form, server, told, crossed>>
        /\ shown' = IF s.way = "row" THEN [shown EXCEPT ![s.record] = s.list[s.record]] ELSE s.list
    BY <1>7 DEF Reloaded, End
  <2>2. \A q \in Records \ (told \cup crossed) : Meets(q, s.record) => s.list[q] = server[q]
    BY <1>s, <2>1 DEF UpToDate
  <2>3. Meets(s.record, s.record)
    BY DEF Meets
  <2>4. CASE s.way = "row"
    <3>1. /\ shown'[s.record] = s.list[s.record]
          /\ \A q \in Records : q # s.record => shown'[q] = shown[q]
      BY <1>d, <1>s, <2>1, <2>4
    <3> QED
      BY <1>s, <2>1, <2>2, <2>3, <3>1, ListEnds
  <2>5. CASE s.way # "row"
    <3>1. s.way \in {"reload", "aside"} /\ s.way \in form.then \cup form.fails
      BY <1>s, <2>1, <2>5 DEF UpToDate, Reloading, Requests, Reloads
    <3>2. Whole /\ shown' = s.list
      BY <2>1, <2>5, <3>1 DEF Whole
    <3>3. \A q \in Records \ (told' \cup crossed) : shown'[q] = server[q] /\ Meets(q, s.record)
      BY <2>1, <2>2, <3>2 DEF Meets
    <3> QED
      BY <1>s, <2>1, <3>3, ListEnds
  <2> QED
    BY <2>4, <2>5
<1>8. ASSUME NEW s \in saves, NotReloaded(s) PROVE ListInv'
  <2>1. /\ saves' = saves \ {s} /\ told' = told \cup {s.record}
        /\ UNCHANGED <<form, server, shown, crossed>>
    BY <1>8 DEF NotReloaded, End
  <2> QED
    BY <2>1, ListEnds
<1>9. CASE \E r \in Records : Open(r)
  BY <1>1, <1>9 DEF Open
<1>10. CASE Type \/ Dismiss \/ UNCHANGED formVars
  BY <1>1, <1>10 DEF Type, Dismiss, formVars
<1>11. CASE Save
  BY <1>11, ListStart DEF Save, TypeOK
<1>12. CASE \E r \in Records : PressSave(r)
  BY <1>12, ListStart DEF PressSave
<1> QED
  BY <1>2, <1>3, <1>5, <1>6, <1>7, <1>8, <1>9, <1>10, <1>11, <1>12 DEF FormNext, User, Server

-----------------------------------------------------------------------------
\* The screens and their saves keep the invariant, for any forms, records and bounds.
LEMMA FormInvariance == FormSpec => []FormInv
<1>1. FormInv /\ [FormNext]_formVars => FormInv'
  BY NextType, AloneStep, ListStep DEF FormInv
<1> QED
  BY <1>1, FormInvInit, PTL DEF FormSpec

\* Every form is in a state of its type, whatever its behaviour (FormScreen's own TypeOK).
THEOREM FormsTyped == FormSpec => []TypeOK
<1>1. FormInv => TypeOK
  BY DEF FormInv
<1> QED
  BY <1>1, FormInvariance, PTL

\* Once every save has ended, the list shows what the server has of each record whose last save
\* the user did not see fail and no other save crossed, whatever was answered, loaded, dismissed
\* or reopened meanwhile (the modals, the rows, the screens of AppForms).
THEOREM ListsShowWhatIsSaved == FormSpec => []ShowsWhatIsSaved
<1>1. FormInv => ShowsWhatIsSaved
  BY DEF FormInv, ListInv, ShowsWhatIsSaved
<1> QED
  BY <1>1, FormInvariance, PTL

-----------------------------------------------------------------------------
(* The editors of an item with an image.                                   *)

\* What a save sends and returns to: one call after the other.
ItemRow == [made : BOOLEAN, text : Texts, image : Images]
Payload == [text : Texts, draft : 0..MaxPicked, removal : BOOLEAN, template : {"keep", "set", "clear"}]
Steps == {"create", "template", "upload", "remove", "all", "fields", "undo"}
SaveJob == [step : Steps, sends : Payload,
            item : ItemRow, shown : Images, before : Images, fresh : BOOLEAN]

\* The flag is up as long as a save runs, and longer only in the catalogue's editor.
FlagInv ==
  /\ job \in SaveJob \cup {NoJob}
  /\ Calling => flag
  /\ kind \notin Items /\ flag => Calling

\* Only the catalogue's editor can ask for a removal beside a draft; the expense editor compares
\* with the item it was opened on.
FieldsInv ==
  /\ kind \notin Items => ~(fields.removal /\ fields.draft # 0)
  /\ kind = "expense" => item = route
  /\ creates => route = Absent
  /\ asking => kind \in Items

\* What is sent says of the image what was shown: a draft, its removal, a template or nothing.
SendsWhatIsShown(s, seen, before) ==
  /\ s.draft # 0 /\ ~s.removal => seen = "draft"
  /\ s.draft = 0 /\ s.removal => seen = "none"
  /\ s.draft = 0 /\ ~s.removal => /\ s.template \in {"set", "keep"}
                                  /\ seen = IF s.template = "set" THEN "template" ELSE before

\* The call that runs has what it needs, and the item still has the image the screen compared with
\* unless the call before has written the item.
CallSends(step, s, before, image) ==
  /\ step \in {"create", "all", "fields", "template"} => image = before
  /\ step = "template" => s.draft = 0 /\ ~s.removal
  /\ step = "upload" => s.draft # 0
  /\ step = "remove" => s.removal /\ s.draft = 0 /\ image # "template"
  /\ kind \in Items => step \notin {"fields", "undo"}
  /\ kind \notin Items => /\ step \notin {"all", "template"}
                          /\ s.removal => s.draft = 0 /\ s.template = "clear"
  /\ kind = "expense" /\ step = "create" => before = "none"

\* A save that SavedIsShown is about: its screen is there, and knew the item's image.
Informed == Calling /\ onScreen /\ ~others /\ job.fresh /\ job.before # "template"

JobInv ==
  Informed => /\ SendsWhatIsShown(job.sends, job.shown, job.before)
              /\ CallSends(job.step, job.sends, job.before, stored.image)

EditorIndInv == EditorInv /\ FlagInv /\ FieldsInv /\ JobInv

Fields == [text : Texts, draft : 0..MaxPicked, removal : BOOLEAN, template : BOOLEAN]

LEMMA EditorInitInv == ASSUME EditorAssumption, EditorInit PROVE EditorIndInv
<1>1. /\ route \in ItemRow /\ item = route /\ stored = route /\ fields = Filled(route)
      /\ creates => route = Absent
  BY DEF EditorInit, ItemRow, Absent, Texts, Images, creates
<1>2. fields \in Fields /\ fields.draft = 0 /\ fields.removal = FALSE
  BY <1>1 DEF Filled, ItemRow, Fields, EditorAssumption
<1>3. EditorTypeOK
  <2>1. {stored, route, item} \subseteq ItemRow /\ clean \in Texts
    BY <1>1 DEF EditorInit, ItemRow
  <2>2. 0 \in 0..MaxPicked /\ 0 \in 0..MaxActs
    BY DEF EditorAssumption
  <2> QED BY <1>2, <2>1, <2>2 DEF EditorInit, EditorTypeOK, ItemRow, Fields
<1>4. ~ Calling /\ flag = FALSE /\ files = {} /\ job = NoJob
  BY DEF EditorInit, Calling, NoJob
<1>5. FlagInv /\ FieldsInv /\ JobInv
  BY <1>1, <1>2, <1>4 DEF FlagInv, FieldsInv, JobInv, Informed, EditorInit
<1>6. EditorInv
  BY <1>2, <1>3, <1>4 DEF EditorInv, DraftHasFile, OnlyItsDraft, SaveOrDelete, SavingIsReal, EditorInit
<1> QED BY <1>5, <1>6 DEF EditorIndInv

-----------------------------------------------------------------------------
(* What is typed, picked, chosen and loaded, while the save is left alone. *)

\* The form that is shown then: its draft has a file, is the only one of the expense editor,
\* and in that editor and the stock's excludes a removal.
GoodForm ==
  /\ fields' \in Fields
  /\ onScreen' /\ fields'.draft # 0 => fields'.draft \in files'
  /\ kind = "expense" /\ onScreen' => files' \subseteq {fields'.draft}
  /\ kind \notin Items => ~(fields'.removal /\ fields'.draft # 0)

GoodRest ==
  /\ clean' \in Texts /\ load' \in {"none", "first", "refresh"}
  /\ files' \subseteq 1..MaxPicked /\ picked' \in 0..MaxPicked
  /\ picks' \subseteq [file : 1..MaxPicked, over : 0..MaxPicked]
  /\ asking' \in BOOLEAN /\ (asking' => kind \in Items) /\ acts' \in 0..MaxActs
  /\ item' \in ItemRow /\ (kind = "expense" => item' = item)

\* The item is written by others, or deleted and its screen closed; a deletion starts with no save.
GoodServer ==
  /\ stored' \in ItemRow /\ others' \in BOOLEAN /\ onScreen' \in BOOLEAN /\ deleting' \in BOOLEAN
  /\ onScreen' => onScreen
  /\ ~others' => ~others
  /\ ~others' /\ onScreen' => stored' = stored
  /\ deleting' => deleting \/ ~flag

SaveLeftAlone == UNCHANGED <<still, job, lock, flag>> /\ GoodForm /\ GoodRest /\ GoodServer

LEMMA LeftAloneKeeps == ASSUME EditorAssumption, EditorIndInv, SaveLeftAlone PROVE EditorIndInv'
<1>1. EditorTypeOK'
  BY DEF EditorIndInv, EditorInv, EditorTypeOK, SaveLeftAlone, GoodForm, GoodRest, GoodServer, still, Fields, ItemRow
<1>2. DraftHasFile' /\ OnlyItsDraft'
  BY DEF SaveLeftAlone, GoodForm, DraftHasFile, OnlyItsDraft, still
<1>3. Calling' = Calling /\ FlagInv'
  BY DEF EditorIndInv, FlagInv, SaveLeftAlone, still, Calling
<1>4. SaveOrDelete' /\ SavingIsReal'
  BY <1>3 DEF EditorIndInv, EditorInv, SaveOrDelete, SavingIsReal, FlagInv, SaveLeftAlone, GoodServer, still
<1>5. FieldsInv'
  BY DEF EditorIndInv, FieldsInv, SaveLeftAlone, GoodForm, GoodRest, still, creates
<1>6. JobInv'
  BY <1>3 DEF EditorIndInv, JobInv, Informed, SaveLeftAlone, GoodServer, still, SendsWhatIsShown, CallSends
<1> QED BY <1>1, <1>2, <1>3, <1>4, <1>5, <1>6 DEF EditorIndInv, EditorInv

\* What every step starts from.
LEMMA EditorState ==
  ASSUME EditorAssumption, EditorIndInv
  PROVE  /\ MaxPicked \in Nat /\ MaxActs \in Nat
         /\ kind \in EditorKinds /\ load \in {"none", "first", "refresh"}
         /\ stored \in ItemRow /\ route \in ItemRow /\ item \in ItemRow
         /\ fields \in Fields /\ clean \in Texts
         /\ files \subseteq 1..MaxPicked /\ picked \in 0..MaxPicked
         /\ picks \subseteq [file : 1..MaxPicked, over : 0..MaxPicked]
         /\ {asking, lock, flag, deleting, onScreen, others} \subseteq BOOLEAN
         /\ acts \in 0..MaxActs
         /\ onScreen /\ fields.draft # 0 => fields.draft \in files
         /\ kind = "expense" /\ onScreen => files \subseteq {fields.draft}
         /\ kind \notin Items => ~(fields.removal /\ fields.draft # 0)
         /\ kind = "expense" => item = route
         /\ asking => kind \in Items
BY DEF EditorAssumption, EditorIndInv, EditorInv, EditorTypeOK, ItemRow, Fields, DraftHasFile, OnlyItsDraft, FieldsInv

LEMMA FilledForm ==
  ASSUME EditorAssumption, NEW i \in ItemRow
  PROVE  Filled(i) \in Fields /\ Filled(i).draft = 0 /\ Filled(i).removal = FALSE
BY DEF EditorAssumption, Filled, ItemRow, Fields

LEMMA ActCounts == ASSUME EditorAssumption, EditorIndInv, Act PROVE acts' \in 0..MaxActs
BY EditorState DEF Act

LEMMA RefreshKeeps ==
  ASSUME EditorAssumption, EditorIndInv, RefreshCatalogue \/ RefreshInventory
  PROVE  EditorIndInv'
<1>1. CASE RefreshCatalogue
  <2>1. GoodForm
    BY <1>1, EditorState, FilledForm DEF RefreshCatalogue, GoodForm, Items, fileVars, still
  <2>2. GoodRest
    BY <1>1, EditorState, ActCounts DEF RefreshCatalogue, GoodRest, Items, fileVars, ItemRow
  <2>3. SaveLeftAlone
    BY <1>1, <2>1, <2>2, EditorState DEF RefreshCatalogue, SaveLeftAlone, GoodServer, saveVars
  <2> QED BY <2>3, LeftAloneKeeps
<1>2. CASE RefreshInventory
  <2>1. GoodForm
    BY <1>2, EditorState DEF RefreshInventory, GoodForm, fileVars
  <2>2. GoodRest
    BY <1>2, EditorState, ActCounts DEF RefreshInventory, GoodRest, fileVars
  <2>3. SaveLeftAlone
    BY <1>2, <2>1, <2>2, EditorState DEF RefreshInventory, SaveLeftAlone, GoodServer, saveVars
  <2> QED BY <2>3, LeftAloneKeeps
<1> QED BY <1>1, <1>2

LEMMA LoadedKeeps ==
  ASSUME EditorAssumption, EditorIndInv, CatalogueLoaded \/ InventoryLoaded
  PROVE  EditorIndInv'
<1>1. UNCHANGED <<still, stored, fileVars, saveVars, onScreen, others, acts>> /\ load' = "none" /\ kind # "expense"
  BY DEF CatalogueLoaded, InventoryLoaded, Items
<1>2. \/ UNCHANGED <<fields, clean>> /\ item' \in ItemRow
      \/ \E i \in ItemRow : fields' = Filled(i) /\ clean' = i.text /\ item' \in ItemRow
  BY EditorState DEF CatalogueLoaded, InventoryLoaded
<1>3. GoodForm
  <2>1. \A i \in ItemRow : Filled(i) \in Fields /\ Filled(i).draft = 0 /\ Filled(i).removal = FALSE
    BY FilledForm
  <2> QED BY <1>1, <1>2, <2>1, EditorState DEF GoodForm, fileVars, still
<1>4. GoodRest
  BY <1>1, <1>2, EditorState DEF GoodRest, fileVars, ItemRow
<1>5. SaveLeftAlone
  BY <1>1, <1>3, <1>4, EditorState DEF SaveLeftAlone, GoodServer, saveVars
<1> QED BY <1>5, LeftAloneKeeps

LEMMA TypeKeeps ==
  ASSUME EditorAssumption, EditorIndInv, NEW text \in Texts, TypeText(text)
  PROVE  EditorIndInv'
<1>1. fields' \in Fields /\ fields'.draft = fields.draft /\ fields'.removal = fields.removal
  BY EditorState DEF TypeText, Fields
<1>2. GoodForm
  BY <1>1, EditorState DEF TypeText, GoodForm, fileVars, still
<1>3. GoodRest
  BY EditorState DEF TypeText, GoodRest, fileVars
<1>4. SaveLeftAlone
  BY <1>2, <1>3, EditorState DEF TypeText, SaveLeftAlone, GoodServer, saveVars
<1> QED BY <1>4, LeftAloneKeeps

LEMMA PickKeeps == ASSUME EditorAssumption, EditorIndInv, PickStarts PROVE EditorIndInv'
<1>1. /\ picked' \in 1..MaxPicked /\ fields.draft \in 0..MaxPicked
      /\ picks' = picks \union {[file |-> picked', over |-> fields.draft]}
  BY EditorState DEF PickStarts, Fields
<1>2. picks' \subseteq [file : 1..MaxPicked, over : 0..MaxPicked]
  BY <1>1, EditorState
<1>3. GoodForm
  BY EditorState DEF PickStarts, GoodForm, fieldVars
<1>4. GoodRest
  BY <1>1, <1>2, EditorState, ActCounts DEF PickStarts, GoodRest, fieldVars
<1>5. SaveLeftAlone
  BY <1>3, <1>4, EditorState DEF PickStarts, SaveLeftAlone, GoodServer, saveVars
<1> QED BY <1>5, LeftAloneKeeps

\* A copy is ready: whatever draft it deletes, the form shows the copy and its file is there.
LEMMA PickedKeeps ==
  ASSUME EditorAssumption, EditorIndInv, NEW p \in picks,
         CataloguePicked(p) \/ ExpensePicked(p) \/ InventoryPicked(p)
  PROVE  EditorIndInv'
<1> DEFINE Copies(deleted, template) == /\ Picked(p, deleted, template)
                                        /\ kind = "expense" /\ onScreen => fields.draft \in deleted
<1>0. fields.template \in BOOLEAN /\ FALSE \in BOOLEAN
  BY EditorState DEF Fields
<1>1. \E deleted : \E template \in BOOLEAN : Copies(deleted, template)
  <2>1. ASSUME NEW deleted, NEW template \in BOOLEAN, Copies(deleted, template)
        PROVE  \E any : \E other \in BOOLEAN : Copies(any, other)
    <3> HIDE DEF Copies
    <3> QED BY <2>1
  <2>2. CASE CataloguePicked(p)
    <3>1. Copies({p.over}, FALSE)
      BY <2>2 DEF CataloguePicked, Items
    <3> HIDE DEF Copies
    <3> QED BY <1>0, <2>1, <3>1
  <2>3. CASE ExpensePicked(p)
    <3>1. Copies({p.over} \union (IF onScreen THEN {fields.draft} ELSE {}), fields.template)
      BY <2>3 DEF ExpensePicked
    <3> HIDE DEF Copies
    <3> QED BY <1>0, <2>1, <3>1
  <2>4. CASE InventoryPicked(p)
    <3>1. Copies({}, fields.template)
      BY <2>4 DEF InventoryPicked
    <3> HIDE DEF Copies
    <3> QED BY <1>0, <2>1, <3>1
  <2> QED BY <2>2, <2>3, <2>4
<1> PICK deleted : \E template \in BOOLEAN : Copies(deleted, template)
  BY <1>1
<1> PICK template \in BOOLEAN : Copies(deleted, template)
  OBVIOUS
<1>9. Copies(deleted, template)
  OBVIOUS
<1>2. p \in [file : 1..MaxPicked, over : 0..MaxPicked]
  BY EditorState
<1>3. /\ p.file \in 1..MaxPicked /\ files' = (files \ deleted) \union {p.file} /\ picks' = picks \ {p}
      /\ IF onScreen
         THEN fields' \in Fields /\ fields'.draft = p.file /\ fields'.removal = FALSE
         ELSE fields' = fields
  <2>1. p.file \in 1..MaxPicked /\ p.file \in 0..MaxPicked /\ fields \in Fields
    BY <1>2, EditorState
  <2>2. [fields EXCEPT !.draft = p.file, !.removal = FALSE, !.template = template] \in Fields
    BY <2>1 DEF Fields
  <2> QED BY <1>9, <2>1, <2>2 DEF Picked, Fields
<1>4. GoodForm
  BY <1>9, <1>3, EditorState DEF Picked, GoodForm, still
<1>5. GoodRest
  BY <1>9, <1>3, EditorState DEF Picked, GoodRest
<1>6. SaveLeftAlone
  BY <1>9, <1>4, <1>5, EditorState DEF Picked, SaveLeftAlone, GoodServer, saveVars
<1> QED BY <1>6, LeftAloneKeeps

LEMMA RefusedKeeps ==
  ASSUME EditorAssumption, EditorIndInv, NEW p \in picks, PickRefused(p)
  PROVE  EditorIndInv'
<1>1. p \in [file : 1..MaxPicked, over : 0..MaxPicked]
  BY EditorState
<1>2. GoodForm
  BY <1>1, EditorState DEF PickRefused, GoodForm, fieldVars, Items, still
<1>3. GoodRest
  BY <1>1, EditorState DEF PickRefused, GoodRest, fieldVars
<1>4. SaveLeftAlone
  BY <1>2, <1>3, EditorState DEF PickRefused, SaveLeftAlone, GoodServer, saveVars
<1> QED BY <1>4, LeftAloneKeeps

\* The image chosen keeps the draft with its file, or drops it.
LEMMA ChosenKeeps ==
  ASSUME EditorAssumption, EditorIndInv, NEW newForm \in Fields, newForm.draft \in {0, fields.draft},
         kind \notin Items => ~(newForm.removal /\ newForm.draft # 0),
         asking' \in BOOLEAN, asking' => kind \in Items, SetImage(newForm)
  PROVE  EditorIndInv'
<1>1. GoodForm
  BY EditorState DEF SetImage, GoodForm, still
<1>2. GoodRest
  BY EditorState DEF SetImage, GoodRest
<1>3. SaveLeftAlone
  BY <1>1, <1>2, EditorState DEF SetImage, SaveLeftAlone, GoodServer, saveVars
<1> QED BY <1>3, LeftAloneKeeps

LEMMA ImageKeeps ==
  ASSUME EditorAssumption, EditorIndInv,
         \/ SelectInCatalogue \/ SelectTemplate \/ CatalogueRemove \/ CatalogueRemoveConfirmed
         \/ ExpenseRemove \/ InventoryRemove
  PROVE  EditorIndInv'
<1> DEFINE Choice(f) == /\ f \in Fields /\ f.draft \in {0, fields.draft}
                        /\ kind \notin Items => ~(f.removal /\ f.draft # 0)
<1>0. fields \in Fields /\ MaxPicked \in Nat /\ (kind \notin Items => ~(fields.removal /\ fields.draft # 0))
  BY EditorState
<1>1. asking' \in BOOLEAN /\ (asking' => kind \in Items)
  <2>1. CASE UNCHANGED asking
    BY <2>1, EditorState
  <2>2. CASE CatalogueRemove
    BY <2>1, <2>2 DEF CatalogueRemove
  <2>3. CASE CatalogueRemoveConfirmed
    BY <2>3 DEF CatalogueRemoveConfirmed
  <2> QED BY <2>1, <2>2, <2>3 DEF SelectInCatalogue, SelectTemplate, ExpenseRemove, InventoryRemove
<1>2. fields.draft \in 0..MaxPicked /\ 0 \in 0..MaxPicked /\ fields.template \in BOOLEAN /\ fields.removal \in BOOLEAN
  BY <1>0 DEF Fields
<1>3. CASE SelectInCatalogue
  <2>1. (~fields.template) \in BOOLEAN
    BY <1>2
  <2>2. [fields EXCEPT !.draft = 0, !.removal = FALSE, !.template = ~@] \in Fields
    BY <1>0, <1>2, <2>1 DEF Fields
  <2>3. /\ [fields EXCEPT !.draft = 0, !.removal = FALSE, !.template = ~@].draft = 0
        /\ [fields EXCEPT !.draft = 0, !.removal = FALSE, !.template = ~@].removal = FALSE
    BY <1>0 DEF Fields
  <2> QED BY <1>1, <1>3, <2>2, <2>3, ChosenKeeps DEF SelectInCatalogue
<1>4. CASE SelectTemplate
  <2>2. [fields EXCEPT !.draft = 0, !.removal = FALSE, !.template = TRUE] \in Fields
    BY <1>0, <1>2 DEF Fields
  <2>3. /\ [fields EXCEPT !.draft = 0, !.removal = FALSE, !.template = TRUE].draft = 0
        /\ [fields EXCEPT !.draft = 0, !.removal = FALSE, !.template = TRUE].removal = FALSE
    BY <1>0 DEF Fields
  <2> QED BY <1>1, <1>4, <2>2, <2>3, ChosenKeeps DEF SelectTemplate
<1>5. /\ Choice([fields EXCEPT !.draft = 0])
      /\ Choice([fields EXCEPT !.removal = FALSE])
      /\ Choice(fields)
      /\ kind \in Items \/ fields.draft = 0 => Choice([fields EXCEPT !.removal = TRUE])
      /\ fields.draft = 0 => Choice([fields EXCEPT !.removal = TRUE, !.template = FALSE])
      /\ Choice([fields EXCEPT !.draft = 0, !.removal = FALSE])
  <2>1. Choice([fields EXCEPT !.draft = 0])
    BY <1>0, <1>2 DEF Fields
  <2>2. Choice([fields EXCEPT !.removal = FALSE])
    BY <1>0, <1>2 DEF Fields
  <2>3. Choice(fields)
    BY <1>0, <1>2 DEF Fields
  <2>4. kind \in Items \/ fields.draft = 0 => Choice([fields EXCEPT !.removal = TRUE])
    BY <1>0, <1>2 DEF Fields
  <2>5. fields.draft = 0 => Choice([fields EXCEPT !.removal = TRUE, !.template = FALSE])
    BY <1>0, <1>2 DEF Fields
  <2>6. Choice([fields EXCEPT !.draft = 0, !.removal = FALSE])
    BY <1>0, <1>2 DEF Fields
  <2> QED BY <2>1, <2>2, <2>3, <2>4, <2>5, <2>6
<1> HIDE DEF Choice
<1>6. ASSUME NEW newForm, Choice(newForm), SetImage(newForm) PROVE EditorIndInv'
  <2>1. newForm \in Fields /\ newForm.draft \in {0, fields.draft}
        /\ (kind \notin Items => ~(newForm.removal /\ newForm.draft # 0))
    BY <1>6 DEF Choice
  <2> QED BY <1>1, <1>6, <2>1, ChosenKeeps
<1>7. CASE CatalogueRemove
  BY <1>5, <1>6, <1>7 DEF CatalogueRemove
<1>8. CASE CatalogueRemoveConfirmed
  <2>1. kind \in Items
    BY <1>8, EditorState DEF CatalogueRemoveConfirmed
  <2> QED BY <1>5, <1>6, <1>8, <2>1 DEF CatalogueRemoveConfirmed
<1>9. CASE ExpenseRemove
  BY <1>5, <1>6, <1>9 DEF ExpenseRemove
<1>10. CASE InventoryRemove
  BY <1>5, <1>6, <1>10 DEF InventoryRemove
<1> QED BY <1>3, <1>4, <1>7, <1>8, <1>9, <1>10

LEMMA DeletionsKeep ==
  ASSUME EditorAssumption, EditorIndInv, DeleteStarts \/ DeleteEnds \/ LeaveEditor \/ OtherSaves
  PROVE  EditorIndInv'
<1>1. UNCHANGED <<still, fieldVars, picked, picks, asking, job, lock, flag>>
  BY DEF DeleteStarts, DeleteEnds, LeaveEditor, OtherSaves, fileVars, saveVars
<1>2. files' \subseteq files /\ (onScreen' => files' = files /\ onScreen)
  BY EditorState DEF DeleteStarts, DeleteEnds, LeaveEditor, OtherSaves, fileVars
<1>3. GoodForm
  BY <1>1, <1>2, EditorState DEF GoodForm, fieldVars, still
<1>4. acts' \in 0..MaxActs
  BY ActCounts, EditorState DEF DeleteStarts, DeleteEnds, LeaveEditor, OtherSaves
<1>5. GoodRest
  BY <1>1, <1>2, <1>4, EditorState DEF GoodRest, fieldVars
<1>6. Absent \in ItemRow /\ \A image \in {"none", "template", "own"} : [stored EXCEPT !.text = "theirs", !.image = image] \in ItemRow
  BY EditorState DEF Absent, ItemRow, Texts, Images
<1>7. GoodServer
  <2>0. stored \in ItemRow /\ others \in BOOLEAN /\ onScreen \in BOOLEAN /\ deleting \in BOOLEAN
    BY EditorState
  <2>1. CASE DeleteStarts
    BY <2>0, <2>1 DEF GoodServer, DeleteStarts
  <2>2. CASE LeaveEditor
    BY <2>0, <2>2 DEF GoodServer, LeaveEditor, saveVars
  <2>3. CASE DeleteEnds
    <3>1. deleting' = FALSE /\ others' = others
      BY <2>3 DEF DeleteEnds
    <3>2. (stored' = Absent /\ onScreen' = FALSE) \/ (stored' = stored /\ onScreen' = onScreen)
      BY <2>3 DEF DeleteEnds
    <3>3. stored' \in ItemRow /\ deleting' \in BOOLEAN /\ others' \in BOOLEAN /\ onScreen' \in BOOLEAN
      BY <1>6, <2>0, <3>1, <3>2
    <3> QED BY <2>0, <3>1, <3>2, <3>3 DEF GoodServer
  <2>4. CASE OtherSaves
    BY <1>6, <2>0, <2>4 DEF GoodServer, OtherSaves, saveVars
  <2> QED BY <2>1, <2>2, <2>3, <2>4
<1>8. SaveLeftAlone
  BY <1>1, <1>3, <1>5, <1>7 DEF SaveLeftAlone
<1> QED BY <1>8, LeftAloneKeeps

-----------------------------------------------------------------------------
(* Saving. *)

LEMMA ShownIsAnImage == ASSUME EditorAssumption, EditorIndInv PROVE ShownImage \in Images
BY EditorState DEF ShownImage, Images, ItemRow

\* A save that starts with what it has to send.
LEMMA SaveStarts ==
  ASSUME EditorAssumption, EditorIndInv, NEW step \in Steps, NEW sends \in Payload,
         job' = Job(step, sends), flag' = TRUE, lock' \in BOOLEAN, Act, kind # "inventory" => ~deleting,
         UNCHANGED <<still, stored, fieldVars, fileVars, deleting, onScreen, others>>,
         ~others /\ item.image = stored.image /\ item.image # "template" =>
           SendsWhatIsShown(sends, ShownImage, item.image) /\ CallSends(step, sends, item.image, stored.image)
  PROVE  EditorIndInv'
<1>1. job' \in SaveJob /\ job'.step = step /\ job'.sends = sends /\ job'.shown = ShownImage
      /\ job'.before = item.image /\ job'.fresh = (item.image = stored.image)
  BY EditorState, ShownIsAnImage DEF Job, SaveJob, ItemRow, Steps
<1>2. Calling'
  BY <1>1 DEF Calling, Steps
<1>3. FlagInv' /\ SavingIsReal' /\ SaveOrDelete'
  BY <1>1, <1>2 DEF FlagInv, SavingIsReal, SaveOrDelete, still
<1>4. EditorTypeOK'
  BY ActCounts DEF EditorIndInv, EditorInv, EditorTypeOK, still, fieldVars, fileVars
<1>5. DraftHasFile' /\ OnlyItsDraft' /\ FieldsInv'
  BY DEF EditorIndInv, EditorInv, DraftHasFile, OnlyItsDraft, FieldsInv, still, fieldVars, fileVars, creates
<1>6. JobInv'
  BY <1>1 DEF JobInv, Informed, SendsWhatIsShown, CallSends, still
<1> QED BY <1>3, <1>4, <1>5, <1>6 DEF EditorIndInv, EditorInv

\* The payloads say what is shown, unless the item has a template.
LEMMA CatalogueSends ==
  ASSUME EditorAssumption, EditorIndInv
  PROVE  /\ CataloguePayload \in Payload
         /\ item.image # "template" => SendsWhatIsShown(CataloguePayload, ShownImage, item.image)
<1>1. fields \in Fields /\ fields.template \in BOOLEAN
  BY EditorState DEF Fields
<1>2. /\ CataloguePayload.draft = fields.draft /\ CataloguePayload.removal = fields.removal
      /\ CataloguePayload.template = Chosen
  BY DEF CataloguePayload
<1>3. CataloguePayload \in Payload
  <2>1. Chosen \in {"keep", "set", "clear"}
    BY DEF Chosen
  <2> QED BY <1>1, <2>1 DEF CataloguePayload, Payload, Fields
<1>4. ASSUME item.image # "template" PROVE SendsWhatIsShown(CataloguePayload, ShownImage, item.image)
  <2>1. Chosen = IF fields.draft # 0 \/ ~fields.template THEN "keep" ELSE "set"
    BY <1>1, <1>4 DEF Chosen
  <2> QED BY <1>2, <2>1 DEF SendsWhatIsShown, ShownImage
<1> QED BY <1>3, <1>4

LEMMA OtherSends ==
  ASSUME EditorAssumption, EditorIndInv, kind \notin Items
  PROVE  /\ OtherPayload \in Payload
         /\ OtherPayload.draft = fields.draft /\ OtherPayload.removal = fields.removal
         /\ OtherPayload.removal => OtherPayload.draft = 0 /\ OtherPayload.template = "clear"
         /\ item.image # "template" => SendsWhatIsShown(OtherPayload, ShownImage, item.image)
<1>1. fields \in Fields /\ fields.template \in BOOLEAN /\ fields.removal \in BOOLEAN /\ ~(fields.removal /\ fields.draft # 0)
  BY EditorState DEF Fields
<1>2. /\ OtherPayload.draft = fields.draft /\ OtherPayload.removal = fields.removal
      /\ OtherPayload.template = IF fields.removal THEN "clear" ELSE Chosen
  BY <1>1 DEF OtherPayload
<1>3. OtherPayload \in Payload
  <2>1. Chosen \in {"keep", "set", "clear"}
    BY DEF Chosen
  <2> QED BY <1>1, <2>1 DEF OtherPayload, Payload, Fields
<1>4. ASSUME item.image # "template" PROVE SendsWhatIsShown(OtherPayload, ShownImage, item.image)
  <2>1. Chosen = IF fields.draft # 0 \/ ~fields.template THEN "keep" ELSE "set"
    BY <1>1, <1>4 DEF Chosen
  <2> QED BY <1>1, <1>2, <2>1 DEF SendsWhatIsShown, ShownImage
<1> QED BY <1>1, <1>2, <1>3, <1>4

LEMMA SavesKeep ==
  ASSUME EditorAssumption, EditorIndInv, SaveCatalogue \/ SaveExpense \/ SaveInventory
  PROVE  EditorIndInv'
<1>0. MaxActs \in Nat /\ lock \in BOOLEAN
  BY EditorState
<1>1. CASE SaveCatalogue /\ CatalogueAccepts
  <2>1. job' = Job(CatalogueCall, CataloguePayload) /\ kind \in Items /\ flag' = TRUE /\ lock' = TRUE /\ Act /\ ~deleting
        /\ UNCHANGED <<still, stored, fieldVars, fileVars, deleting, onScreen, others>>
    BY <1>1 DEF SaveCatalogue
  <2>2. CatalogueCall \in Steps
    BY DEF CatalogueCall, Steps
  <2>3. /\ CataloguePayload.draft = fields.draft /\ CataloguePayload.removal = fields.removal
    BY DEF CataloguePayload
  <2>4. /\ CatalogueCall \notin {"fields", "undo"}
        /\ CatalogueCall = "template" => ~hasImageChange
        /\ CatalogueCall = "upload" => fields.draft # 0
        /\ CatalogueCall = "remove" => fields.removal /\ fields.draft = 0
    BY DEF CatalogueCall, hasImageChange
  <2>5. ASSUME item.image = stored.image, item.image # "template"
        PROVE  CallSends(CatalogueCall, CataloguePayload, item.image, stored.image)
    BY <2>1, <2>3, <2>4, <2>5 DEF CallSends, hasImageChange, Items
  <2> HIDE DEF CataloguePayload, CatalogueCall
  <2> QED BY <2>1, <2>2, <2>5, CatalogueSends, SaveStarts
<1>2. CASE SaveCatalogue /\ ~CatalogueAccepts
  <2>1. kind \in Items /\ flag' = TRUE /\ Act /\ ~deleting
        /\ UNCHANGED <<still, stored, fieldVars, fileVars, deleting, onScreen, others, lock, job>>
    BY <1>2 DEF SaveCatalogue
  <2>2. EditorTypeOK'
    BY <2>1, ActCounts DEF EditorIndInv, EditorInv, EditorTypeOK, still, fieldVars, fileVars
  <2>3. DraftHasFile' /\ OnlyItsDraft' /\ FieldsInv'
    BY <2>1 DEF EditorIndInv, EditorInv, DraftHasFile, OnlyItsDraft, FieldsInv, still, fieldVars, fileVars, creates
  <2>4. FlagInv' /\ SavingIsReal' /\ SaveOrDelete' /\ JobInv'
    BY <2>1 DEF EditorIndInv, EditorInv, FlagInv, SavingIsReal, SaveOrDelete, JobInv, Informed, Calling, still,
       SendsWhatIsShown, CallSends
  <2> QED BY <2>2, <2>3, <2>4 DEF EditorIndInv, EditorInv
<1>3. CASE SaveExpense
  <2> DEFINE step == IF creates THEN "create" ELSE "fields"
  <2>1. job' = Job(step, OtherPayload) /\ kind = "expense" /\ flag' = TRUE /\ lock' = lock /\ Act /\ ~deleting
        /\ UNCHANGED <<still, stored, fieldVars, fileVars, deleting, onScreen, others>>
    BY <1>3 DEF SaveExpense, SaveShown, ExpenseSaveShown
  <2>2. kind \notin Items
    BY <2>1 DEF Items
  <2>3. step \in Steps /\ step \in {"create", "fields"}
    BY DEF Steps
  <2>4. step = "create" => item.image = "none"
    BY <2>1 DEF EditorIndInv, FieldsInv, Absent
  <2>5. ASSUME item.image = stored.image
        PROVE  CallSends(step, OtherPayload, item.image, stored.image)
    BY <2>1, <2>2, <2>3, <2>4, <2>5, OtherSends DEF CallSends
  <2> HIDE DEF step
  <2> QED BY <1>0, <2>1, <2>2, <2>3, <2>5, OtherSends, SaveStarts
<1>4. CASE SaveInventory
  <2> DEFINE step == IF item.made THEN "fields" ELSE "create"
  <2>1. job' = Job(step, OtherPayload) /\ kind = "inventory" /\ flag' = TRUE /\ lock' = TRUE /\ Act
        /\ UNCHANGED <<still, stored, fieldVars, fileVars, deleting, onScreen, others>>
    BY <1>4 DEF SaveInventory
  <2>2. kind \notin Items
    BY <2>1 DEF Items
  <2>3. step \in Steps /\ step \in {"create", "fields"}
    BY DEF Steps
  <2>5. ASSUME item.image = stored.image
        PROVE  CallSends(step, OtherPayload, item.image, stored.image)
    BY <2>1, <2>2, <2>3, <2>5, OtherSends DEF CallSends
  <2> HIDE DEF step
  <2> QED BY <2>1, <2>2, <2>3, <2>5, OtherSends, SaveStarts
<1> QED BY <1>1, <1>2, <1>3, <1>4

-----------------------------------------------------------------------------
(* Answers. *)

\* What a call makes of the item.
LEMMA EffectIsAnItem ==
  ASSUME EditorAssumption, EditorIndInv, Calling
  PROVE  Effect \in ItemRow
<1>1. job \in SaveJob /\ job.sends \in Payload /\ job.sends.text \in Texts /\ stored \in ItemRow /\ stored.image \in Images
  BY EditorState DEF EditorIndInv, FlagInv, Calling, NoJob, SaveJob, Payload, ItemRow
<1>2. TemplateApplied(stored.image) \in Images
  BY <1>1 DEF TemplateApplied, Payload, Images
<1>3. ItemUpdated \in ItemRow
  <2>1. ItemUpdated.image \in Images
    BY <1>2 DEF ItemUpdated, Images
  <2> QED BY <1>1, <2>1 DEF ItemUpdated, ItemRow
<1>4. FieldsWritten \in ItemRow
  BY <1>1, <1>2 DEF FieldsWritten, ItemRow
<1>5. ImageRemoved \in ItemRow
  BY <1>1 DEF ImageRemoved, ItemRow, Images
<1>6. [stored EXCEPT !.image = TemplateApplied(@)] \in ItemRow /\ [stored EXCEPT !.image = "draft"] \in ItemRow
      /\ Absent \in ItemRow
  BY <1>1, <1>2 DEF ItemRow, Images, Absent, Texts
<1>7. job.step \in Steps
  BY <1>1 DEF SaveJob
<1> HIDE DEF ItemRow
<1> QED BY <1>3, <1>4, <1>5, <1>6, <1>7 DEF Effect, Steps

\* A save that goes on with another call, for what is still to be said of the image.
LEMMA SaveGoesOn ==
  ASSUME EditorAssumption, EditorIndInv, Calling, NEW step \in Steps, NEW row \in ItemRow,
         job' = [job EXCEPT !.step = step, !.item = row], stored' \in ItemRow,
         UNCHANGED <<still, lock, flag, onScreen, files, fields, item, clean, load, picked, picks, asking, deleting,
                     others, acts>>,
         Informed => CallSends(step, job.sends, job.before, stored'.image)
  PROVE  EditorIndInv'
<1>1. job \in SaveJob
  BY DEF EditorIndInv, FlagInv, Calling, NoJob
<1>2. job' \in SaveJob /\ job'.step = step /\ job'.sends = job.sends /\ job'.shown = job.shown
      /\ job'.before = job.before /\ job'.fresh = job.fresh
  BY <1>1 DEF SaveJob
<1>3. Calling'
  BY <1>2 DEF Calling, Steps
<1>4. FlagInv' /\ SavingIsReal' /\ SaveOrDelete'
  BY <1>2, <1>3 DEF EditorIndInv, EditorInv, FlagInv, SavingIsReal, SaveOrDelete, still
<1>5. EditorTypeOK'
  BY DEF EditorIndInv, EditorInv, EditorTypeOK, still, ItemRow
<1>6. DraftHasFile' /\ OnlyItsDraft' /\ FieldsInv'
  BY DEF EditorIndInv, EditorInv, DraftHasFile, OnlyItsDraft, FieldsInv, still, creates
<1>7. JobInv'
  <2>1. Informed' => Informed
    BY <1>2 DEF Informed
  <2>2. Informed => SendsWhatIsShown(job.sends, job.shown, job.before)
    BY DEF EditorIndInv, JobInv
  <2> QED BY <1>2, <2>1, <2>2 DEF JobInv, SendsWhatIsShown, CallSends, still
<1> QED BY <1>4, <1>5, <1>6, <1>7 DEF EditorIndInv, EditorInv

\* A save that ends, with its screen left or a form as good as before.
LEMMA SaveEnds ==
  ASSUME EditorAssumption, EditorIndInv, job' = NoJob, Released, stored' \in ItemRow, GoodForm, files' \subseteq files,
         item' \in ItemRow, kind = "expense" => item' = item, clean' \in Texts, onScreen' \in BOOLEAN,
         UNCHANGED <<still, load, picked, picks, asking, deleting, others, acts>>
  PROVE  EditorIndInv'
<1>1. ~Calling'
  BY DEF Calling, NoJob
<1>2. EditorTypeOK'
  <2>1. fields' \in Fields
    BY DEF GoodForm
  <2> QED BY <2>1, EditorState DEF EditorIndInv, EditorInv, EditorTypeOK, Released, still, Fields, ItemRow
<1>3. DraftHasFile' /\ OnlyItsDraft'
  BY DEF GoodForm, DraftHasFile, OnlyItsDraft, still
<1>4. FlagInv' /\ SavingIsReal' /\ SaveOrDelete'
  BY <1>1 DEF FlagInv, SavingIsReal, SaveOrDelete, Released
<1>5. FieldsInv'
  BY DEF EditorIndInv, FieldsInv, GoodForm, still, creates
<1>6. JobInv'
  BY <1>1 DEF JobInv, Informed
<1> QED BY <1>2, <1>3, <1>4, <1>5, <1>6 DEF EditorIndInv, EditorInv

LEMMA FailureKeeps ==
  ASSUME EditorAssumption, EditorIndInv, Calling, SaveFailed, stored' \in ItemRow,
         UNCHANGED <<still, load, picked, picks, asking, deleting, others, acts>>
  PROVE  EditorIndInv'
<1>1. job \in SaveJob
  BY DEF EditorIndInv, FlagInv, Calling, NoJob
<1>2. CASE kind = "expense" /\ creates /\ job.step = "upload"
  <2>1. job.item \in ItemRow /\ "undo" \in Steps
    BY <1>1 DEF SaveJob, Steps
  <2>2. job' = [job EXCEPT !.step = "undo"] /\ UNCHANGED <<onScreen, lock, flag, fields, item, clean, files>>
    BY <1>2 DEF SaveFailed
  <2>3. job' = [job EXCEPT !.step = "undo", !.item = job.item]
    BY <1>1, <2>2 DEF SaveJob
  <2>4. Informed => CallSends("undo", job.sends, job.before, stored'.image)
    BY <1>2 DEF EditorIndInv, JobInv, CallSends, Items
  <2> QED BY <2>1, <2>2, <2>3, <2>4, SaveGoesOn
<1>3. CASE ~(kind = "expense" /\ creates /\ job.step = "upload")
  <2>1. job' = NoJob /\ Released /\ UNCHANGED <<onScreen, files>>
    BY <1>3 DEF SaveFailed
  <2>2. \/ UNCHANGED <<fields, item, clean>>
        \/ /\ kind = "inventory" /\ item' = job.item /\ clean' = job.item.text
           /\ fields' = [fields EXCEPT !.text = job.item.text, !.draft = 0, !.removal = FALSE]
    BY <1>3 DEF SaveFailed
  <2>3. job.item \in ItemRow /\ job.item.text \in Texts /\ 0 \in 0..MaxPicked /\ fields \in Fields
    BY <1>1, EditorState DEF SaveJob, ItemRow
  <2>4. fields' \in Fields /\ (fields' = fields \/ (kind = "inventory" /\ fields'.draft = 0))
    BY <2>2, <2>3 DEF Fields
  <2>5. item' \in ItemRow /\ clean' \in Texts /\ (kind = "expense" => item' = item) /\ onScreen' \in BOOLEAN
    BY <2>1, <2>2, <2>3, EditorState
  <2>6. GoodForm
    BY <2>1, <2>4, EditorState DEF GoodForm
  <2> QED BY <2>1, <2>5, <2>6, SaveEnds
<1> QED BY <1>2, <1>3

LEMMA SuccessKeeps == ASSUME EditorAssumption, EditorIndInv, CallSucceeds PROVE EditorIndInv'
<1>1. Calling /\ stored' = Effect /\ UNCHANGED <<still, load, picked, picks, asking, deleting, others, acts>>
  BY DEF CallSucceeds
<1>2. job \in SaveJob /\ job.step \in Steps /\ stored' \in ItemRow
  BY <1>1, EffectIsAnItem DEF EditorIndInv, FlagInv, Calling, NoJob, SaveJob
<1>3. CASE ImageCall # "none"
  <2>1. /\ job' = [job EXCEPT !.step = ImageCall, !.item = stored']
        /\ UNCHANGED <<lock, flag, onScreen, files, fields, item, clean>>
    BY <1>3 DEF CallSucceeds
  <2>2. /\ kind \notin Items /\ job.step \in {"create", "fields"} /\ ImageCall \in {"upload", "remove"}
        /\ ImageCall = "upload" => job.sends.draft # 0
        /\ ImageCall = "remove" => job.sends.draft = 0 /\ job.sends.removal
    BY <1>3 DEF ImageCall
  <2>3. Informed => CallSends(ImageCall, job.sends, job.before, stored'.image)
    <3>1. SUFFICES ASSUME Informed PROVE CallSends(ImageCall, job.sends, job.before, stored'.image)
      OBVIOUS
    <3>2. CallSends(job.step, job.sends, job.before, stored.image)
      BY <3>1 DEF EditorIndInv, JobInv
    <3>3. job.sends.removal => stored'.image # "template"
      <4>1. stored' = FieldsWritten
        BY <1>1, <2>2 DEF Effect
      <4>2. job.sends.removal => job.sends.template = "clear"
        BY <2>2, <3>2 DEF CallSends
      <4> QED BY <4>1, <4>2 DEF FieldsWritten, TemplateApplied
    <3> QED BY <2>2, <3>2, <3>3 DEF CallSends
  <2>4. ImageCall \in Steps
    BY <2>2 DEF Steps
  <2> HIDE DEF ImageCall
  <2> QED BY <1>1, <1>2, <2>1, <2>3, <2>4, SaveGoesOn
<1>4. CASE ImageCall = "none" /\ job.step = "undo"
  <2>1. SaveFailed
    BY <1>4 DEF CallSucceeds
  <2> QED BY <1>1, <1>2, <2>1, FailureKeeps
<1>5. CASE ImageCall = "none" /\ job.step # "undo"
  <2>1. Saved
    BY <1>5 DEF CallSucceeds
  <2>2. fields' \in Fields /\ (kind \notin Items => ~(fields'.removal /\ fields'.draft # 0))
    <3>1. fields \in Fields /\ 0 \in 0..MaxPicked /\ (kind \notin Items => ~(fields.removal /\ fields.draft # 0))
      BY EditorState
    <3>2. [fields EXCEPT !.draft = 0] \in Fields /\ [fields EXCEPT !.draft = 0].draft = 0
      BY <3>1 DEF Fields
    <3> QED BY <2>1, <3>1, <3>2 DEF Saved
  <2>3. job' = NoJob /\ Released /\ onScreen' = FALSE /\ files' \subseteq files /\ UNCHANGED <<item, clean>>
    BY <2>1 DEF Saved
  <2>4. GoodForm
    BY <2>2, <2>3 DEF GoodForm
  <2> QED BY <1>1, <1>2, <2>3, <2>4, EditorState, SaveEnds
<1> QED BY <1>3, <1>4, <1>5

LEMMA CallFailsKeeps == ASSUME EditorAssumption, EditorIndInv, CallFails PROVE EditorIndInv'
<1>1. Calling /\ SaveFailed /\ UNCHANGED <<still, load, picked, picks, asking, deleting, others, acts>>
  BY DEF CallFails
<1>2. stored' \in ItemRow
  BY <1>1, EditorState, EffectIsAnItem DEF CallFails
<1> QED BY <1>1, <1>2, FailureKeeps

-----------------------------------------------------------------------------
LEMMA EditorStaysInd == ASSUME EditorAssumption PROVE EditorIndInv /\ [EditorNext]_editorVars => EditorIndInv'
<1> SUFFICES ASSUME EditorIndInv, [EditorNext]_editorVars PROVE EditorIndInv'
  OBVIOUS
<1>1. CASE UNCHANGED editorVars
  <2>1. EditorTypeOK' /\ DraftHasFile' /\ OnlyItsDraft' /\ FieldsInv'
    BY <1>1 DEF editorVars, EditorIndInv, EditorInv, EditorTypeOK, DraftHasFile, OnlyItsDraft, FieldsInv, creates
  <2>2. SaveOrDelete' /\ SavingIsReal' /\ FlagInv' /\ JobInv'
    BY <1>1 DEF editorVars, EditorIndInv, EditorInv, SaveOrDelete, SavingIsReal, FlagInv, JobInv, Informed, Calling,
       SendsWhatIsShown, CallSends
  <2> QED BY <2>1, <2>2 DEF EditorIndInv, EditorInv
<1>2. CASE RefreshCatalogue \/ RefreshInventory
  BY <1>2, RefreshKeeps
<1>3. CASE CatalogueLoaded \/ InventoryLoaded
  BY <1>3, LoadedKeeps
<1>4. CASE \E text \in {"mine", "bad"} : TypeCatalogue(text) \/ TypeExpense(text) \/ TypeInventory(text)
  <2>1. PICK text \in {"mine", "bad"} : TypeText(text)
    BY <1>4 DEF TypeCatalogue, TypeExpense, TypeInventory
  <2>2. text \in Texts
    BY DEF Texts
  <2> QED BY <2>1, <2>2, TypeKeeps
<1>5. CASE PickStarts
  BY <1>5, PickKeeps
<1>6. CASE \E p \in picks : CataloguePicked(p) \/ ExpensePicked(p) \/ InventoryPicked(p) \/ PickRefused(p)
  BY <1>6, PickedKeeps, RefusedKeeps
<1>7. CASE SelectInCatalogue \/ SelectTemplate \/ CatalogueRemove \/ CatalogueRemoveConfirmed
           \/ ExpenseRemove \/ InventoryRemove
  BY <1>7, ImageKeeps
<1>8. CASE SaveCatalogue \/ SaveExpense \/ SaveInventory
  BY <1>8, SavesKeep
<1>9. CASE CallSucceeds
  BY <1>9, SuccessKeeps
<1>10. CASE CallFails
  BY <1>10, CallFailsKeeps
<1>11. CASE DeleteStarts \/ DeleteEnds \/ LeaveEditor \/ OtherSaves
  BY <1>11, DeletionsKeep
<1> QED BY <1>1, <1>2, <1>3, <1>4, <1>5, <1>6, <1>7, <1>8, <1>9, <1>10, <1>11 DEF EditorNext

\* Files, flags and deletions agree with the form of each editor, for any number of picks, whichever
\* copies, choices, loads and answers cross.
THEOREM EditorsAgree == ASSUME EditorAssumption PROVE EditorSpec => []EditorInv
<1>1. EditorInit => EditorIndInv
  BY EditorInitInv
<1>2. EditorIndInv /\ [EditorNext]_editorVars => EditorIndInv'
  BY EditorStaysInd
<1>3. EditorIndInv => EditorInv
  BY DEF EditorIndInv
<1> QED BY <1>1, <1>2, <1>3, PTL DEF EditorSpec

-----------------------------------------------------------------------------
\* The screen is left by a save that succeeds, and by nothing else while one runs to its end.
LEMMA OnlySuccessLeaves ==
  ASSUME EditorAssumption, EditorIndInv, [EditorNext]_editorVars, Calling, onScreen, ~onScreen', ~Calling'
  PROVE  /\ CallSucceeds /\ stored' = Effect /\ ImageCall = "none" /\ job.step # "undo"
<1>1. job' # job /\ onScreen' # onScreen
  BY DEF Calling
<1>2. CallSucceeds
  <2>1. ~(UNCHANGED editorVars)
    BY <1>1 DEF editorVars
  <2>2. ~(RefreshCatalogue \/ CatalogueLoaded \/ RefreshInventory \/ InventoryLoaded)
    BY <1>1 DEF RefreshCatalogue, CatalogueLoaded, RefreshInventory, InventoryLoaded
  <2>3. ~(\E text \in {"mine", "bad"} : TypeCatalogue(text) \/ TypeExpense(text) \/ TypeInventory(text))
    BY <1>1 DEF TypeCatalogue, TypeExpense, TypeInventory, TypeText
  <2>4. ~(PickStarts \/ \E p \in picks : CataloguePicked(p) \/ ExpensePicked(p) \/ InventoryPicked(p) \/ PickRefused(p))
    BY <1>1 DEF PickStarts, CataloguePicked, ExpensePicked, InventoryPicked, PickRefused, Picked
  <2>5. ~(SelectInCatalogue \/ SelectTemplate \/ CatalogueRemove \/ CatalogueRemoveConfirmed \/ ExpenseRemove
          \/ InventoryRemove)
    BY <1>1 DEF SelectInCatalogue, SelectTemplate, CatalogueRemove, CatalogueRemoveConfirmed, ExpenseRemove,
       InventoryRemove, SetImage
  <2>6. ~(SaveCatalogue \/ SaveExpense \/ SaveInventory)
    BY <1>1 DEF SaveCatalogue, SaveExpense, SaveInventory
  <2>7. ~CallFails
    BY <1>1 DEF CallFails, SaveFailed
  <2>8. ~(DeleteStarts \/ DeleteEnds \/ LeaveEditor \/ OtherSaves)
    BY <1>1 DEF DeleteStarts, DeleteEnds, LeaveEditor, OtherSaves, saveVars
  <2> QED BY <2>1, <2>2, <2>3, <2>4, <2>5, <2>6, <2>7, <2>8 DEF EditorNext
<1>3. ImageCall = "none"
  <2>1. ImageCall # "none" => UNCHANGED onScreen
    BY <1>2 DEF CallSucceeds
  <2> QED BY <1>1, <2>1
<1>4. job.step # "undo"
  <2>1. job.step = "undo" => UNCHANGED onScreen
    BY <1>2, <1>3 DEF CallSucceeds, SaveFailed
  <2> QED BY <1>1, <2>1
<1> QED BY <1>2, <1>3, <1>4 DEF CallSucceeds

\* The last call of a save leaves the image that was shown.
LEMMA LastCallSaves ==
  ASSUME EditorAssumption, EditorIndInv, Informed, ImageCall = "none", job.step # "undo",
         ~(job.sends.removal /\ job.sends.draft # 0)
  PROVE  Effect.image = job.shown
<1> DEFINE s == job.sends
<1>1. SendsWhatIsShown(s, job.shown, job.before) /\ CallSends(job.step, s, job.before, stored.image)
  BY DEF EditorIndInv, JobInv
<1>2. job.step \in Steps /\ s.removal \in BOOLEAN /\ stored \in ItemRow
  BY EditorState DEF EditorIndInv, FlagInv, Informed, Calling, NoJob, SaveJob, Payload
<1>3. stored.image = job.before /\ s.draft = 0 /\ ~s.removal => TemplateApplied(stored.image) = job.shown
  BY <1>1 DEF SendsWhatIsShown, TemplateApplied
<1>4. CASE job.step \in {"create", "all"} /\ kind \in Items
  <2>1. Effect = ItemUpdated /\ stored.image = job.before
    BY <1>1, <1>4 DEF Effect, CallSends
  <2>2. s.draft = 0 /\ ~s.removal => s.template # "clear"
    BY <1>1 DEF SendsWhatIsShown
  <2>3. ItemUpdated.image = job.shown
    BY <1>1, <1>2, <1>3, <2>1, <2>2 DEF ItemUpdated, SendsWhatIsShown
  <2> QED BY <2>1, <2>3
<1>5. CASE job.step \in {"create", "fields"} /\ kind \notin Items
  <2>1. Effect.image = TemplateApplied(stored.image) /\ stored.image = job.before
    BY <1>1, <1>5 DEF Effect, FieldsWritten, CallSends
  <2>2. s.draft = 0
    BY <1>5 DEF ImageCall
  <2>3. CASE ~s.removal
    BY <1>3, <2>1, <2>2, <2>3
  <2>4. CASE s.removal
    <3>1. kind = "expense" /\ job.before = "none"
      <4>1. kind # "inventory" /\ (job.step = "fields" => job.before = "none")
        BY <1>5, <2>2, <2>4 DEF ImageCall
      <4>2. kind = "expense"
        BY <1>5, <4>1 DEF Items, EditorIndInv, EditorInv, EditorTypeOK, EditorKinds
      <4> QED BY <1>1, <1>5, <4>1, <4>2 DEF CallSends
    <3>2. s.template = "clear" /\ job.shown = "none"
      BY <1>1, <1>5, <2>2, <2>4 DEF CallSends, SendsWhatIsShown
    <3> QED BY <2>1, <3>1, <3>2 DEF TemplateApplied
  <2> QED BY <2>3, <2>4
<1>6. CASE job.step = "template"
  <2>1. Effect.image = TemplateApplied(stored.image) /\ stored.image = job.before /\ s.draft = 0 /\ ~s.removal
    BY <1>1, <1>2, <1>6 DEF Effect, CallSends, ItemRow
  <2> QED BY <1>3, <2>1
<1>7. CASE job.step = "upload"
  <2>1. Effect.image = "draft"
    BY <1>2, <1>7 DEF Effect, ItemRow
  <2> QED BY <1>1, <1>7, <2>1 DEF CallSends, SendsWhatIsShown
<1>8. CASE job.step = "remove"
  <2>1. Effect.image = "none"
    BY <1>1, <1>2, <1>8 DEF Effect, ImageRemoved, CallSends, ItemRow
  <2> QED BY <1>1, <1>8, <2>1 DEF CallSends, SendsWhatIsShown
<1>9. job.step \in {"create", "all", "fields"} => (job.step # "all" \/ kind \in Items) /\ (job.step # "fields" \/ kind \notin Items)
  BY <1>1 DEF CallSends
<1> QED BY <1>2, <1>4, <1>5, <1>6, <1>7, <1>8, <1>9 DEF Steps

\* A save that succeeds leaves the image the screen showed when it was pressed: no other step of the
\* editors' saves writes another, for any number of picks and acts.
THEOREM SavesShowTheirImage == ASSUME EditorAssumption PROVE EditorSpec => SavedIsShown
<1>1. EditorInit => EditorIndInv
  BY EditorInitInv
<1>2. EditorIndInv /\ [EditorNext]_editorVars => EditorIndInv'
  BY EditorStaysInd
<1>3. EditorIndInv /\ [EditorNext]_editorVars =>
        [(Calling /\ onScreen /\ ~onScreen' /\ ~Calling' /\ ~others /\ job.fresh /\ job.before # "template"
            /\ ~(job.sends.removal /\ job.sends.draft # 0))
           => stored'.image = job.shown]_editorVars
  <2> SUFFICES ASSUME EditorIndInv, [EditorNext]_editorVars, Calling, onScreen, ~onScreen', ~Calling', ~others,
                      job.fresh, job.before # "template", ~(job.sends.removal /\ job.sends.draft # 0)
               PROVE  stored'.image = job.shown
    OBVIOUS
  <2>1. Informed
    BY DEF Informed
  <2>2. stored' = Effect /\ ImageCall = "none" /\ job.step # "undo"
    BY OnlySuccessLeaves
  <2>3. Effect.image = job.shown
    BY <2>1, <2>2, LastCallSaves
  <2> QED BY <2>2, <2>3
<1> QED BY <1>1, <1>2, <1>3, PTL DEF EditorSpec, SavedIsShown

-----------------------------------------------------------------------------
(* The lists.  A record that orders its queries and its pages, as those of *)
(* AppLists do that are not excepted there, makes a list show what it was  *)
(* asked for, page after page: for any records, queries, pages and loads.  *)

\* One answer: a first page, or a page the cursor points to.
PageRow == [page : 1..Pages, query : Queries, origin : Queries]

\* The cursor points behind the rows, loads have numbers of their own, and what is no page is a first
\* page, found with its own query.
LoadsInv ==
  /\ next # 0 => rows # <<>>
  /\ \A c \in calls : /\ c.id <= loads /\ c.era <= era
                      /\ c.kind # "more" => c.page = 1 /\ c.origin = c.query /\ c.era = c.id
                      /\ c.kind = "more" => "end" \in DOMAIN screen.locks
                      /\ c.kind = "more" /\ screen.counts => c.era = c.id
  /\ \A c, d \in calls : c.id = d.id => c = d
  /\ screen.single => \A c \in calls : calls = {c} /\ (c.query # query => loads < MaxLoads)

\* What is listed was found with the query the user sees.
Fresh == \A i \in DOMAIN rows : rows[i].query = query /\ rows[i].origin = query

\* A load whose first page will be listed.
Awaited == \E c \in calls : c.kind # "more" /\ c.era = era

AskedInv ==
  /\ Fixed(screen) => Fresh /\ \A c \in calls : c.query = query /\ c.origin = query
  /\ ~Fixed(screen) /\ OrdersQueries(screen) /\ screen.single => Fresh \/ failed \/ calls # {}
  /\ ~Fixed(screen) /\ OrdersQueries(screen) /\ ~screen.single =>
       /\ \A c \in calls : c.era = era => c.query = query
       /\ screen.clears # "never" => Fresh /\ \A c \in calls : c.origin = c.query
       /\ screen.clears = "never" => Fresh \/ failed \/ Awaited

\* Pages follow each other, and so does the page that will be listed.
OrderInv ==
  OrdersPages(screen) =>
    /\ \A i \in DOMAIN rows : rows[i].page = i
    /\ next # 0 => next = Len(rows) + 1
    /\ Pageless(screen) => Len(rows) <= 1
    /\ ~Pageless(screen) => \A c \in calls : c.kind = "more" /\ c.era = era => c.page = Len(rows) + 1

ListIndInv == ListTypeOK /\ LoadsInv /\ AskedInv /\ OrderInv

FirstKinds == {"ask", "refresh", "back"}

LEMMA ListState ==
  ASSUME ListAssumption, ListIndInv
  PROVE  /\ Pages \in Nat \ {0} /\ MaxLoads \in Nat \ {0}
         /\ screen \in Screens /\ query \in Queries /\ rows \in Seq(PageRow) /\ next \in 0..Pages
         /\ turning \subseteq Spinners /\ failed \in BOOLEAN /\ pulled \in BOOLEAN
         /\ calls \subseteq Loads /\ loads \in Nat /\ loads <= MaxLoads /\ 1 <= loads
         /\ era \in Nat /\ 1 <= era /\ era <= loads
         /\ \A c \in calls : /\ c.id \in Nat /\ 1 <= c.id /\ c.id <= loads
                             /\ c.era \in Nat /\ c.era <= era
                             /\ c.page \in 1..Pages /\ c.query \in Queries /\ c.origin \in Queries
                             /\ c.kind \in FirstKinds \cup {"more"}
BY DEF ListAssumption, ListIndInv, ListTypeOK, LoadsInv, PageRow, Loads, FirstKinds

LEMMA ListInitInd == ASSUME ListAssumption, ListInit PROVE ListIndInv
<1>1. ListTypeOK
  <2>1. calls \subseteq Loads
    BY DEF ListAssumption, ListInit, Loads
  <2>2. turning \subseteq Spinners
    BY DEF ListInit, Spinners
  <2>3. next \in 0..Pages /\ loads \in 1..MaxLoads /\ era \in 1..loads
    BY DEF ListAssumption, ListInit
  <2>4. rows \in Seq([page : 1..Pages, query : Queries, origin : Queries])
    BY DEF ListInit
  <2> QED BY <2>1, <2>2, <2>3, <2>4 DEF ListInit, ListTypeOK
<1>2. LoadsInv
  BY DEF ListInit, LoadsInv
<1>3. Fresh /\ \A c \in calls : c.query = query /\ c.origin = query /\ c.kind = "ask" /\ c.era = era
  BY DEF ListInit, Fresh
<1>4. AskedInv
  BY <1>3 DEF AskedInv
<1>5. OrderInv
  BY <1>3 DEF ListInit, OrderInv
<1> QED BY <1>1, <1>2, <1>4, <1>5 DEF ListIndInv

-----------------------------------------------------------------------------
\* A list that is emptied or left alone.
LEMMA EmptyRows ==
  ASSUME ListAssumption, ListIndInv, NEW asked \in BOOLEAN, Empty(asked)
  PROVE  /\ (rows' = <<>> /\ next' = 0) \/ UNCHANGED <<rows, next>>
         /\ rows' \in Seq(PageRow) /\ next' \in 0..Pages
         /\ screen.clears \in {"query", "load"} /\ asked => rows' = <<>>
<1>1. /\ (rows' = <<>> /\ next' = 0) \/ UNCHANGED <<rows, next>>
      /\ screen.clears \in {"query", "load"} /\ asked => rows' = <<>>
  BY DEF Empty
<1>2. <<>> \in Seq(PageRow) /\ 0 \in 0..Pages
  BY ListState
<1> QED BY <1>1, <1>2, ListState

\* The calls for first pages are new, and the last of them is the one that counts.
LEMMA NewCalls ==
  ASSUME ListAssumption, ListIndInv, NEW q \in Queries, NEW kinds \in Seq(FirstKinds), kinds # <<>>,
         LoadFirst(kinds, q), ~(screen.single /\ calls # {})
  PROVE  /\ Len(kinds) \in Nat /\ 1 <= Len(kinds) /\ loads' = loads + Len(kinds) /\ era' = loads' /\ loads' <= MaxLoads
         /\ calls' \subseteq Loads
         /\ \A c \in calls' \ calls : /\ loads < c.id /\ c.id <= loads' /\ c.era = c.id
                                      /\ c.kind \in FirstKinds /\ c.page = 1 /\ c.query = q /\ c.origin = q
         /\ \A c, d \in calls' \ calls : c.id = d.id => c = d
         /\ \E c \in calls' \ calls : c.era = era'
         /\ calls \subseteq calls'
         /\ turning' \subseteq Spinners /\ failed' \in BOOLEAN
         /\ Len(kinds) = 1 => \A c, d \in calls' \ calls : c = d
<1> DEFINE n == Len(kinds)
           new(i) == [id |-> loads + i, kind |-> kinds[i], query |-> q, page |-> 1, origin |-> q, era |-> loads + i]
<1>1. n \in Nat /\ 1 <= n
  OBVIOUS
<1>2. /\ loads + n <= MaxLoads /\ loads' = loads + n /\ era' = loads + n
      /\ calls' = calls \cup {Call(loads + i, kinds[i], q, 1) : i \in 1..n}
      /\ turning' = (turning \ screen.stops) \cup ({Spinner(kinds[i]) : i \in 1..n} \cap Spinners)
      /\ failed' \in BOOLEAN
  BY DEF LoadFirst
<1>3. \A i \in 1..n : kinds[i] \in FirstKinds /\ Call(loads + i, kinds[i], q, 1) = new(i)
  <2>1. \A i \in 1..n : kinds[i] \in FirstKinds
    BY <1>1
  <2> QED BY <2>1 DEF Call, FirstKinds
<1>4. calls' = calls \cup {new(i) : i \in 1..n}
  BY <1>2, <1>3
<1>5. \A i \in 1..n : /\ new(i) \in Loads /\ new(i).id = loads + i /\ new(i).era = loads + i
                      /\ new(i).kind \in FirstKinds /\ new(i).page = 1 /\ new(i).query = q /\ new(i).origin = q
  <2>1. \A i \in 1..n : loads + i \in 1..MaxLoads
    BY <1>1, <1>2, ListState
  <2>2. 1 \in 1..Pages
    BY ListState
  <2> QED BY <1>3, <2>1, <2>2 DEF Loads, FirstKinds
<1>6. \A c \in calls' \ calls : \E i \in 1..n : c = new(i)
  BY <1>4
<1>7. new(n) \in calls' \ calls
  <2>1. new(n) \in calls' /\ new(n).id = loads + n
    BY <1>1, <1>4, <1>5
  <2>2. new(n) \notin calls
    BY <1>1, <2>1, ListState
  <2> QED BY <2>1, <2>2
<1> HIDE DEF new, n
<1>8. \A c \in calls' \ calls : /\ loads < c.id /\ c.id <= loads' /\ c.era = c.id
                                /\ c.kind \in FirstKinds /\ c.page = 1 /\ c.query = q /\ c.origin = q
  <2> SUFFICES ASSUME NEW c \in calls' \ calls
               PROVE  /\ loads < c.id /\ c.id <= loads' /\ c.era = c.id
                      /\ c.kind \in FirstKinds /\ c.page = 1 /\ c.query = q /\ c.origin = q
    OBVIOUS
  <2>1. PICK i \in 1..n : c = new(i)
    BY <1>6
  <2>2. loads < loads + i /\ loads + i <= loads'
    BY <1>1, <1>2, ListState
  <2> QED BY <1>5, <2>1, <2>2
<1>9. \A c, d \in calls' \ calls : c.id = d.id => c = d
  <2> SUFFICES ASSUME NEW c \in calls' \ calls, NEW d \in calls' \ calls, c.id = d.id PROVE c = d
    OBVIOUS
  <2>1. PICK i \in 1..n : c = new(i)
    BY <1>6
  <2>2. PICK j \in 1..n : d = new(j)
    BY <1>6
  <2>3. i = j
    BY <1>5, <2>1, <2>2, ListState
  <2> QED BY <2>1, <2>2, <2>3
<1>10. n = 1 => \A c, d \in calls' \ calls : c = d
  BY <1>6
<1>11. calls' \subseteq Loads
  BY <1>4, <1>5, ListState
<1>12. new(n).era = era'
  BY <1>1, <1>2, <1>5
<1> QED BY <1>1, <1>2, <1>4, <1>7, <1>8, <1>9, <1>10, <1>11, <1>12, ListState DEF n

\* A request for first pages that comes while a single load runs is dropped, and its answer will ask again.
LEMMA DroppedKeeps ==
  ASSUME ListAssumption, ListIndInv, NEW q \in Queries, NEW asked \in BOOLEAN, Empty(asked), query' = q,
         screen.single /\ calls # {}, Pageless(screen), loads < MaxLoads,
         q # query => ~Fixed(screen),
         pulled' \in BOOLEAN, UNCHANGED <<screen, turning, failed, calls, era, loads>>
  PROVE  ListIndInv'
<1>1. ListTypeOK'
  BY ListState, EmptyRows DEF ListTypeOK, PageRow, ListIndInv
<1>2. LoadsInv'
  BY ListState, EmptyRows DEF LoadsInv, ListIndInv
<1>3. AskedInv'
  <2>1. Fixed(screen) => q = query /\ (Fresh => Fresh')
    BY EmptyRows DEF Fresh
  <2> QED BY <2>1 DEF AskedInv, ListIndInv, Fixed, OrdersQueries
<1>4. OrderInv'
  BY EmptyRows, ListState DEF OrderInv, ListIndInv, OrdersPages, Pageless
<1> QED BY <1>1, <1>2, <1>3, <1>4 DEF ListIndInv

LEMMA FirstKeeps ==
  ASSUME ListAssumption, ListIndInv, NEW q \in Queries, NEW kinds \in Seq(FirstKinds), kinds # <<>>,
         LoadFirst(kinds, q), query' = q, NEW asked \in BOOLEAN, Empty(asked),
         screen.single => Pageless(screen) /\ Len(kinds) = 1,
         q # query => asked /\ ~Fixed(screen),
         pulled' \in BOOLEAN, UNCHANGED screen
  PROVE  ListIndInv'
<1>1. CASE screen.single /\ calls # {}
  <2>1. loads < MaxLoads /\ UNCHANGED <<turning, failed, calls, era, loads>>
    <3>1. Len(kinds) \in Nat /\ 1 <= Len(kinds)
      OBVIOUS
    <3> QED BY <1>1, <3>1, ListState DEF LoadFirst
  <2> QED BY <1>1, <2>1, DroppedKeeps
<1>2. CASE ~(screen.single /\ calls # {})
  <2>1. /\ loads' \in Nat /\ loads < loads' /\ loads' <= MaxLoads /\ era' = loads' /\ calls' \subseteq Loads
        /\ turning' \subseteq Spinners /\ failed' \in BOOLEAN /\ calls \subseteq calls'
    BY <1>2, ListState, NewCalls
  <2>2. \A c \in calls' \ calls : /\ loads < c.id /\ c.id <= loads' /\ c.era = c.id
                                  /\ c.kind \in FirstKinds /\ c.page = 1 /\ c.query = q /\ c.origin = q
    BY <1>2, NewCalls
  <2>3. \A c, d \in calls' \ calls : c.id = d.id => c = d
    BY <1>2, NewCalls
  <2>4. PICK last \in calls' \ calls : last.era = era'
    BY <1>2, NewCalls
  <2>5. screen.single => \A c \in calls' : calls' = {c}
    BY <1>2, <2>4, NewCalls
  <2>6. \A c \in calls : c.id <= loads /\ c.era <= loads /\ c.era < era'
    BY <2>1, ListState
  <2>7. ListTypeOK'
    <3>1. loads' \in 1..MaxLoads /\ era' \in 1..loads'
      BY <2>1, ListState
    <3> QED BY <2>1, <3>1, ListState, EmptyRows DEF ListTypeOK, PageRow
  <2>8. LoadsInv'
    <3>1. next' # 0 => rows' # <<>>
      BY EmptyRows DEF ListIndInv, LoadsInv
    <3>2. \A c \in calls' : /\ c.id <= loads' /\ c.era <= era'
                            /\ c.kind # "more" => c.page = 1 /\ c.origin = c.query /\ c.era = c.id
                            /\ c.kind = "more" => "end" \in DOMAIN screen.locks
                            /\ c.kind = "more" /\ screen.counts => c.era = c.id
      <4>1. TAKE c \in calls'
      <4>2. CASE c \in calls
        BY <2>1, <2>6, <4>2, ListState DEF ListIndInv, LoadsInv
      <4>3. CASE c \notin calls
        BY <2>1, <2>2, <4>3 DEF FirstKinds
      <4> QED BY <4>2, <4>3
    <3>3. \A c, d \in calls' : c.id = d.id => c = d
      <4>1. \A c, d \in calls : c.id = d.id => c = d
        BY DEF ListIndInv, LoadsInv
      <4>2. \A c \in calls, d \in calls' \ calls : c.id # d.id
        BY <2>1, <2>2, ListState, SMT
      <4> QED BY <2>3, <4>1, <4>2
    <3>4. screen.single => \A c \in calls' : calls' = {c} /\ c.query = q
      BY <1>2, <2>2, <2>5
    <3> QED BY <3>1, <3>2, <3>3, <3>4 DEF LoadsInv
  <2>9. \A c \in calls' : c.era = era' => c.query = q /\ c.kind # "more"
    BY <2>1, <2>2, <2>6, ListState DEF FirstKinds
  <2>10. Awaited' /\ calls' # {}
    BY <2>2, <2>4 DEF Awaited, FirstKinds
  <2>11. AskedInv'
    <3>1. CASE Fixed(screen)
      <4>1. q = query /\ Fresh /\ \A c \in calls : c.query = query /\ c.origin = query
        BY <3>1 DEF ListIndInv, AskedInv
      <4>2. Fresh'
        BY <4>1, EmptyRows DEF Fresh
      <4> QED BY <2>2, <3>1, <4>1, <4>2 DEF AskedInv
    <3>2. CASE ~Fixed(screen) /\ OrdersQueries(screen) /\ screen.single
      BY <2>10, <3>2 DEF AskedInv
    <3>3. CASE ~Fixed(screen) /\ OrdersQueries(screen) /\ ~screen.single
      <4>1. ASSUME screen.clears # "never" PROVE Fresh' /\ \A c \in calls' : c.origin = c.query
        <5>1. screen.clears \in {"query", "load"}
          BY <3>3, <4>1 DEF OrdersQueries
        <5>2. Fresh /\ \A c \in calls : c.origin = c.query
          BY <3>3, <4>1 DEF ListIndInv, AskedInv
        <5>3. rows' = <<>> \/ (rows' = rows /\ q = query)
          BY <5>1, EmptyRows
        <5> QED BY <2>2, <5>2, <5>3 DEF Fresh
      <4> QED BY <2>9, <2>10, <3>3, <4>1 DEF AskedInv
    <3>4. CASE ~Fixed(screen) /\ ~OrdersQueries(screen)
      BY <3>4 DEF AskedInv
    <3> QED BY <3>1, <3>2, <3>3, <3>4
  <2>12. OrderInv'
    <3>1. /\ OrdersPages(screen) => (next' # 0 => next' = Len(rows') + 1)
          /\ OrdersPages(screen) => (\A i \in DOMAIN rows' : rows'[i].page = i) /\ (Pageless(screen) => Len(rows') <= 1)
      BY EmptyRows DEF ListIndInv, OrderInv
    <3> QED BY <2>9, <3>1 DEF OrderInv
  <2> QED BY <2>7, <2>8, <2>11, <2>12 DEF ListIndInv
<1> QED BY <1>1, <1>2

LEMMA Singles ==
  ASSUME ScreensAreOrdered, ListAssumption, ListIndInv, screen.single
  PROVE  Pageless(screen) /\ ~screen.skips /\ screen.echo = "never"
BY ListState DEF ScreensAreOrdered

\* A query whose rows are listed is not asked for again.
LEMMA SkipKeeps ==
  ASSUME ScreensAreOrdered, ListAssumption, ListIndInv, NEW q \in Queries, query' = q, Empty(TRUE), screen.skips,
         ~Fixed(screen), UNCHANGED <<screen, turning, failed, calls, era, loads, pulled>>
  PROVE  ListIndInv'
<1>0. /\ (rows' = <<>> /\ next' = 0) \/ UNCHANGED <<rows, next>>
      /\ rows' \in Seq(PageRow) /\ next' \in 0..Pages
  <2>1. TRUE \in BOOLEAN
    OBVIOUS
  <2> QED BY <2>1, EmptyRows
<1>1. ListTypeOK'
  BY <1>0, ListState DEF ListTypeOK, PageRow, ListIndInv
<1>2. LoadsInv'
  BY <1>0, Singles DEF LoadsInv, ListIndInv
<1>3. AskedInv'
  BY Singles DEF AskedInv, OrdersQueries
<1>4. OrderInv'
  <2>1. OrdersPages(screen) /\ ~Pageless(screen) => UNCHANGED <<rows, next>>
    BY DEF OrdersPages, Empty
  <2>2. OrdersPages(screen) => /\ \A i \in DOMAIN rows' : rows'[i].page = i
                               /\ next' # 0 => next' = Len(rows') + 1
                               /\ Pageless(screen) => Len(rows') <= 1
    BY <1>0 DEF ListIndInv, OrderInv
  <2> QED BY <2>1, <2>2 DEF ListIndInv, OrderInv
<1> QED BY <1>1, <1>2, <1>3, <1>4 DEF ListIndInv

LEMMA FirstLoadsKeep ==
  ASSUME ScreensAreOrdered, ListAssumption, ListIndInv,
         (\E q \in Queries : Ask(q)) \/ RefreshList \/ Retry \/ ComeBack
  PROVE  ListIndInv'
<1>1. /\ <<"ask">> \in Seq(FirstKinds) /\ <<"refresh">> \in Seq(FirstKinds) /\ <<"back">> \in Seq(FirstKinds)
      /\ <<"ask", "back">> \in Seq(FirstKinds) /\ <<"ask", "refresh">> \in Seq(FirstKinds)
  BY DEF FirstKinds
<1>2. query \in Queries
  BY ListState
<1>3. ASSUME NEW q \in Queries, Ask(q) PROVE ListIndInv'
  <2>1. query' = q /\ Empty(TRUE) /\ UNCHANGED <<screen, pulled>> /\ ~Fixed(screen)
    BY <1>3 DEF Ask, Offers, Fixed
  <2>2. CASE screen.skips /\ Listed(q)
    <3>1. UNCHANGED <<turning, failed, calls, era, loads>>
      BY <1>3, <2>2 DEF Ask
    <3> QED BY <2>1, <2>2, <3>1, SkipKeeps
  <2>3. CASE ~(screen.skips /\ Listed(q))
    <3>1. \/ LoadFirst(<<"ask">>, q)
          \/ screen.echo # "never" /\ (LoadFirst(<<"ask", "back">>, q) \/ LoadFirst(<<"ask", "refresh">>, q))
      <4>1. CASE screen.echo = "loaded" /\ rows # <<>>
        BY <1>3, <2>3, <4>1 DEF Ask
      <4>2. CASE screen.echo = "refreshed" /\ pulled
        BY <1>3, <2>3, <4>2 DEF Ask
      <4>3. CASE ~(screen.echo = "loaded" /\ rows # <<>>) /\ ~(screen.echo = "refreshed" /\ pulled)
        BY <1>3, <2>3, <4>3 DEF Ask
      <4> QED BY <4>1, <4>2, <4>3
    <3>2. PICK kinds \in Seq(FirstKinds) : /\ kinds # <<>> /\ LoadFirst(kinds, q)
                                           /\ screen.single => Len(kinds) = 1
      <4>1. Len(<<"ask">>) = 1 /\ <<"ask">> # <<>> /\ <<"ask", "back">> # <<>> /\ <<"ask", "refresh">> # <<>>
        OBVIOUS
      <4> QED BY <1>1, <3>1, <4>1, Singles
    <3>3. screen.single => Pageless(screen) /\ Len(kinds) = 1
      BY <3>2, Singles
    <3>4. pulled' \in BOOLEAN
      BY <2>1, ListState
    <3> QED BY <2>1, <3>2, <3>3, <3>4, FirstKeeps
  <2> QED BY <2>2, <2>3
<1>4. ASSUME NEW k \in FirstKinds, LoadFirst(<<k>>, query), query' = query, Empty(FALSE), UNCHANGED screen,
             pulled' \in BOOLEAN
      PROVE  ListIndInv'
  <2>1. <<k>> \in Seq(FirstKinds) /\ Len(<<k>>) = 1 /\ <<k>> # <<>>
    BY <1>1 DEF FirstKinds
  <2>2. screen.single => Pageless(screen) /\ Len(<<k>>) = 1
    BY <2>1, Singles
  <2>3. FALSE \in BOOLEAN
    OBVIOUS
  <2> QED BY <1>2, <1>4, <2>1, <2>2, <2>3, FirstKeeps
<1>5. "ask" \in FirstKinds /\ "refresh" \in FirstKinds /\ "back" \in FirstKinds
  BY DEF FirstKinds
<1>6. CASE RefreshList
  <2>1. LoadFirst(<<"refresh">>, query) /\ query' = query /\ Empty(FALSE) /\ UNCHANGED screen /\ pulled' \in BOOLEAN
    BY <1>6 DEF RefreshList
  <2> QED BY <1>4, <1>5, <2>1
<1>7. CASE Retry
  <2>1. LoadFirst(<<"ask">>, query) /\ query' = query /\ Empty(FALSE) /\ UNCHANGED screen /\ pulled' \in BOOLEAN
    BY <1>7, ListState DEF Retry
  <2> QED BY <1>4, <1>5, <2>1
<1>8. CASE ComeBack
  <2>1. LoadFirst(<<"back">>, query) /\ query' = query /\ Empty(FALSE) /\ UNCHANGED screen /\ pulled' \in BOOLEAN
    BY <1>8, ListState DEF ComeBack
  <2> QED BY <1>4, <1>5, <2>1
<1> QED BY <1>3, <1>6, <1>7, <1>8

LEMMA MoreKeeps == ASSUME ScreensAreOrdered, ListAssumption, ListIndInv, LoadMore PROVE ListIndInv'
<1> DEFINE more == Call(loads + 1, "more", query, next)
<1>1. /\ "end" \in DOMAIN screen.locks /\ next # 0 /\ loads < MaxLoads /\ loads' = loads + 1
      /\ calls' = calls \cup {more} /\ era' = (IF screen.counts THEN loads + 1 ELSE era)
      /\ turning' = turning \cup {"more"} /\ failed' \in BOOLEAN
      /\ UNCHANGED <<screen, query, rows, next, pulled>>
  BY DEF LoadMore, Offers
<1>2. ~Pageless(screen) /\ ~screen.single
  BY <1>1, Singles DEF Pageless
<1>3. rows # <<>> /\ rows[1] \in PageRow /\ 1 \in DOMAIN rows
  <2>1. rows # <<>>
    BY <1>1 DEF ListIndInv, LoadsInv
  <2> QED BY <2>1, ListState
<1>4. /\ more \in Loads /\ more.id = loads + 1 /\ more.kind = "more" /\ more.query = query /\ more.page = next
      /\ more.origin = rows[1].query /\ more.era = era'
  <2>1. loads + 1 \in 1..MaxLoads /\ era \in 1..MaxLoads /\ next \in 1..Pages /\ query \in Queries
        /\ rows[1].query \in Queries
    BY <1>1, <1>3, ListState DEF PageRow
  <2>2. more = [id |-> loads + 1, kind |-> "more", query |-> query, page |-> next, origin |-> rows[1].query, era |-> era']
    BY <1>1 DEF Call
  <2>3. era' \in 1..MaxLoads
    BY <1>1, <2>1
  <2> HIDE DEF more
  <2> QED BY <2>1, <2>2, <2>3 DEF Loads
<1> HIDE DEF more
<1>5. loads' \in Nat /\ era <= era' /\ era' <= loads' /\ era' \in Nat /\ loads < loads' /\ loads' <= MaxLoads
  BY <1>1, ListState
<1>6. ListTypeOK'
  <2>1. calls' \subseteq Loads
    BY <1>1, <1>4, ListState
  <2>2. loads' \in 1..MaxLoads /\ era' \in 1..loads' /\ turning' \subseteq Spinners
    BY <1>1, <1>5, ListState DEF Spinners
  <2> QED BY <1>1, <2>1, <2>2, ListState DEF ListTypeOK, PageRow
<1>7. LoadsInv'
  <2>1. \A c \in calls' : /\ c.id <= loads' /\ c.era <= era'
                          /\ c.kind # "more" => c.page = 1 /\ c.origin = c.query /\ c.era = c.id
                          /\ c.kind = "more" => "end" \in DOMAIN screen.locks
                          /\ c.kind = "more" /\ screen.counts => c.era = c.id
    <3>1. TAKE c \in calls'
    <3>2. CASE c \in calls
      BY <1>5, <3>2, ListState DEF ListIndInv, LoadsInv
    <3>3. CASE c = more
      BY <1>1, <1>4, <1>5, <3>3
    <3> QED BY <1>1, <3>2, <3>3
  <2>2. \A c, d \in calls' : c.id = d.id => c = d
    <3>1. \A c, d \in calls : c.id = d.id => c = d
      BY DEF ListIndInv, LoadsInv
    <3>2. \A c \in calls : c.id # more.id
      BY <1>4, ListState
    <3> QED BY <1>1, <3>1, <3>2
  <2> QED BY <1>1, <1>2, <1>3, <2>1, <2>2 DEF LoadsInv
<1>8. AskedInv'
  <2>1. Fresh' = Fresh
    BY <1>1 DEF Fresh
  <2>2. Fresh => more.origin = query
    BY <1>3, <1>4 DEF Fresh
  <2>3. CASE Fixed(screen)
    BY <1>1, <1>4, <2>1, <2>2, <2>3 DEF ListIndInv, AskedInv
  <2>4. CASE ~Fixed(screen) /\ OrdersQueries(screen)
    <3>1. screen.clears # "never" /\ Fresh /\ \A c \in calls : c.origin = c.query
      BY <1>2, <2>4 DEF ListIndInv, AskedInv, OrdersQueries
    <3>2. \A c \in calls : c.era = era' => c.query = query
      <4>1. \A c \in calls : c.era = era => c.query = query
        BY <1>2, <2>4 DEF ListIndInv, AskedInv
      <4>2. era' = era \/ \A c \in calls : c.era # era'
        BY <1>1, ListState
      <4> QED BY <4>1, <4>2
    <3> QED BY <1>1, <1>2, <1>4, <2>1, <2>2, <2>4, <3>1, <3>2 DEF AskedInv
  <2>5. CASE ~Fixed(screen) /\ ~OrdersQueries(screen)
    BY <1>1, <2>5 DEF AskedInv
  <2> QED BY <2>3, <2>4, <2>5
<1>9. OrderInv'
  <2>1. CASE OrdersPages(screen)
    <3>1. screen.counts /\ next = Len(rows) + 1 /\ \A i \in DOMAIN rows : rows[i].page = i
      BY <1>1, <1>2, <2>1 DEF ListIndInv, OrderInv, OrdersPages
    <3>2. \A c \in calls : c.era # era'
      BY <1>1, <3>1, ListState
    <3> QED BY <1>1, <1>2, <1>4, <3>1, <3>2 DEF OrderInv
  <2>2. CASE ~OrdersPages(screen)
    BY <1>1, <2>2 DEF OrderInv
  <2> QED BY <2>1, <2>2
<1> QED BY <1>6, <1>7, <1>8, <1>9 DEF ListIndInv

-----------------------------------------------------------------------------
(* Answers. *)

\* What an answer that counts makes of the list: its page alone, one page more, or what it was.
LEMMA AnsweredRows ==
  ASSUME ListAssumption, ListIndInv, NEW c \in calls, Answer(c), ~Dropped(c)
  PROVE  /\ Page(c) \in PageRow /\ rows' \in Seq(PageRow) /\ next' = Follow(c) /\ next' \in 0..Pages
         /\ c.kind # "more" => rows' = <<Page(c)>>
         /\ c.kind = "more" => rows' = IF Known(Page(c)) THEN rows ELSE Append(rows, Page(c))
         /\ rows' # <<>>
<1>1. c.page \in 1..Pages /\ c.query \in Queries /\ c.origin \in Queries /\ Pages \in Nat /\ rows \in Seq(PageRow)
  BY ListState
<1>2. Page(c) \in PageRow
  BY <1>1 DEF Page, PageRow
<1>3. Follow(c) \in 0..Pages
  BY <1>1 DEF Follow
<1>4. /\ next' = Follow(c)
      /\ c.kind # "more" => rows' = <<Page(c)>>
      /\ c.kind = "more" => rows' = IF Known(Page(c)) THEN rows ELSE Append(rows, Page(c))
  BY DEF Answer
<1>5. Known(Page(c)) => rows # <<>>
  BY DEF Known
<1> HIDE DEF PageRow, Page
<1>6. rows' \in Seq(PageRow) /\ rows' # <<>>
  <2>1. \/ rows' = <<Page(c)>>
        \/ rows' = rows /\ rows # <<>>
        \/ rows' = Append(rows, Page(c))
    BY <1>4, <1>5
  <2>2. \A e \in PageRow : /\ <<e>> \in Seq(PageRow) /\ <<e>> # <<>>
                           /\ Append(rows, e) \in Seq(PageRow) /\ Len(Append(rows, e)) = Len(rows) + 1
    BY <1>1
  <2>3. Len(rows) \in Nat /\ Len(<<>>) = 0
    BY <1>1
  <2>4. CASE rows' = <<Page(c)>>
    BY <1>2, <2>2, <2>4
  <2>5. CASE rows' = rows /\ rows # <<>>
    BY <1>1, <2>5
  <2>6. CASE rows' = Append(rows, Page(c))
    <3>1. rows' \in Seq(PageRow) /\ Len(rows') = Len(rows) + 1
      BY <1>2, <2>2, <2>6
    <3> QED BY <2>3, <3>1
  <2> QED BY <2>1, <2>4, <2>5, <2>6
<1> QED BY <1>2, <1>3, <1>4, <1>6

\* The calls that are left after an answer; one load at a time may ask again.
LEMMA CallsLeft ==
  ASSUME ScreensAreOrdered, ListAssumption, ListIndInv, NEW c \in calls, Answer(c)
  PROVE  /\ calls' \subseteq Loads /\ loads' \in Nat /\ loads <= loads' /\ loads' <= MaxLoads
         /\ era' \in Nat /\ era <= era' /\ era' <= loads'
         /\ ~screen.single \/ c.query = query => calls' = calls \ {c} /\ era' = era /\ loads' = loads
         /\ screen.single /\ c.query # query =>
              \E new \in Loads : /\ calls' = {new} /\ new.query = query /\ new.origin = query /\ new.page = 1
                                 /\ new.kind = "ask" /\ new.id = loads' /\ new.era = loads' /\ era' = loads'
         /\ screen.single => calls = {c}
<1>1. CASE screen.single /\ c.query # query
  <2>1. calls' = {Call(loads + 1, "ask", query, 1)} /\ loads' = loads + 1 /\ era' = loads + 1
    BY <1>1 DEF Answer
  <2>2. calls = {c} /\ loads < MaxLoads
    BY <1>1 DEF ListIndInv, LoadsInv
  <2> DEFINE new == [id |-> loads + 1, kind |-> "ask", query |-> query, page |-> 1, origin |-> query, era |-> loads + 1]
  <2>3. Call(loads + 1, "ask", query, 1) = new
    BY DEF Call
  <2>4. loads + 1 \in 1..MaxLoads /\ 1 \in 1..Pages /\ query \in Queries
    BY <2>2, ListState
  <2>5. new \in Loads
    BY <2>4 DEF Loads
  <2>6. \E any \in Loads : /\ calls' = {any} /\ any.query = query /\ any.origin = query /\ any.page = 1
                           /\ any.kind = "ask" /\ any.id = loads' /\ any.era = loads' /\ era' = loads'
    BY <2>1, <2>3, <2>5
  <2>7. calls' \subseteq Loads
    BY <2>1, <2>3, <2>5
  <2> HIDE DEF new
  <2>8. loads' \in Nat /\ loads <= loads' /\ loads' <= MaxLoads /\ era' \in Nat /\ era <= era' /\ era' <= loads'
    BY <2>1, <2>2, ListState
  <2> QED BY <1>1, <2>2, <2>6, <2>7, <2>8
<1>2. CASE ~(screen.single /\ c.query # query)
  <2>1. calls' = calls \ {c} /\ UNCHANGED <<era, loads>>
    BY <1>2 DEF Answer
  <2>2. screen.single => calls = {c}
    BY DEF ListIndInv, LoadsInv
  <2> QED BY <1>2, <2>1, <2>2, ListState
<1> QED BY <1>1, <1>2

LEMMA AnswerKeepsLoads ==
  ASSUME ScreensAreOrdered, ListAssumption, ListIndInv, NEW c \in calls, Answer(c)
  PROVE  ListTypeOK' /\ LoadsInv'
<1>0. UNCHANGED <<screen, query, pulled>> /\ turning' \subseteq turning /\ failed' \in BOOLEAN
  BY DEF Answer
<1>1. rows' \in Seq(PageRow) /\ next' \in 0..Pages /\ (next' # 0 => rows' # <<>>)
  <2>1. CASE Dropped(c)
    BY <2>1, ListState DEF Answer, ListIndInv, LoadsInv
  <2>2. CASE ~Dropped(c)
    BY <2>2, AnsweredRows
  <2> QED BY <2>1, <2>2
<1>2. ListTypeOK'
  <2>1. loads' \in 1..MaxLoads /\ era' \in 1..loads' /\ calls' \subseteq Loads
    BY CallsLeft, ListState
  <2> QED BY <1>0, <1>1, <2>1, ListState DEF ListTypeOK, PageRow
<1>3. LoadsInv'
  <2>1. CASE screen.single /\ c.query # query
    <3>1. PICK new \in Loads : /\ calls' = {new} /\ new.query = query /\ new.origin = query /\ new.page = 1
                               /\ new.kind = "ask" /\ new.id = loads' /\ new.era = loads' /\ era' = loads'
      BY <2>1, CallsLeft
    <3> QED BY <1>0, <1>1, <3>1, CallsLeft DEF LoadsInv
  <2>2. CASE ~(screen.single /\ c.query # query)
    <3>1. calls' = calls \ {c} /\ era' = era /\ loads' = loads /\ (screen.single => calls' = {})
      BY <2>2, CallsLeft
    <3> QED BY <1>0, <1>1, <3>1 DEF ListIndInv, LoadsInv
  <2> QED BY <2>1, <2>2
<1> QED BY <1>2, <1>3

LEMMA AnswerKeepsAsked ==
  ASSUME ScreensAreOrdered, ListAssumption, ListIndInv, NEW c \in calls, Answer(c)
  PROVE  AskedInv'
<1>0. UNCHANGED <<screen, query>> /\ (Dropped(c) => UNCHANGED <<rows, next, failed>>)
  <2>1. failed \in BOOLEAN
    BY ListState
  <2> QED BY <2>1 DEF Answer
<1>1. Page(c).query = c.query /\ Page(c).origin = c.origin
  BY DEF Page
<1>2. ASSUME ~Dropped(c), c.kind # "more", c.query = query, c.origin = query PROVE Fresh'
  <2>1. rows' = <<Page(c)>>
    BY <1>2, AnsweredRows
  <2> HIDE DEF Page
  <2> QED BY <1>0, <1>1, <1>2, <2>1 DEF Fresh
<1>3. ASSUME ~Dropped(c), c.kind = "more", c.query = query, c.origin = query, Fresh PROVE Fresh'
  <2>1. rows' = rows \/ rows' = Append(rows, Page(c))
    BY <1>3, AnsweredRows
  <2>2. rows \in Seq(PageRow)
    BY ListState
  <2> HIDE DEF Page
  <2> QED BY <1>0, <1>1, <1>3, <2>1, <2>2 DEF Fresh
<1>4. Dropped(c) => Fresh' = Fresh
  BY <1>0 DEF Fresh
<1>5. c.kind # "more" => c.origin = c.query /\ c.era = c.id
  BY DEF ListIndInv, LoadsInv
<1>6. c.kind = "more" => ~Pageless(screen)
  BY DEF ListIndInv, LoadsInv, Pageless
<1>7. CASE Fixed(screen)
  <2>1. Fresh /\ \A d \in calls : d.query = query /\ d.origin = query
    BY <1>7 DEF ListIndInv, AskedInv
  <2>2. Fresh'
    BY <1>2, <1>3, <1>4, <2>1
  <2>3. calls' = calls \ {c}
    BY <2>1, CallsLeft
  <2> QED BY <1>0, <1>7, <2>1, <2>2, <2>3 DEF AskedInv
<1>8. CASE ~Fixed(screen) /\ OrdersQueries(screen) /\ screen.single
  <2>1. ~Dropped(c) /\ c.kind # "more"
    BY <1>6, <1>8 DEF OrdersQueries, Dropped
  <2>2. c.query = query => Fresh'
    BY <1>2, <1>5, <2>1
  <2>3. c.query # query => calls' # {}
    BY <1>8, CallsLeft
  <2> QED BY <1>0, <1>8, <2>2, <2>3 DEF AskedInv
<1>9. CASE ~Fixed(screen) /\ OrdersQueries(screen) /\ ~screen.single
  <2>1. calls' = calls \ {c} /\ era' = era /\ screen.latest
    BY <1>9, CallsLeft DEF OrdersQueries
  <2>2. \A d \in calls : d.era = era => d.query = query
    BY <1>9 DEF ListIndInv, AskedInv
  <2>3. c.kind # "more" /\ ~Dropped(c) => Fresh'
    BY <1>2, <1>5, <2>1, <2>2 DEF Dropped, Overtaken
  <2>4. CASE screen.clears # "never"
    <3>1. Fresh /\ (\A d \in calls : d.origin = d.query) /\ (Pageless(screen) \/ screen.checks \in {"latest", "listed"})
      BY <1>9, <2>4 DEF ListIndInv, AskedInv, OrdersQueries
    <3>2. c.kind = "more" /\ ~Dropped(c) => c.query = query
      <4>1. CASE screen.checks = "latest"
        BY <2>2, <4>1 DEF Dropped, Overtaken
      <4>2. CASE screen.checks = "listed"
        <5>1. Listed(c.query) => rows # <<>> /\ rows[1].query = c.query
          BY DEF Listed
        <5>2. rows # <<>> => 1 \in DOMAIN rows
          BY ListState
        <5> QED BY <3>1, <4>2, <5>1, <5>2 DEF Dropped, Fresh
      <4> QED BY <1>6, <3>1, <4>1, <4>2
    <3>3. Fresh'
      BY <1>3, <1>4, <2>3, <3>1, <3>2
    <3> QED BY <1>0, <1>9, <2>1, <2>2, <2>4, <3>1, <3>3 DEF AskedInv
  <2>5. CASE screen.clears = "never"
    <3>1. c.kind # "more"
      BY <1>6, <1>9, <2>5 DEF OrdersQueries
    <3>2. Fresh \/ failed \/ Awaited
      BY <1>9, <2>5 DEF ListIndInv, AskedInv
    <3>3. Dropped(c) => (Awaited => Awaited')
      BY <2>1, <3>1 DEF Dropped, Overtaken, Awaited
    <3>4. Fresh' \/ failed' \/ Awaited'
      BY <1>0, <1>4, <2>3, <3>1, <3>2, <3>3
    <3> QED BY <1>0, <1>9, <2>1, <2>2, <2>5, <3>4 DEF AskedInv
  <2> QED BY <2>4, <2>5
<1>10. CASE ~Fixed(screen) /\ ~OrdersQueries(screen)
  BY <1>0, <1>10 DEF AskedInv
<1> QED BY <1>7, <1>8, <1>9, <1>10

LEMMA AnswerKeepsOrder ==
  ASSUME ScreensAreOrdered, ListAssumption, ListIndInv, NEW c \in calls, Answer(c)
  PROVE  OrderInv'
<1> SUFFICES ASSUME OrdersPages(screen) PROVE OrderInv'
  BY DEF Answer, OrderInv
<1>0. screen' = screen /\ (Dropped(c) => UNCHANGED <<rows, next>>)
  BY DEF Answer
<1>1. /\ \A i \in DOMAIN rows : rows[i].page = i
      /\ next # 0 => next = Len(rows) + 1
      /\ Pageless(screen) => Len(rows) <= 1
      /\ ~Pageless(screen) => \A d \in calls : d.kind = "more" /\ d.era = era => d.page = Len(rows) + 1
  BY DEF ListIndInv, OrderInv
<1>2. c.page \in Nat /\ Page(c).page = c.page /\ Pages \in Nat /\ rows \in Seq(PageRow) /\ Len(rows) \in Nat
  BY ListState DEF Page
<1>3. c.kind # "more" => c.page = 1
  BY DEF ListIndInv, LoadsInv
<1>4. ASSUME ~Dropped(c), c.kind # "more"
      PROVE  /\ \A i \in DOMAIN rows' : rows'[i].page = i
             /\ next' # 0 => next' = Len(rows') + 1
             /\ Len(rows') = 1
  <2>1. rows' = <<Page(c)>> /\ next' = Follow(c)
    BY <1>4, AnsweredRows
  <2>2. Follow(c) # 0 => Follow(c) = 2
    BY <1>2, <1>3, <1>4 DEF Follow
  <2> HIDE DEF Page
  <2> QED BY <1>2, <1>3, <1>4, <2>1, <2>2
<1>5. CASE Pageless(screen)
  <2>1. c.kind # "more"
    BY <1>5 DEF ListIndInv, LoadsInv, Pageless
  <2>2. /\ \A i \in DOMAIN rows' : rows'[i].page = i
        /\ next' # 0 => next' = Len(rows') + 1
        /\ Len(rows') <= 1
    <3>1. CASE Dropped(c)
      BY <1>0, <1>1, <1>5, <3>1
    <3>2. CASE ~Dropped(c)
      <4>1. /\ \A i \in DOMAIN rows' : rows'[i].page = i
            /\ next' # 0 => next' = Len(rows') + 1
            /\ Len(rows') = 1
        BY <1>4, <2>1, <3>2
      <4> QED BY <4>1
    <3> QED BY <3>1, <3>2
  <2> QED BY <1>0, <1>5, <2>2 DEF OrderInv
<1>6. CASE ~Pageless(screen)
  <2>1. screen.latest /\ screen.counts /\ screen.checks = "latest" /\ ~screen.single
    BY <1>6 DEF OrdersPages
  <2>2. calls' = calls \ {c} /\ era' = era
    BY <2>1, CallsLeft
  <2>3. CASE Dropped(c)
    BY <1>0, <1>1, <1>6, <2>2, <2>3 DEF OrderInv
  <2>4. CASE ~Dropped(c)
    <3>1. c.era = era
      BY <2>1, <2>4 DEF Dropped, Overtaken
    <3>2. \A d \in calls' : d.era # era'
      BY <2>1, <2>2, <3>1 DEF ListIndInv, LoadsInv
    <3>3. CASE c.kind # "more"
      BY <1>0, <1>4, <1>6, <2>4, <3>2, <3>3 DEF OrderInv
    <3>4. CASE c.kind = "more"
      <4>1. c.page = Len(rows) + 1
        BY <1>1, <1>6, <3>1, <3>4
      <4>2. ~Known(Page(c))
        BY <1>1, <1>2, <4>1 DEF Known
      <4>3. rows' = Append(rows, Page(c)) /\ next' = Follow(c)
        BY <2>4, <3>4, <4>2, AnsweredRows
      <4>4. Follow(c) # 0 => Follow(c) = c.page + 1
        BY DEF Follow
      <4> HIDE DEF Page
      <4>5. Len(rows') = Len(rows) + 1 /\ \A i \in DOMAIN rows' : rows'[i].page = i
        BY <1>1, <1>2, <4>1, <4>3
      <4> QED BY <1>0, <1>2, <1>6, <3>2, <4>1, <4>3, <4>4, <4>5 DEF OrderInv
    <3> QED BY <3>3, <3>4
  <2> QED BY <2>3, <2>4
<1> QED BY <1>5, <1>6

LEMMA FailureKeepsList ==
  ASSUME ScreensAreOrdered, ListAssumption, ListIndInv, NEW c \in calls, LoadFails(c)
  PROVE  ListIndInv'
<1>1. /\ calls' = calls \ {c} /\ turning' \subseteq turning /\ UNCHANGED <<screen, query, pulled, era, loads>>
      /\ failed' \in BOOLEAN /\ (failed => failed') /\ (~Dropped(c) /\ c.kind \in screen.tells => failed')
      /\ (rows' = <<>> /\ next' = 0) \/ UNCHANGED <<rows, next>>
      /\ screen.empties /\ ~Dropped(c) => rows' = <<>>
  <2>1. failed \in BOOLEAN
    BY ListState
  <2>2. \A a, b \in BOOLEAN : (a \/ b) \in BOOLEAN
    OBVIOUS
  <2> QED BY <2>1, <2>2 DEF LoadFails
<1>2. ListTypeOK'
  <2>1. <<>> \in Seq(PageRow) /\ 0 \in 0..Pages
    BY ListState
  <2> QED BY <1>1, <2>1, ListState DEF ListTypeOK, ListIndInv, PageRow
<1>3. LoadsInv'
  BY <1>1 DEF ListIndInv, LoadsInv
<1>4. Fresh => Fresh'
  BY <1>1 DEF Fresh
<1>5. AskedInv'
  <2>1. CASE Fixed(screen)
    BY <1>1, <1>4, <2>1 DEF ListIndInv, AskedInv
  <2>2. CASE ~Fixed(screen) /\ OrdersQueries(screen) /\ screen.single
    <3>1. c.kind # "more" /\ c.kind \in FirstKinds
      BY <2>2, ListState DEF ListIndInv, LoadsInv, OrdersQueries, Pageless, FirstKinds
    <3>2. failed'
      BY <1>1, <2>2, <3>1 DEF OrdersQueries, Dropped, FirstKinds
    <3> QED BY <1>1, <2>2, <3>2 DEF AskedInv
  <2>3. CASE ~Fixed(screen) /\ OrdersQueries(screen) /\ ~screen.single
    <3>1. \A d \in calls : d.era = era => d.query = query
      BY <2>3 DEF ListIndInv, AskedInv
    <3>2. screen.clears # "never" => Fresh' /\ \A d \in calls : d.origin = d.query
      BY <1>4, <2>3 DEF ListIndInv, AskedInv
    <3>3. screen.clears = "never" => Fresh' \/ failed' \/ Awaited'
      <4> SUFFICES ASSUME screen.clears = "never", ~Fresh', ~failed' PROVE Awaited'
        OBVIOUS
      <4>1. PICK d \in calls : d.kind # "more" /\ d.era = era
        BY <1>1, <1>4, <2>3 DEF ListIndInv, AskedInv, Awaited
      <4>2. d # c
        <5>1. SUFFICES ASSUME d = c PROVE FALSE
          OBVIOUS
        <5>2. ~Dropped(c) /\ c.kind \in FirstKinds
          BY <4>1, <5>1, ListState DEF Dropped, Overtaken, FirstKinds
        <5>3. screen.empties \/ FirstKinds \subseteq screen.tells
          BY <2>3 DEF OrdersQueries, FirstKinds
        <5>4. rows' = <<>> \/ failed'
          BY <1>1, <5>2, <5>3
        <5> QED BY <5>4 DEF Fresh
      <4> QED BY <1>1, <4>1, <4>2 DEF Awaited
    <3> QED BY <1>1, <2>3, <3>1, <3>2, <3>3 DEF AskedInv
  <2>4. CASE ~Fixed(screen) /\ ~OrdersQueries(screen)
    BY <1>1, <2>4 DEF AskedInv
  <2> QED BY <2>1, <2>2, <2>3, <2>4
<1>6. OrderInv'
  <2> SUFFICES ASSUME OrdersPages(screen) PROVE OrderInv'
    BY <1>1 DEF OrderInv
  <2>1. CASE rows' = <<>> /\ next' = 0 /\ ~(UNCHANGED <<rows, next>>)
    <3>1. ~Dropped(c)
      BY <2>1 DEF LoadFails
    <3>2. ~Pageless(screen) => \A d \in calls' : d.era # era'
      BY <1>1, <3>1 DEF ListIndInv, LoadsInv, OrdersPages, Dropped, Overtaken
    <3> QED BY <1>1, <2>1, <3>2 DEF OrderInv
  <2>2. CASE UNCHANGED <<rows, next>>
    BY <1>1, <2>2 DEF ListIndInv, OrderInv
  <2> QED BY <1>1, <2>1, <2>2
<1> QED BY <1>2, <1>3, <1>5, <1>6 DEF ListIndInv

-----------------------------------------------------------------------------
LEMMA ListStaysInd ==
  ASSUME ScreensAreOrdered, ListAssumption PROVE ListIndInv /\ [ListNext]_listVars => ListIndInv'
<1> SUFFICES ASSUME ListIndInv, [ListNext]_listVars PROVE ListIndInv'
  OBVIOUS
<1>1. CASE UNCHANGED listVars
  BY <1>1 DEF listVars, ListIndInv, ListTypeOK, LoadsInv, AskedInv, OrderInv, Fresh, Awaited
<1>2. CASE (\E q \in Queries : Ask(q)) \/ RefreshList \/ Retry \/ ComeBack
  BY <1>2, FirstLoadsKeep
<1>3. CASE LoadMore
  BY <1>3, MoreKeeps
<1>4. ASSUME NEW c \in calls, Answer(c) PROVE ListIndInv'
  BY <1>4, AnswerKeepsLoads, AnswerKeepsAsked, AnswerKeepsOrder DEF ListIndInv
<1>5. ASSUME NEW c \in calls, LoadFails(c) PROVE ListIndInv'
  BY <1>5, FailureKeepsList
<1> QED BY <1>1, <1>2, <1>3, <1>4, <1>5 DEF ListNext, ListUser, ListServer

LEMMA ListsInvariance == ASSUME ScreensAreOrdered, ListAssumption PROVE ListSpec => []ListIndInv
<1>1. ListInit => ListIndInv
  BY ListInitInd
<1>2. ListIndInv /\ [ListNext]_listVars => ListIndInv'
  BY ListStaysInd
<1> QED BY <1>1, <1>2, PTL DEF ListSpec

\* Cursors, pages and loads of every list are what they are said to be: no page is asked for without
\* rows to follow, and no load beyond the bound.
THEOREM ListsTyped == ASSUME ScreensAreOrdered, ListAssumption PROVE ListSpec => []ListTypeOK
<1>1. ListIndInv => ListTypeOK
  BY DEF ListIndInv
<1> QED BY <1>1, ListsInvariance, PTL

\* A list shows what it was asked for, for any number of queries, pages and loads, in whatever order
\* they are answered or fail, on every screen that orders its queries.
THEOREM OrderedListsShowTheirQuery ==
  ASSUME ScreensAreOrdered, ListAssumption PROVE ListSpec => []ListsWhatIsAsked
<1>1. ListIndInv => ListsWhatIsAsked
  <2> SUFFICES ASSUME ListIndInv, calls = {}, ~failed,
                      screen \notin LastAnswerWins \cup AppendsOldPages \cup FollowsOldCursor \cup LeavesLoadRunning
                                      \cup FailsSilently
               PROVE  Fresh
    BY DEF ListsWhatIsAsked, Fresh
  <2>1. OrdersQueries(screen)
    BY ListState DEF ScreensAreOrdered
  <2> QED BY <2>1 DEF ListIndInv, AskedInv, Awaited
<1> QED BY <1>1, ListsInvariance, PTL

\* The pages of a list follow each other, for any number of queries, pages and loads, on every screen
\* where a page is a load like any other and only the latest load counts.
THEOREM OrderedListsShowTheirPages ==
  ASSUME ScreensAreOrdered, ListAssumption PROVE ListSpec => []PagesInOrder
<1>1. ListIndInv => PagesInOrder
  <2> SUFFICES ASSUME ListIndInv, screen \notin AppendsAfterRefresh PROVE \A i \in DOMAIN rows : rows[i].page = i
    BY DEF PagesInOrder
  <2>1. OrdersPages(screen)
    BY ListState DEF ScreensAreOrdered
  <2> QED BY <2>1 DEF ListIndInv, OrderInv
<1> QED BY <1>1, ListsInvariance, PTL

-----------------------------------------------------------------------------
(* Spinners: the half of SpinnersStop that is no matter of fairness.       *)

\* A spinner that turns has a load that will turn it off.
SpinInv ==
  EndsSpinners(screen) =>
    /\ turning \subseteq FirstSpinners(screen) \cup {"more"}
    /\ turning \cap FirstSpinners(screen) # {} => \E c \in calls : c.kind # "more" /\ (screen.endsLatest => c.era = era)
    /\ Pageless(screen) => "more" \notin turning
    /\ "more" \in turning =>
         \E c \in calls : IF screen.endsLatest /\ screen.counts
                          THEN c.era = era /\ (c.kind = "more" \/ "more" \in screen.ends)
                          ELSE c.kind = "more"


\* A spinner turns only while a load is on its way, which ends and turns it off.
SpinnersAreLoads == turning # {} /\ screen \notin AbortsFirstPage => calls # {}

LEMMA SpinInit == ASSUME ListAssumption, ListInit PROVE SpinInv
<1>1. turning \subseteq FirstSpinners(screen)
  BY DEF ListInit, FirstSpinners, Spinners
<1>2. EndsSpinners(screen) => "more" \notin FirstSpinners(screen)
  BY DEF EndsSpinners
<1>3. \E c \in calls : c.kind # "more" /\ c.era = era
  BY DEF ListInit
<1> QED BY <1>1, <1>2, <1>3 DEF SpinInv

\* First pages turn on their own spinners.
LEMMA FirstKeepsSpinners ==
  ASSUME ListAssumption, ListIndInv, SpinInv, NEW q \in Queries, NEW kinds \in Seq(FirstKinds), kinds # <<>>,
         LoadFirst(kinds, q), UNCHANGED screen,
         \A i \in 1..Len(kinds) : Spinner(kinds[i]) \in Spinners => Spinner(kinds[i]) \in FirstSpinners(screen)
  PROVE  SpinInv'
<1> SUFFICES ASSUME EndsSpinners(screen) PROVE SpinInv'
  BY DEF SpinInv
<1>0. "more" \notin FirstSpinners(screen)
  BY DEF EndsSpinners
<1>1. CASE screen.single /\ calls # {}
  <2>1. UNCHANGED <<turning, calls, era>>
    BY <1>1 DEF LoadFirst
  <2> QED BY <2>1 DEF SpinInv
<1>2. CASE ~(screen.single /\ calls # {})
  <2>1. calls \subseteq calls' /\ \E c \in calls' : c.era = era' /\ c.kind \in FirstKinds
    BY <1>2, NewCalls
  <2>2. PICK last \in calls' : last.era = era' /\ last.kind # "more"
    BY <2>1 DEF FirstKinds
  <2>3. /\ turning' \subseteq (turning \ screen.stops) \cup FirstSpinners(screen)
    BY <1>2 DEF LoadFirst
  <2>4. "more" \in turning' => "more" \in turning /\ "more" \notin screen.stops
    BY <1>0, <2>3
  <2>5. CASE screen.endsLatest /\ screen.counts /\ ~Pageless(screen)
    <3>1. "more" \in screen.stops \cup screen.ends
      BY <2>5 DEF EndsSpinners
    <3> QED BY <2>2, <2>3, <2>4, <2>5, <3>1 DEF SpinInv
  <2>6. CASE ~(screen.endsLatest /\ screen.counts /\ ~Pageless(screen))
    BY <2>1, <2>2, <2>3, <2>4, <2>6 DEF SpinInv
  <2> QED BY <2>5, <2>6
<1> QED BY <1>1, <1>2

LEMMA FirstLoadsKeepSpinners ==
  ASSUME ListAssumption, ListIndInv, SpinInv, (\E q \in Queries : Ask(q)) \/ RefreshList \/ Retry \/ ComeBack
  PROVE  SpinInv'
<1> DEFINE Own(k) == Spinner(k) \in Spinners => Spinner(k) \in FirstSpinners(screen)
<1>1. /\ <<"ask">> \in Seq(FirstKinds) /\ <<"refresh">> \in Seq(FirstKinds) /\ <<"back">> \in Seq(FirstKinds)
      /\ <<"ask", "back">> \in Seq(FirstKinds) /\ <<"ask", "refresh">> \in Seq(FirstKinds)
  BY DEF FirstKinds
<1>2. query \in Queries /\ "silent" \notin Spinners
  BY ListState DEF Spinners
<1>3. Own("ask")
  <2>1. Spinner("ask") = IF screen.ask = "first" THEN IF rows = <<>> THEN "loading" ELSE "silent" ELSE screen.ask
    BY DEF Spinner
  <2> QED BY <1>2, <2>1 DEF FirstSpinners
<1>4. Own("back")
  <2>1. Spinner("back") = screen.back
    BY DEF Spinner
  <2> QED BY <2>1 DEF FirstSpinners
<1>5. {"pull", "button"} \cap DOMAIN screen.locks # {} \/ screen.echo = "refreshed" => Own("refresh")
  <2>1. Spinner("refresh") = screen.refresh
    BY DEF Spinner
  <2> QED BY <2>1 DEF FirstSpinners
<1> HIDE DEF Own
<1>6. ASSUME NEW q \in Queries, NEW k \in FirstKinds, Own(k), LoadFirst(<<k>>, q), UNCHANGED screen PROVE SpinInv'
  <2>1. <<k>> \in Seq(FirstKinds) /\ <<k>> # <<>> /\ Len(<<k>>) = 1 /\ <<k>>[1] = k
    OBVIOUS
  <2>2. \A i \in 1..Len(<<k>>) : Spinner(<<k>>[i]) \in Spinners => Spinner(<<k>>[i]) \in FirstSpinners(screen)
    BY <1>6, <2>1 DEF Own
  <2> QED BY <1>6, <2>1, <2>2, FirstKeepsSpinners
<1>7. ASSUME NEW q \in Queries, NEW k \in FirstKinds, Own(k), LoadFirst(<<"ask", k>>, q), UNCHANGED screen PROVE SpinInv'
  <2>1. <<"ask", k>> \in Seq(FirstKinds) /\ <<"ask", k>> # <<>> /\ Len(<<"ask", k>>) = 2
        /\ <<"ask", k>>[1] = "ask" /\ <<"ask", k>>[2] = k
    BY DEF FirstKinds
  <2>2. \A i \in 1..2 : Spinner(<<"ask", k>>[i]) \in Spinners => Spinner(<<"ask", k>>[i]) \in FirstSpinners(screen)
    <3>1. \A i \in 1..2 : i = 1 \/ i = 2
      OBVIOUS
    <3> QED BY <1>3, <1>7, <2>1, <3>1 DEF Own
  <2> QED BY <1>7, <2>1, <2>2, FirstKeepsSpinners
<1>8. "ask" \in FirstKinds /\ "refresh" \in FirstKinds /\ "back" \in FirstKinds
  BY DEF FirstKinds
<1>9. ASSUME NEW q \in Queries, Ask(q) PROVE SpinInv'
  <2>1. UNCHANGED screen
    BY <1>9 DEF Ask
  <2>2. CASE screen.skips /\ Listed(q)
    BY <1>9, <2>2 DEF Ask, SpinInv
  <2>3. CASE ~(screen.skips /\ Listed(q)) /\ screen.echo = "loaded" /\ rows # <<>>
    <3>1. LoadFirst(<<"ask", "back">>, q)
      BY <1>9, <2>3 DEF Ask
    <3> QED BY <1>4, <1>7, <1>8, <2>1, <3>1
  <2>4. CASE ~(screen.skips /\ Listed(q)) /\ screen.echo = "refreshed" /\ pulled
    <3>1. LoadFirst(<<"ask", "refresh">>, q)
      BY <1>9, <2>4 DEF Ask
    <3> QED BY <1>5, <1>7, <1>8, <2>1, <2>4, <3>1
  <2>5. CASE /\ ~(screen.skips /\ Listed(q))
             /\ ~(screen.echo = "loaded" /\ rows # <<>>) /\ ~(screen.echo = "refreshed" /\ pulled)
    <3>1. LoadFirst(<<"ask">>, q)
      BY <1>9, <2>5 DEF Ask
    <3> QED BY <1>3, <1>6, <1>8, <2>1, <3>1
  <2> QED BY <2>2, <2>3, <2>4, <2>5
<1>10. CASE RefreshList
  <2>1. LoadFirst(<<"refresh">>, query) /\ UNCHANGED screen /\ {"pull", "button"} \cap DOMAIN screen.locks # {}
    BY <1>10 DEF RefreshList, Offers
  <2> QED BY <1>2, <1>5, <1>6, <1>8, <2>1
<1>11. CASE Retry
  <2>1. LoadFirst(<<"ask">>, query) /\ UNCHANGED screen
    BY <1>11 DEF Retry
  <2> QED BY <1>2, <1>3, <1>6, <1>8, <2>1
<1>12. CASE ComeBack
  <2>1. LoadFirst(<<"back">>, query) /\ UNCHANGED screen
    BY <1>12 DEF ComeBack
  <2> QED BY <1>2, <1>4, <1>6, <1>8, <2>1
<1> QED BY <1>9, <1>10, <1>11, <1>12

LEMMA MoreKeepsSpinners == ASSUME ListAssumption, ListIndInv, SpinInv, LoadMore PROVE SpinInv'
<1> SUFFICES ASSUME EndsSpinners(screen) PROVE SpinInv'
  BY DEF LoadMore, SpinInv
<1> DEFINE more == Call(loads + 1, "more", query, next)
<1>1. /\ ~Pageless(screen) /\ screen.waits \cap turning = {} /\ calls' = calls \cup {more}
      /\ era' = (IF screen.counts THEN loads + 1 ELSE era) /\ turning' = turning \cup {"more"} /\ UNCHANGED screen
  BY DEF LoadMore, Offers, Pageless
<1>2. more.kind = "more" /\ more.era = era'
  BY <1>1 DEF Call
<1> HIDE DEF more
<1>3. "more" \notin FirstSpinners(screen)
  BY DEF EndsSpinners
<1>4. CASE screen.endsLatest /\ screen.counts
  <2>1. FirstSpinners(screen) \subseteq screen.waits
    BY <1>1, <1>4 DEF EndsSpinners
  <2> QED BY <1>1, <1>2, <1>3, <1>4, <2>1 DEF SpinInv
<1>5. CASE ~(screen.endsLatest /\ screen.counts)
  BY <1>1, <1>2, <1>3, <1>5 DEF SpinInv
<1> QED BY <1>4, <1>5

\* The end of a load, good or bad, turns off the spinners it was the load of.
LEMMA EndKeepsSpinners ==
  ASSUME ListAssumption, ListIndInv, SpinInv, NEW c \in calls, turning' \subseteq turning \ TurnedOff(c),
         UNCHANGED screen,
         \/ calls' = calls \ {c} /\ era' = era
         \/ screen.single /\ Pageless(screen) /\ \E d \in calls' : d.kind # "more" /\ d.era = era'
  PROVE  SpinInv'
<1> SUFFICES ASSUME EndsSpinners(screen) PROVE SpinInv'
  BY DEF SpinInv
<1>0. /\ turning \subseteq FirstSpinners(screen) \cup {"more"}
      /\ turning \cap FirstSpinners(screen) # {} => \E d \in calls : d.kind # "more" /\ (screen.endsLatest => d.era = era)
      /\ Pageless(screen) => "more" \notin turning
      /\ "more" \in turning =>
           \E d \in calls : IF screen.endsLatest /\ screen.counts
                            THEN d.era = era /\ (d.kind = "more" \/ "more" \in screen.ends)
                            ELSE d.kind = "more"
  BY DEF SpinInv
<1>1. CASE calls' = calls \ {c} /\ era' = era
  <2>1. ASSUME turning' \cap FirstSpinners(screen) # {}
        PROVE  \E d \in calls' : d.kind # "more" /\ (screen.endsLatest => d.era = era')
    <3>1. PICK d \in calls : d.kind # "more" /\ (screen.endsLatest => d.era = era)
      BY <1>0, <2>1
    <3>2. d # c
      <4>1. SUFFICES ASSUME d = c PROVE FALSE
        OBVIOUS
      <4>2. TurnedOff(c) = screen.ends
        BY <3>1, <4>1 DEF TurnedOff, Overtaken
      <4> QED BY <2>1, <4>2 DEF EndsSpinners
    <3> QED BY <1>1, <3>1, <3>2
  <2>2. ASSUME "more" \in turning'
        PROVE  \E d \in calls' : IF screen.endsLatest /\ screen.counts
                                 THEN d.era = era' /\ (d.kind = "more" \/ "more" \in screen.ends)
                                 ELSE d.kind = "more"
    <3>1. PICK d \in calls : IF screen.endsLatest /\ screen.counts
                             THEN d.era = era /\ (d.kind = "more" \/ "more" \in screen.ends)
                             ELSE d.kind = "more"
      BY <1>0, <2>2
    <3>2. d # c
      <4>1. SUFFICES ASSUME d = c PROVE FALSE
        OBVIOUS
      <4>2. "more" \in TurnedOff(c)
        <5>1. ~(screen.endsLatest /\ Overtaken(c) /\ (c.kind = "more" => screen.counts))
          BY <3>1, <4>1 DEF Overtaken
        <5> QED BY <3>1, <4>1, <5>1 DEF TurnedOff
      <4> QED BY <2>2, <4>2
    <3> QED BY <1>1, <3>1, <3>2
  <2> QED BY <1>0, <2>1, <2>2 DEF SpinInv
<1>2. CASE screen.single /\ Pageless(screen) /\ \E d \in calls' : d.kind # "more" /\ d.era = era'
  BY <1>0, <1>2 DEF SpinInv
<1> QED BY <1>1, <1>2

LEMMA SpinStays ==
  ASSUME ScreensAreOrdered, ListAssumption PROVE ListIndInv /\ SpinInv /\ [ListNext]_listVars => SpinInv'
<1> SUFFICES ASSUME ListIndInv, SpinInv, [ListNext]_listVars PROVE SpinInv'
  OBVIOUS
<1>1. CASE UNCHANGED listVars
  BY <1>1 DEF listVars, SpinInv
<1>2. CASE (\E q \in Queries : Ask(q)) \/ RefreshList \/ Retry \/ ComeBack
  BY <1>2, FirstLoadsKeepSpinners
<1>3. CASE LoadMore
  BY <1>3, MoreKeepsSpinners
<1>4. ASSUME NEW c \in calls, Answer(c) PROVE SpinInv'
  <2>1. turning' \subseteq turning \ TurnedOff(c) /\ UNCHANGED screen
    BY <1>4 DEF Answer
  <2>2. CASE screen.single /\ c.query # query
    <3>1. \E d \in calls' : d.kind # "more" /\ d.era = era'
      BY <1>4, <2>2, CallsLeft
    <3> QED BY <2>1, <2>2, <3>1, Singles, EndKeepsSpinners
  <2>3. CASE ~(screen.single /\ c.query # query)
    <3>1. calls' = calls \ {c} /\ era' = era
      BY <1>4, <2>3 DEF Answer
    <3> QED BY <2>1, <3>1, EndKeepsSpinners
  <2> QED BY <2>2, <2>3
<1>5. ASSUME NEW c \in calls, LoadFails(c) PROVE SpinInv'
  <2>1. turning' \subseteq turning \ TurnedOff(c) /\ UNCHANGED screen /\ calls' = calls \ {c} /\ era' = era
    BY <1>5 DEF LoadFails
  <2> QED BY <2>1, EndKeepsSpinners
<1> QED BY <1>1, <1>2, <1>3, <1>4, <1>5 DEF ListNext, ListUser, ListServer

\* No spinner is left turning when the last load has ended, whichever loads overtook, aborted or failed
\* one another: what SpinnersStop adds is that loads end.
THEOREM SpinnersTurnWithLoads == ASSUME ScreensAreOrdered, ListAssumption PROVE ListSpec => []SpinnersAreLoads
<1>1. ListInit => SpinInv
  BY SpinInit
<1>2. ListIndInv /\ SpinInv /\ [ListNext]_listVars => SpinInv'
  BY SpinStays
<1>3. ListIndInv /\ SpinInv => SpinnersAreLoads
  <2> SUFFICES ASSUME ListIndInv, SpinInv, turning # {}, screen \notin AbortsFirstPage PROVE calls # {}
    BY DEF SpinnersAreLoads
  <2>1. EndsSpinners(screen)
    BY ListState DEF ScreensAreOrdered
  <2> QED BY <2>1 DEF SpinInv
<1> QED BY <1>1, <1>2, <1>3, ListsInvariance, PTL DEF ListSpec
=============================================================================
