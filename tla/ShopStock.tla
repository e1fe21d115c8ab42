------------------------------ MODULE ShopStock ------------------------------
(***************************************************************************)
(* The stock of one inventory item in one shop (backend/app/services:      *)
(* inventory.py, transfer.py, retailer_inventory.py, weight_loss.py).      *)
(* Nothing stores the stock: it is the sum of the movements, each at the   *)
(* instant it occurred.  Requests add, use, transfer out and adjust stock; *)
(* reads apply the weight lost overnight; a retail bill uses stock.        *)
(*                                                                         *)
(* A handler is one transaction at READ COMMITTED.  The stock requests     *)
(* lock the shop's allocation of the item and the item FOR UPDATE, in one  *)
(* order or the other; bills and reads lock nothing, but the foreign key   *)
(* of a new movement waits for the holder of the item's row.  The backdate *)
(* policy is a row that is created, and committed, where it is missed.     *)
(***************************************************************************)
EXTENDS Integers, Sequences, FiniteSets, FiniteSetsExt, Functions

CONSTANTS
  Handlers,     \* request handlers of the API processes
  Scenarios,    \* who serves what, backdated or not, with the policy row or not;
                \* bound: until when the clock runs
  Quantities,   \* quantities in a request
  Losses,       \* what the birds may lose overnight
  Window,       \* days a shop may backdate
  MaxRequests,  \* bound: requests served
  None          \* no handler, no request, no target

VARIABLES
  now,          \* clock; day d is the instants 2d (its midnight) and 2d + 1
  movements,    \* inventory_movements, transfers and retailer usages
  nights,       \* inventory_weight_loss_applications: the nights applied
  policyRow,    \* is the backdate policy's row there?
  allocation,   \* holder of the allocation's row FOR UPDATE
  item,         \* holder of the item's row FOR UPDATE
  txn,          \* transaction of each handler
  requests,     \* requests served so far
  scenario      \* the scenario played

tables == <<movements, nights, policyRow>>
locks == <<allocation, item>>
vars == <<now, tables, locks, txn, requests, scenario>>

Kinds == {"add", "use", "transfer", "retailer", "set", "bill", "loss"}
Types == {"add", "use", "transfer", "retailer", "loss"}

\* What an admin may set: the stock, what is used and what is moved out today.
Goals == Nat \cup {None}
Adjusts == [stock : Goals, used : Goals, moved : Goals]

ASSUME StockAssumption ==
  /\ None \notin Handlers
  /\ Scenarios \subseteq [serves : [Handlers -> SUBSET Kinds],
                          adjusts : SUBSET Adjusts, backdates : SUBSET Nat,
                          policyRow : BOOLEAN, until : Nat]
  /\ Quantities \subseteq Nat \ {0}
  /\ Losses \subseteq Nat
  /\ {Window, MaxRequests} \subseteq Nat

-----------------------------------------------------------------------------
(* Movements.                                                              *)

Day(t) == t \div 2
Midnight(d) == 2 * d

Movement(type, quantity, at, request) ==
  [type |-> type, quantity |-> quantity, at |-> at, by |-> request]

Sum(rows) == SumFunction([m \in rows |-> m.quantity])
Available(rows) == Sum({m \in rows : m.type = "add"}) - Sum({m \in rows : m.type # "add"})
Upto(rows, t) == {m \in rows : m.at <= t}

Stock == Available(movements)
Today == {m \in movements : m.at >= Midnight(Day(now))}
UsedToday == Sum({m \in Today : m.type \in {"use", "loss"}})
MovedToday == {m \in Today : m.type = "transfer"}

-----------------------------------------------------------------------------
(* Requests and the statements of their handlers.                          *)

\* raw is the time of the movement the client gave, None for now; who asks
\* matters only to a time of his own.
Dated == [raw : {None}, admin : {FALSE}] \cup [raw : scenario.backdates, admin : BOOLEAN]

MoveRequests ==
  {[kind |-> k, quantity |-> q, raw |-> d.raw, admin |-> d.admin] :
     k \in {"add", "use", "transfer", "retailer"}, q \in Quantities, d \in Dated}
SetRequests == [kind : {"set"}, goal : scenario.adjusts, raw : {None} \cup scenario.backdates,
                admin : {TRUE}]
BillRequests == [kind : {"bill"}, quantity : Quantities, raw : {None}, admin : {FALSE}]
ReadRequests == [kind : {"loss"}]
Requests == MoveRequests \cup SetRequests \cup BillRequests \cup ReadRequests

\* Faulty: stock is checked before it is locked.
ScriptCheckingFirst == [
  add      |-> <<"allocation", "item", "policy", "commit">>,
  use      |-> <<"policy", "check", "allocation", "item", "commit">>,
  transfer |-> <<"item", "policy", "allocation", "item", "check", "commit">>,
  retailer |-> <<"policy", "check", "allocation", "item", "commit">>,
  set      |-> <<"policy", "allocation", "item", "count", "commit">>,
  bill     |-> <<"check", "commit">>,
  loss     |-> <<"nights", "night", "commit">> ]

Script == [
  add      |-> <<"allocation", "item", "policy", "commit">>,
  use      |-> <<"allocation", "item", "policy", "check", "commit">>,
  transfer |-> <<"item", "policy", "allocation", "item", "check", "commit">>,
  retailer |-> <<"policy", "allocation", "item", "check", "commit">>,
  set      |-> <<"policy", "allocation", "item", "count", "commit">>,
  bill     |-> <<"check", "commit">>,
  loss     |-> <<"nights", "night", "commit">> ]

Idle == [op |-> None, step |-> 0, seed |-> FALSE, by |-> 0, at |-> 0,
         missing |-> {}, rows |-> {}, gone |-> {}]
Step(h) == IF txn[h].op = None THEN "idle"
           ELSE IF txn[h].seed THEN "seed" ELSE Script[txn[h].op.kind][txn[h].step]

Init ==
  /\ scenario \in Scenarios
  /\ now = 1
  /\ movements = {}
  /\ nights = {}
  /\ policyRow = scenario.policyRow
  /\ allocation = None
  /\ item = None
  /\ txn = [h \in Handlers |-> Idle]
  /\ requests = 0

Tick ==
  /\ now < scenario.until
  /\ now' = now + 1
  /\ UNCHANGED <<tables, locks, txn, requests, scenario>>

Serve(h, op) ==
  /\ Step(h) = "idle"
  /\ op.kind \in scenario.serves[h]
  /\ requests < MaxRequests
  /\ requests' = requests + 1
  /\ txn' = [txn EXCEPT ![h] = [Idle EXCEPT !.op = op, !.step = 1, !.by = requests + 1,
                                            !.at = now]]
  /\ UNCHANGED <<now, tables, locks, scenario>>

\* The statement is done; `session` is the transaction with what it knows.
Advance(h, session) ==
  /\ txn' = [txn EXCEPT ![h] = [session EXCEPT !.step = @ + 1]]
  /\ UNCHANGED <<now, requests, scenario>>

\* Faulty: a transaction that ends keeps its row locks.
EndKeepingLocks(h) ==
  /\ UNCHANGED locks
  /\ txn' = [txn EXCEPT ![h] = Idle]
  /\ UNCHANGED <<now, requests, scenario>>

\* Commit or rollback: the transaction's locks go.
End(h) ==
  /\ allocation' = IF allocation = h THEN None ELSE allocation
  /\ item' = IF item = h THEN None ELSE item
  /\ txn' = [txn EXCEPT ![h] = Idle]
  /\ UNCHANGED <<now, requests, scenario>>

Refuse(h) == End(h) /\ UNCHANGED tables

LockAllocation(h) ==
  /\ Step(h) = "allocation"
  /\ allocation = None
  /\ allocation' = h
  /\ Advance(h, txn[h])
  /\ UNCHANGED <<tables, item>>

LockItem(h) ==
  /\ Step(h) = "item"
  /\ item \in {None, h}
  /\ item' = h
  /\ Advance(h, txn[h])
  /\ UNCHANGED <<tables, allocation>>

\* assert_inventory_occurred_at_allowed; an admin's year is longer than any run.
Allowed(op) ==
  op.raw # None => /\ op.raw <= now
                   /\ op.admin \/ Day(op.raw) >= Day(now) - Window

ReadPolicy(h) ==
  LET op == txn[h].op IN
  /\ Step(h) = "policy"
  /\ policyRow
  /\ Allowed(op)
  /\ Advance(h, [txn[h] EXCEPT !.at = IF op.raw = None THEN now ELSE op.raw])
  /\ UNCHANGED <<tables, locks>>

RefuseTime(h) ==
  /\ Step(h) = "policy"
  /\ policyRow
  /\ ~ Allowed(txn[h].op)
  /\ Refuse(h)

MissPolicy(h) ==
  /\ Step(h) = "policy"
  /\ ~ policyRow
  /\ txn' = [txn EXCEPT ![h].seed = TRUE]
  /\ UNCHANGED <<now, tables, locks, requests, scenario>>

\* The new row is committed at once, which gives the row locks back.
SeedPolicy(h) ==
  /\ Step(h) = "seed"
  /\ ~ policyRow
  /\ policyRow' = TRUE
  /\ allocation' = IF allocation = h THEN None ELSE allocation
  /\ item' = IF item = h THEN None ELSE item
  /\ txn' = [txn EXCEPT ![h].seed = FALSE]
  /\ UNCHANGED <<now, movements, nights, requests, scenario>>

\* Another request created the row in between: IntegrityError.
SeedClash(h) ==
  /\ Step(h) = "seed"
  /\ policyRow
  /\ Refuse(h)

\* All-time stock, or the stock of the time of a backdated movement or a bill.
AvailableFor(t) ==
  IF t.op.raw = None /\ t.op.kind # "bill" THEN Stock ELSE Available(Upto(movements, t.at))

CheckStock(h) ==
  /\ Step(h) = "check"
  /\ txn[h].op.quantity <= AvailableFor(txn[h])
  /\ Advance(h, txn[h])
  /\ UNCHANGED <<tables, locks>>

RefuseStock(h) ==
  /\ Step(h) = "check"
  /\ txn[h].op.quantity > AvailableFor(txn[h])
  /\ Refuse(h)

Delta(goal, current) == IF goal = None THEN 0 ELSE goal - current

\* Faulty: the ADD that sets the stock forgets the USE that sets what is used.
AdjustmentsIgnoringUse(t) ==
  LET use == Delta(t.op.goal.used, UsedToday)
      add == Delta(t.op.goal.stock, Stock)
  IN {m \in {Movement("use", use, t.at, t.by), Movement("add", add, t.at, t.by)} : m.quantity # 0}

\* A USE brings what is used today to its goal, an ADD the stock to its own.
Adjustments(t) ==
  LET use == Delta(t.op.goal.used, UsedToday)
      add == IF t.op.goal.stock = None THEN 0 ELSE Delta(t.op.goal.stock, Stock) + use
  IN {m \in {Movement("use", use, t.at, t.by), Movement("add", add, t.at, t.by)} : m.quantity # 0}

\* What is left of a transfer of today when `cut` is taken from the latest ones.
Left(m, cut) ==
  LET later == {n \in MovedToday : n.at > m.at \/ (n.at = m.at /\ n.by > m.by)}
  IN Max({0, m.quantity - Max({0, cut - Sum(later)})})

\* One more transfer brings what is moved out today up to its goal ...
Moves(t) ==
  LET more == Delta(t.op.goal.moved, Sum(MovedToday))
  IN IF more > 0 THEN {Movement("transfer", more, t.at, t.by)}
     ELSE {[m EXCEPT !.quantity = Left(m, -more)] : m \in {n \in MovedToday : Left(n, -more) > 0}}

\* ... and cuts into today's transfers bring it down.
Replaced(t) == IF Delta(t.op.goal.moved, Sum(MovedToday)) < 0 THEN MovedToday ELSE {}

Count(h) ==
  /\ Step(h) = "count"
  /\ Advance(h, [txn[h] EXCEPT !.rows = Adjustments(txn[h]) \cup Moves(txn[h]),
                              !.gone = Replaced(txn[h])])
  /\ UNCHANGED <<tables, locks>>

-----------------------------------------------------------------------------
(* The commits.  The foreign key of a new row locks the item FOR KEY SHARE. *)

Committing(h, kinds) ==
  /\ Step(h) = "commit"
  /\ txn[h].op.kind \in kinds
  /\ item \in {None, h}
  /\ End(h)

CommitMovement(h) ==
  LET t == txn[h]
      type == IF t.op.kind = "bill" THEN "use" ELSE t.op.kind
  IN /\ Committing(h, {"add", "use", "transfer", "retailer", "bill"})
     /\ movements' = movements \cup {Movement(type, t.op.quantity, t.at, t.by)}
     /\ UNCHANGED <<nights, policyRow>>

CommitAdjustments(h) ==
  /\ Committing(h, {"set"})
  /\ movements' = (movements \ txn[h].gone) \cup txn[h].rows
  /\ UNCHANGED <<nights, policyRow>>

\* Nights from the day of the first ADD to yesterday that have no row yet.
MissingNights ==
  LET adds == {Day(m.at) : m \in {m \in movements : m.type = "add"}}
  IN IF adds = {} THEN {} ELSE (Min(adds)..(Day(now) - 1)) \ nights

ReadNights(h) ==
  /\ Step(h) = "nights"
  /\ MissingNights # {}
  /\ Advance(h, [txn[h] EXCEPT !.missing = MissingNights])
  /\ UNCHANGED <<tables, locks>>

NothingToApply(h) ==
  /\ Step(h) = "nights"
  /\ MissingNights = {}
  /\ Refuse(h)

\* What is lost, at most what there was at midnight.
Capped(lost, stock) == IF stock <= 0 THEN 0 ELSE IF lost > stock THEN stock ELSE lost

\* The first missing night, from the stock at the midnight that ended it.
ApplyNight(h, lost) ==
  LET t == txn[h]
      night == Min(t.missing)
      midnight == Midnight(night + 1)
      loss == Capped(lost, Available(Upto(movements \cup t.rows, midnight)))
  IN /\ Step(h) = "night"
     /\ txn' = [txn EXCEPT ![h].missing = @ \ {night},
                           ![h].rows = @ \cup {Movement("loss", loss, midnight, t.by)},
                           ![h].step = IF t.missing = {night} THEN @ + 1 ELSE @]
     /\ UNCHANGED <<now, tables, locks, requests, scenario>>

NightsOf(rows) == {Day(m.at) - 1 : m \in rows}

\* Unique key: shop, item and night.
NightsFree(h) == NightsOf(txn[h].rows) \cap nights = {}

CommitNights(h) ==
  /\ Committing(h, {"loss"})
  /\ NightsFree(h)
  /\ movements' = movements \cup txn[h].rows
  /\ nights' = nights \cup NightsOf(txn[h].rows)
  /\ UNCHANGED policyRow

NightsClash(h) ==
  /\ Committing(h, {"loss"})
  /\ ~ NightsFree(h)
  /\ UNCHANGED tables

\* The item is not the shop's or not active, a category is not the item's, the
\* birds do not suffice, the bill's token lost its race.
RefuseRequest(h) ==
  /\ Step(h) = "commit"
  /\ txn[h].op.kind # "loss"
  /\ Refuse(h)

\* The process dies or the connection drops: PostgreSQL rolls back.
Crash(h) ==
  /\ Step(h) # "idle"
  /\ Refuse(h)

\* One transaction waits for the item, one for the allocation: the detector
\* of PostgreSQL rolls one of them back.
Deadlocked(h) ==
  \E g \in Handlers :
    \/ Step(h) = "item" /\ item = g /\ Step(g) = "allocation" /\ allocation = h
    \/ Step(h) = "allocation" /\ allocation = g /\ Step(g) = "item" /\ item = h

BreakDeadlock(h) ==
  /\ Deadlocked(h)
  /\ Refuse(h)

-----------------------------------------------------------------------------
Statement(h) ==
  \/ LockAllocation(h) \/ LockItem(h)
  \/ ReadPolicy(h) \/ RefuseTime(h) \/ MissPolicy(h) \/ SeedPolicy(h) \/ SeedClash(h)
  \/ CheckStock(h) \/ RefuseStock(h) \/ Count(h)
  \/ CommitMovement(h) \/ CommitAdjustments(h)
  \/ ReadNights(h) \/ NothingToApply(h)
  \/ \E lost \in Losses : ApplyNight(h, lost)
  \/ CommitNights(h) \/ NightsClash(h)
  \/ BreakDeadlock(h)

\* The bounds are reached and every handler is idle.
Quiescent ==
  /\ requests = MaxRequests
  /\ \A h \in Handlers : Step(h) = "idle"
  /\ UNCHANGED vars

Next ==
  \/ Tick
  \/ \E h \in Handlers, op \in Requests : Serve(h, op)
  \/ \E h \in Handlers : Statement(h) \/ RefuseRequest(h) \/ Crash(h)
  \/ Quiescent

Spec == Init /\ [][Next]_vars

\* A handler the event loop has started keeps running; PostgreSQL wakes the
\* waiters of a row when its holder ends, and breaks deadlocks.
FairSpec == Spec /\ \A h \in Handlers : WF_vars(Statement(h))

-----------------------------------------------------------------------------
(* Mixes of requests whose checks keep the stock covered.                  *)

\* Requests that lock the stock before they check it and give no time of their
\* own.  A use keeps its locks if the policy's row is there, and an adjustment
\* asks for the stock, or takes back what was moved.
Locked(s) ==
  /\ s.backdates = {}
  /\ \A h \in Handlers : s.serves[h] \subseteq {"add", "use", "transfer", "retailer", "set"}
  /\ s.policyRow \/ \A h \in Handlers : "use" \notin s.serves[h]
  /\ \A g \in s.adjusts : \/ g.stock # None /\ g.moved = None
                          \/ g.stock = None /\ g.used = None /\ g.moved \in {None, 0}

\* One handler bills; the others add, at any time.
Billed(s) ==
  \E b \in Handlers : /\ s.serves[b] \subseteq {"add", "bill"}
                      /\ \A h \in Handlers \ {b} : s.serves[h] \subseteq {"add"}

\* Anybody reads, and one handler adds, now.
Lost(s) ==
  /\ s.backdates = {}
  /\ \E a \in Handlers : /\ s.serves[a] \subseteq {"add", "loss"}
                         /\ \A h \in Handlers \ {a} : s.serves[h] \subseteq {"loss"}

SafeScenarios == \A s \in Scenarios : Locked(s) \/ Billed(s) \/ Lost(s)

\* An adjustment asks for a stock or for what was moved, not for both.
OneGoal == \A s \in Scenarios : \A g \in s.adjusts : g.stock = None \/ g.moved = None

-----------------------------------------------------------------------------
(* What the stock promises.                                                *)

TypeOK ==
  /\ now \in Nat
  /\ \A m \in movements : m.type \in Types /\ m.quantity \in Int
                          /\ m.at \in 0..now /\ m.by \in 1..requests
  /\ nights \subseteq 0..(Day(now) - 1)
  /\ {allocation, item} \subseteq Handlers \cup {None}
  /\ \A h \in Handlers : Step(h) # "idle" => txn[h].by \in 1..requests /\ txn[h].at \in 0..now

\* "Inventory use exceeds available item quantity": whatever the requests that
\* use, transfer or adjust stock at the same time, no more of it leaves the
\* shop than came in.
StockNeverNegative == Stock >= 0

\* An adjustment reaches its target exactly, through the USE it may make and
\* whatever else moves stock meanwhile.
AdjustHitsTarget ==
  [][\A h \in Handlers : CommitAdjustments(h) /\ txn[h].op.goal.stock # None =>
       Available(movements') = txn[h].op.goal.stock]_vars

\* However many reads notice a missing night at once, its loss is taken once.
LossOncePerNight ==
  \A d \in 0..Day(now) :
    Cardinality({m \in movements : m.type = "loss" /\ m.at = Midnight(d + 1)})
      = IF d \in nights THEN 1 ELSE 0

\* Stock is covered and nights are lost once, whichever requests are served side by side.
StockInv == TypeOK /\ StockNeverNegative /\ LossOncePerNight

\* Opposite lock orders, lost races and waits leave no request hanging.
EveryRequestEnds == \A h \in Handlers : Step(h) # "idle" ~> Step(h) = "idle"
=============================================================================
