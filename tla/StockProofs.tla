----------------------------- MODULE StockProofs -----------------------------
(***************************************************************************)
(* The stock of a shop: a night is lost once (NightsAreLostOnce), an       *)
(* adjustment reaches its target (AdjustmentsHit) and, for the scenarios   *)
(* in which the code keeps it so, the stock is covered (StockHolds); for   *)
(* any handlers, quantities, losses, window and number of requests.        *)
(*                                                                         *)
(* StockIndInv says of any scenario what a transaction knows: what it has  *)
(* counted of an adjustment still counts, for it holds the item's row      *)
(* (Holds, Planned), and the losses it has taken of the nights it found    *)
(* missing are one for each (Nightly); LossRows says the same of the       *)
(* tables.  A commit adds rows of a request nobody else has (OwnRequest),  *)
(* so that the sums change by what it adds.                                *)
(*                                                                         *)
(* That the stock is covered has three reasons, one for each kind of safe  *)
(* scenario: what was checked is locked (LockedInv); only the handler that *)
(* bills takes stock, and it checks the stock of an instant after which it *)
(* has taken nothing (BilledInv); the nights are applied without a gap, so *)
(* that the cap of each counts all earlier ones (LostInv).                 *)
(***************************************************************************)
EXTENDS ShopStock, SumFacts

Entry == [type : Types, quantity : Int, at : Nat, by : Nat]

\* A finite set of movements; what moves stock out or is lost is not negative.
Entries(rows) ==
  /\ IsFiniteSet(rows) /\ rows \subseteq Entry
  /\ \A m \in rows : /\ m.type = "transfer" => m.quantity > 0
                     /\ m.type = "loss" => m.quantity >= 0

LEMMA SumNone == Sum({}) = 0
BY SumOfNothing DEF Sum

LEMMA SumOfRows ==
  ASSUME NEW S, IsFiniteSet(S), S \subseteq Entry
  PROVE  Sum(S) \in Int
<1>1. \A m \in S : m.quantity \in Int
  BY DEF Entry
<1> DEFINE f == [m \in S |-> m.quantity]
<1>2. DOMAIN f = S /\ \A x \in DOMAIN f : f[x] \in Int
  BY <1>1
<1> HIDE DEF f
<1>3. SumFunction(f) \in Int
  BY <1>2, SumIsInt
<1> QED BY <1>3 DEF f, Sum

LEMMA SumNatRows ==
  ASSUME NEW S, IsFiniteSet(S), S \subseteq Entry, \A m \in S : m.quantity >= 0
  PROVE  Sum(S) \in Nat
<1>1. \A m \in S : m.quantity \in Nat
  BY DEF Entry
<1> DEFINE f == [m \in S |-> m.quantity]
<1>2. DOMAIN f = S /\ \A x \in DOMAIN f : f[x] \in Nat
  BY <1>1
<1> HIDE DEF f
<1>3. SumFunction(f) \in Nat
  BY <1>2, SumIsNat
<1> QED BY <1>3 DEF f, Sum

LEMMA SumBoth ==
  ASSUME NEW S, NEW T, IsFiniteSet(S), IsFiniteSet(T), S \subseteq Entry, T \subseteq Entry, S \cap T = {}
  PROVE  Sum(S \cup T) = Sum(S) + Sum(T)
<1> DEFINE f == [m \in S \cup T |-> m.quantity]
           g == [m \in S |-> m.quantity]
           h == [m \in T |-> m.quantity]
<1>1. IsFiniteSet(S \cup T)
  BY FS_Union
<1>2. \A m \in S \cup T : m.quantity \in Int
  BY DEF Entry
<1>3. Joins(f, g, h)
  BY <1>1, <1>2 DEF Joins
<1> HIDE DEF f, g, h
<1>4. SumFunction(f) = SumFunction(g) + SumFunction(h)
  BY <1>3, SumJoin
<1> QED BY <1>4 DEF f, g, h, Sum

LEMMA SumOne ==
  ASSUME NEW m \in Entry
  PROVE  Sum({m}) = m.quantity
<1> DEFINE f == [n \in {} |-> n.quantity]
           g == [n \in {m} |-> n.quantity]
<1>1. DOMAIN f = {} /\ DOMAIN g = {m} /\ g[m] = m.quantity /\ m.quantity \in Int
  BY DEF Entry
<1> HIDE DEF f, g
<1>2. IsFiniteSet(DOMAIN f) /\ m \notin DOMAIN f /\ DOMAIN g = DOMAIN f \cup {m}
  BY <1>1, FS_EmptySet
<1>3. SumFunction(g) = SumFunction(f) + g[m]
  BY <1>1, <1>2, SumAdd
<1>4. SumFunction(f) = 0
  BY <1>1, SumOfNothing
<1>5. SumFunction(g) = m.quantity
  BY <1>1, <1>3, <1>4
<1> QED BY <1>5 DEF g, Sum

-----------------------------------------------------------------------------
LEMMA AvailableIsInt ==
  ASSUME NEW S, IsFiniteSet(S), S \subseteq Entry
  PROVE  Available(S) \in Int
<1> DEFINE A == {m \in S : m.type = "add"}
           B == {m \in S : m.type # "add"}
<1>1. IsFiniteSet(A) /\ IsFiniteSet(B) /\ A \subseteq Entry /\ B \subseteq Entry
  BY FS_Subset
<1>2. Sum(A) \in Int /\ Sum(B) \in Int
  BY <1>1, SumOfRows
<1> QED BY <1>2 DEF Available

LEMMA AvailableBoth ==
  ASSUME NEW S, NEW T, IsFiniteSet(S), IsFiniteSet(T), S \subseteq Entry, T \subseteq Entry, S \cap T = {}
  PROVE  Available(S \cup T) = Available(S) + Available(T)
<1> DEFINE A(rows) == {m \in rows : m.type = "add"}
           B(rows) == {m \in rows : m.type # "add"}
<1>1. /\ IsFiniteSet(A(S)) /\ IsFiniteSet(B(S)) /\ A(S) \subseteq Entry /\ B(S) \subseteq Entry
      /\ IsFiniteSet(A(T)) /\ IsFiniteSet(B(T)) /\ A(T) \subseteq Entry /\ B(T) \subseteq Entry
  BY FS_Subset
<1>2. /\ A(S \cup T) = A(S) \cup A(T) /\ A(S) \cap A(T) = {}
      /\ B(S \cup T) = B(S) \cup B(T) /\ B(S) \cap B(T) = {}
  OBVIOUS
<1>3. /\ Sum(A(S)) \in Int /\ Sum(B(S)) \in Int /\ Sum(A(T)) \in Int /\ Sum(B(T)) \in Int
  BY <1>1, SumOfRows
<1>4. Sum(A(S) \cup A(T)) = Sum(A(S)) + Sum(A(T)) /\ Sum(B(S) \cup B(T)) = Sum(B(S)) + Sum(B(T))
  BY <1>1, <1>2, SumBoth
<1>5. /\ Available(S \cup T) = Sum(A(S \cup T)) - Sum(B(S \cup T))
      /\ Available(S) = Sum(A(S)) - Sum(B(S)) /\ Available(T) = Sum(A(T)) - Sum(B(T))
  BY DEF Available
<1>6. Available(S \cup T) = Sum(A(S) \cup A(T)) - Sum(B(S) \cup B(T))
  BY <1>2, <1>5, Zenon
<1> HIDE DEF A, B
<1> QED BY <1>3, <1>4, <1>5, <1>6

LEMMA AvailableNone == Available({}) = 0
<1>1. {m \in {} : m.type = "add"} = {} /\ {m \in {} : m.type # "add"} = {}
  OBVIOUS
<1>2. Available({}) = Sum({}) - Sum({})
  BY <1>1, Zenon DEF Available
<1> QED BY <1>2, SumNone

LEMMA AvailableOne ==
  ASSUME NEW m \in Entry
  PROVE  Available({m}) = IF m.type = "add" THEN m.quantity ELSE 0 - m.quantity
<1>1. m.quantity \in Int
  BY DEF Entry
<1>2. CASE m.type = "add"
  <2>1. {n \in {m} : n.type = "add"} = {m} /\ {n \in {m} : n.type # "add"} = {}
    BY <1>2
  <2>2. Available({m}) = Sum({m}) - Sum({})
    BY <2>1, Zenon DEF Available
  <2> QED BY <1>1, <1>2, <2>2, SumNone, SumOne
<1>3. CASE m.type # "add"
  <2>1. {n \in {m} : n.type = "add"} = {} /\ {n \in {m} : n.type # "add"} = {m}
    BY <1>3
  <2>2. Available({m}) = Sum({}) - Sum({m})
    BY <2>1, Zenon DEF Available
  <2> QED BY <1>1, <1>3, <2>2, SumNone, SumOne
<1> QED BY <1>2, <1>3

\* One movement more.
LEMMA AvailableAdd ==
  ASSUME NEW S, IsFiniteSet(S), S \subseteq Entry, NEW m \in Entry, m \notin S
  PROVE  /\ IsFiniteSet(S \cup {m}) /\ S \cup {m} \subseteq Entry
         /\ Available(S) \in Int /\ m.quantity \in Int
         /\ Available(S \cup {m}) = IF m.type = "add" THEN Available(S) + m.quantity ELSE Available(S) - m.quantity
<1>1. IsFiniteSet({m}) /\ {m} \subseteq Entry /\ S \cap {m} = {} /\ m.quantity \in Int
  BY FS_Singleton DEF Entry
<1>2. Available(S \cup {m}) = Available(S) + Available({m})
  BY <1>1, AvailableBoth
<1>3. Available(S) \in Int
  BY AvailableIsInt
<1>4. IsFiniteSet(S \cup {m})
  BY <1>1, FS_Union
<1> QED BY <1>1, <1>2, <1>3, <1>4, AvailableOne

\* Adds only raise it, everything else lowers it.
LEMMA AvailableAdds ==
  ASSUME NEW S, IsFiniteSet(S), S \subseteq Entry, \A m \in S : m.type = "add" /\ m.quantity >= 0
  PROVE  Available(S) \in Nat
<1>1. {m \in S : m.type = "add"} = S /\ {m \in S : m.type # "add"} = {}
  OBVIOUS
<1>2. Available(S) = Sum(S) - Sum({})
  BY <1>1, Zenon DEF Available
<1> QED BY <1>2, SumNone, SumNatRows

LEMMA AvailableLess ==
  ASSUME NEW S, IsFiniteSet(S), S \subseteq Entry, \A m \in S : m.type # "add" /\ m.quantity >= 0
  PROVE  Available(S) \in Int /\ Available(S) <= 0
<1>1. {m \in S : m.type = "add"} = {} /\ {m \in S : m.type # "add"} = S
  OBVIOUS
<1>2. Available(S) = Sum({}) - Sum(S)
  BY <1>1, Zenon DEF Available
<1> QED BY <1>2, SumNone, SumNatRows

-----------------------------------------------------------------------------
(* What a transaction knows. *)

Txn == [op : Requests \cup {None}, step : Nat, seed : BOOLEAN, by : Nat, at : Nat,
        missing : SUBSET Nat, rows : SUBSET Entry, gone : SUBSET Entry]

Busy(h) == Step(h) # "idle"
Work(h) == txn[h].op.kind
NightOf(m) == Day(m.at) - 1

LossRows ==
  /\ \A m \in movements : m.type = "loss" => NightOf(m) \in nights /\ m.at = Midnight(NightOf(m) + 1)
  /\ \A d \in nights : \E m \in movements : m.type = "loss" /\ NightOf(m) = d
  /\ \A m, n \in movements : m.type = "loss" /\ n.type = "loss" /\ NightOf(m) = NightOf(n) => m = n

StockTables ==
  /\ now \in Nat /\ requests \in Nat /\ scenario \in Scenarios
  /\ {allocation, item} \subseteq Handlers \cup {None}
  /\ txn \in [Handlers -> Txn]
  /\ Entries(movements) /\ \A m \in movements : m.at <= now /\ m.by \in 1..requests
  /\ nights \subseteq 0..(Day(now) - 1)
  /\ LossRows
  /\ scenario.policyRow => policyRow

\* The nights a read has found and the losses it has taken of them.
Nightly(t) ==
  /\ \A m \in t.rows : m.type = "loss" /\ m.by = t.by /\ m.at = Midnight(NightOf(m) + 1)
  /\ \A m, n \in t.rows : NightOf(m) = NightOf(n) => m = n
  /\ \A m \in t.rows : NightOf(m) \in 0..(Day(now) - 1)
  /\ t.missing \subseteq 0..(Day(now) - 1)
  /\ \A m \in t.rows, d \in t.missing : NightOf(m) < d

Known(h) ==
  LET t == txn[h] IN
  /\ t.op \in Requests /\ t.op.kind \in scenario.serves[h]
  /\ t.step \in 1..Len(Script[t.op.kind])
  /\ t.seed => Script[t.op.kind][t.step] = "policy"
  /\ t.by \in 1..requests /\ t.at \in 0..now
  /\ Entries(t.rows) /\ \A m \in t.rows : m.at <= now /\ m.by \in 1..requests
  /\ \A m \in t.gone : m.type = "transfer"
  /\ t.op.kind = "set" => \A m \in t.rows : m.type # "loss"
  /\ t.op.kind = "loss" => /\ Nightly(t)
                           /\ Step(h) = "nights" => t.rows = {} /\ t.missing = {}
                           /\ Step(h) = "night" => t.missing # {}
                           /\ Step(h) = "commit" => t.missing = {}

OwnRequest(h) ==
  /\ \A m \in movements : m.by # txn[h].by
  /\ \A g \in Handlers : g # h /\ Busy(g) => txn[g].by # txn[h].by

Holds(h) ==
  Work(h) \in {"transfer", "retailer", "set"} /\ Step(h) \in {"check", "count", "commit"} => item = h

\* The stock after the adjustment of h, as it has counted.
After(h) == Available((movements \ txn[h].gone) \cup txn[h].rows)

Planned(h) ==
  Work(h) = "set" /\ Step(h) = "commit" =>
    LET goal == txn[h].op.goal IN
    /\ \A m \in txn[h].rows : m.by = txn[h].by \/ \E n \in movements : n.by = m.by
    /\ goal.stock # None /\ goal.moved = None => After(h) = goal.stock
    /\ goal.stock = None /\ goal.used = None /\ goal.moved \in {None, 0} => After(h) >= Stock

Mine(h) == Known(h) /\ OwnRequest(h) /\ Holds(h) /\ Planned(h)

StockIndInv == StockTables /\ \A h \in Handlers : Busy(h) => Mine(h)

-----------------------------------------------------------------------------
(* What holds in each of the safe scenarios. *)

PlainRows(types) == \A m \in movements : m.type \in types /\ m.quantity >= 0

LockedAt(h) ==
  /\ Work(h) = "use" /\ Step(h) \in {"policy", "check", "commit"} => item = h
  /\ Work(h) \in {"use", "transfer", "retailer"} /\ Step(h) = "commit" => txn[h].op.quantity <= Stock

LockedInv == Stock >= 0 /\ \A h \in Handlers : Busy(h) => LockedAt(h)

BilledAt(h) ==
  Work(h) = "bill" =>
    /\ \A m \in movements : m.type = "use" => m.at <= txn[h].at
    /\ Step(h) = "commit" => txn[h].op.quantity <= Available(Upto(movements, txn[h].at))

BilledInv ==
  /\ Stock >= 0
  /\ PlainRows({"add", "use"})
  /\ \A h \in Handlers : Busy(h) => BilledAt(h)

Seen(h) == NightsOf(txn[h].rows) \cup txn[h].missing
Reading(h) == Work(h) = "loss" /\ Step(h) \in {"night", "commit"}
AddBy(d) == \E m \in movements : m.type = "add" /\ Day(m.at) <= d

\* A night is applied, or seen, after every earlier one with a bird to lose.
Closed(days, n) == AddBy(n) /\ \A d \in Nat : d < n /\ AddBy(d) => d \in days

ReadingAt(h) ==
  Reading(h) =>
    /\ Seen(h) # {}
    /\ \A n \in Seen(h) : Closed(nights \cup Seen(h), n)
    /\ Seen(h) \cap nights = {} => Available(movements \cup txn[h].rows) >= 0

LostAt(h) ==
  /\ Work(h) = "add" => \A m \in movements : m.type = "add" => m.at <= txn[h].at
  /\ ReadingAt(h)

LostInv ==
  /\ Stock >= 0
  /\ PlainRows({"add", "loss"})
  /\ \A n \in nights : Closed(nights, n)
  /\ \A h \in Handlers : Busy(h) => LostAt(h)

-----------------------------------------------------------------------------
(* Days, requests and scripts. *)

LEMMA Days ==
  ASSUME NEW t \in Nat
  PROVE  Day(t) \in Nat /\ 2 * Day(t) <= t /\ t <= 2 * Day(t) + 1
BY DEF Day

LEMMA DayOfMidnight == ASSUME NEW d \in Nat PROVE Day(Midnight(d)) = d /\ Midnight(d) \in Nat
BY DEF Day, Midnight

LEMMA LaterDay == ASSUME NEW t \in Nat, NEW u \in Nat, t <= u PROVE Day(t) <= Day(u)
BY DEF Day

LEMMA RequestFields ==
  ASSUME StockAssumption, scenario \in Scenarios, NEW op \in Requests
  PROVE  /\ op.kind \in Kinds
         /\ op.kind \in {"add", "use", "transfer", "retailer", "bill"} => op.quantity \in Nat /\ op.quantity > 0
         /\ op.kind # "loss" /\ op.raw # None => op.raw \in scenario.backdates /\ op.raw \in Nat
         /\ op.kind = "bill" => op.raw = None
         /\ op.kind = "set" => op.goal \in scenario.adjusts /\ op.goal \in Adjusts
<1>1. /\ scenario.backdates \subseteq Nat /\ scenario.adjusts \subseteq Adjusts
      /\ \A q \in Quantities : q \in Nat /\ q > 0
  BY DEF StockAssumption
<1>2. CASE op \in MoveRequests
  <2>1. PICK k \in {"add", "use", "transfer", "retailer"}, q \in Quantities, d \in Dated :
          op = [kind |-> k, quantity |-> q, raw |-> d.raw, admin |-> d.admin]
    BY <1>2 DEF MoveRequests
  <2>2. d.raw = None \/ d.raw \in scenario.backdates
    BY DEF Dated
  <2> QED BY <1>1, <2>1, <2>2 DEF Kinds
<1>3. CASE op \in SetRequests
  BY <1>1, <1>3 DEF Kinds, SetRequests
<1>4. CASE op \in BillRequests
  BY <1>1, <1>4 DEF Kinds, BillRequests
<1>5. CASE op \in ReadRequests
  BY <1>5 DEF Kinds, ReadRequests
<1> QED BY <1>2, <1>3, <1>4, <1>5, Zenon DEF Requests

\* Which requests come to a statement ...
Comes(k, statement) ==
  /\ statement \notin {"idle", "seed"}
  /\ statement \in {"allocation", "item", "policy"} => k \in {"add", "use", "transfer", "retailer", "set"}
  /\ statement = "check" => k \in {"use", "transfer", "retailer", "bill"}
  /\ statement = "count" => k = "set"
  /\ statement \in {"nights", "night"} => k = "loss"

\* ... and from which statement they do.
Follows(k, before, statement) ==
  /\ statement # "nights"
  /\ statement = "commit" =>
       \/ k \in {"use", "transfer", "retailer", "bill"} /\ before = "check"
       \/ k = "set" /\ before = "count"
       \/ k = "loss" /\ before = "night"
       \/ k = "add" /\ before = "policy"
  /\ statement = "check" =>
       \/ k \in {"transfer", "retailer"} /\ before = "item"
       \/ k = "use" /\ before = "policy"
  /\ statement = "count" => k = "set" /\ before = "item"
  /\ statement = "night" => k = "loss" /\ before = "nights"
  /\ statement = "policy" => k \in {"add", "use", "transfer"} /\ before = "item"

LEMMA Begins ==
  ASSUME NEW k \in Kinds
  PROVE  /\ 1 \in 1..Len(Script[k])
         /\ Script[k][1] = "policy" => k \in {"retailer", "set"}
         /\ Script[k][1] = "check" => k = "bill"
         /\ Script[k][1] \notin {"count", "night", "commit"}
<1>1. CASE k = "add" BY <1>1 DEF Script
<1>2. CASE k = "use" BY <1>2 DEF Script
<1>3. CASE k = "transfer" BY <1>3 DEF Script
<1>4. CASE k = "retailer" BY <1>4 DEF Script
<1>5. CASE k = "set" BY <1>5 DEF Script
<1>6. CASE k = "bill" BY <1>6 DEF Script
<1>7. CASE k = "loss" BY <1>7 DEF Script
<1> QED BY <1>1, <1>2, <1>3, <1>4, <1>5, <1>6, <1>7 DEF Kinds

LEMMA Places ==
  ASSUME NEW k \in Kinds, NEW n \in 1..Len(Script[k])
  PROVE  Comes(k, Script[k][n])
<1>1. CASE k = "add" BY <1>1 DEF Script, Comes
<1>2. CASE k = "use" BY <1>2 DEF Script, Comes
<1>3. CASE k = "transfer" BY <1>3 DEF Script, Comes
<1>4. CASE k = "retailer" BY <1>4 DEF Script, Comes
<1>5. CASE k = "set" BY <1>5 DEF Script, Comes
<1>6. CASE k = "bill" BY <1>6 DEF Script, Comes
<1>7. CASE k = "loss" BY <1>7 DEF Script, Comes
<1> QED BY <1>1, <1>2, <1>3, <1>4, <1>5, <1>6, <1>7 DEF Kinds

LEMMA Following ==
  ASSUME NEW k \in Kinds, NEW n \in 1..Len(Script[k]), Script[k][n] # "commit"
  PROVE  n + 1 \in 1..Len(Script[k]) /\ Follows(k, Script[k][n], Script[k][n + 1])
<1>1. CASE k = "add" BY <1>1 DEF Script, Follows
<1>2. CASE k = "use" BY <1>2 DEF Script, Follows
<1>3. CASE k = "transfer" BY <1>3 DEF Script, Follows
<1>4. CASE k = "retailer" BY <1>4 DEF Script, Follows
<1>5. CASE k = "set" BY <1>5 DEF Script, Follows
<1>6. CASE k = "bill" BY <1>6 DEF Script, Follows
<1>7. CASE k = "loss" BY <1>7 DEF Script, Follows
<1> QED BY <1>1, <1>2, <1>3, <1>4, <1>5, <1>6, <1>7 DEF Kinds

-----------------------------------------------------------------------------
(* What a step leaves to the others. *)

LEMMA SameRequests == ASSUME scenario' = scenario PROVE Requests' = Requests /\ Txn' = Txn
BY DEF Requests, MoveRequests, SetRequests, BillRequests, ReadRequests, Dated, Txn, Entry

LEMMA AtStatement ==
  ASSUME StockAssumption, StockTables, NEW h \in Handlers, Busy(h), Known(h)
  PROVE  /\ Work(h) \in Kinds /\ Work(h) \in scenario.serves[h] /\ txn[h] \in Txn
         /\ txn[h].op # None
         /\ txn[h].step \in 1..Len(Script[Work(h)])
         /\ Step(h) = IF txn[h].seed THEN "seed" ELSE Script[Work(h)][txn[h].step]
         /\ txn[h].seed => Script[Work(h)][txn[h].step] = "policy"
         /\ Step(h) = "seed" => txn[h].seed
         /\ ~ txn[h].seed => Comes(Work(h), Step(h))
<1>1. txn[h].op # None /\ txn[h].op \in Requests /\ txn[h] \in Txn
  <2>1. txn[h].op # None
    BY DEF Busy, Step
  <2>2. txn[h].op \in Requests
    BY DEF Known
  <2>3. txn[h] \in Txn
    BY DEF StockTables
  <2> QED BY <2>1, <2>2, <2>3
<1>2. Work(h) \in Kinds
  BY <1>1, RequestFields DEF Work, StockTables
<1>3. txn[h].step \in 1..Len(Script[Work(h)]) /\ Work(h) \in scenario.serves[h]
      /\ (txn[h].seed => Script[Work(h)][txn[h].step] = "policy")
  BY DEF Known, Work
<1>4. Comes(Work(h), Script[Work(h)][txn[h].step])
  BY <1>2, <1>3, Places
<1>5. Step(h) = IF txn[h].seed THEN "seed" ELSE Script[Work(h)][txn[h].step]
  BY <1>1 DEF Step, Work
<1> QED BY <1>1, <1>2, <1>3, <1>4, <1>5 DEF Comes

\* What a handler knows stays true while another one takes a step.
LEMMA MineStays ==
  ASSUME StockAssumption, StockIndInv, NEW g \in Handlers, Busy(g), txn'[g] = txn[g], scenario' = scenario,
         now' \in Nat, now <= now', requests' \in Nat, requests <= requests',
         item = g => item' = g /\ movements' = movements,
         \A m \in movements' : m.by # txn[g].by,
         \A f \in Handlers : f # g /\ Busy(f)' => txn'[f].by # txn[g].by
  PROVE  Busy(g)' /\ Mine(g)' /\ Step(g)' = Step(g) /\ Work(g)' = Work(g)
<1>1. Step(g)' = Step(g) /\ Work(g)' = Work(g) /\ Busy(g)'
  BY DEF Step, Work, Busy
<1>2. Mine(g) /\ now \in Nat /\ requests \in Nat
  BY DEF StockIndInv, StockTables
<1>3. Requests' = Requests
  BY SameRequests
<1>4. Day(now) \in Nat /\ Day(now') \in Nat /\ Day(now) <= Day(now')
  BY <1>2, Days, LaterDay
<1>5. Nightly(txn[g]) => Nightly(txn[g])'
  <2>1. Day(now)' = Day(now')
    BY DEF Day
  <2>2. 0..(Day(now) - 1) \subseteq 0..(Day(now)' - 1)
    BY <1>4, <2>1
  <2> QED BY <2>2 DEF Nightly, NightOf, Day, Midnight
<1>6. Known(g)'
  <2>1. Known(g)
    BY <1>2 DEF Mine
  <2>2. /\ txn'[g].op \in Requests' /\ txn'[g].op.kind \in scenario'.serves[g]
        /\ txn'[g].step \in 1..Len(Script[txn'[g].op.kind])
        /\ txn'[g].seed => Script[txn'[g].op.kind][txn'[g].step] = "policy"
    BY <1>3, <2>1 DEF Known
  <2>3. txn'[g].by \in 1..requests' /\ txn'[g].at \in 0..now'
    BY <1>2, <2>1 DEF Known
  <2>4. /\ Entries(txn'[g].rows)
        /\ \A m \in txn'[g].rows : m.at <= now' /\ m.by \in 1..requests'
    BY <1>2, <2>1 DEF Known, Entries, Entry
  <2>5. /\ \A m \in txn'[g].gone : m.type = "transfer"
        /\ txn'[g].op.kind = "set" => \A m \in txn'[g].rows : m.type # "loss"
    BY <2>1 DEF Known
  <2>6. txn'[g].op.kind = "loss" =>
          /\ Nightly(txn[g])'
          /\ Step(g)' = "nights" => txn'[g].rows = {} /\ txn'[g].missing = {}
          /\ Step(g)' = "night" => txn'[g].missing # {}
          /\ Step(g)' = "commit" => txn'[g].missing = {}
    BY <1>1, <1>5, <2>1 DEF Known
  <2> QED BY <2>2, <2>3, <2>4, <2>5, <2>6 DEF Known, Entries
<1>7. OwnRequest(g)'
  BY DEF OwnRequest
<1>8. Holds(g)'
  BY <1>1, <1>2 DEF Mine, Holds
<1>9. Planned(g)'
  BY <1>1, <1>2 DEF Mine, Planned, Holds, After, Stock, Available, Sum
<1> QED BY <1>1, <1>6, <1>7, <1>8, <1>9 DEF Mine

\* A step that moves no stock.
Quiet(h) ==
  /\ UNCHANGED <<movements, nights, scenario, requests, now>> /\ (policyRow => policyRow')
  /\ {allocation', item'} \subseteq Handlers \cup {None}
  /\ txn' \in [Handlers -> Txn]
  /\ \A g \in Handlers : g # h => txn'[g] = txn[g] /\ (item = g => item' = g)
  /\ Busy(h)' => Busy(h) /\ txn'[h].by = txn[h].by

LEMMA SameStock == ASSUME movements' = movements PROVE Stock' = Stock
BY DEF Stock, Available, Sum

LEMMA QuietTables == ASSUME StockTables, NEW h \in Handlers, Quiet(h) PROVE StockTables'
<1>1. Txn' = Txn /\ Day(now)' = Day(now)
  BY SameRequests DEF Quiet, Day
<1>2. LossRows'
  BY DEF Quiet, LossRows, StockTables, NightOf, Day, Midnight
<1> QED BY <1>1, <1>2 DEF Quiet, StockTables, Entries, Entry

LEMMA QuietOthers ==
  ASSUME StockAssumption, StockIndInv, NEW h \in Handlers, Quiet(h), NEW g \in Handlers, g # h, Busy(g)'
  PROVE  Busy(g) /\ Mine(g)' /\ Step(g)' = Step(g) /\ Work(g)' = Work(g)
<1>1. txn'[g] = txn[g] /\ Busy(g)
  BY DEF Quiet, Busy, Step
<1>2. OwnRequest(g)
  BY <1>1 DEF StockIndInv, Mine
<1>3. \A f \in Handlers : f # g /\ Busy(f)' => txn'[f].by # txn[g].by
  <2> SUFFICES ASSUME NEW f \in Handlers, f # g, Busy(f)' PROVE txn'[f].by # txn[g].by
    OBVIOUS
  <2>1. Busy(f) /\ txn'[f].by = txn[f].by
    BY DEF Quiet, Busy, Step
  <2> QED BY <1>2, <2>1 DEF OwnRequest
<1>4. now \in Nat /\ requests \in Nat
  BY DEF StockIndInv, StockTables
<1> QED BY <1>1, <1>2, <1>3, <1>4, MineStays DEF Quiet, OwnRequest

LEMMA QuietKeeps ==
  ASSUME StockAssumption, StockIndInv, NEW h \in Handlers, Quiet(h), Busy(h)' => Known(h)' /\ Holds(h)' /\ Planned(h)'
  PROVE  StockIndInv'
<1>1. StockTables'
  BY QuietTables DEF StockIndInv
<1>2. ASSUME Busy(h)' PROVE OwnRequest(h)'
  <2>1. OwnRequest(h) /\ txn'[h].by = txn[h].by
    BY <1>2 DEF Quiet, StockIndInv, Mine
  <2>2. \A g \in Handlers : g # h /\ Busy(g)' => Busy(g) /\ txn'[g] = txn[g]
    BY DEF Quiet, Busy, Step
  <2> QED BY <2>1, <2>2 DEF OwnRequest, Quiet
<1>3. \A g \in Handlers : g # h /\ Busy(g)' => Mine(g)'
  BY QuietOthers
<1> QED BY <1>1, <1>2, <1>3 DEF StockIndInv, Mine

\* The end of a request.
LEMMA EndGives ==
  ASSUME StockAssumption, StockTables, NEW h \in Handlers, End(h)
  PROVE  /\ UNCHANGED <<now, requests, scenario>>
         /\ {allocation', item'} \subseteq Handlers \cup {None}
         /\ txn' \in [Handlers -> Txn] /\ ~ Busy(h)'
         /\ \A g \in Handlers : g # h => txn'[g] = txn[g] /\ (item = g => item' = g)
<1>1. Idle \in Txn /\ Idle.op = None
  BY DEF Idle, Txn
<1>2. txn \in [Handlers -> Txn] /\ {allocation, item} \subseteq Handlers \cup {None} /\ None \notin Handlers
  BY DEF StockTables, StockAssumption
<1>3. txn' \in [Handlers -> Txn] /\ txn'[h] = Idle /\ \A g \in Handlers : g # h => txn'[g] = txn[g]
  BY <1>1, <1>2 DEF End
<1>4. ~ Busy(h)'
  BY <1>1, <1>3 DEF Busy, Step
<1> QED BY <1>2, <1>3, <1>4 DEF End

LEMMA RefuseQuiet == ASSUME StockAssumption, StockIndInv, NEW h \in Handlers, Refuse(h) PROVE Quiet(h) /\ ~ Busy(h)' /\ StockIndInv'
<1>1. Quiet(h) /\ ~ Busy(h)'
  BY EndGives DEF Refuse, Quiet, tables, StockIndInv
<1> QED BY <1>1, QuietKeeps

-----------------------------------------------------------------------------
(* The statements before the commit. *)

LEMMA Advanced ==
  ASSUME StockAssumption, StockIndInv, NEW h \in Handlers, Busy(h), Step(h) \notin {"seed", "commit"},
         NEW session \in Txn, session.op = txn[h].op, session.step = txn[h].step, session.by = txn[h].by,
         session.seed = txn[h].seed,
         Advance(h, session), UNCHANGED tables, {allocation', item'} \subseteq Handlers \cup {None},
         \A g \in Handlers : g # h => (item = g => item' = g)
  PROVE  /\ Quiet(h) /\ Busy(h)' /\ Work(h)' = Work(h) /\ Work(h) \in Kinds
         /\ Follows(Work(h), Step(h), Step(h)') /\ Comes(Work(h), Step(h))
         /\ Step(h)' = Script[Work(h)][txn[h].step + 1]
         /\ txn'[h] = [session EXCEPT !.step = txn[h].step + 1]
         /\ txn'[h].step = txn[h].step + 1 /\ txn'[h].step \in 1..Len(Script[Work(h)])
         /\ txn'[h].op = txn[h].op /\ ~ txn'[h].seed /\ txn'[h].by = txn[h].by
         /\ txn'[h].at = session.at /\ txn'[h].rows = session.rows
         /\ txn'[h].missing = session.missing /\ txn'[h].gone = session.gone
<1>1. Known(h) /\ StockTables
  BY DEF StockIndInv, Mine
<1>2. /\ Work(h) \in Kinds /\ txn[h].op # None /\ ~ txn[h].seed
      /\ txn[h].step \in 1..Len(Script[Work(h)]) /\ Step(h) = Script[Work(h)][txn[h].step]
  BY <1>1, AtStatement
<1>3. txn \in [Handlers -> Txn]
  BY <1>1 DEF StockTables
<1>4. txn[h].step + 1 \in 1..Len(Script[Work(h)])
      /\ Follows(Work(h), Step(h), Script[Work(h)][txn[h].step + 1]) /\ Comes(Work(h), Step(h))
      /\ Comes(Work(h), Script[Work(h)][txn[h].step + 1])
  BY <1>2, Following, Places
<1> DEFINE next == [session EXCEPT !.step = txn[h].step + 1]
<1>5. /\ next \in Txn /\ next.step = txn[h].step + 1 /\ next.op = session.op /\ next.seed = session.seed
      /\ next.by = session.by /\ next.at = session.at /\ next.rows = session.rows
      /\ next.missing = session.missing /\ next.gone = session.gone
  BY <1>4 DEF Txn
<1>6. txn' = [txn EXCEPT ![h] = next]
  BY DEF Advance
<1> HIDE DEF next
<1>7. txn' \in [Handlers -> Txn] /\ txn'[h] = next /\ \A g \in Handlers : g # h => txn'[g] = txn[g]
  BY <1>3, <1>5, <1>6
<1>8. Step(h)' = Script[Work(h)][txn[h].step + 1] /\ Work(h)' = Work(h)
  BY <1>2, <1>5, <1>7 DEF Step, Work
<1>9. Busy(h)'
  BY <1>4, <1>8 DEF Busy, Comes
<1>10. Quiet(h)
  BY <1>5, <1>7 DEF Quiet, Advance, tables
<1>11. txn'[h] = [session EXCEPT !.step = txn[h].step + 1]
  BY <1>7 DEF next
<1> QED BY <1>2, <1>4, <1>5, <1>7, <1>8, <1>9, <1>10, <1>11

\* What it knew it still knows.
LEMMA AdvancedKnows ==
  ASSUME StockAssumption, StockIndInv, NEW h \in Handlers, Busy(h), Step(h) \notin {"seed", "commit"},
         NEW session \in Txn, session.op = txn[h].op, session.step = txn[h].step, session.by = txn[h].by,
         session.seed = txn[h].seed, session.at \in 0..now,
         session.rows = txn[h].rows, session.missing = txn[h].missing, session.gone = txn[h].gone,
         Advance(h, session), UNCHANGED tables, {allocation', item'} \subseteq Handlers \cup {None},
         \A g \in Handlers : g # h => (item = g => item' = g),
         Work(h) # "loss"
  PROVE  Known(h)'
<1>1. /\ Quiet(h) /\ Work(h)' = Work(h)
      /\ txn'[h].step \in 1..Len(Script[Work(h)])
      /\ txn'[h].op = txn[h].op /\ ~ txn'[h].seed /\ txn'[h].by = txn[h].by
      /\ txn'[h].at = session.at /\ txn'[h].rows = session.rows
      /\ txn'[h].missing = session.missing /\ txn'[h].gone = session.gone
  BY Advanced
<1>2. Known(h)
  BY DEF StockIndInv, Mine
<1>3. Requests' = Requests /\ now' = now /\ requests' = requests /\ scenario' = scenario
  BY <1>1, SameRequests DEF Quiet
<1> QED BY <1>1, <1>2, <1>3 DEF Known, Work, Entries, Entry

\* How a request of the shop (not a read) gets on.
Progress(h) ==
  /\ Quiet(h)
  /\ Busy(h)' =>
       /\ Busy(h) /\ txn'[h].op = txn[h].op /\ Work(h) # "loss"
       /\ Work(h) \in {"use", "transfer", "retailer", "bill"} /\ Step(h)' = "commit" =>
            Step(h) = "check" /\ txn'[h].at = txn[h].at /\ txn[h].op.quantity <= AvailableFor(txn[h])
       /\ Work(h) = "bill" => txn'[h].at = txn[h].at
       /\ Work(h) = "add" /\ txn[h].op.raw = None => txn'[h].at \in {txn[h].at, now}
       /\ Work(h) = "use" /\ policyRow /\ Step(h)' \in {"policy", "check", "commit"} =>
            item' = h \/ (Step(h) \in {"policy", "check"} /\ item' = item)

LEMMA RefuseProgress == ASSUME StockAssumption, StockIndInv, NEW h \in Handlers, Refuse(h) PROVE Progress(h) /\ StockIndInv'
BY RefuseQuiet DEF Progress

LEMMA LockAllocationKeeps ==
  ASSUME StockAssumption, StockIndInv, NEW h \in Handlers, LockAllocation(h)
  PROVE  Progress(h) /\ StockIndInv'
<1>1. Busy(h) /\ Known(h) /\ txn[h] \in Txn
  BY DEF LockAllocation, Busy, StockIndInv, StockTables, Mine
<1>2. Advance(h, txn[h]) /\ UNCHANGED tables /\ {allocation', item'} \subseteq Handlers \cup {None} /\ item' = item
  BY DEF LockAllocation, StockIndInv, StockTables
<1>3. Step(h) = "allocation"
  BY DEF LockAllocation
<1>4. /\ Quiet(h) /\ Busy(h)' /\ Work(h)' = Work(h) /\ Work(h) \in Kinds
      /\ Follows(Work(h), Step(h), Step(h)') /\ Comes(Work(h), Step(h))
      /\ txn'[h].op = txn[h].op /\ txn'[h].at = txn[h].at
  BY <1>1, <1>2, <1>3, Advanced
<1>5. Work(h) # "loss" /\ Step(h)' \notin {"policy", "check", "count", "commit", "night"}
  BY <1>3, <1>4 DEF Follows, Comes
<1>6. txn[h].at \in 0..now
  BY <1>1 DEF Known
<1>7. Known(h)'
  BY <1>1, <1>2, <1>3, <1>5, <1>6, AdvancedKnows
<1>8. Holds(h)' /\ Planned(h)'
  BY <1>5 DEF Holds, Planned
<1>9. StockIndInv'
  BY <1>4, <1>7, <1>8, QuietKeeps
<1>10. Progress(h)
  BY <1>1, <1>4, <1>5 DEF Progress
<1> QED BY <1>9, <1>10

LEMMA LockItemKeeps ==
  ASSUME StockAssumption, StockIndInv, NEW h \in Handlers, LockItem(h)
  PROVE  Progress(h) /\ StockIndInv'
<1>1. Busy(h) /\ Known(h) /\ txn[h] \in Txn
  BY DEF LockItem, Busy, StockIndInv, StockTables, Mine
<1>2. /\ Advance(h, txn[h]) /\ UNCHANGED tables /\ {allocation', item'} \subseteq Handlers \cup {None}
      /\ item' = h /\ item \in {None, h} /\ None \notin Handlers
  BY DEF LockItem, StockIndInv, StockTables, StockAssumption
<1>a. \A g \in Handlers : g # h => (item = g => item' = g)
  BY <1>2
<1>3. Step(h) = "item"
  BY DEF LockItem
<1>4. /\ Quiet(h) /\ Busy(h)' /\ Work(h)' = Work(h) /\ Work(h) \in Kinds
      /\ Follows(Work(h), Step(h), Step(h)') /\ Comes(Work(h), Step(h))
      /\ txn'[h].op = txn[h].op /\ txn'[h].at = txn[h].at
  BY <1>1, <1>2, <1>3, <1>a, Advanced
<1>5. Work(h) # "loss" /\ Step(h)' \notin {"commit", "night"}
  BY <1>3, <1>4 DEF Follows, Comes
<1>6. txn[h].at \in 0..now
  BY <1>1 DEF Known
<1>7. Known(h)'
  BY <1>1, <1>2, <1>3, <1>5, <1>6, <1>a, AdvancedKnows
<1>8. Holds(h)' /\ Planned(h)'
  BY <1>2, <1>5 DEF Holds, Planned
<1>9. StockIndInv'
  BY <1>4, <1>7, <1>8, QuietKeeps
<1>10. Progress(h)
  BY <1>1, <1>2, <1>4, <1>5 DEF Progress
<1> QED BY <1>9, <1>10

LEMMA ReadPolicyKeeps ==
  ASSUME StockAssumption, StockIndInv, NEW h \in Handlers, ReadPolicy(h)
  PROVE  Progress(h) /\ StockIndInv'
<1> DEFINE at == IF txn[h].op.raw = None THEN now ELSE txn[h].op.raw
           session == [txn[h] EXCEPT !.at = at]
<1>1. Busy(h) /\ Known(h) /\ txn[h] \in Txn /\ StockTables
  BY DEF ReadPolicy, Busy, StockIndInv, StockTables, Mine
<1>2. Advance(h, session) /\ UNCHANGED <<tables, locks>> /\ Allowed(txn[h].op) /\ Step(h) = "policy"
  BY DEF ReadPolicy
<1>3. {allocation', item'} \subseteq Handlers \cup {None} /\ item' = item
  BY <1>1, <1>2 DEF StockTables, locks
<1>4. Work(h) \in {"add", "use", "transfer", "retailer", "set"}
  BY <1>1, <1>2, AtStatement DEF Comes
<1>5. at \in 0..now
  <2>1. txn[h].op \in Requests /\ scenario \in Scenarios /\ now \in Nat
    BY <1>1 DEF Known, StockTables
  <2>2. txn[h].op.raw # None => txn[h].op.raw \in Nat /\ txn[h].op.raw <= now
    BY <1>2, <1>4, <2>1, RequestFields DEF Allowed, Work
  <2> QED BY <2>1, <2>2
<1> HIDE DEF at
<1>6. /\ session \in Txn /\ session.op = txn[h].op /\ session.step = txn[h].step /\ session.by = txn[h].by
      /\ session.seed = txn[h].seed /\ session.at = at /\ session.rows = txn[h].rows
      /\ session.missing = txn[h].missing /\ session.gone = txn[h].gone
  BY <1>1, <1>5 DEF Txn, StockTables
<1> HIDE DEF session
<1>7. /\ Quiet(h) /\ Busy(h)' /\ Work(h)' = Work(h) /\ Work(h) \in Kinds
      /\ Follows(Work(h), Step(h), Step(h)') /\ Comes(Work(h), Step(h))
      /\ txn'[h].op = txn[h].op /\ txn'[h].at = at
  BY <1>1, <1>2, <1>3, <1>6, Advanced
<1>8. /\ Step(h)' \notin {"count", "policy"} /\ (Step(h)' = "commit" => Work(h) = "add")
      /\ (Step(h)' = "check" => Work(h) = "use")
  BY <1>2, <1>7 DEF Follows
<1>9. Known(h)'
  BY <1>1, <1>2, <1>3, <1>4, <1>5, <1>6, AdvancedKnows
<1>10. Holds(h)' /\ Planned(h)'
  BY <1>7, <1>8 DEF Holds, Planned
<1>11. StockIndInv'
  BY <1>7, <1>9, <1>10, QuietKeeps
<1>12. Progress(h)
  BY <1>1, <1>2, <1>3, <1>4, <1>7, <1>8 DEF Progress, at
<1> QED BY <1>11, <1>12

LEMMA CheckStockKeeps ==
  ASSUME StockAssumption, StockIndInv, NEW h \in Handlers, CheckStock(h)
  PROVE  Progress(h) /\ StockIndInv'
<1>1. Busy(h) /\ Known(h) /\ txn[h] \in Txn /\ Holds(h) /\ StockTables
  BY DEF CheckStock, Busy, StockIndInv, StockTables, Mine
<1>2. /\ Advance(h, txn[h]) /\ UNCHANGED tables /\ {allocation', item'} \subseteq Handlers \cup {None} /\ item' = item
      /\ txn[h].op.quantity <= AvailableFor(txn[h])
  BY DEF CheckStock, StockIndInv, StockTables, locks
<1>3. Step(h) = "check"
  BY DEF CheckStock
<1>4. /\ Quiet(h) /\ Busy(h)' /\ Work(h)' = Work(h) /\ Work(h) \in Kinds
      /\ Follows(Work(h), Step(h), Step(h)') /\ Comes(Work(h), Step(h))
      /\ txn'[h].op = txn[h].op /\ txn'[h].at = txn[h].at
  BY <1>1, <1>2, <1>3, Advanced
<1>5. Work(h) \in {"use", "transfer", "retailer", "bill"} /\ Step(h)' \notin {"policy", "check", "count", "night"}
  BY <1>3, <1>4 DEF Follows, Comes
<1>6. txn[h].at \in 0..now
  BY <1>1 DEF Known
<1>7. Known(h)'
  BY <1>1, <1>2, <1>3, <1>5, <1>6, AdvancedKnows
<1>8. Holds(h)' /\ Planned(h)'
  BY <1>1, <1>2, <1>3, <1>4, <1>5 DEF Holds, Planned
<1>9. StockIndInv'
  BY <1>4, <1>7, <1>8, QuietKeeps
<1>10. Progress(h)
  BY <1>1, <1>2, <1>3, <1>4, <1>5 DEF Progress
<1> QED BY <1>9, <1>10

-----------------------------------------------------------------------------
(* What an adjustment counts. *)

LEMMA MaxZero == ASSUME NEW x \in Int PROVE Max({0, x}) = IF x > 0 THEN x ELSE 0
<1> DEFINE m == IF x > 0 THEN x ELSE 0
<1>1. m \in {0, x} /\ \A y \in {0, x} : m >= y
  OBVIOUS
<1>2. \A z \in {0, x} : (\A y \in {0, x} : z >= y) => z = m
  OBVIOUS
<1> HIDE DEF m
<1>3. Max({0, x}) = CHOOSE z \in {0, x} : \A y \in {0, x} : z >= y
  BY DEF Max
<1>4. (CHOOSE z \in {0, x} : \A y \in {0, x} : z >= y) = m
  BY <1>1, <1>2
<1> QED BY <1>3, <1>4 DEF m

LEMMA MadeMovement ==
  ASSUME NEW type \in Types, NEW quantity \in Int, NEW at \in Nat, NEW by \in Nat
  PROVE  /\ Movement(type, quantity, at, by) \in Entry
         /\ Movement(type, quantity, at, by).type = type
         /\ Movement(type, quantity, at, by).quantity = quantity
         /\ Movement(type, quantity, at, by).at = at
         /\ Movement(type, quantity, at, by).by = by
BY DEF Movement, Entry

\* A movement of nothing is not made.
LEMMA UnlessNothing ==
  ASSUME NEW u \in Entry, NEW a \in Entry, u.type = "use", a.type = "add"
  PROVE  LET rows == {m \in {u, a} : m.quantity # 0}
         IN /\ IsFiniteSet(rows) /\ rows \subseteq Entry
            /\ Available(rows) = a.quantity - u.quantity
<1> DEFINE rows == {m \in {u, a} : m.quantity # 0}
           A == {m \in {a} : m.quantity # 0}
           U == {m \in {u} : m.quantity # 0}
<1>1. rows = U \cup A /\ U \cap A = {} /\ U \subseteq {u} /\ A \subseteq {a}
  OBVIOUS
<1>2. IsFiniteSet(U) /\ IsFiniteSet(A) /\ U \subseteq Entry /\ A \subseteq Entry
  <2>1. IsFiniteSet({u}) /\ IsFiniteSet({a})
    BY FS_Singleton
  <2> QED BY <1>1, <2>1, FS_Subset
<1>3. Available(rows) = Available(U) + Available(A)
  BY <1>1, <1>2, AvailableBoth
<1>4. a.quantity \in Int /\ u.quantity \in Int
  BY DEF Entry
<1>5. Available(U) = 0 - u.quantity
  <2>1. CASE u.quantity = 0
    <3>1. U = {}
      BY <2>1
    <3>2. Available(U) = 0
      BY <3>1, AvailableNone, Zenon
    <3> QED BY <2>1, <3>2
  <2>2. CASE u.quantity # 0
    <3>1. U = {u}
      BY <2>2
    <3>2. Available({u}) = 0 - u.quantity
      BY AvailableOne
    <3> QED BY <3>1, <3>2, Zenon
  <2> QED BY <2>1, <2>2
<1>6. Available(A) = a.quantity
  <2>1. CASE a.quantity = 0
    <3>1. A = {}
      BY <2>1
    <3> QED BY <2>1, <3>1, AvailableNone, Zenon
  <2>2. CASE a.quantity # 0
    <3>1. A = {a}
      BY <2>2
    <3>2. Available({a}) = a.quantity
      BY AvailableOne
    <3> QED BY <3>1, <3>2, Zenon
  <2> QED BY <2>1, <2>2
<1>7. Available(rows) = a.quantity - u.quantity
  BY <1>3, <1>4, <1>5, <1>6
<1>8. IsFiniteSet(rows) /\ rows \subseteq Entry
  <2>1. IsFiniteSet(U \cup A) /\ U \cup A \subseteq Entry
    <3> HIDE DEF U, A
    <3> QED BY <1>2, FS_Union
  <2> QED BY <1>1, <2>1, Zenon
<1> HIDE DEF rows
<1> QED BY <1>7, <1>8 DEF rows

\* The goals of an adjustment, and what it counts, are numbers.
LEMMA Goalss ==
  ASSUME NEW goal \in Goals, NEW current \in Int
  PROVE  Delta(goal, current) \in Int
BY DEF Delta, Goals

LEMMA TodayRows ==
  ASSUME Entries(movements), now \in Nat
  PROVE  /\ IsFiniteSet(MovedToday) /\ MovedToday \subseteq Entry /\ MovedToday \subseteq movements
         /\ \A m \in MovedToday : m.type = "transfer" /\ m.quantity > 0
         /\ Sum(MovedToday) \in Nat /\ UsedToday \in Int /\ Stock \in Int
<1>1. IsFiniteSet(movements) /\ movements \subseteq Entry
  BY DEF Entries
<1>2. MovedToday \subseteq movements /\ \A m \in MovedToday : m.type = "transfer" /\ m.quantity > 0
  BY DEF MovedToday, Today, Entries
<1>3. IsFiniteSet(MovedToday) /\ MovedToday \subseteq Entry
  BY <1>1, <1>2, FS_Subset
<1>4. \A m \in MovedToday : m.quantity >= 0
  BY <1>2, <1>3 DEF Entry
<1>5. Sum(MovedToday) \in Nat
  BY <1>3, <1>4, SumNatRows
<1>6. UsedToday \in Int
  <2> DEFINE S == {m \in Today : m.type \in {"use", "loss"}}
  <2>1. S \subseteq movements
    BY DEF Today
  <2>2. IsFiniteSet(S) /\ S \subseteq Entry
    BY <1>1, <2>1, FS_Subset
  <2>3. Sum(S) \in Int
    BY <2>2, SumOfRows
  <2> QED BY <2>3 DEF UsedToday
<1>7. Stock \in Int
  BY <1>1, AvailableIsInt DEF Stock
<1> QED BY <1>2, <1>3, <1>5, <1>6, <1>7

LEMMA AdjustmentsMade ==
  ASSUME Entries(movements), now \in Nat, NEW t, t.op.goal \in Adjusts, t.at \in Nat, t.by \in Nat
  PROVE  /\ IsFiniteSet(Adjustments(t)) /\ Adjustments(t) \subseteq Entry
         /\ \A m \in Adjustments(t) : m.type \in {"use", "add"} /\ m.at = t.at /\ m.by = t.by
         /\ t.op.goal.stock # None => Available(Adjustments(t)) = t.op.goal.stock - Stock
         /\ t.op.goal.stock = None /\ t.op.goal.used = None => Adjustments(t) = {}
<1> DEFINE goal == t.op.goal
           use == Delta(goal.used, UsedToday)
           add == IF goal.stock = None THEN 0 ELSE Delta(goal.stock, Stock) + use
           u == Movement("use", use, t.at, t.by)
           a == Movement("add", add, t.at, t.by)
           rows == {m \in {u, a} : m.quantity # 0}
<1>1. goal.stock \in Goals /\ goal.used \in Goals /\ goal.moved \in Goals
  BY DEF Adjusts
<1>2. UsedToday \in Int /\ Stock \in Int
  BY TodayRows
<1>3. use \in Int
  BY <1>1, <1>2, Goalss
<1>4. add \in Int
  <2>1. Delta(goal.stock, Stock) \in Int
    BY <1>1, <1>2, Goalss
  <2> QED BY <1>3, <2>1
<1>5. goal.stock # None => add - use = goal.stock - Stock
  <2>1. goal.stock # None => Delta(goal.stock, Stock) = goal.stock - Stock /\ goal.stock \in Int
    BY <1>1 DEF Delta, Goals
  <2> QED BY <1>2, <1>3, <2>1
<1>6. goal.stock = None /\ goal.used = None => add = 0 /\ use = 0
  BY DEF Delta
<1>7. Adjustments(t) = rows
  BY Zenon DEF Adjustments
<1> HIDE DEF use, add, goal
<1>8. /\ u \in Entry /\ u.type = "use" /\ u.quantity = use /\ u.at = t.at /\ u.by = t.by
      /\ a \in Entry /\ a.type = "add" /\ a.quantity = add /\ a.at = t.at /\ a.by = t.by
  <2>1. "use" \in Types /\ "add" \in Types
    BY DEF Types
  <2> QED BY <1>3, <1>4, <2>1, MadeMovement
<1> HIDE DEF u, a
<1>9. IsFiniteSet(rows) /\ rows \subseteq Entry /\ Available(rows) = a.quantity - u.quantity
  BY <1>8, UnlessNothing
<1>10. \A m \in rows : m.type \in {"use", "add"} /\ m.at = t.at /\ m.by = t.by
  BY <1>8
<1>11. goal.stock # None => Available(rows) = goal.stock - Stock
  BY <1>5, <1>8, <1>9
<1>12. goal.stock = None /\ goal.used = None => rows = {}
  BY <1>6, <1>8
<1> HIDE DEF rows
<1> QED BY <1>7, <1>9, <1>10, <1>11, <1>12, Zenon DEF goal

LEMMA MovesMade ==
  ASSUME StockTables, NEW t, t.op.goal \in Adjusts, t.at \in Nat, t.by \in Nat
  PROVE  /\ Entries(Moves(t))
         /\ \A m \in Moves(t) : m.type = "transfer" /\ (m.at = t.at \/ m.at <= now)
                                /\ (m.by = t.by \/ \E n \in movements : n.by = m.by)
         /\ Replaced(t) \subseteq MovedToday
         /\ t.op.goal.moved = None => Moves(t) = MovedToday /\ Replaced(t) = {}
         /\ t.op.goal.moved = 0 => Moves(t) = {} \/ t.op.goal.moved = None
         /\ t.op.goal.moved = 0 => Replaced(t) = MovedToday \/ MovedToday = {} \/ t.op.goal.moved = None
<1> DEFINE moved == t.op.goal.moved
           M == MovedToday
           more == Delta(moved, Sum(M))
           later(m) == {n \in M : n.at > m.at \/ (n.at = m.at /\ n.by > m.by)}
           new == Movement("transfer", more, t.at, t.by)
           kept == {n \in M : Left(n, -more) > 0}
           rest == {[m EXCEPT !.quantity = Left(m, -more)] : m \in kept}
<1>1. Entries(movements) /\ now \in Nat /\ \A m \in movements : m.at <= now
  BY DEF StockTables
<1>2. /\ IsFiniteSet(M) /\ M \subseteq Entry /\ M \subseteq movements /\ Sum(M) \in Nat
      /\ \A m \in M : m.type = "transfer" /\ m.quantity > 0 /\ m.quantity \in Int
  BY <1>1, TodayRows DEF Entry
<1>3. more \in Int
  <2>1. moved \in Goals
    BY DEF Adjusts
  <2> QED BY <1>2, <2>1, Goalss
<1>4. \A m \in M : Sum(later(m)) \in Nat /\ Sum(later(m)) + m.quantity <= Sum(M)
  <2> SUFFICES ASSUME NEW m \in M PROVE Sum(later(m)) \in Nat /\ Sum(later(m)) + m.quantity <= Sum(M)
    OBVIOUS
  <2> DEFINE L == later(m)
             R == (M \ L) \ {m}
  <2>1. m \in Entry /\ m.at \in Nat /\ m.by \in Nat /\ m.quantity \in Int
    BY <1>2 DEF Entry
  <2>2. m \notin L /\ L \subseteq M
    BY <2>1
  <2>3. M = (L \cup {m}) \cup R /\ (L \cup {m}) \cap R = {} /\ L \cap {m} = {} /\ R \subseteq M
    BY <2>2
  <2> HIDE DEF L, R
  <2>4. IsFiniteSet(L) /\ IsFiniteSet(R) /\ IsFiniteSet({m}) /\ IsFiniteSet(L \cup {m})
    BY <1>2, <2>2, <2>3, FS_Subset, FS_Singleton, FS_Union
  <2>5. L \subseteq Entry /\ R \subseteq Entry /\ L \cup {m} \subseteq Entry /\ {m} \subseteq Entry
    BY <1>2, <2>1, <2>2, <2>3
  <2>6. (\A n \in L : n.quantity >= 0) /\ (\A n \in R : n.quantity >= 0)
    BY <1>2, <2>2, <2>3
  <2>7. Sum(L) \in Nat /\ Sum(R) \in Nat
    BY <2>4, <2>5, <2>6, SumNatRows
  <2>8. Sum((L \cup {m}) \cup R) = Sum(L \cup {m}) + Sum(R)
    BY <2>3, <2>4, <2>5, SumBoth
  <2>9. Sum(L \cup {m}) = Sum(L) + Sum({m})
    BY <2>3, <2>4, <2>5, SumBoth
  <2>10. Sum({m}) = m.quantity
    BY <2>1, SumOne
  <2>11. Sum(M) = Sum((L \cup {m}) \cup R)
    BY <2>3, Zenon
  <2>12. Sum(L) + m.quantity <= Sum(M)
    BY <2>1, <2>7, <2>8, <2>9, <2>10, <2>11
  <2> QED BY <2>7, <2>12 DEF L
<1>5. ASSUME NEW m \in M, NEW cut \in Int
      PROVE  /\ Left(m, cut) \in Int
             /\ cut <= 0 => Left(m, cut) = m.quantity
             /\ cut >= Sum(M) => Left(m, cut) = 0
  <2> DEFINE s == Sum(later(m))
             c == Max({0, cut - s})
  <2>1. s \in Nat /\ s + m.quantity <= Sum(M) /\ m.quantity \in Int /\ m.quantity > 0 /\ Sum(M) \in Nat
    BY <1>2, <1>4
  <2>2. Left(m, cut) = Max({0, m.quantity - c})
    BY Zenon DEF Left
  <2> HIDE DEF s
  <2>3. c = IF cut - s > 0 THEN cut - s ELSE 0
    BY <2>1, MaxZero
  <2>4. c \in Int
    BY <2>1, <2>3
  <2> HIDE DEF c
  <2>5. Max({0, m.quantity - c}) = IF m.quantity - c > 0 THEN m.quantity - c ELSE 0
    BY <2>1, <2>4, MaxZero
  <2> HIDE DEF later, M
  <2> QED BY <2>1, <2>2, <2>3, <2>4, <2>5
<1>6. Moves(t) = IF more > 0 THEN {new} ELSE rest
  BY Zenon DEF Moves
<1>7. Replaced(t) = IF more < 0 THEN M ELSE {}
  BY DEF Replaced
<1>8. new \in Entry /\ new.type = "transfer" /\ new.quantity = more /\ new.at = t.at /\ new.by = t.by
  <2>1. "transfer" \in Types
    BY DEF Types
  <2> QED BY <1>3, <2>1, MadeMovement
<1>9. -more \in Int
  BY <1>3
<1> HIDE DEF more, new
<1>10. ASSUME NEW r \in rest
       PROVE  \E m \in M : /\ Left(m, -more) > 0
                           /\ r = [m EXCEPT !.quantity = Left(m, -more)]
                           /\ r \in Entry /\ r.type = "transfer" /\ r.quantity > 0 /\ r.at = m.at /\ r.by = m.by
  <2>1. PICK m \in M : Left(m, -more) > 0 /\ r = [m EXCEPT !.quantity = Left(m, -more)]
    BY <1>10
  <2>2. Left(m, -more) \in Int
    BY <1>5, <1>9
  <2>3. m \in Entry /\ m.type = "transfer"
    BY <1>2
  <2> HIDE DEF M
  <2> QED BY <2>1, <2>2, <2>3 DEF Entry
<1>11. IsFiniteSet(rest)
  <2>1. IsFiniteSet(kept)
    BY <1>2, FS_Subset
  <2> HIDE DEF kept
  <2> DEFINE cut == [m \in kept |-> [m EXCEPT !.quantity = Left(m, -more)]]
  <2>2. IsFiniteSet({cut[m] : m \in kept})
    <3>1. cut \in Surjection(kept, {cut[m] : m \in kept})
      BY DEF Surjection
    <3> HIDE DEF cut
    <3> QED BY <2>1, <3>1, FS_Surjection
  <2>3. {cut[m] : m \in kept} = rest
    OBVIOUS
  <2> QED BY <2>2, <2>3, Zenon
<1>12. CASE more > 0
  <2>1. Moves(t) = {new}
    BY <1>6, <1>12
  <2>2. moved # None /\ moved # 0
    BY <1>2, <1>12 DEF more, Delta
  <2>3. Replaced(t) = {}
    BY <1>3, <1>7, <1>12
  <2>4. IsFiniteSet({new})
    BY FS_Singleton
  <2>5. Entries({new})
    BY <1>8, <1>12, <2>4 DEF Entries
  <2> HIDE DEF M, rest
  <2> QED BY <1>8, <2>1, <2>2, <2>3, <2>5
<1>13. CASE ~ more > 0
  <2>1. Moves(t) = rest
    BY <1>6, <1>13
  <2>2. Entries(rest)
    BY <1>10, <1>11 DEF Entries
  <2>3. \A r \in rest : r.type = "transfer" /\ r.at <= now /\ \E n \in movements : n.by = r.by
    BY <1>1, <1>2, <1>10
  <2>4. moved = None => rest = M /\ Replaced(t) = {}
    <3> SUFFICES ASSUME moved = None PROVE rest = M /\ Replaced(t) = {}
      OBVIOUS
    <3>1. more = 0
      BY DEF more, Delta
    <3>2. Replaced(t) = {}
      BY <1>7, <3>1
    <3>3. \A m \in M : Left(m, -more) = m.quantity /\ m.quantity > 0
      BY <1>2, <1>5, <1>9, <3>1
    <3>4. \A m \in M : [m EXCEPT !.quantity = Left(m, -more)] = m
      <4> SUFFICES ASSUME NEW m \in M PROVE [m EXCEPT !.quantity = Left(m, -more)] = m
        OBVIOUS
      <4>1. m \in Entry /\ Left(m, -more) = m.quantity
        BY <1>2, <3>3
      <4> HIDE DEF M
      <4> QED BY <4>1 DEF Entry
    <3> HIDE DEF M
    <3>5. kept = M
      BY <3>3
    <3> HIDE DEF kept
    <3>6. rest = M
      BY <3>4, <3>5
    <3> QED BY <3>2, <3>6
  <2>5. ASSUME moved = 0, moved # None PROVE rest = {} /\ (Replaced(t) = M \/ M = {})
    <3>1. more = 0 - Sum(M)
      BY <2>5 DEF more, Delta
    <3>2. -more >= Sum(M)
      BY <1>2, <3>1
    <3>3. \A m \in M : ~ Left(m, -more) > 0
      BY <1>5, <1>9, <3>2
    <3>4. kept = {}
      BY <3>3
    <3>5. rest = {}
      <4> HIDE DEF kept
      <4> QED BY <3>4
    <3>6. ASSUME M # {} PROVE Replaced(t) = M
      <4>1. PICK m \in M : TRUE
        BY <3>6
      <4>2. Sum(M) > 0
        <5>1. /\ Sum(later(m)) \in Nat /\ Sum(later(m)) + m.quantity <= Sum(M)
              /\ m.quantity > 0 /\ m.quantity \in Int /\ Sum(M) \in Nat
          BY <1>2, <1>4, <4>1
        <5> HIDE DEF later, M
        <5> QED BY <5>1
      <4>3. more < 0
        BY <1>2, <3>1, <4>2
      <4> QED BY <1>7, <4>3
    <3> QED BY <3>5, <3>6
  <2>6. Replaced(t) \subseteq M
    BY <1>7
  <2>7. \A m \in rest : m.type = "transfer" /\ (m.at = t.at \/ m.at <= now)
                         /\ (m.by = t.by \/ \E n \in movements : n.by = m.by)
    BY <2>3
  <2> HIDE DEF rest
  <2> QED BY <2>1, <2>2, <2>4, <2>5, <2>6, <2>7, Zenon
<1> QED BY <1>12, <1>13

LEMMA CountKeeps ==
  ASSUME StockAssumption, StockIndInv, NEW h \in Handlers, Count(h)
  PROVE  Progress(h) /\ StockIndInv'
<1> DEFINE t == txn[h]
           adj == Adjustments(t)
           moves == Moves(t)
           gone == Replaced(t)
           session == [t EXCEPT !.rows = adj \cup moves, !.gone = gone]
           goal == t.op.goal
<1>1. Busy(h) /\ Known(h) /\ OwnRequest(h) /\ txn[h] \in Txn /\ Holds(h) /\ StockTables
  BY DEF Count, Busy, StockIndInv, StockTables, Mine
<1>2. Advance(h, session) /\ UNCHANGED <<tables, locks>> /\ Step(h) = "count"
  BY DEF Count
<1>3. {allocation', item'} \subseteq Handlers \cup {None} /\ item' = item /\ movements' = movements /\ now' = now
  BY <1>1, <1>2 DEF StockTables, locks, tables, Advance
<1>4. Work(h) = "set" /\ item = h
  BY <1>1, <1>2, AtStatement DEF Comes, Holds
<1>5. /\ goal \in Adjusts /\ t.at \in Nat /\ t.by \in Nat /\ t.by \in 1..requests /\ t.at <= now /\ t.at \in 0..now
      /\ now \in Nat /\ requests \in Nat /\ t.op \in Requests
  <2>1. txn[h].op \in Requests /\ scenario \in Scenarios /\ now \in Nat /\ requests \in Nat
        /\ txn[h].by \in 1..requests /\ txn[h].at \in 0..now
    BY <1>1 DEF Known, StockTables
  <2>2. goal \in Adjusts
    BY <1>4, <2>1, RequestFields DEF Work
  <2> QED BY <2>1, <2>2
<1>6. /\ Entries(movements) /\ \A m \in movements : m.at <= now /\ m.by \in 1..requests
  BY <1>1 DEF StockTables
<1>7. /\ IsFiniteSet(adj) /\ adj \subseteq Entry
      /\ \A m \in adj : m.type \in {"use", "add"} /\ m.at = t.at /\ m.by = t.by
      /\ goal.stock # None => Available(adj) = goal.stock - Stock
      /\ goal.stock = None /\ goal.used = None => adj = {}
  BY <1>5, <1>6, AdjustmentsMade
<1>8. /\ Entries(moves)
      /\ \A m \in moves : m.type = "transfer" /\ (m.at = t.at \/ m.at <= now)
                                /\ (m.by = t.by \/ \E n \in movements : n.by = m.by)
      /\ gone \subseteq MovedToday
      /\ goal.moved = None => moves = MovedToday /\ gone = {}
      /\ goal.moved = 0 => moves = {} \/ goal.moved = None
      /\ goal.moved = 0 => gone = MovedToday \/ MovedToday = {} \/ goal.moved = None
  BY <1>1, <1>5, MovesMade
<1>9. /\ IsFiniteSet(MovedToday) /\ MovedToday \subseteq Entry /\ MovedToday \subseteq movements
      /\ \A m \in MovedToday : m.type = "transfer" /\ m.quantity > 0
      /\ Stock \in Int
  BY <1>5, <1>6, TodayRows
<1>10. IsFiniteSet(movements) /\ movements \subseteq Entry
  BY <1>6 DEF Entries
<1> HIDE DEF adj, moves, gone
<1>11. Entries(adj \cup moves)
  <2>1. IsFiniteSet(adj \cup moves)
    BY <1>7, <1>8, FS_Union DEF Entries
  <2> QED BY <1>7, <1>8, <2>1 DEF Entries
<1>12. \A m \in adj \cup moves : /\ m.at <= now /\ m.by \in 1..requests /\ m.type # "loss"
                                 /\ (m.by = t.by \/ \E n \in movements : n.by = m.by)
  <2>1. \A m \in adj : m.at <= now /\ m.by \in 1..requests /\ m.type # "loss" /\ m.by = t.by
    BY <1>5, <1>7
  <2>2. \A m \in moves : m.at <= now /\ m.by \in 1..requests /\ m.type # "loss"
    BY <1>5, <1>6, <1>8
  <2> QED BY <1>8, <2>1, <2>2
<1>13. \A m \in gone : m.type = "transfer"
  BY <1>8, <1>9
<1>14. gone \subseteq Entry
  BY <1>8, <1>9
<1>15. /\ session \in Txn /\ session.op = t.op /\ session.step = t.step /\ session.by = t.by
       /\ session.seed = t.seed /\ session.at = t.at /\ session.rows = adj \cup moves
       /\ session.missing = t.missing /\ session.gone = gone
  <2>1. adj \cup moves \subseteq Entry
    BY <1>11 DEF Entries
  <2> QED BY <1>1, <1>14, <2>1 DEF Txn
<1>16. /\ Quiet(h) /\ Busy(h)' /\ Work(h)' = Work(h) /\ Work(h) \in Kinds
       /\ Follows(Work(h), Step(h), Step(h)') /\ Comes(Work(h), Step(h))
       /\ txn'[h].step \in 1..Len(Script[Work(h)])
       /\ txn'[h].op = t.op /\ txn'[h].at = t.at /\ txn'[h].by = t.by /\ ~ txn'[h].seed
       /\ txn'[h].rows = adj \cup moves /\ txn'[h].gone = gone
  <2> HIDE DEF session
  <2>1. \A g \in Handlers : g # h => (item = g => item' = g)
    BY <1>3
  <2>2. UNCHANGED tables
    BY <1>2
  <2>3. Advance(h, session) /\ session.by = txn[h].by /\ session.op = txn[h].op /\ session.step = txn[h].step
        /\ session.seed = txn[h].seed /\ session \in Txn
    BY <1>2, <1>15
  <2>4. Step(h) \notin {"seed", "commit"}
    BY <1>2
  <2>5. /\ Quiet(h) /\ Busy(h)' /\ Work(h)' = Work(h) /\ Work(h) \in Kinds
        /\ Follows(Work(h), Step(h), Step(h)') /\ Comes(Work(h), Step(h))
        /\ txn'[h].step \in 1..Len(Script[Work(h)])
        /\ txn'[h].op = txn[h].op /\ ~ txn'[h].seed /\ txn'[h].by = txn[h].by
        /\ txn'[h].at = session.at /\ txn'[h].rows = session.rows
        /\ txn'[h].missing = session.missing /\ txn'[h].gone = session.gone
    BY <1>1, <1>3, <2>1, <2>2, <2>3, <2>4, Advanced
  <2> QED BY <1>15, <2>5
<1> HIDE DEF session
<1>17. Known(h)'
  <2>1. Requests' = Requests /\ requests' = requests /\ scenario' = scenario
    BY <1>16, SameRequests DEF Quiet
  <2>2. t.op.kind \in scenario.serves[h]
    BY <1>1 DEF Known
  <2>4. Entries(txn[h].rows)'
    BY <1>11, <1>16 DEF Entries, Entry
  <2> QED BY <1>3, <1>4, <1>5, <1>12, <1>13, <1>16, <2>1, <2>2, <2>4 DEF Known, Work
<1>18. Holds(h)'
  BY <1>3, <1>4, <1>16 DEF Holds
<1> DEFINE after == Available((movements \ gone) \cup (adj \cup moves))
<1>19. goal.stock # None /\ goal.moved = None => after = goal.stock
  <2> SUFFICES ASSUME goal.stock # None, goal.moved = None PROVE after = goal.stock
    OBVIOUS
  <2>1. (movements \ gone) \cup (adj \cup moves) = movements \cup adj
    BY <1>8, <1>9
  <2>2. movements \cap adj = {}
    BY <1>1, <1>7 DEF OwnRequest
  <2>3. Available(movements \cup adj) = Stock + Available(adj)
    BY <1>7, <1>10, <2>2, AvailableBoth DEF Stock
  <2>4. goal.stock \in Int
    BY <1>5 DEF Adjusts, Goals
  <2>5. after = Stock + (goal.stock - Stock)
    BY <1>7, <2>1, <2>3, Zenon
  <2> HIDE DEF after
  <2> QED BY <1>9, <2>4, <2>5
<1>20. goal.stock = None /\ goal.used = None /\ goal.moved \in {None, 0} => after >= Stock
  <2> SUFFICES ASSUME goal.stock = None, goal.used = None, goal.moved \in {None, 0} PROVE after >= Stock
    OBVIOUS
  <2>1. adj = {}
    BY <1>7
  <2>2. CASE goal.moved = None \/ MovedToday = {}
    <3>1. (movements \ gone) \cup (adj \cup moves) = movements
      BY <1>8, <1>9, <2>1, <2>2
    <3>2. after = Stock
      BY <3>1, Zenon DEF Stock
    <3> HIDE DEF after
    <3> QED BY <1>9, <3>2
  <2>3. CASE goal.moved # None /\ MovedToday # {}
    <3>1. moves = {} /\ gone = MovedToday
      BY <1>8, <2>3
    <3> DEFINE rest == movements \ MovedToday
    <3>2. (movements \ gone) \cup (adj \cup moves) = rest
      BY <2>1, <3>1
    <3>3. rest \cup MovedToday = movements /\ rest \cap MovedToday = {} /\ rest \subseteq movements
      BY <1>9
    <3>4. IsFiniteSet(rest) /\ rest \subseteq Entry
      BY <1>10, <3>3, FS_Subset
    <3>5. \A m \in MovedToday : m.type # "add" /\ m.quantity >= 0
      BY <1>9 DEF Entry
    <3>6. Available(MovedToday) \in Int /\ Available(MovedToday) <= 0
      BY <1>9, <3>5, AvailableLess
    <3> HIDE DEF rest
    <3>7. Available(rest \cup MovedToday) = Available(rest) + Available(MovedToday)
      BY <1>9, <3>3, <3>4, AvailableBoth
    <3>8. Stock = Available(rest) + Available(MovedToday) /\ after = Available(rest)
      BY <3>2, <3>3, <3>7, Zenon DEF Stock
    <3>9. Available(rest) \in Int
      BY <3>4, AvailableIsInt
    <3> HIDE DEF after
    <3> QED BY <3>6, <3>8, <3>9
  <2> QED BY <2>2, <2>3
<1>21. Planned(h)'
  <2>1. After(h)' = after /\ Stock' = Stock
    BY <1>3, <1>16 DEF After, Stock, Available, Sum
  <2>2. txn'[h].op.goal = goal
    BY <1>16
  <2>3. \A m \in txn'[h].rows : m.by = txn'[h].by \/ \E n \in movements' : n.by = m.by
    BY <1>3, <1>12, <1>16
  <2> HIDE DEF after
  <2> QED BY <1>19, <1>20, <2>1, <2>2, <2>3 DEF Planned
<1>22. StockIndInv'
  BY <1>16, <1>17, <1>18, <1>21, QuietKeeps
<1>23. Progress(h)
  BY <1>1, <1>4, <1>16 DEF Progress
<1> QED BY <1>22, <1>23

LEMMA MissPolicyKeeps ==
  ASSUME StockAssumption, StockIndInv, NEW h \in Handlers, MissPolicy(h)
  PROVE  Progress(h) /\ StockIndInv' /\ ~ policyRow
<1>1. Busy(h) /\ Known(h) /\ txn[h] \in Txn /\ StockTables
  BY DEF MissPolicy, Busy, StockIndInv, StockTables, Mine
<1>2. /\ Step(h) = "policy" /\ ~ policyRow /\ UNCHANGED <<now, tables, locks, requests, scenario>>
      /\ txn' = [txn EXCEPT ![h].seed = TRUE]
  BY DEF MissPolicy
<1>3. Step(h) = Script[Work(h)][txn[h].step] /\ Work(h) # "loss" /\ txn[h].op # None
  BY <1>1, <1>2, AtStatement DEF Comes
<1> DEFINE next == [txn[h] EXCEPT !.seed = TRUE]
<1>4. /\ next \in Txn /\ next.seed = TRUE /\ next.op = txn[h].op /\ next.step = txn[h].step
      /\ next.by = txn[h].by /\ next.at = txn[h].at /\ next.rows = txn[h].rows
      /\ next.missing = txn[h].missing /\ next.gone = txn[h].gone
  BY <1>1 DEF Txn
<1>5. txn \in [Handlers -> Txn] /\ txn' = [txn EXCEPT ![h] = next]
  BY <1>1, <1>2 DEF StockTables
<1> HIDE DEF next
<1>6. txn' \in [Handlers -> Txn] /\ txn'[h] = next /\ \A g \in Handlers : g # h => txn'[g] = txn[g]
  BY <1>4, <1>5
<1>7. Step(h)' = "seed" /\ Busy(h)' /\ Work(h)' = Work(h)
  BY <1>3, <1>4, <1>6 DEF Step, Busy, Work
<1>8. Quiet(h)
  BY <1>1, <1>2, <1>4, <1>6, <1>7 DEF Quiet, tables, locks, StockTables
<1>9. Known(h)'
  <2>1. Requests' = Requests
    BY <1>2, SameRequests
  <2> QED BY <1>1, <1>2, <1>3, <1>4, <1>6, <1>7, <2>1 DEF Known, Work, Entries, Entry
<1>10. Holds(h)' /\ Planned(h)'
  BY <1>7 DEF Holds, Planned
<1>11. StockIndInv'
  BY <1>7, <1>8, <1>9, <1>10, QuietKeeps
<1>12. Progress(h)
  BY <1>1, <1>2, <1>3, <1>4, <1>6, <1>7, <1>8 DEF Progress
<1> QED BY <1>2, <1>11, <1>12

LEMMA SeedPolicyKeeps ==
  ASSUME StockAssumption, StockIndInv, NEW h \in Handlers, SeedPolicy(h)
  PROVE  Progress(h) /\ StockIndInv'
<1>1. Busy(h) /\ Known(h) /\ txn[h] \in Txn /\ StockTables
  BY DEF SeedPolicy, Busy, StockIndInv, StockTables, Mine
<1>2. /\ Step(h) = "seed" /\ ~ policyRow /\ policyRow' = TRUE
      /\ UNCHANGED <<now, movements, nights, requests, scenario>>
      /\ txn' = [txn EXCEPT ![h].seed = FALSE]
  BY DEF SeedPolicy
<1>3. Script[Work(h)][txn[h].step] = "policy" /\ Work(h) \in Kinds /\ txn[h].op # None
      /\ txn[h].step \in 1..Len(Script[Work(h)])
  BY <1>1, <1>2, AtStatement
<1>4. Work(h) # "loss"
  BY <1>3, Places DEF Comes
<1> DEFINE next == [txn[h] EXCEPT !.seed = FALSE]
<1>5. /\ next \in Txn /\ next.seed = FALSE /\ next.op = txn[h].op /\ next.step = txn[h].step
      /\ next.by = txn[h].by /\ next.at = txn[h].at /\ next.rows = txn[h].rows
      /\ next.missing = txn[h].missing /\ next.gone = txn[h].gone
  BY <1>1 DEF Txn
<1>6. txn \in [Handlers -> Txn] /\ txn' = [txn EXCEPT ![h] = next]
  BY <1>1, <1>2 DEF StockTables
<1> HIDE DEF next
<1>7. txn' \in [Handlers -> Txn] /\ txn'[h] = next /\ \A g \in Handlers : g # h => txn'[g] = txn[g]
  BY <1>5, <1>6
<1>8. Step(h)' = "policy" /\ Busy(h)' /\ Work(h)' = Work(h)
  BY <1>3, <1>5, <1>7 DEF Step, Busy, Work
<1>9. {allocation', item'} \subseteq Handlers \cup {None} /\ \A g \in Handlers : g # h => (item = g => item' = g)
  BY <1>1 DEF SeedPolicy, StockTables, StockAssumption
<1>10. Quiet(h)
  BY <1>1, <1>2, <1>5, <1>7, <1>9 DEF Quiet
<1>11. Known(h)'
  <2>1. Requests' = Requests
    BY <1>2, SameRequests
  <2> QED BY <1>1, <1>2, <1>3, <1>4, <1>5, <1>7, <1>8, <2>1 DEF Known, Work, Entries, Entry
<1>12. Holds(h)' /\ Planned(h)'
  BY <1>8 DEF Holds, Planned
<1>13. StockIndInv'
  BY <1>8, <1>10, <1>11, <1>12, QuietKeeps
<1>14. Progress(h)
  BY <1>1, <1>2, <1>4, <1>5, <1>7, <1>8, <1>10 DEF Progress
<1> QED BY <1>13, <1>14

-----------------------------------------------------------------------------
(* Reads. *)

LEMMA MinIs ==
  ASSUME NEW S, S \subseteq Nat, S # {}
  PROVE  Min(S) \in S /\ \A d \in S : Min(S) <= d
<1>1. \E m \in S : \A d \in S : m <= d
  <2>1. PICK n \in S : TRUE
    OBVIOUS
  <2> DEFINE T == {0..k : k \in S \cap 0..n}
  <2>2. n \in Nat /\ IsFiniteSet(0..n) /\ T \subseteq SUBSET (0..n) /\ 0..n \in T
    <3>1. n \in Nat /\ n \in S \cap 0..n
      BY <2>1
    <3>2. IsFiniteSet(0..n)
      BY <3>1, FS_Interval
    <3>3. 0..n \in T
      BY <3>1
    <3>4. \A k \in S \cap 0..n : 0..k \subseteq 0..n
      BY <3>1
    <3> QED BY <3>1, <3>2, <3>3, <3>4
  <2>3. PICK U \in T : \A V \in T : V \subseteq U => V = U
    <3> HIDE DEF T
    <3> DEFINE I == 0..n
    <3>1. IsFiniteSet(I) /\ T \subseteq SUBSET I /\ T # {}
      BY <2>2
    <3> HIDE DEF I
    <3> QED BY <3>1, MinimalSubset
  <2>4. PICK m \in S \cap 0..n : U = 0..m
    BY <2>3
  <2>5. ASSUME NEW d \in S, d < m PROVE FALSE
    <3>1. d \in S \cap 0..n /\ m \in Nat /\ d \in Nat
      BY <2>2, <2>4, <2>5
    <3>2. 0..d \in T /\ 0..d \subseteq 0..m
      BY <2>5, <3>1
    <3>3. 0..d = 0..m
      BY <2>3, <2>4, <3>2, Zenon
    <3> QED BY <2>5, <3>1, <3>3
  <2> QED BY <2>4, <2>5
<1>2. Min(S) = CHOOSE m \in S : \A d \in S : m <= d
  BY DEF Min
<1> QED BY <1>1, <1>2

LEMMA MissingAre ==
  ASSUME StockTables
  PROVE  /\ MissingNights \subseteq 0..(Day(now) - 1) /\ MissingNights \cap nights = {}
         /\ \A n \in MissingNights : AddBy(n) /\ \A d \in Nat : d < n /\ AddBy(d) => d \in nights \cup MissingNights
<1> DEFINE adds == {Day(m.at) : m \in {m \in movements : m.type = "add"}}
<1>1. now \in Nat /\ movements \subseteq Entry
  BY DEF StockTables, Entries
<1>2. Day(now) \in Nat
  BY <1>1, Days
<1>3. \A m \in movements : m.at \in Nat /\ Day(m.at) \in Nat
  BY <1>1, Days DEF Entry
<1>4. \A d : AddBy(d) <=> \E x \in adds : x <= d
  BY DEF AddBy
<1>5. adds \subseteq Nat
  BY <1>3
<1>6. CASE adds = {}
  <2>1. MissingNights = {}
    BY <1>6, Zenon DEF MissingNights
  <2> QED BY <2>1
<1>7. CASE adds # {}
  <2> HIDE DEF adds
  <2>1. Min(adds) \in adds /\ \A d \in adds : Min(adds) <= d
    BY <1>5, <1>7, MinIs
  <2>2. MissingNights = (Min(adds)..(Day(now) - 1)) \ nights
    BY <1>7, Zenon DEF MissingNights, adds
  <2>3. Min(adds) \in Nat
    BY <1>5, <2>1
  <2>4. ASSUME NEW n \in MissingNights
        PROVE  AddBy(n) /\ \A d \in Nat : d < n /\ AddBy(d) => d \in nights \cup MissingNights
    <3>1. n \in Min(adds)..(Day(now) - 1)
      BY <2>2
    <3>2. AddBy(n)
      BY <1>4, <2>1, <3>1
    <3>3. ASSUME NEW d \in Nat, d < n, AddBy(d) PROVE d \in nights \cup MissingNights
      <4>1. PICK x \in adds : x <= d
        BY <1>4, <3>3
      <4>2. Min(adds) <= d
        BY <1>5, <2>1, <2>3, <4>1
      <4>3. d \in Min(adds)..(Day(now) - 1)
        BY <1>2, <2>3, <3>1, <3>3, <4>2
      <4> QED BY <2>2, <4>3
    <3> QED BY <3>2, <3>3
  <2>5. MissingNights \subseteq 0..(Day(now) - 1) /\ MissingNights \cap nights = {}
    BY <1>2, <2>2, <2>3
  <2> QED BY <2>4, <2>5
<1> QED BY <1>6, <1>7

LEMMA ReadNightsKeeps ==
  ASSUME StockAssumption, StockIndInv, NEW h \in Handlers, ReadNights(h)
  PROVE  /\ Quiet(h) /\ StockIndInv'
         /\ Busy(h) /\ Busy(h)' /\ Work(h) = "loss" /\ Work(h)' = "loss" /\ Step(h)' = "night"
         /\ txn'[h].op = txn[h].op /\ txn'[h].at = txn[h].at
         /\ txn[h].rows = {} /\ txn'[h].rows = {} /\ txn'[h].missing = MissingNights
         /\ MissingNights # {}
<1> DEFINE session == [txn[h] EXCEPT !.missing = MissingNights]
<1>1. Busy(h) /\ Known(h) /\ txn[h] \in Txn /\ StockTables
  BY DEF ReadNights, Busy, StockIndInv, StockTables, Mine
<1>2. Advance(h, session) /\ UNCHANGED <<tables, locks>> /\ Step(h) = "nights" /\ MissingNights # {}
  BY DEF ReadNights
<1>3. {allocation', item'} \subseteq Handlers \cup {None} /\ item' = item
  BY <1>1, <1>2 DEF StockTables, locks
<1>4. Work(h) = "loss" /\ txn[h].rows = {} /\ txn[h].op.kind = "loss"
  BY <1>1, <1>2, AtStatement DEF Comes, Known, Work
<1>5. MissingNights \subseteq 0..(Day(now) - 1) /\ Day(now) \in Nat
  BY <1>1, MissingAre, Days DEF StockTables
<1>6. MissingNights \subseteq Nat
  BY <1>5
<1>7. /\ session \in Txn /\ session.op = txn[h].op /\ session.step = txn[h].step /\ session.by = txn[h].by
      /\ session.seed = txn[h].seed /\ session.at = txn[h].at /\ session.rows = txn[h].rows
      /\ session.missing = MissingNights /\ session.gone = txn[h].gone
  BY <1>1, <1>6 DEF Txn
<1> HIDE DEF session
<1>8. /\ Quiet(h) /\ Busy(h)' /\ Work(h)' = Work(h)
      /\ Follows(Work(h), Step(h), Step(h)')
      /\ txn'[h].step \in 1..Len(Script[Work(h)]) /\ Step(h)' = Script[Work(h)][txn[h].step + 1]
      /\ txn'[h].op = txn[h].op /\ ~ txn'[h].seed /\ txn'[h].by = txn[h].by
      /\ txn'[h].at = txn[h].at /\ txn'[h].rows = {}
      /\ txn'[h].missing = MissingNights /\ txn'[h].gone = txn[h].gone
  <2>1. \A g \in Handlers : g # h => (item = g => item' = g)
    BY <1>3
  <2>2. UNCHANGED tables /\ Step(h) \notin {"seed", "commit"}
    BY <1>2
  <2>3. Advance(h, session) /\ session.by = txn[h].by /\ session.op = txn[h].op /\ session.step = txn[h].step
        /\ session.seed = txn[h].seed /\ session \in Txn
    BY <1>2, <1>7
  <2>4. /\ Quiet(h) /\ Busy(h)' /\ Work(h)' = Work(h) /\ Work(h) \in Kinds
        /\ Follows(Work(h), Step(h), Step(h)')
        /\ txn'[h].step \in 1..Len(Script[Work(h)]) /\ Step(h)' = Script[Work(h)][txn[h].step + 1]
        /\ txn'[h].op = txn[h].op /\ ~ txn'[h].seed /\ txn'[h].by = txn[h].by
        /\ txn'[h].at = session.at /\ txn'[h].rows = session.rows
        /\ txn'[h].missing = session.missing /\ txn'[h].gone = session.gone
    BY <1>1, <1>3, <2>1, <2>2, <2>3, Advanced
  <2> QED BY <1>4, <1>7, <2>4
<1>9. Step(h)' = "night"
  <2>1. txn[h].step \in 1..3 /\ Script["loss"][txn[h].step] = "nights"
    <3>1. txn[h].step \in 1..Len(Script["loss"]) /\ Script["loss"][txn[h].step] = "nights"
      BY <1>1, <1>2, <1>4, AtStatement
    <3> QED BY <3>1 DEF Script
  <2>2. txn[h].step = 1
    BY <2>1 DEF Script
  <2> QED BY <1>4, <1>8, <2>2 DEF Script
<1>10. Nightly(txn[h])'
  <2>1. Day(now)' = Day(now)
    BY <1>8 DEF Quiet, Day
  <2> QED BY <1>5, <1>8, <2>1 DEF Nightly
<1>11. Known(h)'
  <2>1. Requests' = Requests /\ now' = now /\ requests' = requests /\ scenario' = scenario
    BY <1>8, SameRequests DEF Quiet
  <2>2. Entries(txn[h].rows)'
    BY <1>8, FS_EmptySet DEF Entries
  <2> QED BY <1>1, <1>2, <1>4, <1>8, <1>9, <1>10, <2>1, <2>2 DEF Known, Work
<1>12. Holds(h)' /\ Planned(h)'
  BY <1>4, <1>8 DEF Holds, Planned
<1>13. StockIndInv'
  BY <1>8, <1>11, <1>12, QuietKeeps
<1> QED BY <1>1, <1>2, <1>4, <1>8, <1>9, <1>13

LEMMA CappedIs ==
  ASSUME NEW lost \in Nat, NEW stock \in Int
  PROVE  /\ Capped(lost, stock) \in Nat
         /\ Capped(lost, stock) = 0 \/ Capped(lost, stock) <= stock
BY DEF Capped

\* The loss a read takes of its first missing night.
FirstNight(h) == Min(txn[h].missing)
StockAt(h) == Available(Upto(movements \cup txn[h].rows, Midnight(FirstNight(h) + 1)))
LossRow(h, lost) == Movement("loss", Capped(lost, StockAt(h)), Midnight(FirstNight(h) + 1), txn[h].by)

LEMMA LossRowMade ==
  ASSUME StockAssumption, StockIndInv, NEW h \in Handlers, Step(h) = "night", NEW lost \in Losses
  PROVE  LET n == FirstNight(h)
             m == LossRow(h, lost)
         IN /\ n \in txn[h].missing /\ n \in Nat /\ n \in 0..(Day(now) - 1)
            /\ \A d \in txn[h].missing : n <= d
            /\ m \in Entry /\ m.type = "loss" /\ m.at = Midnight(n + 1) /\ m.at <= now /\ NightOf(m) = n
            /\ m.by = txn[h].by /\ m.quantity \in Nat
            /\ StockAt(h) \in Int /\ (m.quantity = 0 \/ m.quantity <= StockAt(h))
            /\ m \notin movements /\ m \notin txn[h].rows
            /\ Work(h) = "loss" /\ Busy(h) /\ Known(h) /\ Nightly(txn[h])
<1> DEFINE n == FirstNight(h)
           stock == StockAt(h)
           loss == Capped(lost, stock)
           m == LossRow(h, lost)
<1>1. Busy(h) /\ Known(h) /\ txn[h] \in Txn /\ StockTables /\ OwnRequest(h)
  BY DEF Busy, StockIndInv, StockTables, Mine
<1>2. Work(h) = "loss" /\ txn[h].missing # {} /\ Nightly(txn[h])
  BY <1>1, AtStatement DEF Comes, Known, Work
<1>3. now \in Nat /\ Day(now) \in Nat /\ 2 * Day(now) <= now
  BY <1>1, Days DEF StockTables
<1>4. txn[h].missing \subseteq 0..(Day(now) - 1) /\ txn[h].missing \subseteq Nat
  BY <1>1, <1>2 DEF Nightly, Txn
<1>5. n \in txn[h].missing /\ \A d \in txn[h].missing : n <= d
  BY <1>2, <1>4, MinIs DEF FirstNight
<1>6. n \in Nat /\ n \in 0..(Day(now) - 1) /\ n + 1 \in Nat
  BY <1>4, <1>5
<1> HIDE DEF n
<1>7. Midnight(n + 1) \in Nat /\ Day(Midnight(n + 1)) = n + 1 /\ Midnight(n + 1) <= now
  BY <1>3, <1>6, DayOfMidnight DEF Midnight
<1>8. stock \in Int
  <2> DEFINE S == Upto(movements \cup txn[h].rows, Midnight(FirstNight(h) + 1))
  <2>1. IsFiniteSet(movements) /\ IsFiniteSet(txn[h].rows) /\ movements \subseteq Entry /\ txn[h].rows \subseteq Entry
    BY <1>1 DEF StockTables, Known, Entries
  <2>2. S \subseteq movements \cup txn[h].rows
    BY DEF Upto
  <2>3. IsFiniteSet(S) /\ S \subseteq Entry
    BY <2>1, <2>2, FS_Union, FS_Subset
  <2> QED BY <2>3, AvailableIsInt DEF StockAt
<1>9. lost \in Nat
  BY DEF StockAssumption
<1> HIDE DEF stock
<1>10. loss \in Nat /\ (loss = 0 \/ loss <= stock)
  BY <1>8, <1>9, CappedIs
<1> HIDE DEF loss
<1>11. m = Movement("loss", loss, Midnight(n + 1), txn[h].by)
  BY Zenon DEF LossRow, loss, stock, n
<1>12. m \in Entry /\ m.type = "loss" /\ m.quantity = loss /\ m.at = Midnight(n + 1) /\ m.by = txn[h].by
  <2>1. "loss" \in Types /\ txn[h].by \in Nat /\ loss \in Int
    BY <1>1, <1>10 DEF Types, Txn
  <2>2. /\ Movement("loss", loss, Midnight(n + 1), txn[h].by) \in Entry
        /\ Movement("loss", loss, Midnight(n + 1), txn[h].by).type = "loss"
        /\ Movement("loss", loss, Midnight(n + 1), txn[h].by).quantity = loss
        /\ Movement("loss", loss, Midnight(n + 1), txn[h].by).at = Midnight(n + 1)
        /\ Movement("loss", loss, Midnight(n + 1), txn[h].by).by = txn[h].by
    <3> DEFINE at == Midnight(n + 1)
               by == txn[h].by
    <3>1. at \in Nat /\ by \in Nat
      BY <1>7, <2>1
    <3> HIDE DEF at, by
    <3>2. /\ Movement("loss", loss, at, by) \in Entry
          /\ Movement("loss", loss, at, by).type = "loss"
          /\ Movement("loss", loss, at, by).quantity = loss
          /\ Movement("loss", loss, at, by).at = at
          /\ Movement("loss", loss, at, by).by = by
      BY <2>1, <3>1, MadeMovement
    <3> QED BY <3>2 DEF at, by
  <2> QED BY <1>11, <2>2, Zenon
<1> HIDE DEF m
<1>13. NightOf(m) = n
  BY <1>6, <1>7, <1>12 DEF NightOf
<1>14. m \notin movements
  BY <1>1, <1>12 DEF OwnRequest
<1>15. m \notin txn[h].rows
  <2>1. \A r \in txn[h].rows : NightOf(r) < n
    BY <1>2, <1>5 DEF Nightly
  <2> QED BY <1>6, <1>13, <2>1
<1> QED BY <1>1, <1>2, <1>5, <1>6, <1>7, <1>8, <1>10, <1>12, <1>13, <1>14, <1>15 DEF n, m, stock

LEMMA ApplyNightKeeps ==
  ASSUME StockAssumption, StockIndInv, NEW h \in Handlers, NEW lost \in Losses, ApplyNight(h, lost)
  PROVE  /\ Quiet(h) /\ StockIndInv' /\ Step(h) = "night"
         /\ Busy(h) /\ Busy(h)' /\ Work(h) = "loss" /\ Work(h)' = "loss"
         /\ txn'[h].op = txn[h].op /\ txn'[h].at = txn[h].at
         /\ txn'[h].rows = txn[h].rows \cup {LossRow(h, lost)}
         /\ txn'[h].missing = txn[h].missing \ {FirstNight(h)}
<1> DEFINE n == FirstNight(h)
           m == LossRow(h, lost)
           t == txn[h]
           left == t.missing \ {n}
           rows == t.rows \cup {m}
           step == IF t.missing = {n} THEN t.step + 1 ELSE t.step
           next == [t EXCEPT !.missing = left, !.rows = rows, !.step = step]
<1>1. Busy(h) /\ Known(h) /\ t \in Txn /\ StockTables /\ Step(h) = "night"
  BY DEF ApplyNight, Busy, StockIndInv, StockTables, Mine
<1>2. /\ n \in t.missing /\ n \in Nat /\ n \in 0..(Day(now) - 1)
      /\ \A d \in t.missing : n <= d
      /\ m \in Entry /\ m.type = "loss" /\ m.at = Midnight(n + 1) /\ m.at <= now /\ NightOf(m) = n
      /\ m.by = t.by /\ m.quantity \in Nat
      /\ m \notin movements /\ m \notin t.rows
      /\ Work(h) = "loss" /\ Nightly(t)
  BY <1>1, LossRowMade
<1>3. /\ txn' = [txn EXCEPT ![h] = next]
      /\ UNCHANGED <<now, tables, locks, requests, scenario>>
  <2>1. /\ txn' = [txn EXCEPT ![h].missing = left, ![h].rows = rows, ![h].step = step]
        /\ UNCHANGED <<now, tables, locks, requests, scenario>>
    BY Zenon DEF ApplyNight, FirstNight, LossRow, StockAt
  <2>2. txn \in [Handlers -> Txn] /\ h \in DOMAIN txn
    BY <1>1 DEF StockTables
  <2> HIDE DEF left, rows, step
  <2>3. txn' = [txn EXCEPT ![h] = next]
    BY <2>1, <2>2
  <2> QED BY <2>1, <2>3
<1> HIDE DEF n, m
<1>4. t.step = 2 /\ ~ t.seed /\ t.op # None
  <2>1. t.step \in 1..Len(Script["loss"]) /\ Script["loss"][t.step] = "night" /\ ~ t.seed /\ t.op # None
    BY <1>1, <1>2, AtStatement
  <2> QED BY <2>1 DEF Script
<1>5. step = IF left = {} THEN 3 ELSE 2
  BY <1>2, <1>4
<1> HIDE DEF step
<1>6. /\ next \in Txn /\ next.step = step /\ next.op = t.op /\ next.seed = t.seed
      /\ next.by = t.by /\ next.at = t.at /\ next.rows = rows
      /\ next.missing = left /\ next.gone = t.gone
  <2>1. left \subseteq Nat /\ rows \subseteq Entry /\ step \in Nat
    BY <1>1, <1>2, <1>5 DEF Txn
  <2> HIDE DEF left, rows, t
  <2> QED BY <1>1, <2>1 DEF Txn
<1>7. txn \in [Handlers -> Txn]
  BY <1>1 DEF StockTables
<1> HIDE DEF next
<1>8. txn' \in [Handlers -> Txn] /\ txn'[h] = next /\ \A g \in Handlers : g # h => txn'[g] = txn[g]
  BY <1>3, <1>6, <1>7
<1>9. Work(h)' = "loss" /\ Busy(h)' /\ Step(h)' = IF left = {} THEN "commit" ELSE "night"
  <2>1. Work(h)' = "loss"
    BY <1>2, <1>6, <1>8 DEF Work
  <2>2. Step(h)' = Script["loss"][step]
    BY <1>2, <1>4, <1>6, <1>8 DEF Step, Work
  <2>3. Step(h)' = IF left = {} THEN "commit" ELSE "night"
    BY <1>5, <2>2 DEF Script
  <2> QED BY <2>1, <2>3 DEF Busy
<1>10. Quiet(h)
  BY <1>1, <1>3, <1>6, <1>8, <1>9 DEF Quiet, tables, locks, StockTables
<1>11. Entries(rows)
  <2>1. IsFiniteSet(t.rows) /\ Entries(t.rows)
    BY <1>1 DEF Known, Entries
  <2>2. IsFiniteSet(rows)
    <3>1. IsFiniteSet({m})
      BY FS_Singleton
    <3> QED BY <2>1, <3>1, FS_Union
  <2> QED BY <1>2, <2>1, <2>2 DEF Entries
<1>12. Nightly(t)'
  <2>1. /\ \A r \in rows : r.type = "loss" /\ r.by = t.by /\ r.at = Midnight(NightOf(r) + 1)
        /\ \A r \in rows : NightOf(r) \in 0..(Day(now) - 1)
    BY <1>2 DEF Nightly
  <2>2. \A r \in t.rows : NightOf(r) < n
    BY <1>2 DEF Nightly
  <2>3. \A q, r \in rows : NightOf(q) = NightOf(r) => q = r
    BY <1>2, <2>2 DEF Nightly
  <2>4. left \subseteq 0..(Day(now) - 1)
    BY <1>2 DEF Nightly
  <2>5. \A r \in rows, d \in left : NightOf(r) < d
    <3>1. \A r \in t.rows, d \in left : NightOf(r) < d
      BY <1>2 DEF Nightly
    <3>2. \A d \in left : n < d
      <4>1. \A d \in left : n <= d /\ n # d /\ d \in Nat
        BY <1>1, <1>2 DEF Txn
      <4> QED BY <1>2, <4>1
    <3> QED BY <1>2, <3>1, <3>2
  <2>6. now' = now
    BY <1>3
  <2> HIDE DEF left, rows
  <2> QED BY <1>6, <1>8, <2>1, <2>3, <2>4, <2>5, <2>6 DEF Nightly, NightOf, Day, Midnight
<1>13. Known(h)'
  <2>1. Requests' = Requests /\ now' = now /\ requests' = requests /\ scenario' = scenario
    BY <1>3, SameRequests
  <2>2. Entries(txn[h].rows)'
    BY <1>6, <1>8, <1>11 DEF Entries, Entry
  <2>3. \A r \in rows : r.at <= now /\ r.by \in 1..requests
    BY <1>1, <1>2 DEF Known
  <2>4. step \in 1..Len(Script["loss"])
    BY <1>5 DEF Script
  <2>5. t.op \in Requests /\ t.op.kind \in scenario.serves[h] /\ t.by \in 1..requests /\ t.at \in 0..now
        /\ (\A r \in t.gone : r.type = "transfer") /\ t.op.kind = "loss"
    BY <1>1, <1>2 DEF Known, Work
  <2> HIDE DEF left, rows, t
  <2> QED BY <1>4, <1>6, <1>8, <1>9, <1>12, <2>1, <2>2, <2>3, <2>4, <2>5 DEF Known, t
<1>14. Holds(h)' /\ Planned(h)'
  BY <1>9 DEF Holds, Planned
<1>15. StockIndInv'
  BY <1>10, <1>13, <1>14, QuietKeeps
<1> QED BY <1>1, <1>2, <1>6, <1>8, <1>9, <1>10, <1>15 DEF n, m

-----------------------------------------------------------------------------
(* The clock and new requests. *)

LEMMA TickKeeps == ASSUME StockAssumption, StockIndInv, Tick PROVE StockIndInv'
<1>1. now \in Nat /\ now' = now + 1 /\ UNCHANGED <<tables, locks, txn, requests, scenario>> /\ StockTables
  BY DEF Tick, StockIndInv, StockTables
<1>2. UNCHANGED <<movements, nights, policyRow, allocation, item>>
  BY <1>1 DEF tables, locks
<1>3. Txn' = Txn /\ Day(now) \in Nat /\ Day(now') \in Nat /\ Day(now) <= Day(now')
  <2>1. Day(now) \in Nat /\ Day(now') \in Nat
    <3>1. now' \in Nat
      BY <1>1
    <3> QED BY <1>1, <3>1, Days
  <2> QED BY <1>1, <2>1, SameRequests, LaterDay
<1>4. LossRows'
  BY <1>1, <1>2 DEF StockTables, LossRows, NightOf, Day, Midnight
<1>5. nights' \subseteq 0..(Day(now)' - 1)
  <2>1. Day(now)' = Day(now')
    BY DEF Day
  <2> QED BY <1>1, <1>2, <1>3, <2>1 DEF StockTables
<1>6. Entries(movements)' /\ \A m \in movements' : m.at <= now' /\ m.by \in 1..requests'
  <2>1. \A m \in movements : m.at <= now /\ m.at \in Nat /\ m.by \in 1..requests
    BY <1>1 DEF StockTables, Entries, Entry
  <2> QED BY <1>1, <1>2, <2>1 DEF StockTables, Entries, Entry
<1>7. StockTables'
  BY <1>1, <1>2, <1>3, <1>4, <1>5, <1>6 DEF StockTables
<1>8. ASSUME NEW g \in Handlers, Busy(g)' PROVE Mine(g)'
  <2>1. Busy(g) /\ OwnRequest(g)
    BY <1>1, <1>8 DEF Busy, Step, StockIndInv, Mine
  <2>2. \A f \in Handlers : f # g /\ Busy(f)' => txn'[f].by # txn[g].by
    BY <1>1, <2>1 DEF OwnRequest, Busy, Step
  <2>3. requests' \in Nat /\ requests <= requests'
    BY <1>1 DEF StockTables
  <2> QED BY <1>1, <1>2, <2>1, <2>2, <2>3, MineStays DEF OwnRequest
<1> QED BY <1>7, <1>8 DEF StockIndInv

LEMMA ServeKeeps ==
  ASSUME StockAssumption, StockIndInv, NEW h \in Handlers, NEW op \in Requests, Serve(h, op)
  PROVE  /\ StockIndInv'
         /\ UNCHANGED <<now, movements, nights, policyRow, item, scenario>>
         /\ ~ Busy(h)
         /\ txn'[h].op = op /\ txn'[h].at = now /\ txn'[h].rows = {} /\ txn'[h].missing = {}
         /\ Busy(h)' => Work(h)' = op.kind /\ op.kind \in scenario.serves[h]
                        /\ Step(h)' \notin {"count", "night", "commit", "seed"}
                        /\ (Step(h)' = "policy" => op.kind \in {"retailer", "set"})
                        /\ (Step(h)' = "check" => op.kind = "bill")
         /\ \A g \in Handlers : g # h /\ Busy(g)' =>
              Busy(g) /\ txn'[g] = txn[g] /\ Step(g)' = Step(g) /\ Work(g)' = Work(g)
<1> DEFINE next == [Idle EXCEPT !.op = op, !.step = 1, !.by = requests + 1, !.at = now]
<1>1. /\ StockTables /\ now \in Nat /\ requests \in Nat /\ scenario \in Scenarios
      /\ txn \in [Handlers -> Txn]
  BY DEF StockIndInv, StockTables
<1>2. /\ Step(h) = "idle" /\ op.kind \in scenario.serves[h] /\ requests' = requests + 1
      /\ txn' = [txn EXCEPT ![h] = next]
      /\ UNCHANGED <<now, tables, locks, scenario>>
  BY DEF Serve
<1>3. /\ next \in Txn /\ next.step = 1 /\ next.op = op /\ next.seed = FALSE
      /\ next.by = requests + 1 /\ next.at = now /\ next.rows = {}
      /\ next.missing = {} /\ next.gone = {}
  <2>1. Idle \in Txn /\ Idle.seed = FALSE /\ Idle.rows = {} /\ Idle.missing = {} /\ Idle.gone = {}
    BY DEF Idle, Txn
  <2>2. requests + 1 \in Nat /\ op \in Requests \cup {None}
    BY <1>1
  <2> QED BY <1>1, <2>1, <2>2 DEF Txn
<1> HIDE DEF next
<1>4. txn' \in [Handlers -> Txn] /\ txn'[h] = next /\ \A g \in Handlers : g # h => txn'[g] = txn[g]
  BY <1>1, <1>2, <1>3
<1>5. UNCHANGED <<movements, nights, policyRow, allocation, item>> /\ Txn' = Txn /\ Requests' = Requests
  BY <1>2, SameRequests DEF tables, locks
<1>6. op.kind \in Kinds
  BY <1>1, RequestFields
<1>7. StockTables'
  <2>1. LossRows' /\ Day(now)' = Day(now)
    BY <1>1, <1>2, <1>5 DEF StockTables, LossRows, NightOf, Day, Midnight
  <2>2. Entries(movements)' /\ \A m \in movements' : m.at <= now' /\ m.by \in 1..requests'
    <3>1. \A m \in movements : m.by \in 1..requests'
      BY <1>1, <1>2 DEF StockTables
    <3> QED BY <1>1, <1>2, <1>5, <3>1 DEF StockTables, Entries, Entry
  <2> QED BY <1>1, <1>2, <1>4, <1>5, <2>1, <2>2 DEF StockTables
<1>8. ASSUME Busy(h)'
      PROVE  /\ Mine(h)' /\ Work(h)' = op.kind /\ Step(h)' \notin {"count", "night", "commit", "seed"}
             /\ (Step(h)' = "policy" => op.kind \in {"retailer", "set"})
             /\ (Step(h)' = "check" => op.kind = "bill")
  <2>1. Work(h)' = op.kind /\ Step(h)' = Script[op.kind][1]
    BY <1>3, <1>4, <1>8 DEF Busy, Step, Work
  <2>2. /\ 1 \in 1..Len(Script[op.kind])
        /\ Script[op.kind][1] = "policy" => op.kind \in {"retailer", "set"}
        /\ Script[op.kind][1] = "check" => op.kind = "bill"
        /\ Script[op.kind][1] \notin {"count", "night", "commit", "idle", "seed"}
    BY <1>6, Begins, Places DEF Comes
  <2>3. Nightly(txn[h])'
    BY <1>3, <1>4 DEF Nightly
  <2>4. Entries(txn[h].rows)'
    BY <1>3, <1>4, FS_EmptySet DEF Entries
  <2>5. Known(h)'
    BY <1>1, <1>2, <1>3, <1>4, <1>5, <2>1, <2>2, <2>3, <2>4 DEF Known
  <2>6. OwnRequest(h)'
    <3>1. \A m \in movements : m.by # requests + 1
      BY <1>1 DEF StockTables
    <3>2. \A g \in Handlers : g # h /\ Busy(g)' => txn'[g].by # requests + 1
      <4> SUFFICES ASSUME NEW g \in Handlers, g # h, Busy(g)' PROVE txn'[g].by # requests + 1
        OBVIOUS
      <4>1. txn'[g] = txn[g] /\ Busy(g)
        BY <1>4 DEF Busy, Step
      <4>2. txn[g].by \in 1..requests
        BY <4>1 DEF StockIndInv, Mine, Known
      <4> QED BY <1>1, <4>1, <4>2
    <3> QED BY <1>3, <1>4, <1>5, <3>1, <3>2 DEF OwnRequest
  <2>7. Holds(h)' /\ Planned(h)'
    BY <2>1, <2>2 DEF Holds, Planned
  <2> QED BY <2>1, <2>2, <2>5, <2>6, <2>7 DEF Mine
<1>9. ASSUME NEW g \in Handlers, g # h, Busy(g)'
      PROVE  Mine(g)' /\ Busy(g) /\ txn'[g] = txn[g] /\ Step(g)' = Step(g) /\ Work(g)' = Work(g)
  <2>1. Busy(g) /\ OwnRequest(g) /\ txn'[g] = txn[g] /\ Known(g)
    BY <1>4, <1>9 DEF Busy, Step, StockIndInv, Mine
  <2>2. \A f \in Handlers : f # g /\ Busy(f)' => txn'[f].by # txn[g].by
    <3> SUFFICES ASSUME NEW f \in Handlers, f # g, Busy(f)' PROVE txn'[f].by # txn[g].by
      OBVIOUS
    <3>1. CASE f = h
      <4>1. txn[g].by \in 1..requests
        BY <2>1 DEF Known
      <4> QED BY <1>1, <1>3, <1>4, <3>1, <4>1
    <3>2. CASE f # h
      <4>1. txn'[f] = txn[f] /\ Busy(f)
        BY <1>4, <3>2 DEF Busy, Step
      <4> QED BY <2>1, <4>1 DEF OwnRequest
    <3> QED BY <3>1, <3>2
  <2>3. requests' \in Nat /\ requests <= requests' /\ now' \in Nat /\ now <= now' /\ scenario' = scenario
    BY <1>1, <1>2
  <2>4. Mine(g)' /\ Step(g)' = Step(g) /\ Work(g)' = Work(g)
    BY <1>5, <2>1, <2>2, <2>3, MineStays DEF OwnRequest
  <2> QED BY <2>1, <2>4
<1>10. ~ Busy(h)
  BY <1>2 DEF Busy
<1>11. StockIndInv'
  BY <1>7, <1>8, <1>9 DEF StockIndInv
<1> QED BY <1>2, <1>3, <1>4, <1>5, <1>8, <1>9, <1>10, <1>11

-----------------------------------------------------------------------------
(* The commits. *)

LEMMA CommitKeeps ==
  ASSUME StockAssumption, StockIndInv, NEW h \in Handlers, NEW kinds, Committing(h, kinds),
         Entries(movements)', \A m \in movements' : m.at <= now /\ m.by \in 1..requests,
         nights' \subseteq 0..(Day(now) - 1), LossRows', policyRow' = policyRow,
         \A m \in movements' : m.by = txn[h].by \/ \E n \in movements : n.by = m.by
  PROVE  /\ StockIndInv' /\ Busy(h) /\ ~ Busy(h)' /\ item \in {None, h} /\ scenario' = scenario
         /\ \A g \in Handlers : g # h /\ Busy(g)' =>
              /\ Busy(g) /\ txn'[g] = txn[g] /\ Step(g)' = Step(g) /\ Work(g)' = Work(g)
              /\ item # g
<1>1. /\ StockTables /\ Step(h) = "commit" /\ Busy(h) /\ item \in {None, h} /\ End(h) /\ None \notin Handlers
      /\ OwnRequest(h)
  BY DEF StockIndInv, Committing, Busy, StockAssumption, Mine
<1>2. /\ UNCHANGED <<now, requests, scenario>>
      /\ {allocation', item'} \subseteq Handlers \cup {None}
      /\ txn' \in [Handlers -> Txn] /\ ~ Busy(h)'
      /\ \A g \in Handlers : g # h => txn'[g] = txn[g] /\ (item = g => item' = g)
  BY <1>1, EndGives
<1>3. StockTables'
  <2>1. Txn' = Txn /\ Day(now)' = Day(now)
    BY <1>2, SameRequests DEF Day
  <2> QED BY <1>1, <1>2, <2>1 DEF StockTables
<1>4. ASSUME NEW g \in Handlers, g # h, Busy(g)'
      PROVE  /\ Mine(g)' /\ Busy(g) /\ txn'[g] = txn[g] /\ Step(g)' = Step(g) /\ Work(g)' = Work(g)
             /\ item # g
  <2>1. txn'[g] = txn[g] /\ Busy(g) /\ OwnRequest(g) /\ item # g
    BY <1>1, <1>2, <1>4 DEF Busy, Step, StockIndInv, Mine
  <2>2. \A f \in Handlers : f # g /\ Busy(f)' => txn'[f].by # txn[g].by
    <3> SUFFICES ASSUME NEW f \in Handlers, f # g, Busy(f)' PROVE txn'[f].by # txn[g].by
      OBVIOUS
    <3>1. f # h /\ txn'[f] = txn[f] /\ Busy(f)
      BY <1>2 DEF Busy, Step
    <3> QED BY <2>1, <3>1 DEF OwnRequest
  <2>3. \A m \in movements' : m.by # txn[g].by
    <3>1. txn[h].by # txn[g].by /\ \A n \in movements : n.by # txn[g].by
      BY <1>1, <1>4, <2>1 DEF OwnRequest
    <3> SUFFICES ASSUME NEW m \in movements' PROVE m.by # txn[g].by
      OBVIOUS
    <3>2. m.by = txn[h].by \/ \E n \in movements : n.by = m.by
      OBVIOUS
    <3> QED BY <3>1, <3>2
  <2>4. now' \in Nat /\ now <= now' /\ requests' \in Nat /\ requests <= requests' /\ scenario' = scenario
    BY <1>1, <1>2 DEF StockTables
  <2>5. Mine(g)' /\ Step(g)' = Step(g) /\ Work(g)' = Work(g)
    BY <2>1, <2>2, <2>3, <2>4, MineStays
  <2> QED BY <2>1, <2>5
<1>5. StockIndInv'
  BY <1>2, <1>3, <1>4 DEF StockIndInv
<1> QED BY <1>1, <1>2, <1>4, <1>5

\* The movement of a request.
RowOf(h) ==
  Movement(IF txn[h].op.kind = "bill" THEN "use" ELSE txn[h].op.kind, txn[h].op.quantity, txn[h].at, txn[h].by)

LEMMA CommitMovementKeeps ==
  ASSUME StockAssumption, StockIndInv, NEW h \in Handlers, CommitMovement(h)
  PROVE  LET m == RowOf(h) IN
         /\ StockIndInv' /\ Busy(h) /\ ~ Busy(h)' /\ item \in {None, h} /\ scenario' = scenario
         /\ Step(h) = "commit" /\ Work(h) \in {"add", "use", "transfer", "retailer", "bill"}
         /\ \A g \in Handlers : g # h /\ Busy(g)' =>
              /\ Busy(g) /\ txn'[g] = txn[g] /\ Step(g)' = Step(g) /\ Work(g)' = Work(g)
              /\ item # g
         /\ movements' = movements \cup {m} /\ nights' = nights /\ policyRow' = policyRow
         /\ m \notin movements /\ m \in Entry /\ m.at = txn[h].at /\ m.quantity = txn[h].op.quantity
         /\ m.quantity \in Nat /\ m.quantity > 0
         /\ m.type = IF Work(h) = "bill" THEN "use" ELSE Work(h)
<1> DEFINE m == RowOf(h)
           kinds == {"add", "use", "transfer", "retailer", "bill"}
           type == IF txn[h].op.kind = "bill" THEN "use" ELSE txn[h].op.kind
<1>1. /\ StockTables /\ Step(h) = "commit" /\ Busy(h) /\ OwnRequest(h) /\ Known(h) /\ Work(h) \in kinds
      /\ Committing(h, kinds) /\ UNCHANGED <<nights, policyRow>>
      /\ movements' = movements \cup {m}
  BY DEF StockIndInv, Committing, CommitMovement, Busy, Mine, Work, RowOf
<1>2. /\ txn[h].op \in Requests /\ txn[h].op.kind \in kinds /\ txn[h].by \in 1..requests /\ txn[h].at \in 0..now
      /\ requests \in Nat /\ now \in Nat /\ scenario \in Scenarios
  BY <1>1 DEF Known, StockTables, Work
<1>3. txn[h].op.quantity \in Nat /\ txn[h].op.quantity > 0
  BY <1>2, RequestFields
<1>4. /\ m \in Entry /\ m.type = type /\ m.quantity = txn[h].op.quantity /\ m.at = txn[h].at /\ m.by = txn[h].by
  <2>1. type \in Types
    BY <1>2 DEF Types
  <2> DEFINE q == txn[h].op.quantity
             at == txn[h].at
             by == txn[h].by
  <2>2. q \in Int /\ at \in Nat /\ by \in Nat
    BY <1>2, <1>3
  <2>3. m = Movement(type, q, at, by)
    BY Zenon DEF RowOf
  <2> HIDE DEF type, q, at, by, m
  <2>4. m \in Entry /\ m.type = type /\ m.quantity = q /\ m.at = at /\ m.by = by
    BY <2>1, <2>2, <2>3, MadeMovement
  <2> QED BY <2>4 DEF q, at, by
<1> HIDE DEF m
<1>5. m \notin movements
  BY <1>1, <1>4 DEF OwnRequest
<1>6. m.type # "loss" /\ (m.type = "transfer" => m.quantity > 0)
  BY <1>2, <1>3, <1>4
<1>7. Entries(movements)' /\ \A r \in movements' : r.at <= now /\ r.by \in 1..requests
  <2>1. Entries(movements) /\ \A r \in movements : r.at <= now /\ r.by \in 1..requests
    BY <1>1 DEF StockTables
  <2>2. IsFiniteSet(movements \cup {m})
    BY <2>1, FS_AddElement DEF Entries
  <2>3. Entries(movements \cup {m})
    BY <1>4, <1>6, <2>1, <2>2 DEF Entries
  <2>4. Entries(movements)'
    BY <1>1, <2>3 DEF Entries, Entry
  <2> QED BY <1>1, <1>2, <1>4, <2>1, <2>4
<1>8. LossRows'
  <2>1. LossRows
    BY <1>1 DEF StockTables
  <2> QED BY <1>1, <1>6, <2>1 DEF LossRows, NightOf, Day, Midnight
<1>9. nights' \subseteq 0..(Day(now) - 1)
  BY <1>1 DEF StockTables
<1>10. \A r \in movements' : r.by = txn[h].by \/ \E n \in movements : n.by = r.by
  BY <1>1, <1>4
<1>11. /\ StockIndInv' /\ Busy(h) /\ ~ Busy(h)' /\ item \in {None, h} /\ scenario' = scenario
       /\ \A g \in Handlers : g # h /\ Busy(g)' =>
              /\ Busy(g) /\ txn'[g] = txn[g] /\ Step(g)' = Step(g) /\ Work(g)' = Work(g)
              /\ item # g
  BY <1>1, <1>7, <1>8, <1>9, <1>10, CommitKeeps
<1> QED BY <1>1, <1>3, <1>4, <1>5, <1>11 DEF m, Work

LEMMA CommitAdjustmentsKeeps ==
  ASSUME StockAssumption, StockIndInv, NEW h \in Handlers, CommitAdjustments(h)
  PROVE  /\ StockIndInv' /\ Busy(h) /\ ~ Busy(h)' /\ item = h /\ scenario' = scenario
         /\ Step(h) = "commit" /\ Work(h) = "set" /\ Planned(h) /\ Known(h)
         /\ \A g \in Handlers : g # h /\ Busy(g)' =>
              /\ Busy(g) /\ txn'[g] = txn[g] /\ Step(g)' = Step(g) /\ Work(g)' = Work(g)
              /\ item # g
         /\ Available(movements') = After(h) /\ nights' = nights /\ policyRow' = policyRow
<1> DEFINE rows == txn[h].rows
           gone == txn[h].gone
<1>1. /\ StockTables /\ Step(h) = "commit" /\ Busy(h) /\ OwnRequest(h) /\ Known(h) /\ Work(h) = "set"
      /\ Holds(h) /\ Planned(h)
      /\ Committing(h, {"set"}) /\ UNCHANGED <<nights, policyRow>>
      /\ movements' = (movements \ gone) \cup rows
  BY DEF StockIndInv, Committing, CommitAdjustments, Busy, Mine, Work
<1>2. /\ Entries(rows) /\ \A m \in rows : m.at <= now /\ m.by \in 1..requests /\ m.type # "loss"
      /\ \A m \in gone : m.type = "transfer"
  BY <1>1 DEF Known, Work
<1>3. \A m \in rows : m.by = txn[h].by \/ \E n \in movements : n.by = m.by
  BY <1>1 DEF Planned
<1> HIDE DEF rows, gone
<1>4. Entries(movements)' /\ \A r \in movements' : r.at <= now /\ r.by \in 1..requests
  <2>1. Entries(movements) /\ \A r \in movements : r.at <= now /\ r.by \in 1..requests
    BY <1>1 DEF StockTables
  <2>2. IsFiniteSet((movements \ gone) \cup rows)
    <3>1. IsFiniteSet(movements \ gone) /\ IsFiniteSet(rows)
      BY <1>2, <2>1, FS_Subset DEF Entries
    <3> QED BY <3>1, FS_Union
  <2>3. Entries((movements \ gone) \cup rows)
    BY <1>2, <2>1, <2>2 DEF Entries
  <2>4. Entries(movements)'
    BY <1>1, <2>3 DEF Entries, Entry
  <2> QED BY <1>1, <1>2, <2>1, <2>4
<1>5. LossRows'
  <2>1. LossRows
    BY <1>1 DEF StockTables
  <2>2. \A m : m.type = "loss" => (m \in movements' <=> m \in movements)
    BY <1>1, <1>2
  <2>3. \A m : NightOf(m)' = NightOf(m) /\ Midnight(NightOf(m) + 1)' = Midnight(NightOf(m) + 1)
    BY DEF NightOf, Day, Midnight
  <2> QED BY <1>1, <2>1, <2>2, <2>3 DEF LossRows
<1>6. nights' \subseteq 0..(Day(now) - 1)
  BY <1>1 DEF StockTables
<1>7. \A r \in movements' : r.by = txn[h].by \/ \E n \in movements : n.by = r.by
  BY <1>1, <1>3
<1>8. /\ StockIndInv' /\ Busy(h) /\ ~ Busy(h)' /\ item \in {None, h} /\ scenario' = scenario
      /\ \A g \in Handlers : g # h /\ Busy(g)' =>
              /\ Busy(g) /\ txn'[g] = txn[g] /\ Step(g)' = Step(g) /\ Work(g)' = Work(g)
              /\ item # g
  BY <1>1, <1>4, <1>5, <1>6, <1>7, CommitKeeps
<1>9. item = h
  BY <1>1 DEF Holds
<1>10. Available(movements') = After(h)
  BY <1>1, Zenon DEF After, rows, gone
<1> QED BY <1>1, <1>8, <1>9, <1>10

LEMMA CommitNightsKeeps ==
  ASSUME StockAssumption, StockIndInv, NEW h \in Handlers, CommitNights(h)
  PROVE  /\ StockIndInv' /\ Busy(h) /\ ~ Busy(h)' /\ scenario' = scenario
         /\ Step(h) = "commit" /\ Work(h) = "loss" /\ txn[h].missing = {} /\ Known(h)
         /\ \A g \in Handlers : g # h /\ Busy(g)' =>
              /\ Busy(g) /\ txn'[g] = txn[g] /\ Step(g)' = Step(g) /\ Work(g)' = Work(g)
         /\ movements' = movements \cup txn[h].rows /\ nights' = nights \cup NightsOf(txn[h].rows)
         /\ NightsOf(txn[h].rows) \cap nights = {} /\ policyRow' = policyRow
<1> DEFINE rows == txn[h].rows
<1>1. /\ StockTables /\ Step(h) = "commit" /\ Busy(h) /\ OwnRequest(h) /\ Known(h) /\ Work(h) = "loss"
      /\ Committing(h, {"loss"}) /\ policyRow' = policyRow
      /\ movements' = movements \cup rows /\ nights' = nights \cup NightsOf(rows)
      /\ NightsOf(rows) \cap nights = {}
  BY DEF StockIndInv, Committing, CommitNights, NightsFree, Busy, Mine, Work
<1>2. /\ Entries(rows) /\ \A m \in rows : m.at <= now /\ m.by \in 1..requests
      /\ Nightly(txn[h]) /\ txn[h].missing = {}
  BY <1>1 DEF Known, Work
<1>3. /\ \A m \in rows : m.type = "loss" /\ m.at = Midnight(NightOf(m) + 1) /\ NightOf(m) \in 0..(Day(now) - 1)
                         /\ m.by = txn[h].by
      /\ \A m, n \in rows : NightOf(m) = NightOf(n) => m = n
  BY <1>2 DEF Nightly
<1>4. NightsOf(rows) = {NightOf(m) : m \in rows}
  BY DEF NightsOf, NightOf
<1> HIDE DEF rows
<1>5. Entries(movements)' /\ \A r \in movements' : r.at <= now /\ r.by \in 1..requests
  <2>1. Entries(movements) /\ \A r \in movements : r.at <= now /\ r.by \in 1..requests
    BY <1>1 DEF StockTables
  <2>2. IsFiniteSet(movements \cup rows)
    BY <1>2, <2>1, FS_Union DEF Entries
  <2>3. Entries(movements \cup rows)
    BY <1>2, <2>1, <2>2 DEF Entries
  <2>4. Entries(movements)'
    BY <1>1, <2>3 DEF Entries, Entry
  <2> QED BY <1>1, <1>2, <2>1, <2>4
<1>6. LossRows'
  <2>1. LossRows
    BY <1>1 DEF StockTables
  <2>2. \A m : NightOf(m)' = NightOf(m) /\ Midnight(NightOf(m) + 1)' = Midnight(NightOf(m) + 1)
    BY DEF NightOf, Day, Midnight
  <2>3. \A m \in movements' : m.type = "loss" => NightOf(m) \in nights' /\ m.at = Midnight(NightOf(m) + 1)
    BY <1>1, <1>3, <1>4, <2>1 DEF LossRows
  <2>4. \A d \in nights' : \E m \in movements' : m.type = "loss" /\ NightOf(m) = d
    <3>1. \A d \in nights : \E m \in movements : m.type = "loss" /\ NightOf(m) = d
      BY <2>1 DEF LossRows
    <3>2. \A d \in NightsOf(rows) : \E m \in rows : m.type = "loss" /\ NightOf(m) = d
      BY <1>3, <1>4
    <3> QED BY <1>1, <3>1, <3>2
  <2>5. \A m, n \in movements' : m.type = "loss" /\ n.type = "loss" /\ NightOf(m) = NightOf(n) => m = n
    <3>1. \A m \in rows : NightOf(m) \notin nights
      BY <1>1, <1>4
    <3>2. \A m \in movements : m.type = "loss" => NightOf(m) \in nights
      BY <2>1 DEF LossRows
    <3>3. \A m, n \in movements : m.type = "loss" /\ n.type = "loss" /\ NightOf(m) = NightOf(n) => m = n
      BY <2>1 DEF LossRows
    <3> QED BY <1>1, <1>3, <3>1, <3>2, <3>3
  <2> QED BY <2>2, <2>3, <2>4, <2>5 DEF LossRows
<1>7. nights' \subseteq 0..(Day(now) - 1)
  BY <1>1, <1>3, <1>4 DEF StockTables
<1>8. \A r \in movements' : r.by = txn[h].by \/ \E n \in movements : n.by = r.by
  BY <1>1, <1>3
<1>9. /\ StockIndInv' /\ Busy(h) /\ ~ Busy(h)' /\ scenario' = scenario
      /\ \A g \in Handlers : g # h /\ Busy(g)' =>
              /\ Busy(g) /\ txn'[g] = txn[g] /\ Step(g)' = Step(g) /\ Work(g)' = Work(g)
  BY <1>1, <1>5, <1>6, <1>7, <1>8, CommitKeeps
<1> QED BY <1>1, <1>2, <1>9 DEF rows

-----------------------------------------------------------------------------
(* Every step. *)

LEMMA StockIndInvStep ==
  ASSUME StockAssumption, StockIndInv, [Next]_vars
  PROVE  /\ StockIndInv'
         /\ \/ UNCHANGED vars \/ Tick
            \/ \E h \in Handlers, op \in Requests : Serve(h, op)
            \/ \E h \in Handlers : \/ Progress(h) \/ CommitMovement(h) \/ CommitAdjustments(h)
                                   \/ ReadNights(h) \/ CommitNights(h) \/ \E lost \in Losses : ApplyNight(h, lost)
<1>1. CASE UNCHANGED vars
  <2>1. /\ UNCHANGED <<now, movements, nights, policyRow, allocation, item, txn, requests, scenario>>
        /\ Requests' = Requests /\ Txn' = Txn
    BY <1>1, SameRequests DEF vars, tables, locks
  <2>2. StockTables'
    <3>1. StockTables
      BY DEF StockIndInv
    <3> QED BY <2>1, <3>1 DEF StockTables, LossRows, NightOf, Day, Midnight, Entries, Entry
  <2>3. ASSUME NEW g \in Handlers, Busy(g)' PROVE Mine(g)'
    <3>1. Busy(g) /\ OwnRequest(g) /\ StockTables
      BY <2>1, <2>3 DEF Busy, Step, StockIndInv, Mine
    <3>2. \A f \in Handlers : f # g /\ Busy(f)' => txn'[f].by # txn[g].by
      BY <2>1, <3>1 DEF OwnRequest, Busy, Step
    <3>3. requests' \in Nat /\ requests <= requests' /\ now' \in Nat /\ now <= now'
      BY <2>1, <3>1 DEF StockTables
    <3> QED BY <2>1, <3>1, <3>2, <3>3, MineStays DEF OwnRequest
  <2>4. StockIndInv'
    BY <2>2, <2>3 DEF StockIndInv
  <2> QED BY <1>1, <2>4
<1>2. CASE Tick
  BY <1>2, TickKeeps
<1>3. CASE \E h \in Handlers, op \in Requests : Serve(h, op)
  BY <1>3, ServeKeeps
<1>4. ASSUME NEW h \in Handlers, Refuse(h) PROVE StockIndInv' /\ Progress(h)
  BY <1>4, RefuseProgress
<1>5. ASSUME NEW h \in Handlers, RefuseTime(h) \/ SeedClash(h) \/ RefuseStock(h) \/ NothingToApply(h) \/ BreakDeadlock(h)
                                  \/ RefuseRequest(h) \/ Crash(h) \/ NightsClash(h)
      PROVE  StockIndInv' /\ Progress(h)
  <2>1. Refuse(h)
    BY <1>5 DEF RefuseTime, SeedClash, RefuseStock, NothingToApply, BreakDeadlock, RefuseRequest, Crash, NightsClash,
                Committing, Refuse
  <2> QED BY <1>4, <2>1
<1>6. ASSUME NEW h \in Handlers, LockAllocation(h) \/ LockItem(h) \/ ReadPolicy(h) \/ MissPolicy(h) \/ SeedPolicy(h)
                                  \/ CheckStock(h) \/ Count(h)
      PROVE  StockIndInv' /\ Progress(h)
  BY <1>6, LockAllocationKeeps, LockItemKeeps, ReadPolicyKeeps, MissPolicyKeeps, SeedPolicyKeeps, CheckStockKeeps, CountKeeps
<1>7. ASSUME NEW h \in Handlers, CommitMovement(h) \/ CommitAdjustments(h) \/ CommitNights(h) PROVE StockIndInv'
  <2>1. CASE CommitMovement(h) BY <2>1, CommitMovementKeeps
  <2>2. CASE CommitAdjustments(h) BY <2>2, CommitAdjustmentsKeeps
  <2>3. CASE CommitNights(h) BY <2>3, CommitNightsKeeps
  <2> QED BY <1>7, <2>1, <2>2, <2>3
<1>8. ASSUME NEW h \in Handlers, ReadNights(h) PROVE StockIndInv'
  BY <1>8, ReadNightsKeeps
<1>9. ASSUME NEW h \in Handlers, NEW lost \in Losses, ApplyNight(h, lost) PROVE StockIndInv'
  BY <1>9, ApplyNightKeeps
<1>10. CASE \E h \in Handlers : Statement(h) \/ RefuseRequest(h) \/ Crash(h)
  <2>1. PICK h \in Handlers : Statement(h) \/ RefuseRequest(h) \/ Crash(h)
    BY <1>10
  <2> QED BY <1>5, <1>6, <1>7, <1>8, <1>9, <2>1 DEF Statement
<1>11. CASE Quiescent
  BY <1>1, <1>11 DEF Quiescent
<1> QED BY <1>1, <1>2, <1>3, <1>10, <1>11 DEF Next

LEMMA StockIndInvInit == ASSUME StockAssumption, Init PROVE StockIndInv
<1>1. Idle \in Txn /\ Idle.op = None
  BY DEF Idle, Txn
<1>2. txn \in [Handlers -> Txn] /\ \A h \in Handlers : ~ Busy(h)
  BY <1>1 DEF Init, Busy, Step
<1>3. Entries(movements) /\ LossRows /\ nights \subseteq 0..(Day(now) - 1)
  BY FS_EmptySet DEF Init, Entries, LossRows
<1>4. StockTables
  BY <1>2, <1>3 DEF Init, StockTables
<1> QED BY <1>2, <1>4 DEF StockIndInv

LEMMA StockIndInvHolds == ASSUME StockAssumption PROVE Spec => []StockIndInv
<1>1. Init => StockIndInv
  BY StockIndInvInit
<1>2. StockIndInv /\ [Next]_vars => StockIndInv'
  BY StockIndInvStep
<1> QED BY <1>1, <1>2, PTL DEF Spec

LEMMA StockTypes == StockIndInv => TypeOK
<1> SUFFICES ASSUME StockIndInv PROVE TypeOK
  OBVIOUS
<1>1. /\ StockTables /\ movements \subseteq Entry
      /\ \A h \in Handlers : Step(h) # "idle" => txn[h].by \in 1..requests /\ txn[h].at \in 0..now
  BY DEF StockIndInv, StockTables, Busy, Mine, Known, Entries
<1>2. \A m \in movements : m.type \in Types /\ m.quantity \in Int /\ m.at \in 0..now /\ m.by \in 1..requests
  BY <1>1 DEF StockTables, Entry
<1> QED BY <1>1, <1>2 DEF TypeOK, StockTables

LEMMA NightsLostOnce == StockIndInv => LossOncePerNight
<1> SUFFICES ASSUME StockIndInv, NEW d \in 0..Day(now)
             PROVE  Cardinality({m \in movements : m.type = "loss" /\ m.at = Midnight(d + 1)})
                      = IF d \in nights THEN 1 ELSE 0
  BY DEF LossOncePerNight
<1> DEFINE L == {m \in movements : m.type = "loss" /\ m.at = Midnight(d + 1)}
<1>1. LossRows /\ now \in Nat /\ nights \subseteq 0..(Day(now) - 1)
  BY DEF StockIndInv, StockTables
<1>2. d \in Nat /\ Day(now) \in Nat
  BY <1>1, Days
<1>3. \A m \in movements : m.type = "loss" => (m.at = Midnight(d + 1) <=> NightOf(m) = d)
  <2> SUFFICES ASSUME NEW m \in movements, m.type = "loss" PROVE m.at = Midnight(d + 1) <=> NightOf(m) = d
    OBVIOUS
  <2>1. m.at = Midnight(NightOf(m) + 1) /\ NightOf(m) \in nights
    BY <1>1 DEF LossRows
  <2>2. NightOf(m) \in Nat
    <3> DEFINE x == NightOf(m)
    <3>1. x \in 0..(Day(now) - 1) /\ Day(now) \in Nat
      BY <1>1, <1>2, <2>1
    <3> HIDE DEF x
    <3>2. x \in Nat
      BY <3>1
    <3> QED BY <3>2 DEF x
  <2> HIDE DEF NightOf
  <2> QED BY <1>2, <2>1, <2>2 DEF Midnight
<1>4. CASE d \in nights
  <2>1. PICK m \in movements : m.type = "loss" /\ NightOf(m) = d
    BY <1>1, <1>4 DEF LossRows
  <2>2. L = {m}
    BY <1>1, <1>3, <2>1 DEF LossRows
  <2>3. Cardinality({m}) = 1
    BY FS_Singleton
  <2> QED BY <1>4, <2>2, <2>3
<1>5. CASE d \notin nights
  <2>1. L = {}
    BY <1>1, <1>3, <1>5 DEF LossRows
  <2>2. Cardinality({}) = 0
    BY FS_EmptySet
  <2> QED BY <1>5, <2>1, <2>2
<1> QED BY <1>4, <1>5

\* In every scenario, with times of their own and late reads, rows are well
\* formed and the loss of a night is taken by one read only, whoever notices it.
THEOREM NightsAreLostOnce ==
  ASSUME StockAssumption
  PROVE  Spec => [](TypeOK /\ LossOncePerNight)
<1>1. StockIndInv => TypeOK /\ LossOncePerNight
  BY StockTypes, NightsLostOnce
<1> QED BY <1>1, StockIndInvHolds, PTL

\* An adjustment that asks for a stock gets it exactly, whatever else was
\* committed since the administrator looked: the rows are locked when it counts.
THEOREM AdjustmentsHit ==
  ASSUME StockAssumption, OneGoal
  PROVE  Spec => AdjustHitsTarget
<1>1. ASSUME StockIndInv, NEW h \in Handlers, CommitAdjustments(h), txn[h].op.goal.stock # None
      PROVE  Available(movements') = txn[h].op.goal.stock
  <2>1. /\ Step(h) = "commit" /\ Work(h) = "set" /\ Planned(h) /\ Known(h) /\ StockTables
        /\ Available(movements') = After(h)
    BY <1>1, CommitAdjustmentsKeeps DEF StockIndInv
  <2>2. txn[h].op \in Requests /\ scenario \in Scenarios
    BY <2>1 DEF Known, StockTables
  <2>3. txn[h].op.goal \in scenario.adjusts
    BY <2>1, <2>2, RequestFields DEF Work
  <2>4. txn[h].op.goal.moved = None
    BY <1>1, <2>2, <2>3 DEF OneGoal
  <2> QED BY <1>1, <2>1, <2>4 DEF Planned
<1>2. StockIndInv /\ [Next]_vars =>
        [\A h \in Handlers : CommitAdjustments(h) /\ txn[h].op.goal.stock # None =>
           Available(movements') = txn[h].op.goal.stock]_vars
  BY <1>1
<1> QED BY <1>2, StockIndInvHolds, PTL DEF Spec, AdjustHitsTarget

-----------------------------------------------------------------------------
(* Who locks before he checks leaves the stock covered. *)

LEMMA Unmoved ==
  ASSUME NEW g \in Handlers, txn'[g] = txn[g]
  PROVE  Step(g)' = Step(g) /\ Work(g)' = Work(g) /\ Busy(g)' = Busy(g)
BY DEF Step, Work, Busy

LEMMA StockIsInt == ASSUME StockTables PROVE Stock \in Int
BY AvailableIsInt DEF Stock, StockTables, Entries

\* What a busy handler serves is in its scenario.
LEMMA Serving ==
  ASSUME StockAssumption, StockIndInv, NEW h \in Handlers, Busy(h)
  PROVE  /\ Work(h) \in scenario.serves[h] /\ Work(h) \in Kinds /\ txn[h].op \in Requests /\ Mine(h)
         /\ Work(h) \in {"add", "use", "transfer", "retailer", "bill"} => txn[h].op.quantity \in Nat
         /\ scenario.backdates = {} /\ Work(h) # "loss" => txn[h].op.raw = None
         /\ Work(h) = "set" => txn[h].op.goal \in scenario.adjusts /\ txn[h].op.goal \in Adjusts
<1>1. Mine(h) /\ Known(h) /\ StockTables
  BY DEF StockIndInv, Mine
<1>2. txn[h].op \in Requests /\ Work(h) \in scenario.serves[h] /\ scenario \in Scenarios
  BY <1>1 DEF Known, Work, StockTables
<1> QED BY <1>1, <1>2, RequestFields DEF Work

\* Beside a step of another handler that keeps the item's lock where it is.
LEMMA LockedBeside ==
  ASSUME LockedInv, NEW g \in Handlers, txn'[g] = txn[g], Busy(g)', item = g => item' = g, Stock' = Stock
  PROVE  LockedAt(g)'
<1>1. Step(g)' = Step(g) /\ Work(g)' = Work(g) /\ Busy(g) /\ txn[g]' = txn[g]
  BY Unmoved
<1>2. LockedAt(g)
  BY <1>1 DEF LockedInv
<1> QED BY <1>1, <1>2 DEF LockedAt

\* The commits leave the others without a lock, so without a check.
LEMMA LockedWaits ==
  ASSUME StockIndInv, LockedInv, NEW g \in Handlers, Busy(g), txn'[g] = txn[g], item # g
  PROVE  LockedAt(g)'
<1>1. Step(g)' = Step(g) /\ Work(g)' = Work(g)
  BY Unmoved
<1>2. LockedAt(g) /\ Holds(g)
  BY DEF LockedInv, StockIndInv, Mine
<1>3. Work(g) = "use" => Step(g) \notin {"policy", "check", "commit"}
  BY <1>2 DEF LockedAt
<1>4. Work(g) \in {"transfer", "retailer"} => Step(g) # "commit"
  BY <1>2 DEF Holds
<1> QED BY <1>1, <1>3, <1>4 DEF LockedAt

LEMMA LockedStays ==
  ASSUME StockAssumption, StockIndInv, Locked(scenario), LockedInv, [Next]_vars
  PROVE  scenario' = scenario /\ LockedInv'
<1>1. StockTables /\ Stock \in Int /\ Stock >= 0
  BY StockIsInt DEF StockIndInv, LockedInv
<1>2. /\ scenario.backdates = {}
      /\ \A h \in Handlers : scenario.serves[h] \subseteq {"add", "use", "transfer", "retailer", "set"}
      /\ \A h \in Handlers : "use" \in scenario.serves[h] => policyRow
      /\ \A g \in scenario.adjusts : \/ g.stock # None /\ g.moved = None
                                     \/ g.stock = None /\ g.used = None /\ g.moved \in {None, 0}
  BY <1>1 DEF Locked, StockTables
<1>3. ASSUME UNCHANGED <<movements, item, txn, scenario>> PROVE scenario' = scenario /\ LockedInv'
  <2>1. Stock' = Stock /\ \A g \in Handlers : txn'[g] = txn[g]
    BY <1>3, SameStock
  <2>2. \A g \in Handlers : Busy(g)' => LockedAt(g)'
    BY <1>3, <2>1, LockedBeside
  <2> QED BY <1>1, <1>3, <2>1, <2>2 DEF LockedInv
<1>4. CASE UNCHANGED vars
  BY <1>3, <1>4 DEF vars, tables, locks
<1>5. CASE Tick
  BY <1>3, <1>5 DEF Tick, tables, locks
<1>6. ASSUME NEW h \in Handlers, NEW op \in Requests, Serve(h, op) PROVE scenario' = scenario /\ LockedInv'
  <2>1. /\ UNCHANGED <<movements, item, scenario>>
        /\ Busy(h)' => Work(h)' = op.kind /\ op.kind \in scenario.serves[h]
                       /\ Step(h)' \notin {"count", "night", "commit", "seed"}
                       /\ (Step(h)' = "policy" => op.kind \in {"retailer", "set"})
                       /\ (Step(h)' = "check" => op.kind = "bill")
        /\ \A g \in Handlers : g # h /\ Busy(g)' => txn'[g] = txn[g]
    BY <1>6, ServeKeeps
  <2>2. Stock' = Stock
    BY <2>1, SameStock
  <2>3. \A g \in Handlers : g # h /\ Busy(g)' => LockedAt(g)'
    BY <2>1, <2>2, LockedBeside
  <2>4. Busy(h)' => LockedAt(h)'
    BY <2>1 DEF LockedAt
  <2> QED BY <1>1, <2>1, <2>2, <2>3, <2>4 DEF LockedInv
<1>7. ASSUME NEW h \in Handlers, Progress(h) PROVE scenario' = scenario /\ LockedInv'
  <2>1. /\ UNCHANGED <<movements, scenario>>
        /\ \A g \in Handlers : g # h => txn'[g] = txn[g] /\ (item = g => item' = g)
    BY <1>7 DEF Progress, Quiet
  <2>2. Stock' = Stock
    BY <2>1, SameStock
  <2>3. \A g \in Handlers : g # h /\ Busy(g)' => LockedAt(g)'
    BY <2>1, <2>2, LockedBeside
  <2>4. ASSUME Busy(h)' PROVE LockedAt(h)'
    <3>1. /\ Busy(h) /\ txn'[h].op = txn[h].op
          /\ Work(h) \in {"use", "transfer", "retailer", "bill"} /\ Step(h)' = "commit" =>
               Step(h) = "check" /\ txn[h].op.quantity <= AvailableFor(txn[h])
          /\ Work(h) = "use" /\ policyRow /\ Step(h)' \in {"policy", "check", "commit"} =>
               item' = h \/ (Step(h) \in {"policy", "check"} /\ item' = item)
      BY <1>7, <2>4 DEF Progress
    <3>2. Work(h) \in scenario.serves[h] /\ Work(h) # "loss" /\ Work(h) # "bill" /\ LockedAt(h)
      BY <1>2, <3>1, Serving DEF LockedInv
    <3>3. txn[h].op.raw = None
      BY <1>2, <3>1, <3>2, Serving
    <3>4. AvailableFor(txn[h]) = Stock
      BY <3>2, <3>3 DEF AvailableFor, Work
    <3>5. Work(h)' = Work(h)
      BY <3>1 DEF Work
    <3> QED BY <1>2, <2>2, <3>1, <3>2, <3>4, <3>5 DEF LockedAt
  <2> QED BY <1>1, <2>1, <2>2, <2>3, <2>4 DEF LockedInv
<1>8. ASSUME NEW h \in Handlers, CommitMovement(h) PROVE scenario' = scenario /\ LockedInv'
  <2> DEFINE m == RowOf(h)
  <2>1. /\ Busy(h) /\ ~ Busy(h)' /\ scenario' = scenario /\ Step(h) = "commit"
        /\ \A g \in Handlers : g # h /\ Busy(g)' => Busy(g) /\ txn'[g] = txn[g] /\ item # g
        /\ movements' = movements \cup {m}
        /\ m \notin movements /\ m \in Entry /\ m.quantity = txn[h].op.quantity
        /\ m.quantity \in Nat
        /\ m.type = IF Work(h) = "bill" THEN "use" ELSE Work(h)
        /\ Work(h) \in {"add", "use", "transfer", "retailer", "bill"}
    BY <1>8, CommitMovementKeeps
  <2> HIDE DEF m
  <2>2. Work(h) \in {"add", "use", "transfer", "retailer"} /\ LockedAt(h)
    BY <1>2, <2>1, Serving DEF LockedInv
  <2>3. Available(movements') = IF m.type = "add" THEN Stock + m.quantity ELSE Stock - m.quantity
    BY <1>1, <2>1, AvailableAdd DEF Stock, StockTables, Entries
  <2>4. Available(movements') >= 0
    BY <1>1, <2>1, <2>2, <2>3 DEF LockedAt
  <2>5. Stock' = Available(movements')
    BY DEF Stock, Available, Sum
  <2>6. \A g \in Handlers : Busy(g)' => LockedAt(g)'
    BY <2>1, LockedWaits
  <2> QED BY <2>1, <2>4, <2>5, <2>6 DEF LockedInv
<1>9. ASSUME NEW h \in Handlers, CommitAdjustments(h) PROVE scenario' = scenario /\ LockedInv'
  <2>1. /\ Busy(h) /\ ~ Busy(h)' /\ scenario' = scenario
        /\ Step(h) = "commit" /\ Work(h) = "set" /\ Planned(h)
        /\ \A g \in Handlers : g # h /\ Busy(g)' => Busy(g) /\ txn'[g] = txn[g] /\ item # g
        /\ Available(movements') = After(h)
    BY <1>9, CommitAdjustmentsKeeps
  <2>2. txn[h].op.goal \in scenario.adjusts /\ txn[h].op.goal \in Adjusts
    BY <2>1, Serving
  <2>3. After(h) >= 0
    <3>1. CASE txn[h].op.goal.stock # None /\ txn[h].op.goal.moved = None
      <4>1. txn[h].op.goal.stock \in Nat
        BY <2>2, <3>1 DEF Adjusts, Goals
      <4> QED BY <2>1, <3>1, <4>1 DEF Planned
    <3>2. CASE txn[h].op.goal.stock = None /\ txn[h].op.goal.used = None /\ txn[h].op.goal.moved \in {None, 0}
      <4>1. After(h) >= Stock
        BY <2>1, <3>2 DEF Planned
      <4>2. After(h) \in Int
        <5>1. StockTables'
          BY <1>9, CommitAdjustmentsKeeps DEF StockIndInv
        <5>2. IsFiniteSet(movements') /\ movements' \subseteq Entry
          BY <5>1 DEF StockTables, Entries, Entry
        <5> QED BY <2>1, <5>2, AvailableIsInt
      <4> QED BY <1>1, <4>1, <4>2
    <3> QED BY <1>2, <2>2, <3>1, <3>2
  <2>4. Stock' = Available(movements')
    BY DEF Stock, Available, Sum
  <2>5. \A g \in Handlers : Busy(g)' => LockedAt(g)'
    BY <2>1, LockedWaits
  <2> QED BY <2>1, <2>3, <2>4, <2>5 DEF LockedInv
<1>10. ASSUME NEW h \in Handlers, Busy(h), Work(h) = "loss" PROVE FALSE
  BY <1>2, <1>10, Serving
<1>11. ASSUME NEW h \in Handlers, ReadNights(h) \/ CommitNights(h) \/ \E lost \in Losses : ApplyNight(h, lost) PROVE FALSE
  BY <1>10, <1>11, ReadNightsKeeps, CommitNightsKeeps, ApplyNightKeeps
<1> QED BY <1>4, <1>5, <1>6, <1>7, <1>8, <1>9, <1>11, StockIndInvStep

-----------------------------------------------------------------------------
(* Who bills alone leaves the stock covered. *)

LEMMA UptoRows ==
  ASSUME NEW S, IsFiniteSet(S), S \subseteq Entry, NEW t \in Nat
  PROVE  /\ IsFiniteSet(Upto(S, t)) /\ Upto(S, t) \subseteq Entry /\ Available(Upto(S, t)) \in Int
         /\ IsFiniteSet(S \ Upto(S, t)) /\ S \ Upto(S, t) \subseteq Entry
         /\ Available(S) = Available(Upto(S, t)) + Available(S \ Upto(S, t))
<1> DEFINE U == Upto(S, t)
           V == S \ U
<1>1. U \subseteq S /\ V \subseteq S /\ S = U \cup V /\ U \cap V = {}
  BY DEF Upto
<1> HIDE DEF U, V
<1>2. IsFiniteSet(U) /\ IsFiniteSet(V) /\ U \subseteq Entry /\ V \subseteq Entry
  BY <1>1, FS_Subset
<1>3. Available(U \cup V) = Available(U) + Available(V)
  BY <1>1, <1>2, AvailableBoth
<1>4. Available(U) \in Int
  BY <1>2, AvailableIsInt
<1>5. Available(S) = Available(U) + Available(V)
  BY <1>1, <1>3, Zenon
<1> QED BY <1>2, <1>4, <1>5 DEF V, U

LEMMA BilledBeside ==
  ASSUME BilledInv, NEW g \in Handlers, txn'[g] = txn[g], Busy(g)', movements' = movements
  PROVE  BilledAt(g)'
<1>1. Step(g)' = Step(g) /\ Work(g)' = Work(g) /\ Busy(g) /\ txn[g]' = txn[g]
  BY Unmoved
<1>2. BilledAt(g)
  BY <1>1 DEF BilledInv
<1> QED BY <1>1, <1>2 DEF BilledAt, Upto, Available, Sum

LEMMA BilledStays ==
  ASSUME StockAssumption, StockIndInv, Billed(scenario), BilledInv, [Next]_vars
  PROVE  scenario' = scenario /\ BilledInv'
<1>1. /\ StockTables /\ Stock \in Int /\ Stock >= 0 /\ now \in Nat
      /\ movements \subseteq Entry /\ IsFiniteSet(movements)
      /\ \A m \in movements : m.type \in {"add", "use"} /\ m.quantity >= 0 /\ m.at <= now
  BY StockIsInt DEF StockIndInv, BilledInv, StockTables, Entries, PlainRows
<1>2. PICK b \in Handlers : /\ scenario.serves[b] \subseteq {"add", "bill"}
                            /\ \A h \in Handlers \ {b} : scenario.serves[h] \subseteq {"add"}
  BY DEF Billed
<1>3. ASSUME NEW h \in Handlers, Busy(h) PROVE Work(h) \in {"add", "bill"} /\ (Work(h) = "bill" => h = b)
  BY <1>2, <1>3, Serving
<1>4. ASSUME UNCHANGED movements PROVE Stock' >= 0 /\ PlainRows({"add", "use"})'
  <2>1. Stock' = Stock
    BY <1>4, SameStock
  <2> QED BY <1>1, <1>4, <2>1 DEF PlainRows
<1>5. ASSUME UNCHANGED <<movements, txn, scenario>> PROVE scenario' = scenario /\ BilledInv'
  BY <1>4, <1>5, BilledBeside DEF BilledInv
<1>6. CASE UNCHANGED vars
  BY <1>5, <1>6 DEF vars, tables
<1>7. CASE Tick
  BY <1>5, <1>7 DEF Tick, tables
<1>8. ASSUME NEW h \in Handlers, NEW op \in Requests, Serve(h, op) PROVE scenario' = scenario /\ BilledInv'
  <2>1. /\ UNCHANGED <<movements, scenario>>
        /\ txn'[h].at = now /\ (Busy(h)' => Step(h)' # "commit")
        /\ \A g \in Handlers : g # h /\ Busy(g)' => txn'[g] = txn[g]
    BY <1>8, ServeKeeps
  <2>2. Busy(h)' => BilledAt(h)'
    BY <1>1, <2>1 DEF BilledAt
  <2> QED BY <1>4, <2>1, <2>2, BilledBeside DEF BilledInv
<1>9. ASSUME NEW h \in Handlers, Progress(h) PROVE scenario' = scenario /\ BilledInv'
  <2>1. UNCHANGED <<movements, scenario>> /\ \A g \in Handlers : g # h => txn'[g] = txn[g]
    BY <1>9 DEF Progress, Quiet
  <2>2. ASSUME Busy(h)' PROVE BilledAt(h)'
    <3>1. /\ Busy(h) /\ txn'[h].op = txn[h].op
          /\ Work(h) \in {"use", "transfer", "retailer", "bill"} /\ Step(h)' = "commit" =>
               txn'[h].at = txn[h].at /\ txn[h].op.quantity <= AvailableFor(txn[h])
          /\ Work(h) = "bill" => txn'[h].at = txn[h].at
      BY <1>9, <2>2 DEF Progress
    <3>2. BilledAt(h) /\ Work(h)' = Work(h)
      BY <3>1 DEF BilledInv, Work
    <3>3. Work(h) = "bill" => AvailableFor(txn[h]) = Available(Upto(movements, txn[h].at))
      BY DEF AvailableFor, Work
    <3> SUFFICES ASSUME Work(h) = "bill"
                 PROVE  /\ \A m \in movements' : m.type = "use" => m.at <= txn'[h].at
                        /\ Step(h)' = "commit" => txn'[h].op.quantity <= Available(Upto(movements', txn'[h].at))
      BY <3>2 DEF BilledAt, Upto, Available, Sum
    <3>4. \A m \in movements : m.type = "use" => m.at <= txn[h].at
      BY <3>2 DEF BilledAt
    <3> QED BY <2>1, <3>1, <3>3, <3>4
  <2> QED BY <1>4, <2>1, <2>2, BilledBeside DEF BilledInv
<1>10. ASSUME NEW h \in Handlers, CommitMovement(h) PROVE scenario' = scenario /\ BilledInv'
  <2> DEFINE m == RowOf(h)
  <2>1. /\ Busy(h) /\ ~ Busy(h)' /\ scenario' = scenario /\ Step(h) = "commit"
        /\ \A g \in Handlers : g # h /\ Busy(g)' => Busy(g) /\ txn'[g] = txn[g]
        /\ movements' = movements \cup {m}
        /\ m \notin movements /\ m \in Entry /\ m.quantity = txn[h].op.quantity
        /\ m.quantity \in Nat /\ m.at = txn[h].at
        /\ m.type = IF Work(h) = "bill" THEN "use" ELSE Work(h)
    BY <1>10, CommitMovementKeeps
  <2> HIDE DEF m
  <2>2. Available(movements') = IF m.type = "add" THEN Stock + m.quantity ELSE Stock - m.quantity
    BY <1>1, <2>1, AvailableAdd DEF Stock
  <2>3. BilledAt(h) /\ m.type \in {"add", "use"} /\ m.at \in Nat
    BY <1>3, <2>1 DEF BilledInv, Entry
  <2>4. Available(movements') >= 0
    <3>1. CASE Work(h) = "add"
      BY <1>1, <2>1, <2>2, <3>1
    <3>2. CASE Work(h) = "bill"
      <4> DEFINE U == Upto(movements, m.at)
      <4>1. \A r \in movements \ U : r.type = "add" /\ r.quantity >= 0
        BY <1>1, <2>1, <2>3, <3>2 DEF BilledAt, Upto
      <4>2. /\ Available(U) \in Int /\ IsFiniteSet(movements \ U) /\ movements \ U \subseteq Entry
            /\ Stock = Available(U) + Available(movements \ U)
        BY <1>1, <2>3, UptoRows DEF Stock
      <4>3. m.quantity <= Available(U)
        BY <2>1, <2>3, <3>2 DEF BilledAt
      <4> HIDE DEF U
      <4>4. Available(movements \ U) \in Nat
        BY <4>1, <4>2, AvailableAdds
      <4> QED BY <2>1, <2>2, <3>2, <4>2, <4>3, <4>4
    <3> QED BY <1>3, <2>1, <3>1, <3>2
  <2>5. Stock' = Available(movements')
    BY DEF Stock, Available, Sum
  <2>6. ASSUME NEW g \in Handlers, Busy(g)' PROVE BilledAt(g)'
    <3>1. g # h /\ Busy(g) /\ txn'[g] = txn[g] /\ Step(g)' = Step(g) /\ Work(g)' = Work(g)
      BY <2>1, <2>6, Unmoved
    <3>2. CASE Work(g) # "bill"
      BY <3>1, <3>2 DEF BilledAt
    <3>3. CASE Work(g) = "bill"
      <4>1. Work(h) = "add" /\ m.type = "add" /\ BilledAt(g)
        BY <1>3, <2>1, <3>1, <3>3 DEF BilledInv
      <4> DEFINE t == txn[g].at
                 U == Upto(movements, t)
      <4>2. t \in Nat
        BY <1>1, <3>1, Serving DEF Mine, Known
      <4>3. IsFiniteSet(U) /\ U \subseteq Entry /\ Available(U) \in Int /\ m \notin U
        BY <1>1, <2>1, <4>2, UptoRows DEF Upto
      <4>4. Upto(movements', t) = IF m.at <= t THEN U \cup {m} ELSE U
        BY <2>1 DEF Upto
      <4>5. Available(U \cup {m}) = Available(U) + m.quantity
        BY <2>1, <4>1, <4>3, AvailableAdd
      <4>6. Available(Upto(movements', t)) \in Int /\ Available(Upto(movements', t)) >= Available(U)
        <5> HIDE DEF U, t
        <5>1. CASE m.at <= t
          <6>1. Upto(movements', t) = U \cup {m}
            BY <4>4, <5>1
          <6>2. Available(Upto(movements', t)) = Available(U) + m.quantity
            BY <4>5, <6>1, Zenon
          <6> QED BY <2>1, <4>3, <6>2
        <5>2. CASE ~ (m.at <= t)
          <6>1. Upto(movements', t) = U
            BY <4>4, <5>2
          <6>2. Available(Upto(movements', t)) = Available(U)
            BY <6>1, Zenon
          <6> QED BY <4>3, <6>2
        <5> QED BY <5>1, <5>2
      <4>7. \A r \in movements' : r.type = "use" => r.at <= t
        BY <2>1, <3>3, <4>1 DEF BilledAt
      <4>8. Step(g) = "commit" => txn[g].op.quantity <= Available(Upto(movements', t))
        <5>1. Step(g) = "commit" => txn[g].op.quantity <= Available(U)
          BY <3>3, <4>1 DEF BilledAt
        <5>2. txn[g].op.quantity \in Nat
          BY <3>1, <3>3, Serving
        <5> HIDE DEF U
        <5> QED BY <4>3, <4>6, <5>1, <5>2
      <4> QED BY <3>1, <4>7, <4>8 DEF BilledAt, Upto, Available, Sum
    <3> QED BY <3>2, <3>3
  <2>7. PlainRows({"add", "use"})'
    BY <1>1, <2>1, <2>3 DEF PlainRows
  <2> QED BY <2>1, <2>4, <2>5, <2>6, <2>7 DEF BilledInv
<1>11. ASSUME NEW h \in Handlers, CommitAdjustments(h) \/ ReadNights(h) \/ CommitNights(h) \/ \E lost \in Losses : ApplyNight(h, lost)
       PROVE  FALSE
  <2>1. Busy(h) /\ Work(h) \in {"loss", "set"}
    BY <1>11, CommitAdjustmentsKeeps, ReadNightsKeeps, CommitNightsKeeps, ApplyNightKeeps
  <2> QED BY <1>3, <2>1
<1> QED BY <1>6, <1>7, <1>8, <1>9, <1>10, <1>11, StockIndInvStep

-----------------------------------------------------------------------------
(* Reads beside one handler that adds leave the stock covered. *)

LEMMA LostBeside ==
  ASSUME LostInv, NEW g \in Handlers, txn'[g] = txn[g], Busy(g)', UNCHANGED <<movements, nights>>
  PROVE  LostAt(g)'
<1>1. Step(g)' = Step(g) /\ Work(g)' = Work(g) /\ Busy(g) /\ txn[g]' = txn[g]
  BY Unmoved
<1>2. LostAt(g)
  BY <1>1 DEF LostInv
<1>3. /\ Reading(g)' = Reading(g) /\ Seen(g)' = Seen(g)
      /\ \A days, n : Closed(days, n)' = Closed(days, n)
      /\ Available(movements \cup txn[g].rows)' = Available(movements \cup txn[g].rows)
  BY <1>1 DEF Reading, Seen, Closed, AddBy, NightsOf, Day, Available, Sum
<1>4. ReadingAt(g)'
  BY <1>1, <1>2, <1>3 DEF LostAt, ReadingAt
<1> QED BY <1>1, <1>2, <1>4 DEF LostAt

LEMMA LostSame ==
  ASSUME LostInv, UNCHANGED <<movements, nights>>
  PROVE  Stock' >= 0 /\ PlainRows({"add", "loss"})' /\ \A n \in nights' : Closed(nights, n)'
<1>1. Stock' = Stock
  BY SameStock
<1>2. \A n : Closed(nights, n)' = Closed(nights, n)
  BY DEF Closed, AddBy, Day
<1> QED BY <1>1, <1>2 DEF LostInv, PlainRows

\* A night to come, applied or in the read's hands, is no earlier than the one it applies.
LEMMA ApplyCovered ==
  ASSUME StockAssumption, StockIndInv, LostInv, NEW h \in Handlers, NEW lost \in Losses, ApplyNight(h, lost),
         Seen(h) \cap nights = {}
  PROVE  Available(movements \cup (txn[h].rows \cup {LossRow(h, lost)})) >= 0
<1> DEFINE n == FirstNight(h)
           m == LossRow(h, lost)
           S == movements \cup txn[h].rows
           T == Midnight(n + 1)
           U == Upto(S, T)
<1>1. /\ n \in txn[h].missing /\ n \in Nat
      /\ m \in Entry /\ m.type = "loss" /\ m.quantity \in Nat
      /\ StockAt(h) \in Int /\ (m.quantity = 0 \/ m.quantity <= StockAt(h))
      /\ m \notin movements /\ m \notin txn[h].rows
      /\ Work(h) = "loss" /\ Busy(h) /\ Known(h) /\ Nightly(txn[h]) /\ Step(h) = "night"
  BY LossRowMade, ApplyNightKeeps
<1>2. StockAt(h) = Available(U)
  BY Zenon DEF StockAt
<1>3. /\ StockTables /\ LossRows /\ PlainRows({"add", "loss"})
      /\ IsFiniteSet(movements) /\ movements \subseteq Entry /\ IsFiniteSet(txn[h].rows) /\ txn[h].rows \subseteq Entry
      /\ nights \subseteq Nat
  BY <1>1 DEF StockIndInv, StockTables, Known, Entries, LostInv
<1>4. IsFiniteSet(S) /\ S \subseteq Entry
  BY <1>3, FS_Union
<1>5. LostAt(h)
  BY <1>1 DEF LostInv
<1>6. /\ \A x \in Seen(h) : Closed(nights \cup Seen(h), x)
      /\ Available(S) >= 0
  BY <1>1, <1>5 DEF LostAt, ReadingAt, Reading
<1>7. n \in Seen(h)
  BY <1>1 DEF Seen
<1>8. \A x \in nights : x <= n
  <2> SUFFICES ASSUME NEW x \in nights, n < x PROVE FALSE
    BY <1>1, <1>3
  <2>1. AddBy(n)
    BY <1>6, <1>7 DEF Closed
  <2>2. n \in nights
    BY <1>1, <2>1 DEF LostInv, Closed
  <2> QED BY <1>7, <2>2
<1>9. T \in Nat
  BY <1>1 DEF Midnight
<1>10. \A r \in S \ U : r.type = "add" /\ r.quantity >= 0
  <2> SUFFICES ASSUME NEW r \in S, r \notin U PROVE r.type = "add" /\ r.quantity >= 0
    OBVIOUS
  <2>1. ~ (r.at <= T)
    BY DEF Upto
  <2>2. ASSUME r.type = "loss" PROVE FALSE
    <3> DEFINE x == NightOf(r)
    <3>1. x <= n /\ x \in Nat /\ r.at = Midnight(x + 1)
      <4>1. CASE r \in movements
        <5>1. x \in nights /\ r.at = Midnight(x + 1)
          BY <1>3, <2>2, <4>1 DEF LossRows
        <5> QED BY <1>3, <1>8, <5>1
      <4>2. CASE r \in txn[h].rows
        <5>1. x < n /\ r.at = Midnight(x + 1) /\ x \in 0..(Day(now) - 1)
          BY <1>1, <4>2 DEF Nightly
        <5> HIDE DEF x
        <5>2. x \in Nat
          BY <5>1
        <5> QED BY <1>1, <5>1, <5>2
      <4> QED BY <4>1, <4>2
    <3> HIDE DEF x
    <3> QED BY <1>1, <2>1, <3>1 DEF Midnight
  <2>3. r \in movements
    BY <1>1, <2>2 DEF Nightly
  <2> QED BY <1>3, <2>2, <2>3 DEF PlainRows
<1> HIDE DEF S, T, n
<1>11. /\ Available(U) \in Int /\ IsFiniteSet(S \ U) /\ S \ U \subseteq Entry
       /\ Available(S) = Available(U) + Available(S \ U)
  BY <1>4, <1>9, UptoRows
<1> HIDE DEF U
<1>12. Available(S \ U) \in Nat
  BY <1>10, <1>11, AvailableAdds
<1>13. m \notin S
  BY <1>1 DEF S
<1> HIDE DEF m
<1>14. Available(S \cup {m}) = Available(S) - m.quantity
  BY <1>1, <1>4, <1>13, AvailableAdd
<1>15. Available(S \cup {m}) >= 0
  BY <1>1, <1>2, <1>6, <1>11, <1>12, <1>14
<1>16. S \cup {m} = movements \cup (txn[h].rows \cup {m})
  BY DEF S
<1> QED BY <1>15, <1>16, Zenon DEF m

LEMMA LostStays ==
  ASSUME StockAssumption, StockIndInv, Lost(scenario), LostInv, [Next]_vars
  PROVE  scenario' = scenario /\ LostInv'
<1>1. /\ StockTables /\ Stock \in Int /\ Stock >= 0 /\ now \in Nat
      /\ movements \subseteq Entry /\ IsFiniteSet(movements)
      /\ \A m \in movements : m.type \in {"add", "loss"} /\ m.quantity >= 0 /\ m.at <= now
      /\ nights \subseteq Nat
      /\ \A n \in nights : Closed(nights, n)
  BY StockIsInt DEF StockIndInv, LostInv, StockTables, Entries, PlainRows
<1>2. PICK a \in Handlers : /\ scenario.serves[a] \subseteq {"add", "loss"}
                            /\ \A h \in Handlers \ {a} : scenario.serves[h] \subseteq {"loss"}
  BY DEF Lost
<1>3. ASSUME NEW h \in Handlers, Busy(h)
      PROVE  /\ Work(h) \in {"add", "loss"} /\ (Work(h) = "add" => h = a /\ txn[h].op.raw = None)
             /\ Mine(h) /\ LostAt(h)
  BY <1>2, <1>3, Serving DEF Lost, LostInv
<1>4. ASSUME UNCHANGED <<movements, nights, txn, scenario>> PROVE scenario' = scenario /\ LostInv'
  BY <1>4, LostSame, LostBeside DEF LostInv
<1>5. CASE UNCHANGED vars
  BY <1>4, <1>5 DEF vars, tables
<1>6. CASE Tick
  BY <1>4, <1>6 DEF Tick, tables
<1>7. ASSUME NEW h \in Handlers, NEW op \in Requests, Serve(h, op) PROVE scenario' = scenario /\ LostInv'
  <2>1. /\ UNCHANGED <<movements, nights, scenario>>
        /\ txn'[h].at = now /\ (Busy(h)' => Step(h)' \notin {"night", "commit"})
        /\ \A g \in Handlers : g # h /\ Busy(g)' => txn'[g] = txn[g]
    BY <1>7, ServeKeeps
  <2>2. Busy(h)' => LostAt(h)'
    BY <1>1, <2>1 DEF LostAt, ReadingAt, Reading
  <2>3. \A g \in Handlers : Busy(g)' => LostAt(g)'
    BY <2>1, <2>2, LostBeside
  <2> QED BY <2>1, <2>3, LostSame DEF LostInv
<1>8. ASSUME NEW h \in Handlers, Progress(h) PROVE scenario' = scenario /\ LostInv'
  <2>1. UNCHANGED <<movements, nights, scenario>> /\ \A g \in Handlers : g # h => txn'[g] = txn[g]
    BY <1>8 DEF Progress, Quiet
  <2>2. ASSUME Busy(h)' PROVE LostAt(h)'
    <3>1. /\ Busy(h) /\ txn'[h].op = txn[h].op /\ Work(h) # "loss"
          /\ Work(h) = "add" /\ txn[h].op.raw = None => txn'[h].at \in {txn[h].at, now}
      BY <1>8, <2>2 DEF Progress
    <3>2. Work(h)' = Work(h) /\ Work(h) = "add" /\ txn[h].op.raw = None /\ LostAt(h)
      BY <1>3, <3>1 DEF Work
    <3>3. \A m \in movements : m.type = "add" => m.at <= txn[h].at
      BY <3>2 DEF LostAt
    <3> QED BY <1>1, <2>1, <3>1, <3>2, <3>3 DEF LostAt, ReadingAt, Reading
  <2>3. \A g \in Handlers : Busy(g)' => LostAt(g)'
    BY <2>1, <2>2, LostBeside
  <2> QED BY <2>1, <2>3, LostSame DEF LostInv
<1>9. ASSUME NEW h \in Handlers, ReadNights(h) PROVE scenario' = scenario /\ LostInv'
  <2>1. /\ Quiet(h) /\ Work(h)' = "loss"
        /\ txn'[h].rows = {} /\ txn'[h].missing = MissingNights /\ MissingNights # {}
    BY <1>9, ReadNightsKeeps
  <2>2. UNCHANGED <<movements, nights, scenario>> /\ \A g \in Handlers : g # h => txn'[g] = txn[g]
    BY <2>1 DEF Quiet
  <2>3. Seen(h)' = MissingNights
    BY <2>1 DEF Seen, NightsOf
  <2>4. \A n \in MissingNights : Closed(nights \cup MissingNights, n)
    BY <1>1, MissingAre DEF Closed
  <2>5. \A days, n : Closed(days, n)' = Closed(days', n)
    BY <2>2 DEF Closed, AddBy, Day
  <2>6. Available(movements \cup txn[h].rows)' >= 0
    <3>1. movements' \cup txn'[h].rows = movements
      BY <2>1, <2>2
    <3>2. Available(movements' \cup txn'[h].rows) = Available(movements)
      BY <3>1, Zenon
    <3> QED BY <1>1, <3>2 DEF Stock, Available, Sum
  <2>7. \A n \in Seen(h)' : Closed(nights \cup Seen(h), n)'
    <3> SUFFICES ASSUME NEW n \in MissingNights PROVE Closed(nights \cup Seen(h), n)'
      BY <2>3
    <3>1. Closed(nights \cup MissingNights, n)
      BY <2>4
    <3>2. /\ AddBy(n)' = AddBy(n) /\ \A d : AddBy(d)' = AddBy(d)
      BY <2>2 DEF AddBy, Day
    <3> QED BY <2>2, <2>3, <3>1, <3>2 DEF Closed
  <2>8. LostAt(h)'
    BY <2>1, <2>3, <2>6, <2>7 DEF LostAt, ReadingAt
  <2>9. \A g \in Handlers : Busy(g)' => LostAt(g)'
    BY <2>2, <2>8, LostBeside
  <2> QED BY <2>2, <2>9, LostSame DEF LostInv
<1>10. ASSUME NEW h \in Handlers, NEW lost \in Losses, ApplyNight(h, lost) PROVE scenario' = scenario /\ LostInv'
  <2> DEFINE n == FirstNight(h)
             m == LossRow(h, lost)
  <2>1. /\ Quiet(h) /\ Step(h) = "night" /\ Busy(h) /\ Work(h) = "loss" /\ Work(h)' = "loss"
        /\ txn'[h].rows = txn[h].rows \cup {m} /\ txn'[h].missing = txn[h].missing \ {n}
    BY <1>10, ApplyNightKeeps
  <2>2. UNCHANGED <<movements, nights, scenario>> /\ \A g \in Handlers : g # h => txn'[g] = txn[g]
    BY <2>1 DEF Quiet
  <2>3. NightOf(m) = n /\ n \in txn[h].missing
    BY <1>10, <2>1, LossRowMade
  <2>4. Seen(h) \cap nights = {} => Available(movements \cup (txn[h].rows \cup {m})) >= 0
    BY <1>10, ApplyCovered
  <2> HIDE DEF n, m
  <2>5. Seen(h)' = Seen(h)
    BY <2>1, <2>3 DEF Seen, NightsOf, NightOf, Day
  <2>6. ReadingAt(h)
    BY <2>1 DEF LostInv, LostAt
  <2>7. Seen(h) # {} /\ \A x \in Seen(h) : Closed(nights \cup Seen(h), x)
    BY <2>1, <2>6 DEF ReadingAt, Reading
  <2>8. \A x \in Seen(h)' : Closed(nights \cup Seen(h), x)'
    <3> SUFFICES ASSUME NEW x \in Seen(h) PROVE Closed(nights \cup Seen(h), x)'
      BY <2>5
    <3>1. \A d : AddBy(d)' = AddBy(d)
      BY <2>2 DEF AddBy, Day
    <3> QED BY <2>2, <2>5, <2>7, <3>1 DEF Closed
  <2>9. Seen(h)' \cap nights' = {} => Available(movements \cup txn[h].rows)' >= 0
    <3>1. movements' \cup txn'[h].rows = movements \cup (txn[h].rows \cup {m})
      BY <2>1, <2>2
    <3>2. Available(movements' \cup txn'[h].rows) = Available(movements \cup (txn[h].rows \cup {m}))
      BY <3>1, Zenon
    <3> QED BY <2>2, <2>4, <2>5, <3>2 DEF Available, Sum
  <2>10. LostAt(h)'
    BY <2>1, <2>5, <2>7, <2>8, <2>9 DEF LostAt, ReadingAt
  <2>11. \A g \in Handlers : Busy(g)' => LostAt(g)'
    BY <2>2, <2>10, LostBeside
  <2> QED BY <2>2, <2>11, LostSame DEF LostInv
<1>11. ASSUME NEW h \in Handlers, CommitMovement(h) PROVE scenario' = scenario /\ LostInv'
  <2> DEFINE m == RowOf(h)
  <2>1. /\ Busy(h) /\ ~ Busy(h)' /\ scenario' = scenario /\ nights' = nights
        /\ \A g \in Handlers : g # h /\ Busy(g)' => Busy(g) /\ txn'[g] = txn[g]
        /\ movements' = movements \cup {m}
        /\ m \notin movements /\ m \in Entry /\ m.quantity \in Nat /\ m.at = txn[h].at
        /\ m.type = IF Work(h) = "bill" THEN "use" ELSE Work(h)
        /\ Work(h) \in {"add", "use", "transfer", "retailer", "bill"}
    BY <1>11, CommitMovementKeeps
  <2> HIDE DEF m
  <2>2. Work(h) = "add" /\ h = a /\ LostAt(h) /\ m.type = "add"
    BY <1>3, <2>1
  <2>3. \A r \in movements : r.type = "add" => r.at <= m.at
    BY <2>1, <2>2 DEF LostAt
  <2>4. Available(movements') = Stock + m.quantity
    BY <1>1, <2>1, <2>2, AvailableAdd DEF Stock
  <2>5. Stock' = Available(movements')
    BY DEF Stock, Available, Sum
  <2>6. PlainRows({"add", "loss"})'
    BY <1>1, <2>1, <2>2 DEF PlainRows
  <2>7. ASSUME NEW days, NEW n, Closed(days, n) PROVE Closed(days, n)'
    <3>1. PICK r \in movements : r.type = "add" /\ Day(r.at) <= n
      BY <2>7 DEF Closed, AddBy
    <3>2. Day(r.at) <= Day(m.at) /\ Day(r.at) \in Nat /\ Day(m.at) \in Nat
      <4>1. r.at \in Nat /\ m.at \in Nat /\ r.at <= m.at
        BY <1>1, <2>1, <2>3, <3>1 DEF Entry
      <4> QED BY <4>1, Days, LaterDay
    <3>3. AddBy(n)'
      BY <2>1, <3>1 DEF AddBy, Day
    <3>4. ASSUME NEW d \in Nat, AddBy(d)' PROVE AddBy(d)
      <4>1. PICK s \in movements \cup {m} : s.type = "add" /\ Day(s.at) <= d
        BY <2>1, <3>4 DEF AddBy, Day
      <4>2. CASE s \in movements
        BY <4>1, <4>2 DEF AddBy
      <4>3. CASE s = m
        <5>1. Day(r.at) <= d
          BY <3>2, <4>1, <4>3
        <5> QED BY <3>1, <5>1 DEF AddBy
      <4> QED BY <4>2, <4>3
    <3> QED BY <2>7, <3>3, <3>4 DEF Closed
  <2>8. \A n \in nights' : Closed(nights, n)'
    <3> SUFFICES ASSUME NEW n \in nights PROVE Closed(nights, n)'
      BY <2>1
    <3>1. Closed(nights, n)
      BY <1>1
    <3>2. \A days : Closed(days, n) => Closed(days, n)'
      BY <2>7
    <3> QED BY <2>1, <2>7, <3>1 DEF Closed
  <2>9. ASSUME NEW g \in Handlers, Busy(g)' PROVE LostAt(g)'
    <3>1. g # h /\ Busy(g) /\ txn'[g] = txn[g] /\ Step(g)' = Step(g) /\ Work(g)' = Work(g)
      BY <2>1, <2>9, Unmoved
    <3>2. Work(g) = "loss" /\ LostAt(g) /\ Known(g)
      BY <1>3, <2>2, <3>1 DEF Mine
    <3>3. ASSUME Reading(g)' PROVE /\ Seen(g)' # {}
                                   /\ \A n \in Seen(g)' : Closed(nights \cup Seen(g), n)'
                                   /\ Seen(g)' \cap nights' = {} => Available(movements \cup txn[g].rows)' >= 0
      <4>1. Reading(g) /\ Seen(g)' = Seen(g)
        BY <3>1, <3>3 DEF Reading, Seen, NightsOf, Day
      <4>2. /\ Seen(g) # {}
            /\ \A n \in Seen(g) : Closed(nights \cup Seen(g), n)
            /\ Seen(g) \cap nights = {} => Available(movements \cup txn[g].rows) >= 0
        BY <3>2, <4>1 DEF LostAt, ReadingAt
      <4>3. \A n \in Seen(g)' : Closed(nights \cup Seen(g), n)'
        <5> SUFFICES ASSUME NEW n \in Seen(g) PROVE Closed(nights \cup Seen(g), n)'
          BY <4>1
        <5>1. Closed(nights \cup Seen(g), n)
          BY <4>2
        <5> QED BY <2>1, <2>7, <4>1, <5>1 DEF Closed
      <4>4. Seen(g)' \cap nights' = {} => Available(movements \cup txn[g].rows)' >= 0
        <5> DEFINE S == movements \cup txn[g].rows
        <5>1. IsFiniteSet(txn[g].rows) /\ txn[g].rows \subseteq Entry /\ \A r \in txn[g].rows : r.type = "loss"
          BY <3>2 DEF Known, Entries, Nightly, Work
        <5>2. IsFiniteSet(S) /\ S \subseteq Entry /\ m \notin S
          BY <1>1, <2>1, <2>2, <5>1, FS_Union
        <5>3. movements' \cup txn'[g].rows = S \cup {m}
          BY <2>1, <3>1
        <5> HIDE DEF S
        <5>4. Available(S) \in Int /\ Available(S \cup {m}) = Available(S) + m.quantity
          BY <2>1, <2>2, <5>2, AvailableAdd
        <5>5. Available(movements' \cup txn'[g].rows) = Available(S \cup {m})
          BY <5>3, Zenon
        <5>6. Available(S) >= 0 => Available(movements' \cup txn'[g].rows) >= 0
          BY <2>1, <5>4, <5>5
        <5> QED BY <2>1, <4>1, <4>2, <5>6 DEF S, Available, Sum
      <4> QED BY <4>1, <4>2, <4>3, <4>4
    <3> QED BY <3>1, <3>2, <3>3 DEF LostAt, ReadingAt
  <2> QED BY <1>1, <2>1, <2>4, <2>5, <2>6, <2>8, <2>9 DEF LostInv
<1>12. ASSUME NEW h \in Handlers, CommitNights(h) PROVE scenario' = scenario /\ LostInv'
  <2> DEFINE rows == txn[h].rows
  <2>1. /\ Busy(h) /\ ~ Busy(h)' /\ scenario' = scenario
        /\ Step(h) = "commit" /\ Work(h) = "loss" /\ txn[h].missing = {} /\ Known(h)
        /\ \A g \in Handlers : g # h /\ Busy(g)' => Busy(g) /\ txn'[g] = txn[g]
        /\ movements' = movements \cup rows /\ nights' = nights \cup NightsOf(rows)
        /\ NightsOf(rows) \cap nights = {}
    BY <1>12, CommitNightsKeeps
  <2>2. /\ IsFiniteSet(rows) /\ rows \subseteq Entry
        /\ \A r \in rows : r.type = "loss" /\ r.quantity >= 0 /\ NightOf(r) \in 0..(Day(now) - 1)
    BY <2>1 DEF Known, Entries, Nightly, Work
  <2>3. Seen(h) = NightsOf(rows) /\ Reading(h) /\ LostAt(h)
    BY <1>3, <2>1 DEF Seen, Reading
  <2> HIDE DEF rows
  <2>4. /\ Seen(h) # {}
        /\ \A n \in Seen(h) : Closed(nights \cup Seen(h), n)
        /\ Available(movements \cup rows) >= 0
    BY <2>1, <2>3 DEF LostAt, ReadingAt, rows
  <2>5. \A d : AddBy(d)' = AddBy(d)
    BY <2>1, <2>2 DEF AddBy, Day
  <2>6. Stock' >= 0
    <3>1. Available(movements') >= 0
      BY <2>1, <2>4, Zenon
    <3> QED BY <3>1 DEF Stock, Available, Sum
  <2>7. PlainRows({"add", "loss"})'
    BY <1>1, <2>1, <2>2 DEF PlainRows
  <2>8. \A n \in nights' : Closed(nights, n)'
    <3>1. \A n \in nights' : Closed(nights', n)
      BY <1>1, <2>1, <2>3, <2>4 DEF Closed
    <3> QED BY <2>5, <3>1 DEF Closed
  <2>9. \A m \in movements' : m.type = "add" => m \in movements
    BY <2>1, <2>2
  <2>10. Seen(h) \subseteq Nat
    <3>1. \A r \in rows : NightOf(r) \in Nat
      <4> SUFFICES ASSUME NEW r \in rows PROVE NightOf(r) \in Nat
        OBVIOUS
      <4> DEFINE x == NightOf(r)
      <4>1. x \in 0..(Day(now) - 1)
        BY <2>2
      <4> HIDE DEF x
      <4>2. x \in Nat
        BY <4>1
      <4> QED BY <4>2 DEF x
    <3> QED BY <2>3, <3>1 DEF NightsOf, NightOf
  <2>11. ASSUME NEW g \in Handlers, Busy(g)' PROVE LostAt(g)'
    <3>1. g # h /\ Busy(g) /\ txn'[g] = txn[g] /\ Step(g)' = Step(g) /\ Work(g)' = Work(g)
      BY <2>1, <2>11, Unmoved
    <3>2. LostAt(g) /\ Known(g)
      BY <1>3, <3>1 DEF Mine
    <3>3. Work(g)' = "add" => \A m \in movements' : m.type = "add" => m.at <= txn'[g].at
      BY <2>9, <3>1, <3>2 DEF LostAt
    <3>4. ASSUME Reading(g)' PROVE /\ Seen(g)' # {}
                                   /\ \A n \in Seen(g)' : Closed(nights \cup Seen(g), n)'
                                   /\ Seen(g)' \cap nights' = {} => Available(movements \cup txn[g].rows)' >= 0
      <4>1. Reading(g) /\ Seen(g)' = Seen(g)
        BY <3>1, <3>4 DEF Reading, Seen, NightsOf, Day
      <4>2. Seen(g) # {} /\ \A n \in Seen(g) : Closed(nights \cup Seen(g), n)
        BY <3>2, <4>1 DEF LostAt, ReadingAt
      <4>3. \A n \in Seen(g)' : Closed(nights \cup Seen(g), n)'
        BY <2>1, <2>5, <4>1, <4>2 DEF Closed
      <4>4. ASSUME Seen(g) \cap nights' = {} PROVE FALSE
        <5>1. PICK x \in Seen(g), y \in Seen(h) : TRUE
          BY <2>4, <4>2
        <5>2. x \notin nights \cup Seen(h) /\ y \notin nights \cup Seen(g)
          BY <2>1, <2>3, <4>4, <5>1
        <5>3. AddBy(x) /\ AddBy(y)
          BY <2>4, <4>2, <5>1 DEF Closed
        <5>4. x \in Nat /\ y \in Nat
          <6>1. txn[g].missing \subseteq Nat /\ Nightly(txn[g])
            BY <1>1, <3>1, <3>2, <4>1 DEF StockTables, Txn, Known, Reading, Work
          <6>2. \A r \in txn[g].rows : NightOf(r) \in Nat
            <7> SUFFICES ASSUME NEW r \in txn[g].rows PROVE NightOf(r) \in Nat
              OBVIOUS
            <7> DEFINE z == NightOf(r)
            <7>1. z \in 0..(Day(now) - 1)
              BY <6>1 DEF Nightly
            <7> HIDE DEF z
            <7>2. z \in Nat
              BY <7>1
            <7> QED BY <7>2 DEF z
          <6>3. Seen(g) \subseteq Nat
            BY <6>1, <6>2 DEF Seen, NightsOf, NightOf
          <6> QED BY <2>10, <5>1, <6>3
        <5>5. x < y => x \in nights \cup Seen(h)
          BY <2>4, <5>1, <5>3, <5>4 DEF Closed
        <5>6. y < x => y \in nights \cup Seen(g)
          BY <4>2, <5>1, <5>3, <5>4 DEF Closed
        <5>7. x # y
          BY <5>1, <5>2
        <5> QED BY <5>2, <5>4, <5>5, <5>6, <5>7
      <4> QED BY <4>1, <4>2, <4>3, <4>4
    <3> QED BY <3>3, <3>4 DEF LostAt, ReadingAt
  <2> QED BY <2>1, <2>6, <2>7, <2>8, <2>11 DEF LostInv
<1>13. ASSUME NEW h \in Handlers, CommitAdjustments(h) PROVE FALSE
  <2>1. Busy(h) /\ Work(h) = "set"
    BY <1>13, CommitAdjustmentsKeeps
  <2> QED BY <1>3, <2>1
<1> QED BY <1>5, <1>6, <1>7, <1>8, <1>9, <1>10, <1>11, <1>12, <1>13, StockIndInvStep

-----------------------------------------------------------------------------
(* The stock is covered. *)

CaseInv ==
  \/ Locked(scenario) /\ LockedInv
  \/ Billed(scenario) /\ BilledInv
  \/ Lost(scenario) /\ LostInv

LEMMA CaseInvInit == ASSUME StockAssumption, SafeScenarios, Init PROVE CaseInv
<1>1. /\ movements = {} /\ nights = {} /\ scenario \in Scenarios
      /\ \A h \in Handlers : ~ Busy(h)
  BY DEF Init, Idle, Busy, Step
<1>2. Stock = 0
  <2>1. Stock = Available({})
    BY <1>1, Zenon DEF Stock
  <2> QED BY <2>1, AvailableNone
<1>3. \A types : PlainRows(types)
  BY <1>1 DEF PlainRows
<1>4. LockedInv /\ BilledInv /\ LostInv
  BY <1>1, <1>2, <1>3 DEF LockedInv, BilledInv, LostInv
<1> QED BY <1>1, <1>4 DEF CaseInv, SafeScenarios

\* The stock of the shop is never negative and a night is lost once, for every
\* scenario that keeps to one way of taking stock.
THEOREM StockHolds ==
  ASSUME StockAssumption, SafeScenarios
  PROVE  Spec => []StockInv
<1>1. Init => StockIndInv /\ CaseInv
  BY StockIndInvInit, CaseInvInit
<1>2. StockIndInv /\ CaseInv /\ [Next]_vars => (StockIndInv /\ CaseInv)'
  <2> SUFFICES ASSUME StockIndInv, CaseInv, [Next]_vars PROVE StockIndInv' /\ CaseInv'
    OBVIOUS
  <2>1. StockIndInv'
    BY StockIndInvStep
  <2>2. CASE Locked(scenario) /\ LockedInv
    <3>1. scenario' = scenario /\ LockedInv'
      BY <2>2, LockedStays
    <3>2. Locked(scenario)'
      BY <2>2, <3>1 DEF Locked
    <3> QED BY <2>1, <3>1, <3>2 DEF CaseInv
  <2>3. CASE Billed(scenario) /\ BilledInv
    <3>1. scenario' = scenario /\ BilledInv'
      BY <2>3, BilledStays
    <3>2. Billed(scenario)'
      BY <2>3, <3>1 DEF Billed
    <3> QED BY <2>1, <3>1, <3>2 DEF CaseInv
  <2>4. CASE Lost(scenario) /\ LostInv
    <3>1. scenario' = scenario /\ LostInv'
      BY <2>4, LostStays
    <3>2. Lost(scenario)'
      BY <2>4, <3>1 DEF Lost
    <3> QED BY <2>1, <3>1, <3>2 DEF CaseInv
  <2> QED BY <2>2, <2>3, <2>4 DEF CaseInv
<1>3. StockIndInv /\ CaseInv => StockInv
  <2> SUFFICES ASSUME StockIndInv, CaseInv PROVE StockInv
    OBVIOUS
  <2>1. Stock >= 0
    BY DEF CaseInv, LockedInv, BilledInv, LostInv
  <2> QED BY <2>1, StockTypes, NightsLostOnce DEF StockInv, StockNeverNegative
<1> QED BY <1>1, <1>2, <1>3, PTL DEF Spec
=============================================================================
