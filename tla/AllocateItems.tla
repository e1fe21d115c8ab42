--------------------------- MODULE AllocateItems ---------------------------
(***************************************************************************)
(* The office allocates items to a branch, and to each retailer of it, on  *)
(* one screen (the tab Allocate items): it lists the catalogue, searched,  *)
(* with what is allocated ticked, and saves what is ticked as the whole    *)
(* set.  The server drops everything else, a branch's items with every     *)
(* wholesale price retailers had for them: a save checks and reads, and    *)
(* commits later what differs from what it has read.  Nothing is locked,   *)
(* and a save the screen has given up may still be at work.  `crossed', a  *)
(* history variable, says whose save of prices met one of his branch.      *)
(***************************************************************************)
EXTENDS Naturals, FiniteSets

CONSTANTS
  Items, Shops, Retailers,
  ShopOf,     \* the branch of each retailer
  Searches,   \* what may be typed into the search: Blank is nothing
  Found,      \* the items each finds
  MaxLoads,   \* bound: loads of the list
  MaxSaves    \* bound: saves

VARIABLES
  branch,     \* items allocated to each branch
  priced,     \* items each retailer has a wholesale price for
  crossed,    \* history: retailers one of whose saves crossed one of their branch
  shop, retailer, mode, search,   \* what the screen is on: "branch" or "prices"
  listed,     \* the items it lists
  ticked,     \* those allocated there (allocations)
  pending,    \* those chosen to be allocated together
  dirty, saving, spinning,
  loads,      \* lists on their way
  asks,       \* lists of retailers on their way: their branches
  calls,      \* saves on their way or at work
  loaded, saved   \* counted for the bounds

server == <<branch, priced, crossed>>
place == <<shop, retailer, mode, search>>
draft == <<listed, ticked, pending, dirty>>
vars == <<server, place, draft, saving, spinning, loads, asks, calls, loaded, saved>>

None == "none"
Blank == "blank"

ASSUME AllocateAssumption ==
  /\ ShopOf \in [Retailers -> Shops] /\ Found \in [Searches -> SUBSET Items]
  /\ Blank \in Searches
  /\ None \notin Retailers /\ MaxLoads \in Nat /\ MaxSaves \in Nat

-----------------------------------------------------------------------------
(* The server.                                                             *)

\* A branch lists the whole catalogue, a retailer the items of its branch.
Listed(l) == Found[l.search] \cap (IF l.mode = "branch" THEN Items ELSE branch[l.shop])

Allocated(l) == IF l.mode = "branch" THEN branch[l.shop] ELSE priced[l.retailer]

Known(l) == l.mode = "prices" => l.retailer # None /\ ShopOf[l.retailer] = l.shop

\* The rows of prices a save reads: for a branch, those of the items it takes off.
PricesRead(c) ==
  [r \in Retailers |->
     IF c.mode = "branch" THEN {i \in priced[r] : ShopOf[r] = c.shop /\ i \in c.seen \ c.ids}
     ELSE {i \in priced[r] : r = c.retailer}]

\* The prices that were read go with the items.
PricesLeft(c) == [r \in Retailers |-> priced[r] \ c.looked[r]]

\* Rows that were there are updated, others inserted: neither may have changed hands.
SyncBranch(c) ==
  LET s == c.shop IN
  /\ c.ids \cap c.seen \subseteq branch[s] /\ branch[s] \cap c.ids \subseteq c.seen
  /\ branch' = [branch EXCEPT ![s] = (@ \cup c.ids) \ (c.seen \ c.ids)]
  /\ priced' = PricesLeft(c)

\* Rows that were there stay as they are.
SyncRetailer(c) ==
  LET r == c.retailer
      added == c.ids \ c.looked[r]
  IN /\ added \cap priced[r] = {}
     /\ priced' = [priced EXCEPT ![r] = (@ \cup added) \ (c.looked[r] \ c.ids)]
     /\ UNCHANGED branch

Sync(c) == IF c.mode = "branch" THEN SyncBranch(c) ELSE SyncRetailer(c)

\* History: whose prices save d may get wrong, now that c is committed.  A retailer's save has
\* checked the items of the branch by then, or a branch's has read the retailer's prices.
Meets(d, c) ==
  IF d.shop # c.shop \/ d.mode = c.mode THEN {}
  ELSE IF d.mode = "prices" THEN {r \in Retailers : r = d.retailer /\ d.stage \in {"checked", "looked"}}
  ELSE {r \in Retailers : r = c.retailer /\ d.stage = "looked"}

\* A save that replaces all prices of a retailer makes up for it.
Replaced(c) == {r \in Retailers : r = c.retailer /\ c.mode = "prices" /\ c.looked[r] = priced[r]}

-----------------------------------------------------------------------------
(* Loading: whatever the screen is on changes, its list is loaded anew,    *)
(* and every answer that arrives is shown.                                 *)

Where(s, r, m, q) == [shop |-> s, retailer |-> r, mode |-> m, search |-> q]

\* ofSave: the button Save waits for it.
Load(to, ofSave) ==
  [id |-> loaded + 1, to |-> to, ofSave |-> ofSave, served |-> FALSE, listed |-> {}, ticked |-> {}]

Released(l) == saving' = (saving /\ ~l.ofSave)

\* Without a retailer there is nothing to load.
LoadItems(to) ==
  IF to.mode = "prices" /\ to.retailer = None
  THEN listed' = {} /\ ticked' = {} /\ UNCHANGED <<loads, spinning, loaded>>
  ELSE /\ loaded < MaxLoads /\ loaded' = loaded + 1
       /\ loads' = loads \cup {Load(to, FALSE)}
       /\ spinning' = TRUE
       /\ UNCHANGED <<listed, ticked>>

\* The screen is on something else.
Move(s, r, m, q) ==
  /\ shop' = s /\ retailer' = r /\ mode' = m /\ search' = q
  /\ IF Where(s, r, m, q) = Where(shop, retailer, mode, search)
     THEN UNCHANGED <<listed, ticked, loads, spinning, loaded>>
     ELSE LoadItems(Where(s, r, m, q))

SelectBranch(s) ==
  /\ s # shop /\ Move(s, retailer, mode, search)
  /\ asks' = asks \cup {s}
  /\ UNCHANGED <<server, pending, dirty, saving, calls, saved>>

SelectRetailer(r) ==
  /\ mode = "prices" /\ asks = {} /\ ShopOf[r] = shop /\ r # retailer
  /\ Move(shop, r, mode, search)
  /\ UNCHANGED <<server, pending, dirty, saving, asks, calls, saved>>

\* Another tab forgets that something was ticked, and keeps what was.
SetWorkMode(m) ==
  /\ m # mode /\ Move(shop, retailer, m, Blank) /\ dirty' = FALSE
  /\ UNCHANGED <<server, pending, saving, asks, calls, saved>>

Search(q) ==
  /\ q # search /\ Move(shop, retailer, mode, q)
  /\ UNCHANGED <<server, pending, dirty, saving, asks, calls, saved>>

PullToRefresh ==
  /\ ~spinning /\ loaded < MaxLoads /\ loaded' = loaded + 1
  /\ mode = "prices" => retailer # None
  /\ loads' = loads \cup {Load(Where(shop, retailer, mode, search), FALSE)}
  /\ UNCHANGED <<server, place, draft, saving, spinning, asks, calls, saved>>

\* The retailers of a branch arrive, late or not: the selected one is kept, or one of these taken.
RetailersLoaded(s) ==
  /\ s \in asks /\ asks' = asks \ {s}
  /\ LET here == {r \in Retailers : ShopOf[r] = s}
     IN  \E r \in here \cup {None} :
           /\ (retailer \in here => r = retailer) /\ (r = None => here = {})
           /\ Move(shop, r, mode, search)
  /\ UNCHANGED <<server, pending, dirty, saving, calls, saved>>

RetailersFailed(s) ==
  /\ s \in asks /\ asks' = asks \ {s}
  /\ UNCHANGED <<server, place, draft, saving, spinning, loads, calls, loaded, saved>>

ServeLoad(l) ==
  /\ ~l.served /\ Known(l.to)
  /\ loads' = (loads \ {l}) \cup {[l EXCEPT !.served = TRUE, !.listed = Listed(l.to),
                                           !.ticked = Listed(l.to) \cap Allocated(l.to)]}
  /\ UNCHANGED <<server, place, draft, saving, spinning, asks, calls, loaded, saved>>

\* Only what is listed is ticked, and what was not saved is forgotten.
ItemsLoaded(l) ==
  /\ l.served /\ loads' = loads \ {l} /\ spinning' = FALSE /\ Released(l)
  /\ listed' = l.listed /\ ticked' = l.ticked /\ pending' = {} /\ dirty' = FALSE
  /\ UNCHANGED <<server, place, asks, calls, loaded, saved>>

ItemsFailed(l) ==
  /\ loads' = loads \ {l} /\ spinning' = FALSE /\ Released(l)
  /\ UNCHANGED <<server, place, draft, asks, calls, loaded, saved>>

-----------------------------------------------------------------------------
(* Ticking and saving.                                                     *)

TogglePending(i) ==
  /\ ~spinning /\ i \in listed \ ticked
  /\ pending' = IF i \in pending THEN pending \ {i} ELSE pending \cup {i}
  /\ UNCHANGED <<server, place, listed, ticked, dirty, saving, spinning, loads, asks, calls, loaded, saved>>

AllocatePending ==
  /\ pending # {}
  /\ ticked' = ticked \cup (pending \cap listed) /\ pending' = {} /\ dirty' = TRUE
  /\ UNCHANGED <<server, place, listed, saving, spinning, loads, asks, calls, loaded, saved>>

Untick(i) ==
  /\ ~spinning /\ i \in listed \cap ticked
  /\ ticked' = ticked \ {i} /\ pending' = pending \ {i} /\ dirty' = TRUE
  /\ UNCHANGED <<server, place, listed, saving, spinning, loads, asks, calls, loaded, saved>>

CanSave == ~saving /\ dirty /\ (mode = "prices" => retailer # None)

\* Everything ticked is sent, for what the screen is on by now.
Save ==
  /\ saved < MaxSaves /\ saved' = saved + 1
  /\ CanSave
  /\ saving' = TRUE
  /\ calls' = calls \cup {[shop |-> shop, retailer |-> retailer, mode |-> mode, search |-> search,
                           ids |-> ticked, id |-> saved + 1, stage |-> "sent", seen |-> {},
                           looked |-> [r \in Retailers |-> {}], met |-> {}, waits |-> TRUE]}
  /\ UNCHANGED <<server, place, draft, spinning, loads, asks, loaded>>

\* A save goes on at the server.
Goes(c, session) ==
  /\ calls' = (calls \ {c}) \cup {session}
  /\ UNCHANGED <<server, place, draft, saving, spinning, loads, asks, loaded, saved>>

\* Faulty: a retailer gets a price for whatever is sent.
CheckSaveOfAny(c) ==
  /\ c.stage = "sent" /\ Known(c)
  /\ Goes(c, [c EXCEPT !.stage = "checked", !.seen = branch[c.shop]])

CheckSave(c) ==
  /\ c.stage = "sent" /\ Known(c)
  /\ c.mode = "prices" => c.ids \subseteq branch[c.shop]
  /\ Goes(c, [c EXCEPT !.stage = "checked", !.seen = branch[c.shop]])

LookSave(c) ==
  /\ c.stage = "checked"
  /\ Goes(c, [c EXCEPT !.stage = "looked", !.looked = PricesRead(c)])

CommitSave(c) ==
  /\ c.stage = "looked" /\ Sync(c)
  /\ crossed' = (crossed \ Replaced(c)) \cup c.met
  /\ calls' = {[d EXCEPT !.met = @ \cup Meets(d, c)] : d \in calls \ {c}}
               \cup {d \in {[c EXCEPT !.stage = "served"]} : c.waits}
  /\ UNCHANGED <<place, draft, saving, spinning, loads, asks, loaded, saved>>

\* The list the save was made from is loaded again; the button waits for it.
Saved(c) ==
  /\ c.waits /\ c.stage = "served" /\ calls' = calls \ {c}
  /\ dirty' = FALSE
  /\ loaded < MaxLoads /\ loaded' = loaded + 1
  /\ loads' = loads \cup {Load(Where(c.shop, c.retailer, c.mode, c.search), TRUE)}
  /\ spinning' = TRUE
  /\ UNCHANGED <<server, place, listed, ticked, pending, saving, asks, saved>>

\* A save is refused, its answer is lost, or it takes too long: then the server goes on with it.
SaveFailed(c) ==
  /\ c.waits /\ saving' = FALSE
  /\ \/ calls' = calls \ {c}
     \/ c.stage # "served" /\ calls' = (calls \ {c}) \cup {[c EXCEPT !.waits = FALSE]}
  /\ UNCHANGED <<server, place, draft, spinning, loads, asks, loaded, saved>>

-----------------------------------------------------------------------------
Init ==
  /\ branch \in [Shops -> SUBSET Items] /\ priced \in [Retailers -> SUBSET Items]
  /\ \A r \in Retailers : priced[r] \subseteq branch[ShopOf[r]]
  /\ crossed = {}
  /\ shop \in Shops /\ retailer \in {r \in Retailers : ShopOf[r] = shop}
  /\ mode = "branch" /\ search = Blank
  /\ listed = Found[Blank] /\ ticked = listed \cap branch[shop] /\ pending = {}
  /\ dirty = FALSE /\ saving = FALSE /\ spinning = FALSE
  /\ loads = {} /\ asks = {} /\ calls = {} /\ loaded = 0 /\ saved = 0

Modes == {"branch", "prices"}

Places == [shop : Shops, retailer : Retailers \cup {None}, mode : Modes, search : Searches]

Lists == [id : 1..MaxLoads, to : Places, ofSave : BOOLEAN, served : BOOLEAN,
          listed : SUBSET Items, ticked : SUBSET Items]

Saves == [shop : Shops, retailer : Retailers \cup {None}, mode : Modes, search : Searches,
          ids : SUBSET Items, id : 1..MaxSaves, stage : {"sent", "checked", "looked", "served"},
          seen : SUBSET Items, looked : [Retailers -> SUBSET Items],
          met : SUBSET Retailers, waits : BOOLEAN]

\* What is listed, ticked and sent are items, of branches and retailers there are.
TypeOK ==
  /\ branch \in [Shops -> SUBSET Items] /\ priced \in [Retailers -> SUBSET Items]
  /\ crossed \subseteq Retailers
  /\ Where(shop, retailer, mode, search) \in Places
  /\ listed \subseteq Items /\ ticked \subseteq Items /\ pending \subseteq Items
  /\ {dirty, saving, spinning} \subseteq BOOLEAN
  /\ loads \subseteq Lists /\ asks \subseteq Shops /\ calls \subseteq Saves
  /\ loaded \in 0..MaxLoads /\ saved \in 0..MaxSaves

Office ==
  \/ \E s \in Shops : SelectBranch(s)
  \/ \E r \in Retailers : SelectRetailer(r)
  \/ \E m \in Modes : SetWorkMode(m)
  \/ \E q \in Searches : Search(q)
  \/ PullToRefresh \/ AllocatePending \/ Save
  \/ \E i \in Items : TogglePending(i) \/ Untick(i)

Answers ==
  \/ \E s \in Shops : RetailersLoaded(s) \/ RetailersFailed(s)
  \/ \E l \in loads : ServeLoad(l) \/ ItemsLoaded(l) \/ ItemsFailed(l)
  \/ \E c \in calls : CheckSave(c) \/ LookSave(c) \/ CommitSave(c) \/ Saved(c) \/ SaveFailed(c)

Next == Office \/ Answers

Spec == Init /\ [][Next]_vars

-----------------------------------------------------------------------------
(* Properties.                                                             *)

\* A retailer has prices only for items its branch sells to retailers, whatever is saved for
\* either, given up and committed late, in whatever order: checkout and the price screens join the
\* two.  Excepted is who had a save of his prices and one of his branch each committed over what
\* the other had read, until all his prices are replaced.
PricedAreAllocated == \A r \in Retailers \ crossed : priced[r] \subseteq branch[ShopOf[r]]
=============================================================================
