---------------------------- MODULE OfficeProofs ----------------------------
(***************************************************************************)
(* The screens of the office, each by its own specification.  A retailer   *)
(* has prices only for items of his branch unless saves for the two have   *)
(* crossed: the invariant says of every save at work that what it has read *)
(* still holds for whom it has met no commit of the other kind.  No filter *)
(* of AppPickers asks for a reversed or a half range, for any number of    *)
(* days and length of months.  A sheet the server holds is one that was    *)
(* reviewed unless two publications tore it, for any shops, items, calls.  *)
(***************************************************************************)
EXTENDS Office, TLAPS

-----------------------------------------------------------------------------
(* The allocation of items.                                                *)

\* A list that is asked for is for a place of the screen, and its number within the bound.
LEMMA LoadType ==
  ASSUME NEW to \in Places, NEW ofSave \in BOOLEAN, TypeOK, loaded < MaxLoads
  PROVE  Load(to, ofSave) \in Lists /\ loaded + 1 \in 0..MaxLoads
<1>1. MaxLoads \in Nat /\ loaded \in Nat /\ loaded < MaxLoads
  BY AllocateAssumption DEF TypeOK
<1>2. loaded + 1 \in 1..MaxLoads /\ loaded + 1 \in 0..MaxLoads
  BY <1>1
<1> QED
  BY <1>2 DEF Load, Lists

\* Where a move leads, and the list it asks for, are well typed.
LEMMA MoveType ==
  ASSUME TypeOK, NEW s \in Shops, NEW r \in Retailers \cup {None}, NEW m \in Modes, NEW q \in Searches,
         Move(s, r, m, q)
  PROVE  /\ Where(shop', retailer', mode', search') \in Places
         /\ listed' \subseteq Items /\ ticked' \subseteq Items
         /\ spinning' \in BOOLEAN /\ loads' \subseteq Lists /\ loaded' \in 0..MaxLoads
<1>1. Where(s, r, m, q) \in Places
  BY DEF Where, Places
<1>2. Where(shop', retailer', mode', search') = Where(s, r, m, q)
  BY DEF Move
<1>3. CASE Where(s, r, m, q) = Where(shop, retailer, mode, search)
  BY <1>1, <1>2, <1>3 DEF Move, TypeOK
<1>4. CASE LoadItems(Where(s, r, m, q))
  <2>1. CASE listed' = {} /\ ticked' = {} /\ UNCHANGED <<loads, spinning, loaded>>
    BY <1>1, <1>2, <2>1 DEF TypeOK
  <2>2. CASE /\ loaded < MaxLoads /\ loaded' = loaded + 1
             /\ loads' = loads \cup {Load(Where(s, r, m, q), FALSE)}
             /\ spinning' = TRUE /\ UNCHANGED <<listed, ticked>>
    <3>1. Load(Where(s, r, m, q), FALSE) \in Lists /\ loaded + 1 \in 0..MaxLoads
      BY <1>1, <2>2, LoadType
    <3> QED
      BY <1>1, <1>2, <2>2, <3>1 DEF TypeOK
  <2> QED
    BY <1>4, <2>1, <2>2 DEF LoadItems
<1> QED
  BY <1>3, <1>4 DEF Move

LEMMA InitType == Init => TypeOK
<1> SUFFICES ASSUME Init PROVE TypeOK
  OBVIOUS
<1>1. branch \in [Shops -> SUBSET Items] /\ priced \in [Retailers -> SUBSET Items]
  BY DEF Init
<1>2. Where(shop, retailer, mode, search) \in Places
  BY AllocateAssumption DEF Init, Where, Places, Modes
<1>3. {dirty, saving, spinning} \subseteq BOOLEAN
  BY DEF Init
<1>4. loaded \in 0..MaxLoads /\ saved \in 0..MaxSaves
  BY AllocateAssumption DEF Init
<1>5. listed \subseteq Items /\ ticked \subseteq Items /\ pending \subseteq Items
  BY AllocateAssumption DEF Init
<1>6. crossed \subseteq Retailers /\ loads \subseteq Lists /\ asks \subseteq Shops /\ calls \subseteq Saves
  BY DEF Init
<1> QED
  BY <1>1, <1>2, <1>3, <1>4, <1>5, <1>6 DEF TypeOK

\* The server keeps sets of items.
LEMMA SyncType ==
  ASSUME TypeOK, NEW c \in calls, Sync(c)
  PROVE  branch' \in [Shops -> SUBSET Items] /\ priced' \in [Retailers -> SUBSET Items]
<1>1. c \in Saves
  BY DEF TypeOK
<1>2. c.ids \subseteq Items /\ c.looked \in [Retailers -> SUBSET Items]
  BY <1>1 DEF Saves
<1>3. CASE c.mode = "branch"
  BY <1>2, <1>3 DEF TypeOK, Sync, SyncBranch, PricesLeft
<1>4. CASE c.mode # "branch"
  BY <1>2, <1>4 DEF TypeOK, Sync, SyncRetailer
<1> QED
  BY <1>3, <1>4

\* What a save has read is typed too.
LEMMA GoesType ==
  ASSUME TypeOK, NEW c \in calls, NEW d \in Saves, Goes(c, d)
  PROVE  TypeOK'
  BY DEF Goes, TypeOK, server, place, draft, Where

LEMMA CommitType ==
  ASSUME TypeOK, NEW c \in calls, CommitSave(c)
  PROVE  TypeOK'
<1>1. branch' \in [Shops -> SUBSET Items] /\ priced' \in [Retailers -> SUBSET Items]
  BY SyncType DEF CommitSave
<1>2. c \in Saves /\ c.met \subseteq Retailers /\ [c EXCEPT !.stage = "served"] \in Saves
  BY DEF TypeOK, Saves
<1>3. crossed' \subseteq Retailers
  BY <1>2 DEF CommitSave, TypeOK
<1>4. ASSUME NEW d \in calls PROVE [d EXCEPT !.met = @ \cup Meets(d, c)] \in Saves
  <2>1. Meets(d, c) \subseteq Retailers
    BY DEF Meets
  <2>2. d \in Saves /\ d.met \cup Meets(d, c) \subseteq Retailers
    BY <2>1 DEF TypeOK, Saves
  <2> QED
    BY <2>2 DEF Saves
<1>5. calls' \subseteq Saves
  BY <1>2, <1>4 DEF CommitSave
<1> QED
  BY <1>1, <1>3, <1>5 DEF CommitSave, TypeOK, place, draft, Where

LEMMA NextType == TypeOK /\ [Next]_vars => TypeOK'
<1> SUFFICES ASSUME TypeOK, [Next]_vars PROVE TypeOK'
  OBVIOUS
<1> USE AllocateAssumption
<1>place. shop \in Shops /\ retailer \in Retailers \cup {None} /\ mode \in Modes /\ search \in Searches
  BY DEF TypeOK, Where, Places
<1>1. ASSUME NEW s \in Shops, SelectBranch(s) PROVE TypeOK'
  BY <1>1, <1>place, MoveType DEF SelectBranch, TypeOK, server, Places, Where
<1>2. ASSUME NEW r \in Retailers, SelectRetailer(r) PROVE TypeOK'
  BY <1>2, <1>place, MoveType DEF SelectRetailer, TypeOK, server
<1>3. ASSUME NEW m \in Modes, SetWorkMode(m) PROVE TypeOK'
  BY <1>3, <1>place, MoveType DEF SetWorkMode, TypeOK, server
<1>4. ASSUME NEW q \in Searches, Search(q) PROVE TypeOK'
  BY <1>4, <1>place, MoveType DEF Search, TypeOK, server
<1>5. CASE PullToRefresh
  <2>1. /\ Load(Where(shop, retailer, mode, search), FALSE) \in Lists
        /\ loaded + 1 \in 0..MaxLoads
    BY <1>5, LoadType DEF PullToRefresh, TypeOK
  <2> QED
    BY <1>5, <2>1 DEF PullToRefresh, TypeOK, server, place, draft, Where
<1>6. CASE AllocatePending
  BY <1>6 DEF AllocatePending, TypeOK, server, place, Where
<1>7. CASE Save
  <2>2. saved + 1 \in 0..MaxSaves /\ saved + 1 \in 1..MaxSaves
    BY <1>7 DEF Save, TypeOK
  <2>1. [shop |-> shop, retailer |-> retailer, mode |-> mode, search |-> search,
         ids |-> ticked, id |-> saved + 1, stage |-> "sent", seen |-> {},
         looked |-> [r \in Retailers |-> {}], met |-> {}, waits |-> TRUE] \in Saves
    BY <1>place, <2>2 DEF TypeOK, Saves
  <2> QED
    BY <1>7, <2>1, <2>2 DEF Save, TypeOK, server, place, draft, Where
<1>8. ASSUME NEW i \in Items, TogglePending(i) \/ Untick(i) PROVE TypeOK'
  BY <1>8 DEF TogglePending, Untick, TypeOK, server, place, Where
<1>9. ASSUME NEW s \in Shops, RetailersLoaded(s) PROVE TypeOK'
  <2>1. PICK r \in Retailers \cup {None} : Move(shop, r, mode, search)
    BY <1>9 DEF RetailersLoaded
  <2> QED
    BY <1>9, <2>1, <1>place, MoveType DEF RetailersLoaded, TypeOK, server
<1>10. ASSUME NEW s \in Shops, RetailersFailed(s) PROVE TypeOK'
  BY <1>10 DEF RetailersFailed, TypeOK, server, place, draft, Where
<1>11. ASSUME NEW l \in loads, ServeLoad(l) PROVE TypeOK'
  <2>1. l \in Lists /\ Listed(l.to) \subseteq Items
    BY DEF TypeOK, Listed, Lists, Places
  <2>2. [l EXCEPT !.served = TRUE, !.listed = Listed(l.to),
                  !.ticked = Listed(l.to) \cap Allocated(l.to)] \in Lists
    BY <2>1 DEF Lists
  <2> QED
    BY <1>11, <2>2 DEF ServeLoad, TypeOK, server, place, draft, Where
<1>12. ASSUME NEW l \in loads, ItemsLoaded(l) PROVE TypeOK'
  <2>1. l \in Lists
    BY DEF TypeOK
  <2> QED
    BY <1>12, <2>1 DEF ItemsLoaded, Released, TypeOK, server, place, Where, Lists
<1>13. ASSUME NEW l \in loads, ItemsFailed(l) PROVE TypeOK'
  BY <1>13 DEF ItemsFailed, Released, TypeOK, server, place, draft, Where
<1>14. ASSUME NEW c \in calls, CheckSave(c) \/ LookSave(c) \/ CommitSave(c) PROVE TypeOK'
  <2>1. CASE CheckSave(c)
    <3>1. c \in Saves /\ branch[c.shop] \subseteq Items
      BY DEF TypeOK, Saves
    <3>2. [c EXCEPT !.stage = "checked", !.seen = branch[c.shop]] \in Saves
      BY <3>1 DEF Saves
    <3> QED
      BY <2>1, <3>2, GoesType DEF CheckSave
  <2>2. CASE LookSave(c)
    <3>1. c \in Saves /\ PricesRead(c) \in [Retailers -> SUBSET Items]
      BY DEF TypeOK, PricesRead
    <3>2. [c EXCEPT !.stage = "looked", !.looked = PricesRead(c)] \in Saves
      BY <3>1 DEF Saves
    <3> QED
      BY <2>2, <3>2, GoesType DEF LookSave
  <2> QED
    BY <1>14, <2>1, <2>2, CommitType
<1>15. ASSUME NEW c \in calls, Saved(c) PROVE TypeOK'
  <2>1. Where(c.shop, c.retailer, c.mode, c.search) \in Places
    BY DEF TypeOK, Where, Saves, Places
  <2>2. /\ Load(Where(c.shop, c.retailer, c.mode, c.search), TRUE) \in Lists
        /\ loaded + 1 \in 0..MaxLoads
    BY <1>15, <2>1, LoadType DEF Saved
  <2> QED
    BY <1>15, <2>2 DEF Saved, TypeOK, server, place, Where
<1>16. ASSUME NEW c \in calls, SaveFailed(c) PROVE TypeOK'
  <2>1. [c EXCEPT !.waits = FALSE] \in Saves
    BY DEF TypeOK, Saves
  <2> QED
    BY <1>16, <2>1 DEF SaveFailed, TypeOK, server, place, draft, Where
<1>17. CASE UNCHANGED vars
  BY <1>17 DEF vars, TypeOK, server, place, draft, Where
<1> QED
  BY <1>1, <1>2, <1>3, <1>4, <1>5, <1>6, <1>7, <1>8, <1>9, <1>10, <1>11, <1>12, <1>13, <1>14,
     <1>15, <1>16, <1>17 DEF Next, Office, Answers

-----------------------------------------------------------------------------
\* Every reachable state of the screen and the server is well typed, for any branches, retailers,
\* items, searches and bounds.
THEOREM AllocateTypes == Spec => []TypeOK
  BY InitType, NextType, PTL DEF Spec

\* What a save at work has read still holds, of branches b and prices p, but for whom it has met:
\* the items for a retailer are the branch's, and the prices a branch's save will take are all.
Fits(c, b, p) ==
  /\ c.mode = "prices" /\ c.stage # "sent" => c.retailer \in Retailers /\ ShopOf[c.retailer] = c.shop
  /\ c.mode = "prices" /\ c.stage \in {"checked", "looked"} /\ c.retailer \notin c.met =>
       c.ids \subseteq b[c.shop]
  /\ c.mode = "branch" /\ c.stage = "looked" =>
       \A r \in Retailers :
         ShopOf[r] = c.shop /\ r \notin c.met => p[r] \cap (c.seen \ c.ids) \subseteq c.looked[r]

PricedInv == PricedAreAllocated /\ \A c \in calls : Fits(c, branch, priced)

\* A save that checks, or reads, knows what there is.
LEMMA ReadFits ==
  ASSUME TypeOK, PricedInv, NEW c \in calls, CheckSave(c) \/ LookSave(c)
  PROVE  PricedInv'
<1>1. c \in Saves /\ Fits(c, branch, priced) /\ UNCHANGED <<branch, priced, crossed>>
  BY DEF TypeOK, PricedInv, CheckSave, LookSave, Goes, server
<1>2. ASSUME NEW d, calls' = (calls \ {c}) \cup {d}, Fits(d, branch, priced) PROVE PricedInv'
  BY <1>1, <1>2 DEF PricedInv, PricedAreAllocated
<1>3. CASE CheckSave(c)
  <2> DEFINE d == [c EXCEPT !.stage = "checked", !.seen = branch[c.shop]]
  <2>1. /\ d.mode = c.mode /\ d.retailer = c.retailer /\ d.shop = c.shop /\ d.ids = c.ids
        /\ d.stage = "checked" /\ Known(c) /\ (c.mode = "prices" => c.ids \subseteq branch[c.shop])
        /\ calls' = (calls \ {c}) \cup {d}
    BY <1>1, <1>3 DEF CheckSave, Goes, Saves
  <2>2. c.mode = "prices" => c.retailer \in Retailers /\ ShopOf[c.retailer] = c.shop
    BY <1>1, <2>1 DEF Known, Saves
  <2> HIDE DEF d
  <2>3. Fits(d, branch, priced)
    BY <2>1, <2>2 DEF Fits
  <2> QED
    BY <1>2, <2>1, <2>3
<1>4. CASE LookSave(c)
  <2> DEFINE d == [c EXCEPT !.stage = "looked", !.looked = PricesRead(c)]
  <2>1. /\ d.mode = c.mode /\ d.retailer = c.retailer /\ d.shop = c.shop /\ d.ids = c.ids
        /\ d.seen = c.seen /\ d.met = c.met /\ d.looked = PricesRead(c)
        /\ d.stage = "looked" /\ c.stage = "checked" /\ calls' = (calls \ {c}) \cup {d}
    BY <1>1, <1>4 DEF LookSave, Goes, Saves
  <2>2. ASSUME NEW r \in Retailers, ShopOf[r] = c.shop, c.mode = "branch"
        PROVE  priced[r] \cap (c.seen \ c.ids) \subseteq PricesRead(c)[r]
    BY <2>2 DEF PricesRead
  <2> HIDE DEF d
  <2>3. Fits(d, branch, priced)
    BY <1>1, <2>1, <2>2 DEF Fits
  <2> QED
    BY <1>2, <2>1, <2>3
<1> QED
  BY <1>3, <1>4

\* A commit marks the saves it meets, and itself leaves prices the branch sells, but for whom it met.
LEMMA CommitFits ==
  ASSUME TypeOK, PricedInv, NEW c \in calls, CommitSave(c)
  PROVE  PricedInv'
<1>1. /\ c \in Saves /\ Fits(c, branch, priced) /\ Sync(c) /\ c.stage = "looked"
      /\ crossed' = (crossed \ Replaced(c)) \cup c.met
      /\ branch \in [Shops -> SUBSET Items] /\ priced \in [Retailers -> SUBSET Items]
      /\ ShopOf \in [Retailers -> Shops]
  BY AllocateAssumption DEF TypeOK, PricedInv, CommitSave
<1>2. c.shop \in Shops /\ c.looked \in [Retailers -> SUBSET Items] /\ c.mode \in {"branch", "prices"}
  BY <1>1 DEF Saves, Modes
<1>3. c.mode = "prices" => c.retailer \in Retailers /\ ShopOf[c.retailer] = c.shop
  BY <1>1 DEF Fits
<1>4. c.mode = "branch" =>
        /\ branch' = [branch EXCEPT ![c.shop] = (@ \cup c.ids) \ (c.seen \ c.ids)]
        /\ \A r \in Retailers : priced'[r] = priced[r] \ c.looked[r]
  BY <1>1 DEF Sync, SyncBranch, PricesLeft
<1>5. c.mode = "prices" =>
        /\ branch' = branch
        /\ priced' = [priced EXCEPT ![c.retailer] =
                        (@ \cup (c.ids \ c.looked[c.retailer])) \ (c.looked[c.retailer] \ c.ids)]
  BY <1>1 DEF Sync, SyncRetailer
<1>6. ASSUME NEW r \in Retailers \ crossed' PROVE priced'[r] \subseteq branch'[ShopOf[r]]
  <2>1. ShopOf[r] \in Shops /\ r \notin c.met
    BY <1>1, <1>6
  <2>2. r \notin Replaced(c) => priced[r] \subseteq branch[ShopOf[r]]
    BY <1>1, <1>6 DEF PricedInv, PricedAreAllocated
  <2>3. CASE c.mode = "branch"
    <3>1. priced[r] \subseteq branch[ShopOf[r]]
      BY <2>2, <2>3 DEF Replaced
    <3>2. CASE ShopOf[r] = c.shop
      <4>1. priced[r] \cap (c.seen \ c.ids) \subseteq c.looked[r]
        BY <1>1, <2>1, <2>3, <3>2 DEF Fits
      <4>2. branch'[ShopOf[r]] = (branch[ShopOf[r]] \cup c.ids) \ (c.seen \ c.ids)
        BY <1>1, <1>4, <2>1, <2>3, <3>2
      <4> QED
        BY <1>4, <2>3, <3>1, <4>1, <4>2
    <3>3. CASE ShopOf[r] # c.shop
      BY <1>1, <1>4, <2>1, <2>3, <3>1, <3>3
    <3> QED
      BY <3>2, <3>3
  <2>4. CASE c.mode = "prices" /\ r = c.retailer
    <3>1. c.ids \subseteq branch[ShopOf[r]]
      BY <1>1, <1>3, <2>1, <2>4 DEF Fits
    <3>2. priced'[r] = (priced[r] \cup (c.ids \ c.looked[r])) \ (c.looked[r] \ c.ids)
      BY <1>1, <1>5, <2>4
    <3>3. priced[r] \subseteq branch[ShopOf[r]] \/ c.looked[r] = priced[r]
      BY <2>2 DEF Replaced
    <3> QED
      BY <1>5, <2>4, <3>1, <3>2, <3>3
  <2>5. CASE c.mode = "prices" /\ r # c.retailer
    BY <1>1, <1>5, <2>2, <2>5 DEF Replaced
  <2> QED
    BY <1>2, <2>3, <2>4, <2>5
<1>7. ASSUME NEW d \in calls PROVE Fits([d EXCEPT !.met = @ \cup Meets(d, c)], branch', priced')
  <2> DEFINE e == [d EXCEPT !.met = @ \cup Meets(d, c)]
  <2>1. /\ e.mode = d.mode /\ e.retailer = d.retailer /\ e.shop = d.shop /\ e.ids = d.ids
        /\ e.seen = d.seen /\ e.looked = d.looked /\ e.stage = d.stage
        /\ e.met = d.met \cup Meets(d, c) /\ d \in Saves /\ Fits(d, branch, priced)
    BY DEF TypeOK, Saves, PricedInv
  <2> HIDE DEF e
  <2>2. d.mode \in {"branch", "prices"} /\ d.shop \in Shops
    BY <2>1 DEF Saves, Modes
  <2>3. CASE d.mode = "prices"
    <3>1. d.stage \in {"checked", "looked"} /\ d.retailer \notin e.met => d.ids \subseteq branch'[d.shop]
      <4>1. SUFFICES ASSUME d.stage \in {"checked", "looked"}, d.retailer \notin e.met
                     PROVE  d.ids \subseteq branch'[d.shop]
        OBVIOUS
      <4>2. d.retailer \in Retailers /\ d.ids \subseteq branch[d.shop]
        BY <2>1, <2>3, <4>1 DEF Fits
      <4>3. c.mode = "prices" \/ c.shop # d.shop
        BY <1>2, <2>1, <2>3, <4>1, <4>2 DEF Meets
      <4>4. branch'[d.shop] = branch[d.shop]
        BY <1>1, <1>2, <1>4, <1>5, <2>2, <4>3
      <4> QED
        BY <4>2, <4>4
    <3> QED
      BY <2>1, <2>3, <3>1 DEF Fits
  <2>4. CASE d.mode = "branch"
    <3>1. ASSUME d.stage = "looked", NEW r \in Retailers, ShopOf[r] = d.shop, r \notin e.met
          PROVE  priced'[r] \cap (d.seen \ d.ids) \subseteq d.looked[r]
      <4>1. priced[r] \cap (d.seen \ d.ids) \subseteq d.looked[r]
        BY <2>1, <2>4, <3>1 DEF Fits
      <4>2. priced'[r] \subseteq priced[r]
        <5>1. CASE c.mode = "branch"
          BY <1>4, <5>1
        <5>2. CASE c.mode = "prices"
          <6>1. r # c.retailer
            BY <1>3, <2>1, <2>4, <3>1, <5>2 DEF Meets
          <6> QED
            BY <1>1, <1>5, <5>2, <6>1
        <5> QED
          BY <1>2, <5>1, <5>2
      <4> QED
        BY <4>1, <4>2
    <3> QED
      BY <2>1, <2>4, <3>1 DEF Fits
  <2> QED
    BY <2>2, <2>3, <2>4 DEF e
<1>8. Fits([c EXCEPT !.stage = "served"], branch', priced')
  <2> DEFINE e == [c EXCEPT !.stage = "served"]
  <2>1. e.mode = c.mode /\ e.retailer = c.retailer /\ e.shop = c.shop /\ e.stage = "served"
    BY <1>1 DEF Saves
  <2> HIDE DEF e
  <2> QED
    BY <1>3, <2>1 DEF Fits, e
<1>9. \A d \in calls' : Fits(d, branch', priced')
  BY <1>7, <1>8 DEF CommitSave
<1> QED
  BY <1>6, <1>9 DEF PricedInv, PricedAreAllocated

\* A retailer has prices only for items his branch sells to retailers, whatever is saved for both,
\* given up and committed late; excepted is who had a save of his and one of his branch each
\* committed over what the other had read, until all his prices are replaced
\* (sync_shop_retailer_item_catalog, sync_retailer_item_allocations).
THEOREM RetailersPricedAreAllocated == Spec => []PricedAreAllocated
<1>1. Init => PricedInv
  BY DEF Init, PricedInv, PricedAreAllocated
<1>2. TypeOK /\ PricedInv /\ [Next]_vars => PricedInv'
  <2> SUFFICES ASSUME TypeOK, PricedInv, [Next]_vars PROVE PricedInv'
    OBVIOUS
  <2>1. ASSUME UNCHANGED server, \A c \in calls' : c \in calls \/ Fits(c, branch, priced) PROVE PricedInv'
    BY <2>1 DEF PricedInv, PricedAreAllocated, server
  <2>2. ASSUME NEW c \in calls, CheckSave(c) \/ LookSave(c) \/ CommitSave(c) PROVE PricedInv'
    BY <2>2, ReadFits, CommitFits
  <2>3. CASE Save
    <3> DEFINE c == [shop |-> shop, retailer |-> retailer, mode |-> mode, search |-> search,
                     ids |-> ticked, id |-> saved + 1, stage |-> "sent", seen |-> {},
                     looked |-> [r \in Retailers |-> {}], met |-> {}, waits |-> TRUE]
    <3>1. calls' = calls \cup {c} /\ UNCHANGED server /\ c.stage = "sent"
      BY <2>3 DEF Save
    <3> HIDE DEF c
    <3>2. Fits(c, branch, priced)
      BY <3>1 DEF Fits
    <3> QED
      BY <2>1, <3>1, <3>2
  <2>4. ASSUME NEW c \in calls, SaveFailed(c) PROVE PricedInv'
    <3> DEFINE d == [c EXCEPT !.waits = FALSE]
    <3>1. /\ d.mode = c.mode /\ d.retailer = c.retailer /\ d.shop = c.shop /\ d.ids = c.ids
          /\ d.seen = c.seen /\ d.looked = c.looked /\ d.stage = c.stage /\ d.met = c.met
          /\ Fits(c, branch, priced)
      BY DEF TypeOK, Saves, PricedInv
    <3>2. UNCHANGED server /\ \A e \in calls' : e \in calls \/ e = d
      BY <2>4 DEF SaveFailed
    <3> HIDE DEF d
    <3>3. Fits(d, branch, priced)
      BY <3>1 DEF Fits
    <3> QED
      BY <2>1, <3>2, <3>3
  <2>5. CASE UNCHANGED server /\ calls' \subseteq calls
    BY <2>1, <2>5
  <2>6. Office => Save \/ (UNCHANGED server /\ calls' = calls)
    BY DEF Office, SelectBranch, SelectRetailer, SetWorkMode, Search, PullToRefresh,
           AllocatePending, TogglePending, Untick
  <2>7. Answers => \/ \E c \in calls : CheckSave(c) \/ LookSave(c) \/ CommitSave(c) \/ SaveFailed(c)
                   \/ UNCHANGED server /\ calls' \subseteq calls
    <3>1. ASSUME NEW s \in Shops, RetailersLoaded(s) \/ RetailersFailed(s) PROVE UNCHANGED server /\ calls' = calls
      BY <3>1 DEF RetailersLoaded, RetailersFailed
    <3>2. ASSUME NEW l \in loads, ServeLoad(l) \/ ItemsLoaded(l) \/ ItemsFailed(l)
          PROVE  UNCHANGED server /\ calls' = calls
      BY <3>2 DEF ServeLoad, ItemsLoaded, ItemsFailed
    <3>3. ASSUME NEW c \in calls, Saved(c) PROVE UNCHANGED server /\ calls' \subseteq calls
      BY <3>3 DEF Saved
    <3> QED
      BY <3>1, <3>2, <3>3 DEF Answers
  <2>8. UNCHANGED vars => UNCHANGED server /\ calls' = calls
    BY DEF vars
  <2>9. Office \/ Answers \/ UNCHANGED vars
    BY DEF Next
  <2> QED
    BY <2>2, <2>3, <2>4, <2>5, <2>6, <2>7, <2>8, <2>9
<1>3. PricedInv => PricedAreAllocated
  BY DEF PricedInv
<1> QED
  BY <1>1, <1>2, <1>3, AllocateTypes, PTL DEF Spec

-----------------------------------------------------------------------------
(* The days a list is asked for.                                           *)

LEMMA DaysBounds == LastDay \in Nat \ {0} /\ PerMonth \in Nat \ {0} /\ Spill \in Nat
  BY OfficeAssumption DEF Dates!FilterAssumption

Pickers == [
  draws : {"fields", "taps"}, keeps : {"moves", "refuses", "nothing"},
  waits : {"everything", "range", "nothing"}, page : BOOLEAN, resets : BOOLEAN, clears : BOOLEAN,
  shares : BOOLEAN, anew : SUBSET {"date", "period"}, once : BOOLEAN,
  first : {"all", "today", "date"}, modes : SUBSET {"all", "today", "date", "range", "period"}]

Filters == [mode : {"all", "today", "date", "range", "period"}, date : Dates!Days,
     period : Dates!Days,
            start : Dates!Days, end : Dates!Days \cup {Dates!None}]

Ordered(f) == f.end # Dates!None => f.start <= f.end

\* What a filter holds, as chosen and as applied, is in order wherever the screen keeps it so.
FilterInv ==
  /\ picker \in Pickers /\ target \in {"none", "date", "start", "end"}
  /\ chosen \in Filters /\ filter \in Filters
  /\ picker.keeps = "moves" => Ordered(chosen) /\ Ordered(filter)

DaysInv == FilterInv /\ Dates!AsksForward

-----------------------------------------------------------------------------
\* Every filter of the app is one that the proof is about.
LEMMA AppFilters == Dates!AppPickers \subseteq Pickers
<1>1. Dates!Fields \in Pickers /\ Dates!Taps \in Pickers
  BY DEF Dates!Fields, Dates!Taps, Pickers
<1>2. Dates!SalesDates \in Pickers /\ Dates!StatementDates \in Pickers
      /\ Dates!TransferDates \in Pickers
      /\ Dates!ShopExpenseDates \in Pickers
  BY <1>1 DEF Dates!SalesDates, Dates!StatementDates, Dates!TransferDates, Dates!ShopExpenseDates,
              Pickers
<1>3. Dates!OfficeExpenseDates \in Pickers /\ Dates!DashboardDates \in Pickers
      /\ Dates!ReportDates \in Pickers
  BY <1>1 DEF Dates!OfficeExpenseDates, Dates!DashboardDates, Dates!ReportDates, Pickers
<1>4. Dates!OfficeSalesSheet \in Pickers /\ Dates!ShopSalesSheet \in Pickers
      /\ Dates!StatementSheet \in Pickers
  BY <1>2 DEF Dates!OfficeSalesSheet, Dates!OfficeSalesDates, Dates!ShopSalesSheet,
              Dates!ShopSalesDates, Dates!StatementSheet, Pickers
<1>5. Dates!OfficeStockPage \in Pickers /\ Dates!ShopStockPage \in Pickers
      /\ Dates!TransferPage \in Pickers
  BY <1>1, <1>2 DEF Dates!OfficeStockPage, Dates!OfficeStockDates, Dates!ShopStockPage,
                    Dates!ShopStockDates, Dates!TransferPage, Pickers
<1>6. Dates!PriceHistoryPage \in Pickers /\ Dates!RetailerPricesPage \in Pickers
      /\ Dates!PurchaseRatesPage \in Pickers
  BY <1>1 DEF Dates!PriceHistoryPage, Dates!RetailerPricesPage, Dates!PurchaseRatesPage, Pickers
<1>7. Dates!ShopExpenseSheet \in Pickers /\ Dates!OfficeExpenseSheet \in Pickers
  BY <1>2, <1>3 DEF Dates!ShopExpenseSheet, Dates!OfficeExpenseSheet, Pickers
<1>8. Dates!DashboardSheet \in Pickers /\ Dates!ReportPage \in Pickers
  BY <1>3 DEF Dates!DashboardSheet, Dates!ReportPage, Pickers
<1> QED
  BY <1>4, <1>5, <1>6, <1>7, <1>8 DEF Dates!AppPickers

\* The days of a month.
LEMMA Months ==
  ASSUME NEW d \in Dates!Days
  PROVE  /\ Dates!MonthDays(Dates!MonthOf(d))[1] <= Dates!MonthDays(Dates!MonthOf(d))[2]
         /\ Dates!MonthDays(Dates!MonthOf(d))[2] # Dates!None
<1>1. Dates!MonthOf(d) \in Nat
  BY DaysBounds DEF Dates!MonthOf, Dates!Days
<1>2. ASSUME NEW m \in Nat PROVE m * PerMonth \in Nat
      /\ (m + 1) * PerMonth = m * PerMonth + PerMonth
  BY DaysBounds
<1> QED
  BY DaysBounds, <1>1, <1>2 DEF Dates!MonthDays, Dates!None

\* What is asked for is in order if a range is.
LEMMA AskKeeps ==
  ASSUME picker \in Pickers, Dates!AsksForward, NEW f \in Filters, Dates!Ask(f), UNCHANGED picker,
         picker.keeps = "moves" => Ordered(f)
  PROVE  Dates!AsksForward'
<1>1. CASE ~Dates!Askable(f)
  BY <1>1 DEF Dates!Ask, Dates!AsksForward
<1>2. CASE Dates!Askable(f)
  <2>1. asked' = Dates!Range(f)
    BY <1>2 DEF Dates!Ask
  <2>2. CASE f.mode = "all"
    BY DaysBounds, <2>1, <2>2 DEF Dates!Range, Dates!AsksForward, Dates!None
  <2>3. CASE f.mode = "today"
    BY DaysBounds, <2>1, <2>3 DEF Dates!Range, Dates!AsksForward, Dates!None, Dates!Today
  <2>4. CASE f.mode = "date"
    BY DaysBounds, <2>1, <2>4 DEF Dates!Range, Dates!AsksForward, Dates!None, Filters, Dates!Days
  <2>5. CASE f.mode = "period"
    <3>1. f.period \in Dates!Days
      BY DEF Filters
    <3> QED
      BY <2>1, <2>5, <3>1, Months DEF Dates!Range, Dates!AsksForward
  <2>6. CASE f.mode = "range"
    BY <1>2, <2>1, <2>6 DEF Dates!Range, Dates!AsksForward, Dates!Askable, Ordered, Pickers,
                            Filters, Dates!None
  <2> QED
    BY <2>2, <2>3, <2>4, <2>5, <2>6 DEF Filters
<1> QED
  BY <1>1, <1>2

\* Choosing, on the page or in a sheet.
LEMMA CommitKeeps ==
  ASSUME DaysInv, NEW f \in Filters, Dates!Commit(f), UNCHANGED picker,
         target' \in {"none", "date", "start", "end"},
         picker.keeps = "moves" => Ordered(f)
  PROVE  DaysInv'
<1>1. Dates!AsksForward'
  <2>1. CASE Dates!Ask(f)
    BY <2>1, AskKeeps DEF DaysInv, FilterInv
  <2>2. CASE UNCHANGED asked
    BY <2>2 DEF DaysInv, Dates!AsksForward
  <2> QED
    BY <2>1, <2>2 DEF Dates!Commit
<1> QED
  BY <1>1 DEF Dates!Commit, DaysInv, FilterInv

LEMMA BaseKeeps == ASSUME FilterInv PROVE Dates!Base \in Filters
     /\ (picker.keeps = "moves" => Ordered(Dates!Base))
  BY DEF FilterInv, Dates!Base

LEMMA DaysNumbered ==
  ASSUME NEW d \in Dates!Days
  PROVE  d \in Nat \ {Dates!None} /\ d <= Dates!Today /\ Dates!Today \in Dates!Days
  BY DaysBounds DEF Dates!Days, Dates!Today, Dates!None

LEMMA FreshKeeps ==
  ASSUME picker \in Pickers, NEW d \in Dates!Days
  PROVE  Dates!Fresh(d) \in Filters /\ Ordered(Dates!Fresh(d)) /\ Dates!Today \in Dates!Days
  BY DaysNumbered DEF Pickers, Dates!Fresh, Filters, Ordered

\* A field that is moved takes the other end along.
LEMMA MovedKeeps ==
  ASSUME NEW f \in Filters, NEW end \in {"date", "start", "end"}, NEW d \in Dates!Days,
       picker \in Pickers,
         picker.keeps = "moves" => Ordered(f)
  PROVE  Dates!Moved(f, end, d) \in Filters /\ (picker.keeps = "moves" => Ordered(Dates!Moved(f,
       end, d)))
<1>1. CASE picker.keeps # "moves"
  <2>1. [f EXCEPT ![end] = d] \in Filters
    BY DEF Filters
  <2> QED
    BY <1>1, <2>1 DEF Dates!Moved
<1>2. CASE picker.keeps = "moves"
  <2>0. f.start \in Dates!Days /\ f.end \in Dates!Days \cup {Dates!None}
        /\ (f.end # Dates!None => f.start <= f.end)
    BY <1>2 DEF Filters, Ordered
  <2>1. CASE end = "date"
    BY <1>2, <2>1 DEF Dates!Moved, Filters, Ordered
  <2>2. CASE end = "start"
    <3>1. Dates!Moved(f, end, d) = [f EXCEPT !.start = d, !.end = IF @ < d THEN d ELSE @]
      BY <1>2, <2>2 DEF Dates!Moved
    <3>2. (IF f.end < d THEN d ELSE f.end) \in Dates!Days /\ d <= (IF f.end < d THEN d ELSE f.end)
      BY <2>0, DaysNumbered DEF Dates!None
    <3> QED
      BY <3>1, <3>2 DEF Filters, Ordered
  <2>3. CASE end = "end"
    <3>1. Dates!Moved(f, end, d) = [f EXCEPT !.end = d, !.start = IF @ > d THEN d ELSE @]
      BY <1>2, <2>3 DEF Dates!Moved
    <3>2. (IF f.start > d THEN d ELSE f.start) \in Dates!Days
          /\ (IF f.start > d THEN d ELSE f.start) <= d
      BY <2>0, DaysNumbered
    <3> QED
      BY <3>1, <3>2 DEF Filters, Ordered
  <2> QED
    BY <2>1, <2>2, <2>3
<1> QED
  BY <1>1, <1>2

\* A second tap ends the range, in the order of the days.
LEMMA TappedKeeps ==
  ASSUME NEW f \in Filters, NEW d \in Dates!Days
  PROVE  Dates!Tapped(f, d) \in Filters /\ (Ordered(f) => Ordered(Dates!Tapped(f, d)))
<1>1. f.start \in Dates!Days /\ f.start \in Nat /\ d \in Nat
  BY DaysNumbered DEF Filters
<1>2. CASE f.end # Dates!None
  BY <1>2 DEF Dates!Tapped, Filters, Ordered
<1>3. CASE f.end = Dates!None /\ d < f.start
  <2>1. Dates!Tapped(f, d) = [f EXCEPT !.start = d, !.end = f.start]
    BY <1>3 DEF Dates!Tapped
  <2>2. d <= f.start
    BY <1>1, <1>3
  <2> QED
    BY <1>1, <2>1, <2>2 DEF Filters, Ordered
<1>4. CASE f.end = Dates!None /\ ~(d < f.start)
  BY <1>1, <1>4 DEF Dates!Tapped, Filters, Ordered
<1> QED
  BY <1>2, <1>3, <1>4

LEMMA OneDateKeeps ==
  ASSUME NEW f \in Filters, NEW d \in Dates!Days
  PROVE  Dates!OneDate(f, d) \in Filters /\ (Ordered(f) => Ordered(Dates!OneDate(f, d)))
  BY DEF Dates!OneDate, Filters, Ordered

-----------------------------------------------------------------------------
LEMMA DaysKeep == ASSUME DaysInv, [Dates!Next]_(Dates!vars) PROVE DaysInv'
<1>t. /\ picker \in Pickers /\ filter \in Filters /\ chosen \in Filters /\ FilterInv
      /\ Dates!Today \in Dates!Days
  BY DaysBounds, FreshKeeps DEF DaysInv, FilterInv, Dates!Today, Dates!Days
<1>1. CASE Dates!OpenSheet
  BY <1>1, <1>t, FreshKeeps DEF Dates!OpenSheet, DaysInv, FilterInv, Dates!AsksForward
<1>2. CASE Dates!CloseSheet \/ Dates!CloseCalendar \/ UNCHANGED Dates!vars
  BY <1>2 DEF Dates!CloseSheet, Dates!CloseCalendar, Dates!vars, DaysInv, FilterInv,
              Dates!AsksForward
<1>3. CASE Dates!Apply
  <2> DEFINE new == IF picker.waits = "range" THEN [chosen EXCEPT !.date = chosen.start] ELSE chosen
  <2>1. new \in Filters /\ (picker.keeps = "moves" => Ordered(new))
    BY <1>t DEF FilterInv, Filters, Ordered
  <2>2. filter' = new /\ chosen' = new /\ Dates!Ask(new) /\ target' = "none" /\ UNCHANGED picker
    BY <1>3 DEF Dates!Apply
  <2>3. Dates!AsksForward'
    BY <1>t, <2>1, <2>2, AskKeeps DEF DaysInv
  <2> QED
    BY <1>t, <2>1, <2>2, <2>3 DEF DaysInv, FilterInv
<1>4. CASE Dates!Clear
  <2>1. Dates!AsksForward'
    BY <1>4, <1>t, FreshKeeps, AskKeeps DEF Dates!Clear, DaysInv
  <2> QED
    BY <1>4, <1>t, <2>1, FreshKeeps DEF Dates!Clear, DaysInv, FilterInv
<1>5. ASSUME NEW m \in picker.modes, Dates!PickMode(m) PROVE DaysInv'
  <2> DEFINE f == [Dates!Base EXCEPT !.mode = m]
             g == IF m \in picker.anew THEN Dates!OneDate(f, Dates!Today) ELSE f
  <2>1. f \in Filters /\ (picker.keeps = "moves" => Ordered(f))
    BY <1>t, BaseKeeps DEF Filters, Ordered, Pickers
  <2>2. g \in Filters /\ (picker.keeps = "moves" => Ordered(g))
    BY <1>t, <2>1, OneDateKeeps
  <2>3. Dates!Commit(g) /\ UNCHANGED <<picker, target>>
    BY <1>5 DEF Dates!PickMode
  <2> QED
    BY <1>t, <2>2, <2>3, CommitKeeps DEF FilterInv
<1>6. ASSUME NEW end \in {"date", "start", "end"}, Dates!OpenCalendar(end) PROVE DaysInv'
  BY <1>6 DEF Dates!OpenCalendar, DaysInv, FilterInv, Dates!AsksForward
<1>7. ASSUME NEW m \in 0..Dates!MonthOf(LastDay), Dates!ShowMonth(m) PROVE DaysInv'
  BY <1>7 DEF Dates!ShowMonth, DaysInv, FilterInv, Dates!AsksForward
<1>8. ASSUME NEW d \in Dates!Days, Dates!PickPeriod(d) PROVE DaysInv'
  <2> DEFINE f == [Dates!Base EXCEPT !.period = d]
  <2>1. f \in Filters /\ (picker.keeps = "moves" => Ordered(f))
    BY <1>t, BaseKeeps DEF Filters, Ordered
  <2>2. Dates!Commit(Dates!OneDate(f, d)) /\ UNCHANGED <<picker, target>>
    BY <1>8 DEF Dates!PickPeriod
  <2> QED
    BY <1>t, <2>1, <2>2, OneDateKeeps, CommitKeeps DEF FilterInv
<1>9. ASSUME NEW d \in Dates!Days, Dates!PickDay(d) PROVE DaysInv'
  <2>1. target \in {"date", "start", "end"}
    BY <1>9, <1>t DEF Dates!PickDay, FilterInv
  <2>2. Dates!Moved(Dates!Base, target, d) \in Filters
        /\ (picker.keeps = "moves" => Ordered(Dates!Moved(Dates!Base, target, d)))
    BY <1>t, <2>1, BaseKeeps, MovedKeeps
  <2> QED
    BY <1>9, <2>2, CommitKeeps DEF Dates!PickDay
<1>10. ASSUME NEW d \in Dates!Days, Dates!TapDay(d) PROVE DaysInv'
  <2>1. CASE chosen.mode = "date"
    <3> DEFINE f == [Dates!Base EXCEPT !.date = d]
    <3>1. f \in Filters /\ (picker.keeps = "moves" => Ordered(f))
      BY <1>t, BaseKeeps DEF Filters, Ordered
    <3>2. Dates!Commit(Dates!OneDate(f, d)) /\ UNCHANGED <<picker, target>>
      BY <1>10, <2>1 DEF Dates!TapDay
    <3> QED
      BY <1>t, <3>1, <3>2, OneDateKeeps, CommitKeeps DEF FilterInv
  <2>2. CASE chosen.mode # "date"
    <3>1. chosen' = Dates!Tapped(chosen, d) /\ UNCHANGED <<picker, target, filter, asked>>
      BY <1>10, <2>2 DEF Dates!TapDay
    <3> QED
      BY <1>t, <3>1, TappedKeeps DEF DaysInv, FilterInv, Dates!AsksForward
  <2> QED
    BY <2>1, <2>2
<1> QED
  BY <1>1, <1>2, <1>3, <1>4, <1>5, <1>6, <1>7, <1>8, <1>9, <1>10 DEF Dates!Next

\* No screen but the history of transfers, which keeps no order (admin-transfer-shops-tab.tsx), asks
\* for days that end before they begin, and none for half a range, in whatever order its ends are
\* chosen, left, cleared and confirmed.
THEOREM DaysAskedForward == Dates!Spec => []AsksForward
<1>1. Dates!Init => DaysInv
  <2> SUFFICES ASSUME Dates!Init PROVE DaysInv
    OBVIOUS
  <2>1. PICK start \in Dates!Days : filter = Dates!Fresh(start)
    BY DEF Dates!Init
  <2>2. picker \in Pickers /\ filter \in Filters /\ Ordered(filter) /\ chosen = filter
        /\ target = "none"
    BY <2>1, AppFilters, FreshKeeps DEF Dates!Init
  <2>3. filter.mode \in {"all", "today", "date"} /\ asked = Dates!Range(filter)
    BY <2>1, <2>2 DEF Dates!Init, Dates!Fresh, Pickers
  <2>4. Dates!Range(filter) \in {<<1, LastDay>>, <<Dates!Today, Dates!Today>>, <<filter.date,
       filter.date>>}
    BY <2>3 DEF Dates!Range
  <2>5. filter.date \in Nat \ {Dates!None} /\ Dates!Today \in Nat \ {Dates!None}
        /\ LastDay = Dates!Today /\ 1 <= Dates!Today
    BY <2>2, DaysNumbered DEF Filters, Dates!Today, Dates!None
  <2>6. Dates!AsksForward
    BY <2>3, <2>4, <2>5 DEF Dates!AsksForward
  <2> QED
    BY <2>2, <2>6 DEF DaysInv, FilterInv
<1>2. DaysInv /\ [Dates!Next]_(Dates!vars) => DaysInv'
  BY DaysKeep
<1>3. DaysInv => AsksForward
  BY DEF DaysInv, AsksForward
<1> QED
  BY <1>1, <1>2, <1>3, PTL DEF Dates!Spec
-----------------------------------------------------------------------------
(* The prices of the day.                                                  *)

\* A call that the screen can have made.
Posted(c, sheets) ==
  /\ {"kind", "shop", "rows", "by", "stage"} \subseteq DOMAIN c
  /\ c.kind \in {"load", "row", "all"} /\ c.shop \in BoardShops
  /\ c.kind = "load" => c.stage # "written"
  /\ c.kind = "all" => c.rows \in sheets[c.shop]

\* Some save of this kind is between its two commits.
Half(s, kind) == \E c \in posts : c.stage = "written" /\ c.shop = s /\ c.kind = kind

AsReviewed(s) == \E rows \in reviewed[s] : \A i \in Sells[s] : price[s][i] = rows[i]

\* A shop that is not torn has the prices of a sheet, unless a row of it was written since: then it
\* is not published, or the row's save has yet to take the publication back, and no publication is
\* about to be committed.
BoardInv ==
  /\ selected \in BoardShops /\ DOMAIN reviewed = BoardShops /\ DOMAIN price = BoardShops
  /\ published \subseteq BoardShops
  /\ \A c \in posts : Posted(c, reviewed)
  /\ \A s \in BoardShops \ torn :
       AsReviewed(s) \/ (~ Half(s, "all") /\ (s \in published => Half(s, "row")))

\* A step that writes nothing on the server, and neither begins nor ends a save there.
LEMMA ScreenStep ==
  ASSUME BoardInv, UNCHANGED <<price, published, torn>>, selected' \in BoardShops,
         DOMAIN reviewed' = BoardShops, \A s \in BoardShops : reviewed[s] \subseteq reviewed'[s],
         \A c \in posts' : c \in posts \/ Posted(c, reviewed'),
         \A s \in BoardShops, kind \in {"row", "all"} : Half(s, kind)' <=> Half(s, kind)
  PROVE  BoardInv'
<1>1. ASSUME NEW c \in posts' PROVE Posted(c, reviewed')
  BY DEF BoardInv, Posted
<1>2. ASSUME NEW s \in BoardShops, AsReviewed(s) PROVE AsReviewed(s)'
  BY <1>2 DEF AsReviewed
<1> QED
  BY <1>1, <1>2 DEF BoardInv

\* Loads go, and at most one comes.
LEMMA LoadStep ==
  ASSUME BoardInv, UNCHANGED <<price, published, torn, reviewed>>, selected' \in BoardShops,
         \A c \in posts' : c \in posts \/ (Posted(c, reviewed') /\ c.stage # "written"),
         \A c \in posts : c.kind # "load" => c \in posts' \/ c.stage # "written"
  PROVE  BoardInv'
<1>1. \A s \in BoardShops, kind \in {"row", "all"} : Half(s, kind)' <=> Half(s, kind)
  BY DEF BoardInv, Posted, Half
<1> QED
  BY <1>1, ScreenStep DEF BoardInv

\* A call of the screen.
LEMMA CallShape ==
  ASSUME NEW kind \in {"load", "row", "all"}, NEW s \in BoardShops, NEW rows, NEW by,
         kind = "all" => rows \in reviewed'[s]
  PROVE  LET c == Prices!Call(kind, s, rows, by)
         IN  Posted(c, reviewed') /\ c.kind = kind /\ c.shop = s /\ c.stage = "sent"
  BY DEF Prices!Call, Posted

\* A load of a shop, among the calls that are left.
LEMMA LoadPosted ==
  ASSUME NEW others, NEW s \in BoardShops, NEW quiet, NEW by, Prices!Load(others, s, quiet, by)
  PROVE  \E d : /\ Posted(d, reviewed') /\ d.stage = "sent"
                /\ posts' = (others \ Prices!Loads) \cup {d}
<1> DEFINE d == Prices!Call("load", s, NoPrice, by)
<1>1. Posted(d, reviewed') /\ d.stage = "sent"
  BY CallShape
<1>2. posts' = (others \ Prices!Loads) \cup {d}
  BY DEF Prices!Load, Prices!Aborted
<1> QED
  BY <1>1, <1>2

\* A stage of a call leaves the rest of it as it is.
LEMMA StageKeeps ==
  ASSUME NEW c, Posted(c, reviewed), NEW stage, c.kind = "load" => stage # "written", UNCHANGED reviewed
  PROVE  LET d == [c EXCEPT !.stage = stage]
         IN  /\ Posted(d, reviewed') /\ d.kind = c.kind /\ d.shop = c.shop /\ d.stage = stage
             /\ d.by = c.by /\ d.rows = c.rows
  BY DEF Posted

LEMMA AtKeeps ==
  ASSUME BoardInv, NEW c \in posts, NEW stage, Prices!At(c, stage),
         c.kind = "load" => stage # "written", UNCHANGED reviewed
  PROVE  /\ \A d \in posts' : Posted(d, reviewed')
         /\ \A s \in BoardShops, kind \in {"row", "all"} :
              (s # c.shop \/ kind # c.kind) => (Half(s, kind)' <=> Half(s, kind))
         /\ stage = "written" => Half(c.shop, c.kind)'
         /\ c.stage # "written" /\ stage # "written" =>
              (Half(c.shop, c.kind)' <=> Half(c.shop, c.kind))
<1> DEFINE d == [c EXCEPT !.stage = stage]
<1>1. Posted(c, reviewed)
  BY DEF BoardInv
<1>2. Posted(d, reviewed') /\ d.kind = c.kind /\ d.shop = c.shop /\ d.stage = stage
  BY <1>1, StageKeeps
<1>3. posts' = (posts \ {c}) \cup {d} \/ (posts' = posts \ {c} /\ stage # "written")
  BY DEF Prices!At
<1> HIDE DEF d
<1>4. \A e \in posts' : Posted(e, reviewed')
  BY <1>2, <1>3 DEF BoardInv, Posted
<1> QED
  BY <1>2, <1>3, <1>4 DEF Half

\* The first commit of a save.
LEMMA WriteKeeps ==
  ASSUME BoardInv, NEW c \in posts, Prices!Write(c)
  PROVE  BoardInv'
<1>1. UNCHANGED <<selected, reviewed, published>> /\ c.kind # "load" /\ c.stage = "sent" /\ Posted(c, reviewed)
  BY DEF Prices!Write, Prices!Local, Prices!review, BoardInv
<1>2. CASE ~ Prices!Accepted(c)
  <2>1. Prices!At(c, "failed") /\ UNCHANGED <<price, torn>>
    BY <1>2 DEF Prices!Write
  <2>2. /\ \A d \in posts' : Posted(d, reviewed')
        /\ \A s \in BoardShops, kind \in {"row", "all"} : Half(s, kind)' <=> Half(s, kind)
    BY <1>1, <2>1, AtKeeps DEF Posted
  <2> QED
    BY <1>1, <2>1, <2>2, ScreenStep DEF BoardInv
<1>3. CASE Prices!Accepted(c)
  <2>1. /\ Prices!At(c, "written") /\ torn' = Prices!TornBy(c)
        /\ price' = [price EXCEPT ![c.shop] =
                       [i \in BoardItems |-> IF i \in DOMAIN c.rows THEN c.rows[i] ELSE @[i]]]
    BY <1>3 DEF Prices!Write
  <2>2. /\ \A d \in posts' : Posted(d, reviewed')
        /\ \A s \in BoardShops, kind \in {"row", "all"} :
             (s # c.shop \/ kind # c.kind) => (Half(s, kind)' <=> Half(s, kind))
        /\ Half(c.shop, c.kind)'
    BY <1>1, <2>1, AtKeeps
  <2>3. c.shop \in BoardShops /\ c.kind \in {"row", "all"} /\ DOMAIN price = BoardShops
    BY <1>1 DEF Posted, BoardInv
  <2>4. /\ DOMAIN price' = BoardShops
        /\ \A s \in BoardShops : s # c.shop => price'[s] = price[s]
        /\ \A i \in BoardItems : i \in DOMAIN c.rows => price'[c.shop][i] = c.rows[i]
    BY <2>1, <2>3
  <2>5. ASSUME NEW s \in BoardShops \ torn'
        PROVE  AsReviewed(s)' \/ (~ Half(s, "all")' /\ (s \in published' => Half(s, "row")'))
    <3>1. CASE s # c.shop
      <4>1. s \notin torn
        BY <2>1, <2>5, <3>1 DEF Prices!TornBy
      <4>2. AsReviewed(s) => AsReviewed(s)'
        BY <1>1, <2>4, <3>1 DEF AsReviewed
      <4> QED
        BY <1>1, <2>2, <3>1, <4>1, <4>2 DEF BoardInv
    <3>2. CASE s = c.shop /\ c.kind = "all"
      <4>1. c.rows \in reviewed'[s] /\ DOMAIN c.rows = Sells[s] /\ Sells[s] \subseteq BoardItems
        BY <1>1, <1>3, <2>3, <3>2, OfficeAssumption DEF Posted, Prices!Accepted, Prices!BoardAssumption
      <4> QED
        BY <2>4, <3>2, <4>1 DEF AsReviewed
    <3>3. CASE s = c.shop /\ c.kind = "row"
      <4>1. ~ Half(s, "all")
        BY <2>1, <2>5, <3>3 DEF Prices!TornBy, Prices!HalfDone, Half
      <4> QED
        BY <2>2, <2>3, <3>3, <4>1
    <3> QED
      BY <2>3, <3>1, <3>2, <3>3
  <2> QED
    BY <1>1, <2>2, <2>4, <2>5 DEF BoardInv
<1> QED
  BY <1>2, <1>3

\* The second commit.
LEMMA FinishKeeps ==
  ASSUME BoardInv, NEW c \in posts, Prices!Finish(c)
  PROVE  BoardInv'
<1>1. /\ UNCHANGED <<selected, reviewed, price, torn>> /\ c.stage = "written" /\ Posted(c, reviewed)
      /\ Prices!At(c, "answered")
      /\ published' = IF c.kind = "all" THEN published \cup {c.shop} ELSE published \ {c.shop}
  BY DEF Prices!Finish, Prices!Local, Prices!review, BoardInv
<1>2. /\ \A d \in posts' : Posted(d, reviewed')
      /\ \A s \in BoardShops, kind \in {"row", "all"} :
           (s # c.shop \/ kind # c.kind) => (Half(s, kind)' <=> Half(s, kind))
  BY <1>1, AtKeeps
<1>3. c.shop \in BoardShops /\ c.kind \in {"row", "all"} /\ Half(c.shop, c.kind)
  BY <1>1 DEF Posted, Half
<1>4. ASSUME NEW s \in BoardShops \ torn'
      PROVE  AsReviewed(s)' \/ (~ Half(s, "all")' /\ (s \in published' => Half(s, "row")'))
  <2>1. /\ AsReviewed(s) => AsReviewed(s)'
        /\ AsReviewed(s) \/ (~ Half(s, "all") /\ (s \in published => Half(s, "row")))
    BY <1>1, <1>4 DEF AsReviewed, BoardInv
  <2>2. CASE s # c.shop
    BY <1>1, <1>2, <2>1, <2>2
  <2>3. CASE s = c.shop /\ c.kind = "all"
    BY <1>3, <2>1, <2>3
  <2>4. CASE s = c.shop /\ c.kind = "row"
    BY <1>1, <1>2, <2>1, <2>4
  <2> QED
    BY <1>3, <2>2, <2>3, <2>4
<1>5. published' \subseteq BoardShops
  BY <1>1, <1>3 DEF BoardInv
<1> QED
  BY <1>1, <1>2, <1>4, <1>5 DEF BoardInv

\* A process dies; a row of which only the price was written tears its shop.
LEMMA LoseKeeps ==
  ASSUME BoardInv, NEW c \in posts, Prices!Lose(c)
  PROVE  BoardInv'
<1>1. /\ UNCHANGED <<selected, reviewed, price, published>> /\ Posted(c, reviewed) /\ Prices!At(c, "failed")
      /\ torn' = IF c.stage = "written" /\ c.kind = "row" THEN torn \cup {c.shop} ELSE torn
  BY DEF Prices!Lose, Prices!Local, Prices!review, BoardInv
<1>2. /\ \A d \in posts' : Posted(d, reviewed')
      /\ \A s \in BoardShops, kind \in {"row", "all"} :
           (s # c.shop \/ kind # c.kind) => (Half(s, kind)' <=> Half(s, kind))
      /\ c.stage # "written" => (Half(c.shop, c.kind)' <=> Half(c.shop, c.kind))
  BY <1>1, AtKeeps
<1>3. ASSUME NEW s \in BoardShops \ torn'
      PROVE  AsReviewed(s)' \/ (~ Half(s, "all")' /\ (s \in published' => Half(s, "row")'))
  <2>1. s \notin torn /\ (AsReviewed(s) => AsReviewed(s)')
    BY <1>1, <1>3 DEF AsReviewed
  <2>2. AsReviewed(s) \/ (~ Half(s, "all") /\ (s \in published => Half(s, "row")))
    BY <2>1 DEF BoardInv
  <2>3. CASE s # c.shop \/ c.stage # "written"
    BY <1>1, <1>2, <2>1, <2>2, <2>3
  <2>4. CASE s = c.shop /\ c.stage = "written"
    <3>1. c.kind = "all" /\ Half(s, "all")
      BY <1>1, <1>3, <2>4 DEF Posted, Half
    <3> QED
      BY <2>1, <2>2, <3>1
  <2> QED
    BY <2>3, <2>4
<1> QED
  BY <1>1, <1>2, <1>3 DEF BoardInv

\* The screen gives a save up.
LEMMA TimeOutKeeps ==
  ASSUME BoardInv, NEW c \in posts, Prices!TimeOut(c)
  PROVE  BoardInv'
<1> DEFINE d == [c EXCEPT !.stage = "failed"]
           e == [c EXCEPT !.by = "nobody"]
<1>1. /\ UNCHANGED <<selected, reviewed, price, published, torn>> /\ Posted(c, reviewed)
      /\ posts' = (posts \ {c}) \cup {d, e}
  BY DEF Prices!TimeOut, Prices!Local, Prices!server, Prices!review, BoardInv
<1>2. Posted(d, reviewed') /\ d.stage = "failed"
  BY <1>1, StageKeeps
<1>3. Posted(e, reviewed') /\ e.kind = c.kind /\ e.shop = c.shop /\ e.stage = c.stage
  BY <1>1 DEF Posted
<1> HIDE DEF d, e
<1>4. \A s \in BoardShops, kind \in {"row", "all"} : Half(s, kind)' <=> Half(s, kind)
  BY <1>1, <1>2, <1>3 DEF Half
<1> QED
  BY <1>1, <1>2, <1>3, <1>4, ScreenStep DEF BoardInv

LEMMA BoardStep == BoardInv /\ [Prices!Next]_(Prices!vars) => BoardInv'
<1> SUFFICES ASSUME BoardInv, [Prices!Next]_(Prices!vars) PROVE BoardInv'
  OBVIOUS
<1>at. selected \in BoardShops /\ DOMAIN reviewed = BoardShops /\ \A c \in posts : Posted(c, reviewed)
  BY DEF BoardInv
<1>0. ASSUME NEW s \in BoardShops, NEW quiet, NEW by, Prices!Load(posts, s, quiet, by),
             selected' \in BoardShops, UNCHANGED <<reviewed, price, published, torn>>
      PROVE  BoardInv'
  <2>1. PICK d : Posted(d, reviewed') /\ d.stage = "sent" /\ posts' = (posts \ Prices!Loads) \cup {d}
    BY <1>0, LoadPosted
  <2> QED
    BY <1>0, <2>1, LoadStep DEF Prices!Loads
<1>1. ASSUME NEW s \in BoardShops, Prices!SelectShop(s) PROVE BoardInv'
  BY <1>0, <1>1 DEF Prices!SelectShop, Prices!review, Prices!server
<1>2. CASE Prices!Leave
  BY <1>2, <1>at, LoadStep DEF Prices!Leave, Prices!Aborted, Prices!Loads, Prices!review, Prices!server
<1>3. CASE Prices!Return
  BY <1>0, <1>3, <1>at DEF Prices!Return, Prices!review, Prices!server
<1>4. CASE Prices!Refresh
  BY <1>0, <1>4, <1>at DEF Prices!Refresh, Prices!review, Prices!server
<1>5. CASE Prices!OpenSheet \/ Prices!CloseSheet \/ (\E i \in BoardItems,
      p \in DayPrices : Prices!Type(i, p)) \/ UNCHANGED Prices!vars
  <2>1. UNCHANGED <<posts, selected, reviewed, price, published, torn>>
    BY <1>5 DEF Prices!OpenSheet, Prices!CloseSheet, Prices!Type, Prices!vars, Prices!flags,
                Prices!review, Prices!server
  <2> QED
    BY <1>at, <2>1, LoadStep
<1>6. ASSUME NEW i \in BoardItems, Prices!SaveRow(i) PROVE BoardInv'
  <2>1. PICK c : Posted(c, reviewed') /\ c.stage = "sent" /\ posts' = posts \cup {c}
    <3> DEFINE c == Prices!Call("row", selected, [j \in {i} |-> drafts[i]], "screen")
    <3>1. Posted(c, reviewed') /\ c.stage = "sent"
      BY <1>at, CallShape
    <3> QED
      BY <1>6, <3>1 DEF Prices!SaveRow
  <2> QED
    BY <1>6, <1>at, <2>1, LoadStep DEF Prices!SaveRow, Prices!review, Prices!server
<1>7. CASE Prices!Confirm
  <2>1. /\ DOMAIN reviewed' = BoardShops /\ review \in reviewed'[selected]
        /\ \A s \in BoardShops : reviewed[s] \subseteq reviewed'[s]
        /\ UNCHANGED <<selected, price, published, torn>>
    BY <1>7, <1>at DEF Prices!Confirm, Prices!Publish, Prices!server
  <2>2. PICK c : Posted(c, reviewed') /\ c.stage = "sent" /\ posts' = posts \cup {c}
    <3> DEFINE c == Prices!Call("all", selected, review, "screen")
    <3>1. Posted(c, reviewed') /\ c.stage = "sent"
      BY <1>at, <2>1, CallShape
    <3> QED
      BY <1>7, <3>1 DEF Prices!Confirm, Prices!Publish
  <2>3. \A s \in BoardShops, kind \in {"row", "all"} : Half(s, kind)' <=> Half(s, kind)
    BY <2>2 DEF Half
  <2> QED
    BY <1>at, <2>1, <2>2, <2>3, ScreenStep
<1>8. ASSUME NEW c \in posts,
      Prices!Write(c) \/ Prices!Finish(c) \/ Prices!Lose(c) \/ Prices!TimeOut(c) PROVE BoardInv'
  BY <1>8, WriteKeeps, FinishKeeps, LoseKeeps, TimeOutKeeps
<1>9. ASSUME NEW c \in posts, Prices!Read(c) PROVE BoardInv'
  <2> DEFINE rows == [i \in Sells[c.shop] |-> price[c.shop][i]]
             e == [c EXCEPT !.stage = "answered", !.rows = rows]
  <2>1. /\ posts' = (posts \ {c}) \cup {e} /\ c.kind = "load"
        /\ UNCHANGED <<Prices!Local, Prices!server>>
    BY <1>9, Zenon DEF Prices!Read
  <2> HIDE DEF rows
  <2>2. c.kind = "load" /\ Posted(c, reviewed) /\ UNCHANGED <<selected, reviewed, price, published, torn>>
    BY <2>1, <1>at DEF Prices!Local, Prices!server, Prices!review
  <2>3. Posted(e, reviewed') /\ e.stage = "answered" /\ posts' = (posts \ {c}) \cup {e}
    BY <2>1, <2>2 DEF Posted
  <2> HIDE DEF e
  <2> QED
    BY <1>at, <2>2, <2>3, LoadStep
<1>10. ASSUME NEW c \in posts, Prices!Saved(c) PROVE BoardInv'
  <2>1. PICK d : /\ Posted(d, reviewed') /\ d.stage = "sent"
                 /\ posts' = ((posts \ {c}) \ Prices!Loads) \cup {d}
    <3>1. c.shop \in BoardShops
      BY <1>at DEF Posted
    <3> QED
      BY <1>10, <3>1, LoadPosted DEF Prices!Saved
  <2>2. c.stage = "answered" /\ UNCHANGED <<selected, reviewed, price, published, torn>>
    BY <1>10 DEF Prices!Saved, Prices!Reviewing, Prices!server
  <2> QED
    BY <1>at, <2>1, <2>2, LoadStep DEF Prices!Loads
<1>11. ASSUME NEW c \in posts, Prices!SaveFailed(c) \/ Prices!Loaded(c) PROVE BoardInv'
  <2>1. /\ UNCHANGED <<selected, reviewed, price, published, torn>> /\ posts' = posts \ {c}
        /\ c.kind = "load" \/ c.stage = "failed"
    BY <1>11 DEF Prices!SaveFailed, Prices!Loaded, Prices!Reviewing, Prices!server
  <2> QED
    BY <1>at, <2>1, LoadStep
<1> QED
  BY <1>1, <1>2, <1>3, <1>4, <1>5, <1>6, <1>7, <1>8, <1>9, <1>10, <1>11
     DEF Prices!Next, Prices!Administrator, Prices!Network, Prices!Answer

\* What is published for a shop was confirmed in the sheet for it, whatever refreshes, rows' saves,
\* loads of another shop, given-up saves and crashes come between; excepted is a shop with a row
\* saved between the commits of a publication, or saved by half, until all rows are written again.
THEOREM ReviewedIsPublished == Prices!Spec => []PublishedAsReviewed
<1>1. Prices!Init => BoardInv
  BY DEF Prices!Init, BoardInv, Half
<1>2. BoardInv => PublishedAsReviewed
  BY DEF BoardInv, PublishedAsReviewed, Prices!PublishedAsReviewed, AsReviewed, Half, Prices!HalfDone
<1> QED
  BY <1>1, <1>2, BoardStep, PTL DEF Prices!Spec
=============================================================================
