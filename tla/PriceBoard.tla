----------------------------- MODULE PriceBoard -----------------------------
(***************************************************************************)
(* Daily prices: the administrator's screen (useShopPrices, PriceGrid) and *)
(* the two commits of each save in services/pricing.py.  A row is saved    *)
(* alone, or all rows are reviewed in a sheet and published for billing.   *)
(* A load aborts the load before it; a save is never aborted, and loads    *)
(* the shop it was made for when it is done.  A save the screen has given  *)
(* up may still be at work on the server.                                  *)
(*                                                                         *)
(* Nothing keeps a row's save out of the time between the two commits of a *)
(* publication.  `torn', a history variable, says whose prices met that.   *)
(***************************************************************************)
EXTENDS Naturals, FiniteSets

CONSTANTS
  Shops, Items, Prices,
  Sells,     \* the items allocated to each shop
  MaxCalls,  \* bounds: the loads the administrator asks for, the saves
  None       \* no price, no draft, no board, no sheet

VARIABLES
  price,      \* daily_prices of today
  published,  \* shops with daily_prices_published_on = today
  torn,       \* history: shops with a row saved amid a publication, or saved by half
  selected,   \* selectedShopId
  focused,    \* is the screen on top?
  board,      \* bootstrap: a shop and its prices
  loading, refreshing, savingRow, savingAll,
  drafts,     \* draftPrices
  sheet,      \* the rows under review, if the preview is open
  confirmed,  \* confirmPendingRef
  reviewed,   \* history: the rows that were ever confirmed for each shop
  calls,      \* calls on their way
  made        \* loads asked for, saves made

server == <<price, published, torn>>
flags == <<loading, refreshing, savingRow, savingAll>>
review == <<sheet, confirmed, reviewed>>
vars == <<server, selected, focused, board, flags, drafts, review, calls, made>>

NoDrafts == [i \in Items |-> None]

\* Office assumes this of the constants.
BoardAssumption == Sells \in [Shops -> SUBSET Items]

-----------------------------------------------------------------------------
(* Loads.                                                                  *)

Call(kind, s, rows, by) ==
  [id |-> IF kind = "load" THEN 0 ELSE made.saves + 1,
   kind |-> kind, shop |-> s, rows |-> rows, by |-> by, stage |-> "sent"]

Loads == {c \in calls : c.kind = "load"}

Aborted == Loads

\* What ends with loads cs: the save that waited for one of them is over.
Release(cs) ==
  /\ savingRow' = IF \E c \in cs : c.by = "row" THEN None ELSE savingRow
  /\ savingAll' = (savingAll /\ \A c \in cs : c.by # "all")

\* The sheet closes when the save it waited for ends without an error.
Reviewing(err) ==
  /\ confirmed' = (confirmed /\ savingAll')
  /\ sheet' = IF confirmed /\ ~savingAll' /\ ~err THEN None ELSE sheet
  /\ UNCHANGED reviewed

\* load, of shop s, for the save `by' that is over but for it.
Load(others, s, quiet, by) ==
  /\ calls' = (others \ Aborted) \cup {Call("load", s, None, by)}
  /\ IF quiet THEN refreshing' = TRUE /\ UNCHANGED loading
              ELSE loading' = TRUE /\ UNCHANGED refreshing

Room(what) == made[what] < MaxCalls[what]
Makes(what) == Room(what) /\ made' = [made EXCEPT ![what] = @ + 1]

\* The shop is picked, the screen is left or opened: drafts go, a load begins or ends.
SelectShop(s) ==
  /\ Makes("loads") /\ focused /\ sheet = None /\ s # selected
  /\ selected' = s
  /\ drafts' = NoDrafts
  /\ Load(calls, s, FALSE, "screen")
  /\ Release(Loads)
  /\ UNCHANGED <<server, focused, board, review>>

Leave ==
  /\ Room("loads") /\ focused /\ sheet = None
  /\ focused' = FALSE
  /\ drafts' = NoDrafts
  /\ calls' = calls \ Aborted
  /\ board' = None /\ loading' = FALSE /\ refreshing' = FALSE
  /\ Release(Loads)
  /\ UNCHANGED <<server, selected, review, made>>

Return ==
  /\ Makes("loads") /\ ~focused
  /\ focused' = TRUE
  /\ drafts' = NoDrafts
  /\ Load(calls, selected, FALSE, "screen")
  /\ Release(Loads)
  /\ UNCHANGED <<server, selected, board, review>>

Refresh ==
  /\ Makes("loads") /\ focused /\ sheet = None
  /\ Load(calls, selected, TRUE, "screen")
  /\ Release(Loads)
  /\ UNCHANGED <<server, selected, focused, board, drafts, review>>

-----------------------------------------------------------------------------
(* The grid.                                                               *)

Grid == focused /\ ~loading /\ board # None /\ sheet = None
Value(i) == IF drafts[i] # None THEN drafts[i] ELSE board.rows[i]
Rows == [i \in DOMAIN board.rows |-> Value(i)]

Type(i, p) ==
  /\ Grid /\ i \in DOMAIN board.rows
  /\ drafts' = [drafts EXCEPT ![i] = p]
  /\ UNCHANGED <<server, selected, focused, board, flags, review, calls, made>>

\* The row's button, or the keyboard's, which is not locked while the row is saved.
SaveRow(i) ==
  /\ Makes("saves") /\ Grid /\ i \in DOMAIN board.rows
  /\ drafts[i] \notin {None, board.rows[i]}
  /\ calls' = calls \cup {Call("row", selected, [j \in {i} |-> drafts[i]], "screen")}
  /\ savingRow' = i
  /\ UNCHANGED <<server, selected, focused, board, loading, refreshing, savingAll, drafts, review>>

\* The sheet shows the rows as they are, if every one has a price ...
OpenSheet ==
  /\ Grid /\ ~savingAll
  /\ \A i \in DOMAIN board.rows : Value(i) # None
  /\ sheet' = Rows
  /\ UNCHANGED <<server, selected, focused, board, flags, drafts, confirmed, reviewed, calls, made>>

CloseSheet ==
  /\ sheet # None /\ ~savingAll
  /\ sheet' = None
  /\ UNCHANGED <<server, selected, focused, board, flags, drafts, confirmed, reviewed, calls, made>>

\* ... and keeps showing them, whatever a refresh brings meanwhile.
Publish(rows) ==
  /\ Makes("saves") /\ sheet # None /\ ~savingAll
  /\ calls' = calls \cup {Call("all", selected, rows, "screen")}
  /\ savingAll' = TRUE
  /\ confirmed' = TRUE /\ reviewed' = [reviewed EXCEPT ![selected] = @ \cup {sheet}]
  /\ UNCHANGED <<server, selected, focused, board, loading, refreshing, savingRow, drafts, sheet>>

\* Faulty: the rows of the moment are published.
ConfirmRowsOfTheMoment == Publish(Rows)

Confirm == Publish(sheet)

-----------------------------------------------------------------------------
(* The server.                                                             *)

\* Nobody waits for the answer to a save that was given up.
At(c, stage) ==
  calls' = (calls \ {c}) \cup
    (IF c.by = "nobody" /\ stage \in {"answered", "failed"} THEN {} ELSE {[c EXCEPT !.stage = stage]})

Local == <<selected, focused, board, flags, drafts, review, made>>

\* create_daily_prices wants a price for every item, upsert_shop_daily_price
\* for an allocated one.
Accepted(c) ==
  IF c.kind = "all" THEN DOMAIN c.rows = Sells[c.shop] ELSE DOMAIN c.rows \subseteq Sells[c.shop]

\* Saves of shop s between their two commits.
HalfDone(s) == {c \in calls : c.stage = "written" /\ c.shop = s}

\* History: all rows mend what a row amid them tore.
TornBy(c) ==
  IF c.kind = "all" THEN torn \ {c.shop}
  ELSE torn \cup {s \in {c.shop} : \E d \in HalfDone(s) : d.kind = "all"}

\* First commit: the prices.
Write(c) ==
  /\ c.kind # "load" /\ c.stage = "sent"
  /\ IF Accepted(c)
     THEN /\ price' = [price EXCEPT ![c.shop] =
                         [i \in Items |-> IF i \in DOMAIN c.rows THEN c.rows[i] ELSE @[i]]]
          /\ torn' = TornBy(c)
          /\ At(c, "written")
     ELSE At(c, "failed") /\ UNCHANGED <<price, torn>>
  /\ UNCHANGED <<Local, published>>

\* Second commit: a row withdraws the publication, all rows publish.
Finish(c) ==
  /\ c.stage = "written"
  /\ published' = IF c.kind = "all" THEN published \cup {c.shop} ELSE published \ {c.shop}
  /\ At(c, "answered")
  /\ UNCHANGED <<Local, price, torn>>

Read(c) ==
  /\ c.kind = "load" /\ c.stage = "sent"
  /\ calls' = (calls \ {c}) \cup
       {[c EXCEPT !.stage = "answered", !.rows = [i \in Sells[c.shop] |-> price[c.shop][i]]]}
  /\ UNCHANGED <<Local, server>>

\* The process dies before a commit or between the two, or a load gets no answer.
Lose(c) ==
  /\ c.stage \in {"sent", "written"}
  /\ At(c, "failed")
  /\ torn' = IF c.stage = "written" /\ c.kind = "row" THEN torn \cup {c.shop} ELSE torn
  /\ UNCHANGED <<Local, price, published>>

\* The screen gives a save up, or the answer to it will be lost; the server goes on with it.
TimeOut(c) ==
  /\ c.kind # "load" /\ c.by # "nobody" /\ c.stage \in {"sent", "written"}
  /\ calls' = (calls \ {c}) \cup {[c EXCEPT !.stage = "failed"], [c EXCEPT !.by = "nobody"]}
  /\ UNCHANGED <<Local, server>>

-----------------------------------------------------------------------------
(* What comes back.                                                        *)

\* A save is done: its drafts go, and the shop it was made for is loaded.
Saved(c) ==
  /\ c.kind # "load" /\ c.stage = "answered"
  /\ drafts' = IF c.kind = "all" THEN NoDrafts
               ELSE [i \in Items |-> IF i \in DOMAIN c.rows THEN None ELSE drafts[i]]
  /\ Load(calls \ {c}, c.shop, TRUE, c.kind)
  /\ Release(Loads)
  /\ Reviewing(FALSE)
  /\ UNCHANGED <<server, selected, focused, board, made>>

SaveFailed(c) ==
  /\ c.kind # "load" /\ c.stage = "failed"
  /\ calls' = calls \ {c}
  /\ Release({[c EXCEPT !.by = c.kind]})
  /\ Reviewing(TRUE)
  /\ UNCHANGED <<server, selected, focused, board, loading, refreshing, drafts, made>>

\* Faulty: the spinners stop where the load goes well, and not where it ends.
LoadedInTry(c) ==
  /\ c.kind = "load" /\ c.stage \in {"answered", "failed"}
  /\ calls' = calls \ {c}
  /\ board' = IF c.stage = "answered" THEN [shop |-> c.shop, rows |-> c.rows] ELSE board
  /\ IF c.stage = "failed" THEN UNCHANGED <<loading, refreshing>> ELSE loading' = FALSE /\ refreshing' = FALSE
  /\ Release({c})
  /\ Reviewing(c.stage = "failed")
  /\ UNCHANGED <<server, selected, focused, drafts, made>>

\* The answer of a load that was not aborted ends the spinners.
Loaded(c) ==
  /\ c.kind = "load" /\ c.stage \in {"answered", "failed"}
  /\ calls' = calls \ {c}
  /\ board' = IF c.stage = "answered" THEN [shop |-> c.shop, rows |-> c.rows] ELSE board
  /\ loading' = FALSE /\ refreshing' = FALSE
  /\ Release({c})
  /\ Reviewing(c.stage = "failed")
  /\ UNCHANGED <<server, selected, focused, drafts, made>>

-----------------------------------------------------------------------------
Init ==
  /\ price \in [Shops -> [Items -> {None} \cup Prices]]
  /\ published = {} /\ torn = {}
  /\ selected \in Shops /\ focused = FALSE
  /\ board = None
  /\ loading = FALSE /\ refreshing = FALSE /\ savingRow = None /\ savingAll = FALSE
  /\ drafts = NoDrafts
  /\ sheet = None /\ confirmed = FALSE /\ reviewed = [s \in Shops |-> {}]
  /\ calls = {} /\ made = [loads |-> 0, saves |-> 0]

Administrator ==
  \/ \E s \in Shops : SelectShop(s)
  \/ Leave \/ Return \/ Refresh
  \/ \E i \in Items : SaveRow(i) \/ \E p \in Prices : Type(i, p)
  \/ OpenSheet \/ CloseSheet \/ Confirm

Answer(c) ==
  \/ Write(c) \/ Finish(c) \/ Read(c) \/ Lose(c) \/ TimeOut(c)
  \/ Saved(c) \/ SaveFailed(c) \/ Loaded(c)
Network == \E c \in calls : Answer(c)

Next == Administrator \/ Network

\* A call is answered or times out, and the screen goes on.
Spec == Init /\ [][Next]_vars /\ WF_vars(Network)

-----------------------------------------------------------------------------
\* A shop whose prices are published has the prices of a sheet that was confirmed for it, once its
\* saves have made both their commits: a row's save takes the publication back ("Updated today" in
\* PriceRow; services/pricing.py), and loads, refreshes, given-up saves and crashes between the
\* commits of a publication publish nothing else.  Excepted, until all rows are written again, is
\* a shop with a row saved between the commits of its publication, or saved by half.
PublishedAsReviewed ==
  \A s \in published \ torn :
    HalfDone(s) = {} => \E rows \in reviewed[s] : \A i \in Sells[s] : price[s][i] = rows[i]

\* The prices in the grid are those of the shop whose name is above it: what "Save
\* today's prices" publishes there (PriceGrid's sheet, useShopPrices).
BoardIsOfShop == Grid => board.shop = selected

\* Spinners and locked buttons come back: every load and every save ends, the ones
\* aborted by a later load included.
ScreenSettles ==
  (savingAll \/ loading \/ refreshing \/ savingRow # None)
    ~> ~(savingAll \/ loading \/ refreshing \/ savingRow # None)
=============================================================================
