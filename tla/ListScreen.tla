----------------------------- MODULE ListScreen -----------------------------
(***************************************************************************)
(* A screen that lists what the server has: it loads a first page when it  *)
(* opens, when its query changes (shop, filters, debounced search, page    *)
(* number), when it is refreshed and when the user comes back to it, and   *)
(* may load more pages from a cursor.  Several loads may be on their way,  *)
(* and their answers come in any order.  How a screen deals with that is   *)
(* its record in `Screens' (module AppLists); here is what they share:     *)
(* React's state and the closures that set it.                             *)
(***************************************************************************)
EXTENDS Naturals, Sequences

CONSTANTS
  Screens,   \* the screens under check
  Queries,   \* what a list may be asked for
  Pages,     \* pages the server has for a query
  MaxLoads   \* bound: loads made

VARIABLES
  screen,  \* the screen that is open
  query,   \* what it is asked for
  rows,    \* the pages listed: number, query, and query of the cursor that found it
  next,    \* the page the cursor points to, 0 at the end
  turning, \* spinners that turn
  failed,  \* is a failure shown?
  pulled,  \* has the list been refreshed by hand?
  calls,   \* loads on their way
  era,     \* the id of the latest load, as the screen counts them
  loads    \* loads made

listVars == <<screen, query, rows, next, turning, failed, pulled, calls, era, loads>>

ASSUME ListAssumption == Pages \in Nat \ {0} /\ MaxLoads \in Nat \ {0}

Spinners == {"loading", "refreshing", "more"}

\* Most screens: every answer counts, every end of a load turns the spinners off.
PlainList == [
  ask     |-> "loading",    \* spinner of a load for a query ("first": until there are rows),
  refresh |-> "refreshing", \* of a refresh,
  back    |-> "never",      \* of a return to the screen; "silent" has no spinner
  echo    |-> "never", \* a new query sets off a second load: of a return once rows are
                       \* "loaded", of a refresh once the list was "refreshed" by hand
  skips   |-> FALSE,   \* a query whose rows are listed is not asked for again
  single  |-> FALSE,   \* a load is dropped while another one runs; when that one was for
                       \* another query, its answer sets off a new load
  latest  |-> FALSE,   \* only the answer of the latest load counts ...
  endsLatest |-> FALSE, \* ... and only its end turns spinners off (of pages too, if they count)
  clears  |-> "never", \* the list is emptied by a new "query", or by every "load"
  stops   |-> {},      \* spinners a first page turns off when it starts,
  ends    |-> {"loading", "refreshing"}, \* when it ends,
  lands   |-> {},      \* and when it is listed
  tells   |-> {"ask", "back", "refresh", "more"}, \* loads whose failure is shown
  forgets |-> "start", \* the failure shown is cleared by the next "start" or "success"
  empties |-> FALSE,   \* a failure empties the list
  fails   |-> FALSE,   \* a failure takes the list's place, with a button to try again
  waits   |-> {"more"}, \* what holds the next page back: spinners, a "page" on its way
  counts  |-> FALSE,   \* the next page is a load like any other, and overtakes it
  checks  |-> "never", \* a page counts: of the "latest" load only, of the query "listed" only
  dedups  |-> TRUE,    \* rows already listed are left out of a page
  locks   |-> <<>>,    \* gestures the screen offers, and the spinners that disable each
  hides   |-> "never"] \* a spinner takes the place of the list while it is "empty" or
                       \* "always" when it loads, or of the whole "screen" while it is empty

-----------------------------------------------------------------------------
(* Gestures: a new query, a turn to another page number, a pull or a      *)
(* button that refreshes, another try, and the end of the list.            *)

Hidden ==
  \/ "loading" \in turning /\ (screen.hides = "always" \/ (screen.hides # "never" /\ rows = <<>>))
  \/ screen.fails /\ failed

Offers(gesture) ==
  /\ gesture \in DOMAIN screen.locks
  /\ screen.locks[gesture] \cap turning = {}
  /\ gesture \in {"pull", "end"} \/ screen.hides = "screen" => ~Hidden

Call(id, kind, q, page) == [
  id     |-> id, kind |-> kind, query |-> q, page |-> page,
  origin |-> IF kind = "more" THEN rows[1].query ELSE q,
  era    |-> IF kind = "more" /\ ~screen.counts THEN era ELSE id]

More == {c \in calls : c.kind = "more"}

Spinner(kind) ==
  CASE kind = "refresh" -> screen.refresh
    [] kind = "back"    -> screen.back
    [] kind = "more"    -> "more"
    [] kind = "ask" /\ screen.ask = "first" -> IF rows = <<>> THEN "loading" ELSE "silent"
    [] OTHER            -> screen.ask

\* Loads of first pages, of the given kinds, one after the other.
LoadFirst(kinds, q) ==
  LET n == Len(kinds) IN
  /\ loads + n <= MaxLoads
  /\ IF screen.single /\ calls # {}
     THEN UNCHANGED <<turning, failed, calls, era, loads>>
     ELSE
       /\ calls' = calls \cup {Call(loads + i, kinds[i], q, 1) : i \in 1..n}
       /\ loads' = loads + n /\ era' = loads + n
       /\ turning' = (turning \ screen.stops) \cup ({Spinner(kinds[i]) : i \in 1..n} \cap Spinners)
       /\ failed' = (failed /\ (screen.forgets = "start" => \A i \in 1..n : kinds[i] \notin screen.tells))

Empty(asked) ==
  IF screen.clears = "load" \/ (screen.clears = "query" /\ asked)
  THEN rows' = <<>> /\ next' = 0 ELSE UNCHANGED <<rows, next>>

Listed(q) == rows # <<>> /\ rows[1].query = q

Ask(q) ==
  /\ Offers("ask") \/ Offers("turn")
  /\ q # query /\ query' = q
  /\ Empty(TRUE)
  /\ IF screen.skips /\ Listed(q)
     THEN UNCHANGED <<turning, failed, calls, era, loads>>
     ELSE LoadFirst(CASE screen.echo = "loaded" /\ rows # <<>> -> <<"ask", "back">>
                      [] screen.echo = "refreshed" /\ pulled   -> <<"ask", "refresh">>
                      [] OTHER -> <<"ask">>, q)
  /\ UNCHANGED <<screen, pulled>>

RefreshList ==
  /\ Offers("pull") \/ Offers("button")
  /\ LoadFirst(<<"refresh">>, query)
  /\ pulled' = (screen.echo = "refreshed")
  /\ Empty(FALSE)
  /\ UNCHANGED <<screen, query>>

Retry ==
  /\ failed /\ Offers("retry")
  /\ LoadFirst(<<"ask">>, query)
  /\ Empty(FALSE)
  /\ UNCHANGED <<screen, query, pulled>>

ComeBack ==
  /\ screen.back # "never"
  /\ LoadFirst(<<"back">>, query)
  /\ Empty(FALSE)
  /\ UNCHANGED <<screen, query, pulled>>

LoadMore ==
  /\ Offers("end") /\ next # 0 /\ screen.waits \cap turning = {}
  /\ "page" \in screen.waits => More = {}
  /\ loads < MaxLoads
  /\ calls' = calls \cup {Call(loads + 1, "more", query, next)}
  /\ loads' = loads + 1 /\ era' = IF screen.counts THEN loads + 1 ELSE era
  /\ turning' = turning \cup {"more"}
  /\ failed' = (failed /\ (screen.forgets = "start" => "more" \notin screen.tells))
  /\ UNCHANGED <<screen, query, rows, next, pulled>>

-----------------------------------------------------------------------------
(* Answers.                                                                *)

Overtaken(c) == c.era # era

\* Faulty: every first page counts.  Faulty: every page counts.
FirstPagesCount(c) == c.kind = "more" /\ screen.checks = "latest" /\ Overtaken(c)
PagesCount(c) == c.kind # "more" /\ screen.latest /\ Overtaken(c)

Dropped(c) ==
  IF c.kind = "more"
  THEN CASE screen.checks = "latest" -> Overtaken(c)
         [] screen.checks = "listed" -> ~Listed(c.query)
         [] OTHER -> FALSE
  ELSE screen.latest /\ Overtaken(c)

\* Faulty: the latest load turns off the spinner it turned on, and not that of a load it overtook.
OwnSpinner(c) == IF screen.endsLatest /\ Overtaken(c) THEN {} ELSE {Spinner(c.kind)}

\* What finally blocks do.
TurnedOff(c) ==
  IF screen.endsLatest /\ Overtaken(c) /\ (c.kind = "more" => screen.counts) THEN {}
  ELSE IF c.kind = "more" THEN {"more"} ELSE screen.ends

Page(c) == [page |-> c.page, query |-> c.query, origin |-> c.origin]

\* Faulty: a cursor behind the last page
FollowPastEnd(c) == c.page + 1

Follow(c) == IF c.page < Pages THEN c.page + 1 ELSE 0

Known(p) == screen.dedups /\ \E i \in DOMAIN rows : rows[i].page = p.page /\ rows[i].query = p.query

Answer(c) ==
  /\ IF Dropped(c)
     THEN turning' = turning \ TurnedOff(c) /\ UNCHANGED <<rows, next>>
     ELSE /\ turning' = turning \ (TurnedOff(c) \cup screen.lands)
          /\ next' = Follow(c)
          /\ rows' = IF c.kind # "more" THEN <<Page(c)>>
                     ELSE IF Known(Page(c)) THEN rows ELSE Append(rows, Page(c))
  /\ failed' = (failed /\ (screen.forgets = "success" => Dropped(c)))
  /\ IF screen.single /\ c.query # query
     THEN calls' = {Call(loads + 1, "ask", query, 1)} /\ loads' = loads + 1 /\ era' = loads + 1
     ELSE calls' = calls \ {c} /\ UNCHANGED <<era, loads>>
  /\ UNCHANGED <<screen, query, pulled>>

LoadFails(c) ==
  /\ calls' = calls \ {c}
  /\ turning' = turning \ TurnedOff(c)
  /\ failed' = (failed \/ (~Dropped(c) /\ c.kind \in screen.tells))
  /\ IF screen.empties /\ ~Dropped(c) THEN rows' = <<>> /\ next' = 0 ELSE UNCHANGED <<rows, next>>
  /\ UNCHANGED <<screen, query, pulled, era, loads>>

-----------------------------------------------------------------------------
ListInit ==
  /\ screen \in Screens /\ query \in Queries
  /\ rows = <<>> /\ next = 0 /\ failed = FALSE /\ pulled = FALSE
  /\ turning = (IF screen.ask = "first" THEN {"loading"} ELSE {screen.ask} \cap Spinners)
  /\ calls = {[id |-> 1, kind |-> "ask", query |-> query, page |-> 1, origin |-> query, era |-> 1]}
  /\ era = 1 /\ loads = 1

Loads == [id : 1..MaxLoads, kind : {"ask", "refresh", "back", "more"}, query : Queries,
             page : 1..Pages, origin : Queries, era : 1..MaxLoads]

\* Rows are pages of queries, spinners are known, and every load has its number.
ListTypeOK ==
  /\ screen \in Screens /\ query \in Queries
  /\ rows \in Seq([page : 1..Pages, query : Queries, origin : Queries])
  /\ next \in 0..Pages /\ turning \subseteq Spinners
  /\ failed \in BOOLEAN /\ pulled \in BOOLEAN
  /\ calls \subseteq Loads
  /\ loads \in 1..MaxLoads /\ era \in 1..loads

ListUser == (\E q \in Queries : Ask(q)) \/ RefreshList \/ Retry \/ ComeBack \/ LoadMore
ListServer == \E c \in calls : Answer(c) \/ LoadFails(c)

ListNext == ListUser \/ ListServer

\* Every load is answered or times out (the client's limit of ApiClient).
ListSpec == ListInit /\ [][ListNext]_listVars /\ WF_listVars(ListServer)
=============================================================================
