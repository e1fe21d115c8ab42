---------------------------- MODULE DateFilters ----------------------------
(***************************************************************************)
(* Which days a list, a dashboard or a report is asked for: all, today, a  *)
(* day, a week or month or year, a range.  Two ways to choose a range are  *)
(* in the app: a field for each end, each with its calendar, and a grid    *)
(* whose first tap begins the range and whose second ends it.  What a      *)
(* screen's filter is like is its record in `AppPickers'.                  *)
(***************************************************************************)
EXTENDS Integers

CONSTANTS
  LastDay,    \* bound: days 1 .. LastDay, the last one today
  PerMonth,   \* days of a month
  Spill       \* days of its neighbours that a month's grid shows

VARIABLES
  picker,   \* the filter the screen has
  sheet,    \* it is shown
  target,   \* the field whose calendar is open
  month,    \* the month a calendar shows
  draft,    \* what the filter shows as chosen
  filter,   \* what the screen goes by
  asked     \* the days last asked for: the first and the last

vars == <<picker, sheet, target, month, draft, filter, asked>>

None == 0
Days == 1..LastDay
Today == LastDay

FilterAssumption == LastDay \in Nat \ {0} /\ PerMonth \in Nat \ {0} /\ Spill \in Nat

\* Two fields on the page that hold at once.
Fields == [
  draws  |-> "fields",
  keeps  |-> "moves",     \* a range in order: the other end "moves" along, the screen "refuses"
                          \* to ask for what is reversed, or "nothing" does
  waits  |-> "nothing",   \* what a button must confirm: "everything", the "range", "nothing"
  page   |-> TRUE,        \* it is part of the page, not a sheet
  resets |-> FALSE,       \* the sheet opens as new, not as applied
  clears |-> FALSE,       \* a button clears it
  shares |-> FALSE,       \* a day and a period are one date
  anew   |-> {},          \* modes that begin from today
  once   |-> FALSE,       \* the mode that is on is not chosen again
  first  |-> "date",
  modes  |-> {"date", "range"}]

\* A grid in a sheet, where only a range has to be confirmed.
Taps == [Fields EXCEPT !.draws = "taps", !.waits = "range", !.page = FALSE,
                       !.modes = {"date", "range", "period"}]

-----------------------------------------------------------------------------
(* Calendars and ranges.                                                   *)

MonthOf(d) == (d - 1) \div PerMonth

MonthDays(m) == <<m * PerMonth + 1, (m + 1) * PerMonth>>

Cells(m) == {d \in Days : MonthDays(m)[1] - Spill <= d /\ d <= MonthDays(m)[2] + Spill}

Range(f) ==
  CASE f.mode = "all" -> <<1, LastDay>>
    [] f.mode = "today" -> <<Today, Today>>
    [] f.mode = "date" -> <<f.date, f.date>>
    [] f.mode = "period" -> MonthDays(MonthOf(f.period))
    [] f.mode = "range" -> <<f.start, f.end>>

Askable(f) ==
  f.mode = "range" => f.end # None /\ (picker.keeps = "refuses" => f.start <= f.end)

Ask(f) == asked' = IF Askable(f) THEN Range(f) ELSE asked

\* Faulty: only the end whose calendar was open moves.
MovedAlone(f, end, d) == [f EXCEPT ![end] = d]

Moved(f, end, d) ==
  IF picker.keeps # "moves" THEN [f EXCEPT ![end] = d]
  ELSE CASE end = "start" -> [f EXCEPT !.start = d, !.end = IF @ < d THEN d ELSE @]
         [] end = "end" -> [f EXCEPT !.end = d, !.start = IF @ > d THEN d ELSE @]
         [] end = "date" -> [f EXCEPT !.date = d]

\* A tap on a whole range begins a new one; an earlier second day becomes the first.
Tapped(f, d) ==
  IF f.end # None THEN [f EXCEPT !.start = d, !.end = None]
  ELSE IF d < f.start THEN [f EXCEPT !.start = d, !.end = f.start]
  ELSE [f EXCEPT !.end = d]

OneDate(f, d) == IF picker.shares THEN [f EXCEPT !.date = d, !.period = d] ELSE f

Fresh(start) == [mode |-> picker.first, date |-> Today, period |-> Today, start |-> start, end |-> Today]

-----------------------------------------------------------------------------
(* The user.                                                               *)

\* Where nothing but a range waits, choices start from what the screen goes by.
Base == IF picker.waits = "everything" THEN draft ELSE filter

Commit(f) ==
  /\ draft' = f
  /\ IF picker.waits = "everything" THEN UNCHANGED <<filter, asked>> ELSE filter' = f /\ Ask(f)

OpenSheet ==
  /\ ~sheet /\ sheet' = TRUE
  /\ draft' = IF picker.resets THEN Fresh(Today) ELSE filter
  /\ month' = MonthOf(IF filter.mode = "range" THEN filter.start ELSE filter.date)
  /\ UNCHANGED <<picker, target, filter, asked>>

CloseSheet ==
  /\ sheet /\ ~picker.page
  /\ sheet' = FALSE /\ target' = "none"
  /\ UNCHANGED <<picker, month, draft, filter, asked>>

PickMode(m) ==
  /\ sheet /\ target = "none" /\ m \in picker.modes
  /\ picker.once /\ m = draft.mode => m = "period"   \* a week, then a month
  /\ LET f == [Base EXCEPT !.mode = m]
     IN  /\ Commit(IF m \in picker.anew THEN OneDate(f, Today) ELSE f)
         /\ month' = IF m = "range" THEN MonthOf(f.start) ELSE MonthOf(f.date)
  /\ sheet' = (picker.page \/ picker.waits = "everything" \/ m \notin {"all", "today"})
  /\ UNCHANGED <<picker, target>>

PickPeriod(d) ==
  /\ sheet /\ draft.mode = "period"
  /\ Commit(OneDate([Base EXCEPT !.period = d], d))
  /\ sheet' = picker.page
  /\ UNCHANGED <<picker, target, month>>

Fielded(end) == IF end = "date" THEN draft.mode = "date" ELSE draft.mode = "range"

OpenCalendar(end) ==
  /\ sheet /\ picker.draws = "fields" /\ target = "none" /\ Fielded(end)
  /\ target' = end /\ month' = MonthOf(draft[end])
  /\ UNCHANGED <<picker, sheet, draft, filter, asked>>

CloseCalendar ==
  /\ target # "none" /\ target' = "none"
  /\ UNCHANGED <<picker, sheet, month, draft, filter, asked>>

Shown == target # "none" \/ (picker.draws = "taps" /\ sheet /\ draft.mode \in {"date", "range"})

ShowMonth(m) ==
  /\ Shown /\ m \in {month - 1, month + 1} \cap (0..MonthOf(LastDay))
  /\ month' = m
  /\ UNCHANGED <<picker, sheet, target, draft, filter, asked>>

PickDay(d) ==
  /\ target # "none" /\ d \in Cells(month)
  /\ Commit(Moved(Base, target, d)) /\ target' = "none"
  /\ UNCHANGED <<picker, sheet, month>>

TapDay(d) ==
  /\ picker.draws = "taps" /\ Shown /\ d \in Cells(month)
  /\ IF draft.mode = "date"
     THEN /\ Commit(OneDate([Base EXCEPT !.date = d], d))
          /\ month' = MonthOf(d) /\ sheet' = picker.page
     ELSE /\ draft' = Tapped(draft, d)
          /\ UNCHANGED <<sheet, month, filter, asked>>
  /\ UNCHANGED <<picker, target>>

\* The button: a report may fail, and its sheet stay.
Apply ==
  /\ sheet /\ picker.waits # "nothing" /\ Askable(draft)
  /\ picker.waits = "range" => draft.mode = "range"
  /\ filter' = (IF picker.waits = "range" THEN [draft EXCEPT !.date = draft.start] ELSE draft)
  /\ draft' = filter' /\ Ask(filter') /\ target' = "none"
  /\ sheet' \in IF picker.resets THEN BOOLEAN ELSE {picker.page}
  /\ UNCHANGED <<picker, month>>

Clear ==
  /\ sheet /\ picker.clears
  /\ draft' = Fresh(Today) /\ filter' = Fresh(Today) /\ Ask(Fresh(Today)) /\ target' = "none"
  /\ UNCHANGED <<picker, sheet, month>>

-----------------------------------------------------------------------------
(* The filters of the app: the choices they keep, then what they show.     *)

\* All sales to retailers, in the office and in the shop: confirmed as a whole.
SalesDates == [Fields EXCEPT !.waits = "everything", !.page = FALSE, !.clears = TRUE, !.first = "all"]

OfficeSalesDates == SalesDates

OfficeSalesSheet == [OfficeSalesDates EXCEPT !.modes = {"all", "date", "range"}]

ShopSalesDates == SalesDates

ShopSalesSheet == [ShopSalesDates EXCEPT !.modes = {"all", "date", "range"}]

\* The statement shared with a retailer.
StatementDates == [Fields EXCEPT !.waits = "everything", !.page = FALSE, !.resets = TRUE, !.first = "all"]

StatementSheet == [StatementDates EXCEPT !.modes = {"all", "date", "range"}]

\* The history of stock, in the office and in the shop.
OfficeStockDates == Fields

OfficeStockPage == [OfficeStockDates EXCEPT !.modes = {"date", "range"}]

ShopStockDates == Fields

ShopStockPage == [ShopStockDates EXCEPT !.modes = {"date", "range"}]

\* What was transferred to another shop.
TransferDates == [Fields EXCEPT !.keeps = "nothing"]

TransferPage == [TransferDates EXCEPT !.modes = {"date", "range"}]

\* The prices of a day: of a shop, of a retailer, of what is bought.
PriceHistoryPage == [Taps EXCEPT !.waits = "nothing", !.page = TRUE, !.modes = {"date"}]

RetailerPricesPage == [Fields EXCEPT !.modes = {"date"}]

PurchaseRatesPage == [Fields EXCEPT !.modes = {"date"}]

\* The expenses of a shop: a range that is reversed is shown as such and not asked for.
ShopExpenseDates == [Fields EXCEPT !.keeps = "refuses", !.first = "today"]

ShopExpenseSheet ==
  [ShopExpenseDates EXCEPT !.modes = {"all", "today", "date", "range", "period"}]

\* The expenses in the office, the dashboard, the reports.
OfficeExpenseDates == [Taps EXCEPT !.first = "today"]

OfficeExpenseSheet ==
  [OfficeExpenseDates EXCEPT !.modes = {"all", "today", "date", "range", "period"}]

DashboardDates == [Taps EXCEPT !.shares = TRUE, !.anew = {"period"}, !.once = TRUE]

DashboardSheet == [DashboardDates EXCEPT !.modes = {"date", "range", "period"}]

ReportDates == [Taps EXCEPT !.waits = "everything", !.page = TRUE, !.shares = TRUE,
                            !.anew = {"date", "period"}]

ReportPage == [ReportDates EXCEPT !.modes = {"date", "range", "period"}]

AppPickers ==
  {OfficeSalesSheet, ShopSalesSheet, StatementSheet, OfficeStockPage, ShopStockPage, TransferPage,
   PriceHistoryPage, RetailerPricesPage, PurchaseRatesPage, ShopExpenseSheet, OfficeExpenseSheet,
   DashboardSheet, ReportPage}

-----------------------------------------------------------------------------
Init ==
  /\ picker \in AppPickers /\ sheet = picker.page /\ target = "none" /\ month = MonthOf(Today)
  /\ \E start \in Days : filter = Fresh(start)
  /\ draft = filter /\ asked = Range(filter)

Next ==
  \/ OpenSheet \/ CloseSheet \/ CloseCalendar \/ Apply \/ Clear
  \/ \E m \in picker.modes : PickMode(m)
  \/ \E end \in {"date", "start", "end"} : OpenCalendar(end)
  \/ \E m \in 0..MonthOf(LastDay) : ShowMonth(m)
  \/ \E d \in Days : PickPeriod(d) \/ PickDay(d) \/ TapDay(d)

Spec == Init /\ [][Next]_vars

-----------------------------------------------------------------------------
(* Properties.                                                             *)

\* No screen but the history of transfers asks for days that end before they begin, and none for
\* half a range, in whatever order its ends are chosen, left, cleared and confirmed: such a request
\* can only find nothing.  The history of transfers keeps no order and does ask for such days
\* (setHistoryRangeStart and setHistoryRangeEnd of admin-transfer-shops-tab.tsx).
AsksForward == asked[2] # None /\ (picker.keeps # "nothing" => asked[1] <= asked[2])
=============================================================================
