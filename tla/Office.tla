------------------------------- MODULE Office -------------------------------
(***************************************************************************)
(* Three screens of the office, each by itself: the allocation of items    *)
(* (AllocateItems), the prices of the day (PriceBoard), and the days a     *)
(* list is asked for (DateFilters).                                        *)
(***************************************************************************)
EXTENDS AllocateItems

CONSTANTS
  BoardShops, BoardItems, DayPrices, MaxCalls, NoPrice,   \* of the prices
  Sells,                                                   \* the items of each shop
  LastDay, PerMonth, Spill                                 \* of the days

VARIABLES
  which,   \* the screen
  price, published, torn, selected, focused, board, loading, refreshing, savingRow, savingAll,
  drafts, review, confirmed, reviewed, posts, made,
  picker, sheet, target, month, chosen, filter, asked

boardVars == <<price, published, torn, selected, focused, board, loading, refreshing, savingRow,
               savingAll, drafts, review, confirmed, reviewed, posts, made>>
datesVars == <<picker, sheet, target, month, chosen, filter, asked>>
officeVars == <<which, vars, boardVars, datesVars>>

Prices == INSTANCE PriceBoard WITH
  Shops <- BoardShops, Items <- BoardItems, Prices <- DayPrices, None <- NoPrice,
  sheet <- review, calls <- posts

Dates == INSTANCE DateFilters WITH draft <- chosen

ASSUME OfficeAssumption == Dates!FilterAssumption /\ Prices!BoardAssumption

-----------------------------------------------------------------------------
Board == which = "prices" /\ Prices!Next /\ UNCHANGED <<which, vars, datesVars>>

Answered == which = "prices" /\ Prices!Network /\ UNCHANGED <<which, vars, datesVars>>

Allocation == which = "items" /\ Next /\ UNCHANGED <<which, boardVars, datesVars>>

Filter == which = "dates" /\ Dates!Next /\ UNCHANGED <<which, boardVars, vars>>

OfficeInit ==
  /\ which \in {"prices", "items", "dates"}
  /\ Prices!Init /\ Init /\ Dates!Init

OfficeSpec ==
  OfficeInit /\ [][Board \/ Allocation \/ Filter]_officeVars /\ WF_officeVars(Answered)

-----------------------------------------------------------------------------
\* What is published was reviewed, but in a shop with a row saved between the commits of its
\* publication (PriceBoard).
PublishedAsReviewed == Prices!PublishedAsReviewed

\* Spinners and locked buttons of the prices come back (PriceBoard).
ScreenSettles == Prices!ScreenSettles

\* No screen but the history of transfers asks for a reversed range of days, and none for half a
\* range (DateFilters).
AsksForward == Dates!AsksForward
=============================================================================
