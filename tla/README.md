# Verification of Duro_POS

TLA+ models of Duro_POS ("Brolier 360"), the TLC configurations that check them
on small instances, and TLAPS proofs of what matters most. Duro_POS is a point
of sale for meat shops: a FastAPI back end on PostgreSQL (`backend/`), an Expo
application for shops and their office (`frontend/`), receipt printers
(`frontend/printer`), and Caddy in front of two API processes (`caddy/`,
`compose.yaml`).

## 1. The system

### How the back end runs

- **Several handlers at once.** Two API processes serve requests, each many at
  a time on an event loop. Nothing that matters to a bill or to money is kept in
  memory between requests: what handlers share is the database.
- **One transaction per request.** `db/tenant_session.py` opens a session on
  the tenant's schema; the service commits, an exception rolls back. A service
  may commit more than once (the backdate policy's row, the daily prices).
- **READ COMMITTED.** Every statement sees what is committed when it starts.
  `SELECT ... FOR UPDATE` waits for the holder of the row; an INSERT waits for
  an uncommitted row with the same unique key; an INSERT with a foreign key
  takes FOR KEY SHARE on the parent, which conflicts with FOR UPDATE.
- **The session's memory.** SQLAlchemy keeps the first object it read for a
  row; locking the row later does not refresh it. A flush writes the columns
  that differ from what was read, and only those.

### How the app runs

- **One thread, many calls.** JavaScript runs a handler until its next `await`;
  in between anything else may happen: answers, presses, screens that are left
  and entered, timers, the app in the background or killed. A call that was
  aborted ends, one that was not goes on without its screen.
- **Closures.** What a handler reads before an `await` is what it uses after it.
  A React state set afterwards goes to whatever is on the screen by then.
- **An eager client.** `api/client.ts` ends every call with a time-out, and
  sends one it got no answer to again, possibly to the other process, whatever
  the method; a 401 signs the user out.

### Components

| component | state | operations | what is hard |
|---|---|---|---|
| Retail checkout (`services/billing.py`) | snapshots, bills, sequence rows, receipts, USE movements | preview, commit | resends and crashes, first bill of a month, lost races, an expired token, a price that changes |
| Bill administration (`services/billing.py`) | the rows of a bill, `audit_logs` | edit, cancel, receipt status, reprint | unlocked reads, column-wise writes |
| Retailer accounts (`retailer_*.py`, `retailers.py`) | opening and credit balance, sales, payments, purchases, payouts | sell, pay, edit, cancel, settle, pay out, purchase, void | one sum of money kept in several rows, some locked and some not |
| Shop stock (`inventory.py`, `transfer.py`, `weight_loss.py`, ...) | movements, transfers, nights applied, the policy's row | add, use, transfer, adjust, overnight loss | a stock nobody stores, two lock orders, writes made by reads |
| Daily prices (`pricing.py`, the price grid) | prices, publication, drafts, the review sheet | save a row, review, publish | two commits for one operation, a grid that changes under its sheet |
| Items of branches and retailers (`retailers.py`, the allocation tab) | allocations, wholesale prices, what is ticked | search, tick, save the whole set | what is ticked belongs to an older list or branch |
| API client (`api/client.ts`) | base URL, calls on their way, the session's abort scope | send, probe, fall back, resend, 401 | calls that outlive the session that made them |
| Session on the device (`auth-store.ts`, `bootstrap-auth.ts`) | token, epoch, secure storage | launch, validate, log in, sign out | five flows and a watchdog that meet at every `await`; storage without order |
| Receipt printing (`printer/index.ts`, the print hook, five screens) | job queue, connection, drain, bridge, promise | save and print, retry, reprint | closing a connection loses what is not printed yet; jobs that replace each other |
| Counter (billing and checkout screens, carts) | carts, prices on the phone, checkouts on their way | add, merge, press, leave | rounding, prices that change, a press whose answer is lost |
| Lists, forms, item editors, date filters | rows, pages, spinners; drafts, flags; draft files; ranges | load, page, refresh; open, save, dismiss; pick; choose | overlapping calls answered in any order |
| Sale numbers, logins of the back end, tenants, super administration, expenses, reports, storage, settings | single rows, schemas | create, update, list | see section 5 |

Components interact through rows and calls: checkout writes the stock's USE
movements and reads the stock without a lock; purchases from a retailer add
stock, fill his wallet and settle his sales; reports and the stock screen apply
the overnight loss as a side effect of reading; every screen goes through the
client, whose 401 ends the session; the counter prints and commits in an order
of its own, with prices the office may be changing.

What makes each correct: a commit request is idempotent and numbers are dense; a
bill agrees with its lines, its payment and its audit log; balances equal the
sum of the rows that explain them; no more stock leaves than came in and a night
is lost once; what is published was reviewed; a retailer is priced only for
items of his branch; a call stays in its session and an ended session stays
ended; paper comes out whole and once; a cart is billed once, a walk-in cart as it was
paid; a list shows what it is asked for; a save is shown. The code does not keep
all of these in all circumstances: section 3 says where the runs look away.
`PROJECT.json` lists every hazard at its line, with the properties about it.

## 2. The modules

In the back-end modules an action is one statement of a handler, or its last
statements together with the commit when nothing can be seen in between, and
`Crash` is possible at every statement. In the app's modules an action is what a
handler does between two `await`s.

### Back end

- **`BillBook`** is what billing promises: a cart is quoted once, bills are
  appended one at a time, a token is billed once and at its quote, the numbers of
  a month are 1, 2, 3, ... **`Checkout`** is
  `preview_bill` and `create_bill`: `load` the snapshot, `lookup` the bill,
  `stock`, `allocate` (then `next` or `first`), `inserted`, commit; `rescue` is
  the handler of `IntegrityError`. The world ticks the clock, changes the price,
  previews, and resends at will.
- **`BillAdmin`**: a committed bill, its lines, payment, receipt and audit log.
  `ReadBill`, `ReadLines`, `ReadPayment`, `ReadReceipt` are the SELECTs;
  `CommitEdit`, `CommitCancel` and `CommitAttempt` check what was read and write
  with `Update` the columns that differ from it. Any number of administrators and
  devices work on the bill at once, and an edit may name an item twice: the history
  variable `flaws` says what of this kind the bill has met.
- **`RetailerLedger`**: one retailer with his sales. `Script` gives the
  statements of each request in order; `txn[h]` is what the session remembers.
  `openingSet`, `openingPaid` and `paidOut` are the sums the balances are
  compared with.
- **`ShopStock`**: one item in one shop; the stock is the sum of `movements`.
  `Script` gives the order in which each request locks allocation and item,
  reads the policy, checks and commits. `BreakDeadlock` is PostgreSQL's
  detector; `MissPolicy` and `SeedPolicy` are the commit in the middle of a
  request; `ReadNights`, `ApplyNight`, `CommitNights` the overnight loss.

### Device

- **`ApiClient`**: every call of the app with the base URL, owner, scope and
  resends it carries. `Send`, `Settle`, `Wake`, `Resend` follow the request
  and response interceptors; probes are shared by the calls that fail meanwhile.
- **`Session`**: token, epoch and scope in memory, secure storage as a bag of
  operations that take effect in any order, and the flows (bootstrap with its
  watchdog, foreground validation, login, logout) at their `await`s. `Relaunch`
  kills the app and starts it again.
- **`Printer`** is the driver: job chain, shared connection, drain, idle timer,
  background. The drain is an estimate with a cap, so `Drain` may be over before the
  device is done (one of the `cuts`); `left` remembers the slices this happened to.
  **`ReceiptPrinting`** extends it by the bridge, the hook's one job and one promise,
  and the five screens that save and print.
- **`Counter`**: the phone's board, cart, checkout screen and the checkouts on
  their way, against the office that changes prices and items. Money is in
  paise, quantities in thousandths, rounded as the code rounds them.

### Screens

- **`ListScreen`** is how a screen loads, refreshes, searches and pages what it
  lists; what distinguishes one screen from another (does it abort, compare with
  the latest load, keep its rows, page by cursor, load on focus...) is a record,
  and **`AppLists`** has one, read off the code, for each of the 65 lists of the
  app. A list's record is what its `map` entry points at.
- **`FormScreen`** and **`AppForms`** do the same for the modals, row editors,
  switches, drags and screens that save: what disables Save, what may be left
  while it runs, what its end closes, patches, loads and waits for, and what a failure does. Saves
  of a form that can be pressed again, be switched on another row or be opened
  elsewhere may meet; the history variable `crossed` holds the records whose saves
  did.
- **`ItemEditor`**: the three editors of items with an image, whose save is
  several calls and whose draft files are copied on the device.
- **`PriceBoard`**: the price grid and its review sheet, against the two commits
  of `create_daily_prices` and `save_daily_price_row`, saves the screen has given
  up and crashes between the commits. `torn` is a history variable: the shops whose
  publication a row's save ran into, or whose save was left half done.
- **`AllocateItems`**: the tab that allocates items to branches and retailers,
  against the two synchronisations of the server, each of which checks and reads in
  one step (`Read`) and writes what differs in another. `crossed` holds the retailers
  whose prices and whose branch were saved over one another.
- **`DateFilters`**: every choice of days in the app, from records as above.

### Composition

`Checkout` implements `BillBook` (refinement). `ReceiptPrinting` composes the
screens, the bridge and `Printer`. `Counter` composes phone, server and office.
`Office` puts the three screens of the office that choose and price (it extends
`AllocateItems` and instances `PriceBoard` and `DateFilters`) beside one another,
and `Device` the client and the session (it extends `ApiClient` and instances
`Session`): each keeps the state of its parts apart, so that their runs and
their proofs name one module. `Billing` does the same for `Checkout` and
`BillAdmin`. `MCOffice` and `MCEditors` run independent screens
as one state space, the union of theirs: the variable `which` says which of them
is used, the others stay as they began. `MCSession` runs the session of `Device`,
`MCBillAdmin` the administration of `Billing`.

Modules named `MC...` give the constants their values. Operators whose comment
begins with "Faulty" are bugs the code does not have: each is the seeded fault
under which one property was seen to fail.

## 3. The runs

All pass.

| run | question | bounds |
|---|---|---|
| `checkout` | Do three handlers, two tokens, resends, expiry, a change of month and crashes keep one bill per token, dense numbers, stock drawn once and answers true? | 4 sends, 2 numbers a month, 3 instants |
| `checkout_refines` | Does checkout implement the book of bills, and does every request end? | 2 handlers, 3 tokens, 3 sends |
| `bill_admin` | Do edits, cancellations and print reports, any two at once, keep the bill consistent and its audit log true, but for the flaws named? | 2 handlers, 4 requests, 6 edits |
| `retailer_ledger` | Do all requests one after the other, and those that lock what they read together, keep sales, wallet and opening balance? | 3 requests, 2 sales, 1 purchase |
| `shop_stock` | Is stock covered, adjusted exactly, lost once a night, and does every request end? | 3 requests, up to 4 instants |
| `api_client` | Does a call stay in its session, does a late 401 spare the next one, does a call end? | 4 calls, 1 or 2 hosts, 2 sessions, 1 renewal |
| `session` | Does an ended session stay ended, and does the splash screen end? | 2 logins, 1 relaunch, 4 changes of session, 2 storage operations |
| `printing` | Are receipts printed whole and once, told as printed only once sent, cut off only after their wait, and does every press end? | 2 presses, 5 screens, 2 printers, 2 slices, 1 cut (a printer lost, or slower than its wait), 1 reload |
| `counter` | Does every line cost its quantity at its price within the rounding, is a walk-in bill what was shown and paid and a retailer's sale no less than was paid, is a cart billed once? | 2 items, 2 prices, 2 lines, 2 presses, 1 change |
| `lists` | Is what is listed what was asked for, do pages follow each other, do spinners stop? | 65 lists, 2 queries of 3 pages, 5 loads |
| `editors` | Does each form show what is saved, and is nothing busy for ever? Is the image that is saved the one that was shown? | every form, 2 records, 3 saves; 2 files, 3 acts |
| `office` | Is what is published what was reviewed, does the screen settle? Are retailers priced for allocated items only? Are ranges asked forward? | 2 shops, 1 item, 2 prices, 2 loads and 2 saves; 2 branches with a retailer each, 1 item, 2 loads, 2 saves; 3 days |

### Restrictions the runs state

Where the code races, either the model takes the race and a history variable says
which rows it has touched and for how long, or the run is restricted to the crews
and scenarios without it. Both are named here; the properties claim nothing about
the rest, which `PROJECT.json` records as findings with the line at fault.

- `flaws` (`bill_admin`): `mixed`, an edit was committed between the first SELECT of
  another and its commit, and `doubled`, an edit named an item twice, put payment,
  total and lines apart until the next edit by itself; `late`, something was
  committed over a cancellation it had not seen, and `uncounted`, reports that
  crossed counted as one. Each conjunct of `BillInv` and `AuditTellsLast` excepts
  the flaws it names and no other. A cancelled bill stays cancelled in any case.
- `torn` (`office`): a shop with a row saved between the two commits of a
  publication, or saved by half, until all its rows are written again.
- `crossed` (`office`): a retailer who had a save of his prices and one of his
  branch each committed over what the other had read, until all his prices are
  replaced. `crossed` (`editors`): a record whose save ran beside another
  that answers for it too, until it is saved with no such save beside.
- `Alone`, `Together` (`retailer_ledger`): payments read before they lock. An
  ASSUME of `MCRetailerLedger` checks them against `SafeCrews`, which the theorems
  assume: one handler serves everything (`Solo`), or those beside one another
  serve only cancellations, payouts, purchases and one of them settlements, which
  lock what they will use before they read it (`Apart`).
- `Lockers`, `Readers`, `FirstRequests`, `Billers` (`shop_stock`): bills read
  stock unlocked; a night is capped by the stock of its own midnight, so that one
  applied after a use, or after a later night, goes below zero; a backdated use is
  checked against the stock of its day and not against what was used since;
  adjusting stock and transfers in one request misses its target. An ASSUME of
  `MCShopStock` checks the scenarios against `SafeScenarios` and `OneGoal`, which
  the theorems assume: those who take stock lock it before they check it and give
  no time of their own (`Locked`); or one handler bills and the others add, at any
  time (`Billed`); or anybody reads and one handler adds, now (`Lost`).
- Named sets of `AppLists`: `LastAnswerWins` (an older answer is listed last),
  `AppendsOldPages`, `FollowsOldCursor`, `LeavesLoadRunning`, `FailsSilently`,
  `AppendsAfterRefresh`, `AbortsFirstPage` (its spinner stays). A list in one of
  them is exempt from the property it breaks and from no other. An ASSUME of
  `MCLists` checks that these are exactly the lists whose record breaks a rule:
  `OrdersQueries` for the first five, `OrdersPages` and `EndsSpinners` for the
  other two. The theorems assume the rules (`ScreensAreOrdered`).
- `Undisturbed` (`printing`): one button prints at a time, no screen is loaded anew,
  no printer is lost or slower than it is waited for. `PrintedOnce` and
  `ToldAsPrinted` speak of such times, and count what is in the buffer of a
  connected printer as printed; `ReceiptsWhole` and `NeverCutShort` hold always.
- The history of transfers asks for the range its two ends give, in order or not:
  `keeps = "nothing"` in `DateFilters`, excepted by `AsksForward`.
- `OneHostCallsSettle` (`api_client`): with two base URLs that both fail, a call
  alternates between them for ever.
- A cart whose checkout the phone was told had failed, or which was left while
  it ran, may be billed again: `doubted` in `Counter`. That a lost answer leads to a
  second bill is a finding.

### Findings

None has a run of its own. The chief ones beside those above: a weighed item
added to a cart twice is refused at checkout; a checkout that was left empties
the next customer's cart when its bill is saved; a retailer's sale is priced
anew after its receipt was printed; saving allocations after a search deletes
everything the search did not find, with the wholesale prices; a row price saved
between the two commits of a publication is published unreviewed; a print job
that was replaced is reported as printed; a receipt that takes its printer longer
than the capped wait is cut off; a payout can be sent twice; on the screen of image
templates the end of one row's save unlocks and closes another's; removing
the image of an item with a template clears the image and leaves the template;
today stays yesterday on a dashboard left open.

### Bounds, and why they are enough

- **Handlers**: three in `checkout`, because the third is needed to have one
  transaction hold a row, one wait for it and one arrive; two elsewhere, as the
  races are between two transactions.
- **Requests**: four sends let a token be sent three times beside another;
  three requests let any follow any two others (a payment, its edit, a void).
- **Time**: two instants of a token's life and one beyond; a stock's day is
  midnight and later, and `Readers` reaches the third day so that two nights can
  be missing and two reads can disagree about which.
- **Numbers**: `MaxSequence` 2 reaches the end of the format; amounts and
  quantities {1, 2} give partial, exact and excessive payments and uses. The
  counter's prices and amounts are chosen so that rounding matters (124 g at
  181.00 twice, an amount that is no multiple of a price).
- **Calls**: two sessions with a call between them, two calls that share a
  probe, an upload, the banner's button; five loads of a list let two first
  pages, a page, a refresh and a return to the screen overlap.
- **Records of the app**: every list, form and filter is an initial state, so no
  instance leaves one out.
- **Symmetry**: handlers and tokens of `checkout`, which are interchangeable
  there; never with a liveness property.
- **Deadlock** is checked in the back-end runs, where `Quiescent` stutters only
  at the bounds with all handlers idle, and in `api_client`, `session` and
  `printing`, whose `MCSpec` may stutter (`Quiet`): there it shows nothing beyond
  the liveness properties. `counter`, `lists`, `editors` and `office` switch it
  off: at the bounds a screen nobody touches has no step.

### Fairness

Never of users, crashes, refusals that depend on the request, or the clock.

- **Back end**: weak fairness of each handler's next statement. The event loop
  resumes a handler whose database call returned, PostgreSQL wakes a waiter when
  the holder ends and breaks deadlocks; requests are bounded, so no fairness is
  needed between waiters.
- **Calls of the app**: `timeout` is set on every call, so each ends: WF of
  `Server` (`ListScreen`, `FormScreen`), `Network` (`PriceBoard`), `Settle` and
  `Wake` and the probes (`ApiClient`), `Answers` (`Session`).
- **Session**: WF of `EndBootstrap` and `Watchdog` (a `finally` and a timer).
  None of storage: `SplashEnds` holds although storage may never answer.
- **Printing**: WF of the handlers, the bridge (its page loads or its timer
  fires), the driver (native calls are raced with timers) and the load of a
  screen.

## 4. The proofs

Eight modules; each theorem holds for every value of the constants that the
module's named ASSUME admits.

| module | theorems | why it holds |
|---|---|---|
| `BillingProofs` | `TypeCorrect`, `TokenBilledOnce`, `BillNumbersDense`, `SnapshotsStayLinked`, `AnswersStayTrue`, `ReservationsHold`, `BilledStockDrawnOnce`, `Refinement` | below |
| | `BillsAgree`, `AuditIsTrue` | below |
| `LedgerProofs` | `LedgerIsRight`, `CancelledForGood`, `OldestPaidFirst` | below |
| `DeviceProofs` | `SessionsKept`, `CallsStayInTheirSession`, `SessionsEndThemselves` | a scope belongs to one token: what is on its way has the scope and the token of the moment, what waits for a probe has both or an older scope, under which it is not sent |
| | `SendsAreInOrder` | `PaceInv`: a call has been sent twice only if it is marked as retried and under way, and its candidates are hosts without repetition that exclude the one it was sent to |
| | `EndedSessionsStayEnded` | below |
| `PrinterProofs` | `PrintsAreNotCutShort` | `DrainInv`: what a device was not waited for is still being sent, or the next job waits for it |
| | `ReceiptsAreWhole`, `ToldReceiptsArePrinted` | below |
| `StockProofs` | `StockHolds`, `NightsAreLostOnce`, `AdjustmentsHit` | below |
| `ScreenProofs` | `CartsBilledOnce`, `LinesAlwaysAddUp`, `BillsAreAsPaid` | below (Counter) |
| | `EditorsAgree`, `SavesShowTheirImage` | below |
| | `ListsTyped`, `OrderedListsShowTheirQuery`, `OrderedListsShowTheirPages`, `SpinnersTurnWithLoads` | below |
| | `FormsTyped`, `ListsShowWhatIsSaved` | below |
| `OfficeProofs` | `AllocateTypes`, `RetailersPricedAreAllocated` | `PricedInv`: what a save at work has checked and read is so (`Fits`), but for the retailers it has crossed |
| | `DaysAskedForward` | `DaysInv`: where a choice moves the other end along, every filter is in order, drafted or applied; where it does not, it is asked only whole |
| | `ReviewedIsPublished` | `BoardInv`: a shop that is not torn has the prices of a confirmed sheet; or a row was written since, and then the shop is not published, or the save of that row has still to take the publication back |
| `SumFacts` | (lemmas) | sums over finite sets, used by three of the others |

TLC checked each property first, as an invariant or action property of a run.
`FilterAssumption`, which `MCOffice` evaluates, is an assumption of the theorem
instead of the module; so are `EditorAssumption` and `ListAssumption`, `SafeCrews`,
which `MCRetailerLedger` evaluates, `SafeScenarios` and `OneGoal` (`MCShopStock`),
and `ScreensAreOrdered` (`MCLists`). The administration of bills, the price board
and the tab that allocates need no such assumption: their theorems speak of any
number of requests beside one another, and of what the history variables name.

**Checkout.** That a token is billed once cannot be seen from the bills: it
depends on what open transactions hold. `IInv` joins the properties with
`NumbersReserved` (an open transaction with a number holds the month's row and
its number is the next; one that has inserted its bill is alone with that token,
which has no bill) and `Running` (a handler that is not idle serves a token that
was issued, and a month's first bill has number 1). Only `CommitBill` changes
the bills, and `NumbersReserved` says it appends the next number of a token
without a bill; so does the step of the refinement. `OthersKeepReservations` is
the lemma that a commit takes nothing from the reservations of the others. What
is left of an item is its opening stock less what each billed cart holds of it,
once: a sum over the tokens that are billed, whatever the number of their bills.
A commit adds one term to it because its token had none (`NumbersReserved` again);
were a token billed twice, the stock would be short of the sum.

**Administration of a bill.** The flush writes the columns that differ from what
was read, so a commit is right if its session knows the rows, and nothing in the
code sees to that. Each session therefore carries the kinds of request that were
committed since its first SELECT (`crossed`), and `Knows` says that what it has
read of a column is still in the row unless one that writes it is among them
(`Unseen`). A commit that was not crossed replaces bill, lines and payment as a
whole (`UpdateFresh`) and has seen the status it checked; one that was leaves a
flaw, and which one follows from what crossed it. `BillIndInv` joins `Knows` with
the parts of `BillInv` and `AuditTellsLast`, each of which excepts its flaws. That
the total of a request is the sum of the stored lines is `EditAddsUp`: if each
item is named once the lines are a renaming of the items, and a sum does not
depend on its indices (`SumRenamed`).

**Ledger.** What a commit writes is computed from what its session read some
statements earlier. `LedgerIndInv` therefore says of each request that runs
which of what it read is still so: `KnowsRetailer`, `KnowsSales` and `KnowsRows`
follow the statements of `Script`, and `OwnNumber` says that its payment rows are
not there yet. A request that locks what it reads keeps this beside others
(`OthersKnow`); of the rest, `SafeCrews` says nobody is beside them. Without it
the invariant is false, and TLC shows the lost payment. The tables' side is
`Books`: the three sums the property speaks of, and what they rest on (a sale
that counts has the payment of its invoice; payments belong to sales that exist;
a cancellation spares the sales that a purchase settled). Every commit then is
an update of what the tables hold (`UpdateFresh`), and its payment rows change the
sums by what it writes into the balances: `AddRow` for one row, `SplitRows` for
a cancellation or a void, `PoolPays` for a settlement or a purchase, whose share
for each sale is what is left of the money after the older ones. From the same
invariant: `CancelledForGood`, since whoever writes a sale holds it and read its
status, and `OldestPaidFirst`, as a share is nothing unless all older ones are
whole.

**Stock.** The stock is a sum over rows that others add to, so what a
transaction has counted is right only while nobody adds what it counted.
`StockIndInv` says which of it still is, in any scenario: `Holds` and `Planned`
that an adjustment has the item's row from its count to its commit, and what it
will commit gives the stock it was asked for; `Nightly` and `LossRows` that a read
has taken one loss for each night it has gone through, as the tables hold one for
each night applied. Since the night's claim is unique, `NightsAreLostOnce` needs no
scenario. That the stock is covered has a reason of its own in each safe scenario,
and `StockHolds` keeps the one that applies: `LockedInv`, what was checked is under
the lock of who checked it, so the commit takes no more than there is; `BilledInv`,
nobody but the one that bills takes stock and none was taken after the time it
checks; `LostInv`, the nights that are applied, or that a read will apply, have no
gap since the first stock came in (`Closed`), so the cap of each has counted all
others; one of the findings is such a gap.

**Sums.** The provers have no induction over finite sets that takes an operator.
`MinimalSubset` replaces it: a set of subsets of a finite set that has a member
has one none of whose proper subsets is a member, so a sum that went wrong would
have gone wrong first at some set, and there the fold's definition refutes it.
`AddingAdds` shows in this way that the fold of the community modules does not
depend on the order in which it picks the elements; `SumTakeOut`, `SumSplit`,
`SumRenamed`, `SumAdd` and the others follow.

**Session.** That storage has forgotten a session once nothing is under way
cannot be seen from storage either. `StorageInv` says that while the payload is
one that ended, some operation under way removes it (a removal that has not
taken effect, or a write that was overtaken, whose function will issue one), and
that every write of an ended session is overtaken: its epoch is older than
`persist`. `MemoryInv` adds that tokens are issued in order and that before the
first change of a launch nothing was written, which is the only time storage is
read. Operations take effect in any order, so the invariant speaks of the
members of `writes`, never of their order.

**Receipts.** What a device printed and what is in its buffer are one line of
sheets (`Lines`), so that it does not matter when it prints. `JobInv` says that
in each line a slice follows the one before it of the same receipt, and that
what the running job sent last ends the line of the device it is connected to:
the receipt is whole. A connection that is closed after a wait that was too short
cuts the line back to what is on paper, and a line that begins as a whole one is
whole (`LinesClosed`); it counts in `cuts`, and leaves `Undisturbed`. That a
receipt is printed once, and before anybody is told so,
holds while presses do not disturb each other (`Undisturbed`, as the property
says). Then `OncePrinted` follows a receipt from the press through hook, bridge
and queue: what was not begun is nowhere, what waits for the driver is of the
press that waits for the hook, and what the driver runs has sent exactly the
slices the lines hold. The steps that lead out of `Undisturbed` need not keep
it, and no step leads back.

**Counter.** `NumberInv` tells presses apart by their number and bills by their
press; `ButtonInv` says that while the button is disabled its cart is on the
screen, and that once it is back a cart that was pressed for is gone or doubted.
Every way to get the button back (the bill is saved, a call fails, the screen is
left, a retailer is chosen) is one lemma. For the amounts, `LinesInv` says that
the lines of the cart, of a checkout on its way and of a bill fit the price they
carry up to what rounding a quantity costs (`Fitting`); adding to a line, merging
two, changing the price and preparing a checkout each keep this, by the bounds of
the two roundings (`RoundedIsNear`, `CostIsClose`, `AmountIsClose`).

**Editors.** A save is several calls and the item may have changed since the
editor was opened, so what is stored at the end is what was shown only if each
call finds what it expects. `JobInv` says so of a save whose screen is there and
knew the item's image (`Informed`): what is sent says what was shown
(`SendsWhatIsShown`: a draft, its removal, a template, or nothing about the image),
and the call that runs has what it needs, with the item's image still the one the
screen compared with until the call that replaces it (`CallSends`). Only the last
call of a save leaves the screen (`OnlySuccessLeaves`), and after it the item has
the image that was shown (`LastCallSaves`).

**Forms.** The list shows what the server has of a record unless a save of it is
under way, its last one failed (`told`), or it is `crossed`. `ListInv` says this
and what each save that is under way will bring (`UpToDate`): its change is on the
server once its first call was carried out, and a list that was loaded after that,
or that came with the answer, is the server's. `Alone` says that saves which may
answer for each other's records are all remembered as crossed, so that of the
others each save has its record, and the list it loads, to itself. The records of
`Forms` are any; `FormAssumption` asks only that a form which does nothing to its
list at the end showed the change ahead.

**Allocations and prices of the office.** Both have handlers with a gap between
what they check and what they write, and nothing locked in between. A save in the
gap knows what it read as long as no other that matters was committed; whom it was
crossed by is remembered with it (`met`) and makes the retailer `crossed`, or the
shop `torn`, when it commits. The invariants then follow the stages of a save:
checked, looked, written.

**Lists.** The theorems are about any records that keep the rules, so a new list
needs only its record: `OrdersQueries` asks that the latest load alone counts, or
that there is one load at a time, and that rows of an older query are taken away
or a failure is shown; `OrdersPages` that a page is a load like any other;
`EndsSpinners` that the load that ends turns off what it, and what it overtook,
turned on. What makes a list right at rest is a promise while loads are under way:
`AskedInv` says that a load of the present era is for the present query, and that
the rows are too, or such a load is awaited, or a failure is shown; `OrderInv` that
the pages listed are 1, 2, 3, ... and the page under way is the next; `SpinInv`
that a spinner that turns has a load that will turn it off. They rest on `LoadsInv`:
loads have numbers of their own, and a cursor points behind rows.

**Only model-checked**: the liveness properties (`EveryRequestEnds`,
`OneHostCallsSettle`, `SplashEnds`, `PressesEnd`, `SpinnersStop`, `SavesEnd`,
`ScreenSettles`), which the prover cannot reach; `SpinnersTurnWithLoads` is the half
of `SpinnersStop` that is no matter of fairness. Every other property of a run is
stated by a theorem.

## 5. Not modelled

- **Oversold stock** and the lock order of void against purchase are hazards
  without a property: the first is what the code does (a finding), the second
  needs `RetailerLedger` and `ShopStock` over common row locks.
- **Logins of the back end**: `permissions_version` is the `Revoke` of the
  device's modules; two raises that count once, the login index across tenants
  and the rate limit are not modelled.
- **Tenants**: provisioning and migrations run once, before anything is served;
  the purge of a shop beside a running checkout is a hazard without a property.
- **Super administration, expenses, purchasers, storage, settings**: their
  screens are lists, forms and editors; their server side is single rows.
- **Reports**: read-only aggregation and PDF layout; that a report applies
  missing nights is a read of `ShopStock`.
- Bird counts and categories, the content of receipts, test prints and sharing,
  the validation of form fields, how rows are drawn, the retailer part of the
  sales filter, the routers, deployment. Days are the same for UTC and Indian
  dates in the back-end modules.

## 6. Plan

1. `RowLocks`: the lock orders of retailer and stock requests composed (void
   against purchase), with the detector and retries.
2. A `StockBook` that `ShopStock` implements where nothing leaves unseen, and a
   wallet book for `RetailerLedger`.
3. `Permissions`: `permissions_version` raised by two requests, logout
   everywhere, the login index across schemas; `Purge`: a shop removed table by
   table beside its checkouts.
