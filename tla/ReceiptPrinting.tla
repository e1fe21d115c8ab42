--------------------------- MODULE ReceiptPrinting ---------------------------
(***************************************************************************)
(* Receipts from the press of a button to the paper: the screens of a shop *)
(* that save something and print its receipt (checkout-screen.tsx,         *)
(* retailer-checkout-screen.tsx, retailer-sale-detail-screen.tsx,          *)
(* retailer-sales-screen.tsx, shop-bill-detail-screen.tsx), the hook they  *)
(* print with (use-receipt-image-print-job.tsx) and the printers' driver.  *)
(*                                                                         *)
(* The hook shows the receipt in a hidden WebView (the bridge), which      *)
(* turns it into images for the driver.  It holds one job and the promise  *)
(* of whoever waits for it; every screen prints jobs of one page.          *)
(***************************************************************************)
EXTENDS Printer, SequencesExt

CONSTANTS
  MaxPresses,  \* bound: presses of buttons
  Preferred,   \* printers that may be the saved one at a press
  MaxReloads,  \* bound: loads of the screen
  Screens      \* the screens that may be open

VARIABLES
  screen,   \* the screen that is open, None once it was left
  loading,  \* does the screen show that it is loading?
  reloads,  \* loads so far
  press,    \* what each press does
  saved,    \* presses whose bill, sale or payment the server has
  status,   \* receipt status of the presses' bills
  pending,  \* the press whose promise the hook holds
  job,      \* the press whose receipt the bridge shows
  attempt,  \* the bridge's attempt, counted from 0
  busy,     \* printInFlightRef
  web,      \* what the bridge's WebView does
  mounts    \* times the bridge was mounted

app == <<screen, loading, reloads>>
server == <<saved, status>>
promise == <<press, pending>>
bridge == <<job, attempt, busy, web>>
vars == <<driver, devices, app, server, promise, bridge, mounts>>

Presses == 1..MaxPresses

\* Faulty: the retailer's sale is saved before its receipt is printed.
SaveFirst == [
  checkout |-> <<"save", "print", "patch">>, reprint |-> <<"save", "print", "patch">>,
  retailer |-> <<"preview", "save", "print">>, collect |-> <<"save", "print">>,
  receipt |-> <<"print">>, settle |-> <<"save", "print">>]

\* The handlers, by what their buttons are for: what each waits for, in its order.
Script == [
  checkout |-> <<"save", "print", "patch">>,
  reprint |-> <<"save", "print", "patch">>,
  retailer |-> <<"preview", "print", "save">>,
  collect |-> <<"save", "print">>,
  receipt |-> <<"print">>,
  settle |-> <<"save", "print">>]

Buttons == [
  checkout |-> {"checkout"}, billDetail |-> {"reprint"}, retailerCheckout |-> {"retailer"},
  saleDetail |-> {"collect", "receipt"}, sales |-> {"settle"}]

ASSUME ScreensAssumption ==
  /\ Screens \subseteq DOMAIN Buttons
  /\ {MaxPresses, MaxReloads} \subseteq Nat /\ None \notin Presses
  /\ None \notin DOMAIN Script
  /\ Preferred \in [Presses -> SUBSET Devices]

-----------------------------------------------------------------------------
(* The hook.                                                               *)

Idle == [kind |-> None, device |-> None, step |-> 0, printed |-> "no"]

Step(p) == IF press[p].step \in DOMAIN Script[press[p].kind]
           THEN Script[press[p].kind][press[p].step] ELSE "over"
UnderWay(p) == press[p].kind # None /\ Step(p) # "over"

Ending(r) == [r EXCEPT !.step = Len(Script[r.kind]) + 1]

\* A receipt that did not print ends the handler, but for a status to be patched,
\* which is what the scripts that have one end with.
Unprinted(r) ==
  IF Last(Script[r.kind]) = "patch"
  THEN [r EXCEPT !.printed = "failed", !.step = Len(Script[r.kind])]
  ELSE [Ending(r) EXCEPT !.printed = "failed"]

After(r, how) ==
  IF how = "done" THEN [r EXCEPT !.step = @ + 1, !.printed = "yes"] ELSE Unprinted(r)

\* The bridge shows p's receipt, in a WebView of its own.
Show(p) ==
  /\ job' = p /\ attempt' = 0 /\ busy' = FALSE
  /\ web' = IF p = None \/ loading \/ screen = None THEN "none" ELSE "loading"

\* Faulty: a job that is replaced is forgotten with its promise.
Forget(p) == press' = press

\* The promise of the job before it is rejected (startReceiptHtmlPrintJob).
Replaced(p) ==
  press' = IF pending = None THEN press ELSE [press EXCEPT ![pending] = After(@, "failed")]

\* The handler of p starts its print job.
StartJob(p) ==
  /\ UnderWay(p) /\ Step(p) = "print" /\ press[p].printed = "no"
  /\ pending # p
  /\ IF screen = None  \* the hook is gone, and nothing settles the promise any more
     THEN press' = [press EXCEPT ![p].printed = "never"] /\ UNCHANGED <<pending, bridge>>
     ELSE Replaced(p) /\ pending' = p /\ Show(p)
  /\ UNCHANGED <<driver, devices, app, server, mounts>>

\* clearPendingJob: whoever waits is told.
ClearPending(how) ==
  /\ press' = IF pending = None THEN press ELSE [press EXCEPT ![pending] = After(@, how)]
  /\ pending' = None
  /\ Show(None)

-----------------------------------------------------------------------------
(* The bridge.                                                             *)

NextAttempt == attempt' = attempt + 1 /\ busy' = FALSE /\ web' = "loading" /\ UNCHANGED job

\* retryReceiptExport, in the closure of an attempt.  The closure may be of a job
\* that was replaced, or of a bridge that is not mounted any more.
Retry(closure) ==
  IF closure.attempt >= 1 THEN ClearPending("failed")
  ELSE IF closure.mount = mounts /\ job # None /\ web # "none"
       THEN NextAttempt /\ UNCHANGED promise
       ELSE UNCHANGED <<promise, bridge>>

Closure == [press |-> job, attempt |-> attempt, mount |-> mounts, device |-> press[job].device]

\* handleLoadEnd and the script it injects.
Load ==
  /\ web = "loading"
  /\ web' = "exporting"
  /\ UNCHANGED <<driver, devices, app, server, promise, job, attempt, busy, mounts>>

\* handleMessage: the images go to the driver ...
Export ==
  /\ web = "exporting" /\ ~busy
  /\ web' = "exported" /\ busy' = TRUE
  /\ Enqueue(Job("image", press[job].device, Closure))
  /\ UNCHANGED <<at, sent, result, session, drain, timer, devices, app, server, promise,
                 job, attempt, mounts>>

\* ... or the export failed.
ExportFails ==
  /\ web = "exporting" /\ ~busy
  /\ Retry(Closure)
  /\ UNCHANGED <<driver, devices, app, server, mounts>>

\* Faulty: the outcomes are mixed up.
RetryPrinted(closure, how) ==
  IF how = "done" THEN Retry(closure) ELSE ClearPending("failed")

\* What handleMessage does when the driver is done: the page was the last one.
Printed(closure, how) ==
  IF how = "done" THEN ClearPending("done") ELSE Retry(closure)

Driver ==
  /\ DriverStep
  /\ IF Len(queue') < Len(queue) /\ Current.kind = "image"
     THEN Printed(Current.for, result') ELSE UNCHANGED <<promise, bridge>>
  /\ UNCHANGED <<app, server, mounts>>

-----------------------------------------------------------------------------
(* The screen.                                                             *)

\* A button waits for its own handler (submitting, reprinting).  The receipts of a sale
\* have a button each, and closing the form that settles what a retailer owes and opening
\* it again frees its button.
Blocked(kind) == kind \notin {"receipt", "settle"} /\ \E p \in Presses : UnderWay(p) /\ press[p].kind = kind

Press(p, kind, device) ==
  /\ press[p].kind = None
  /\ p > 1 => press[p - 1].kind # None
  /\ device \in Preferred[p]
  /\ screen # None /\ kind \in Buttons[screen]
  /\ ~loading /\ ~Blocked(kind)
  /\ press' = [press EXCEPT ![p] = [Idle EXCEPT !.kind = kind, !.device = device, !.step = 1]]
  /\ UNCHANGED <<driver, devices, app, server, pending, bridge, mounts>>

\* The server saves what the press asks for; its answer may be lost, and it may refuse.
\* Either way a bill that was to be printed again counts as not printed.
Ask(p) ==
  /\ UnderWay(p) /\ Step(p) \in {"preview", "save"}
  /\ \E answer \in {"done", "lost", "refused"} :
       /\ saved' = IF Step(p) = "save" /\ answer # "refused" THEN saved \cup {p} ELSE saved
       /\ press' = [press EXCEPT ![p] =
            IF answer = "done" THEN [press[p] EXCEPT !.step = @ + 1]
            ELSE IF @.kind = "reprint" THEN Unprinted(@) ELSE Ending(@)]
  /\ UNCHANGED <<driver, devices, app, status, pending, bridge, mounts>>

\* patchBillReceiptStatus; a failure to is ignored.
Patch(p) ==
  /\ UnderWay(p) /\ Step(p) = "patch"
  /\ status' = [status EXCEPT ![p] = IF press[p].printed = "yes" THEN "printed" ELSE "failed"]
  /\ press' = [press EXCEPT ![p].step = @ + 1]
  /\ UNCHANGED <<driver, devices, app, saved, pending, bridge, mounts>>

\* The bill or the sale is loaded again, from the header or when the screen gets the
\* focus back: meanwhile the screen shows that it is loading, and not the bridge.
Reload ==
  /\ screen \in {"billDetail", "saleDetail"} /\ ~loading
  /\ reloads < MaxReloads
  /\ loading' = TRUE /\ reloads' = reloads + 1
  /\ web' = "none"
  /\ UNCHANGED <<driver, devices, screen, server, promise, job, attempt, busy, mounts>>

\* A bridge that is mounted begins with the job that is there.
Loaded ==
  /\ loading
  /\ loading' = FALSE
  /\ mounts' = mounts + 1
  /\ attempt' = 0 /\ busy' = FALSE
  /\ web' = IF job = None THEN "none" ELSE "loading"
  /\ UNCHANGED <<driver, devices, screen, reloads, server, promise, job>>

\* The screen is left: the job is interrupted.
Leave ==
  /\ screen # None
  /\ screen' = None /\ loading' = FALSE
  /\ press' = IF pending = None THEN press ELSE [press EXCEPT ![pending] = After(@, "failed")]
  /\ pending' = None
  /\ job' = None /\ attempt' = 0 /\ busy' = FALSE /\ web' = "none"
  /\ mounts' = mounts + 1
  /\ UNCHANGED <<driver, devices, reloads, server>>

-----------------------------------------------------------------------------
Init ==
  /\ DriverInit
  /\ screen \in Screens /\ loading = FALSE /\ reloads = 0
  /\ press = [p \in Presses |-> Idle]
  /\ saved = {} /\ status = [p \in Presses |-> "pending"]
  /\ pending = None /\ job = None /\ attempt = 0 /\ busy = FALSE /\ web = "none"
  /\ mounts = 0

Bridge == Load \/ Export \/ ExportFails
Handlers == \E p \in Presses : StartJob(p) \/ Ask(p) \/ Patch(p)
Outside == (DevicesStep \/ IdleTimeout \/ Background)
           /\ UNCHANGED <<app, server, promise, bridge, mounts>>

Next ==
  \/ \E p \in Presses, kind \in DOMAIN Script, d \in Devices : Press(p, kind, d)
  \/ Handlers \/ Bridge \/ Driver
  \/ Reload \/ Loaded \/ Leave
  \/ Outside

\* The server answers or the call times out, the WebView answers, and the native module
\* settles its promises.
Fairness == WF_vars(Handlers) /\ WF_vars(Bridge) /\ WF_vars(Driver) /\ WF_vars(Loaded)

Spec == Init /\ [][Next]_vars
FairSpec == Spec /\ Fairness

-----------------------------------------------------------------------------
\* Every variable has its type: printer/index.ts, use-receipt-image-print-job.tsx.
TypeOK ==
  /\ at \in {"start", "connecting", "again", "running"}
  /\ sent \in 0..Slices /\ result \in {"done", "failed"}
  /\ {session, link} \subseteq Devices \cup {None} /\ on \subseteq Devices
  /\ {drain, timer, loading, busy} \subseteq BOOLEAN
  /\ screen \in Screens \cup {None}
  /\ {pending, job} \subseteq Presses \cup {None}
  /\ {attempt, mounts, cuts, reloads} \subseteq Nat
  /\ web \in {"none", "loading", "exporting", "exported"}
  /\ saved \subseteq Presses /\ status \in [Presses -> {"pending", "printed", "failed"}]

\* The slices of p's receipt that are on paper, or that its printer was sent and will print
\* while it stays on and connected.
Slice(p, n) ==
  \/ \E d \in Devices : \E i \in DOMAIN paper[d] :
       paper[d][i].for.press = p /\ paper[d][i].slice = n
  \/ \E i \in DOMAIN buffer : buffer[i].for.press = p /\ buffer[i].slice = n

HasReceipt(p) == \A n \in 1..Slices : Slice(p, n)

\* One button at a time, on a screen that stays as it is, and printers that stay on and are done
\* with what they were sent when the wait for it is over.
Undisturbed ==
  /\ cuts = 0 /\ reloads = 0
  /\ \A p \in Presses : press[p].kind \notin {"collect", "receipt", "settle"}

\* While nothing disturbs, a receipt that counts as printed was printed or is in the buffer of its
\* printer, and so was that of a bill whose status says so, whatever failed and was tried again:
\* on the checkout and bill screens.
PrintedIsPrinted ==
  Undisturbed => \A p \in Presses :
    press[p].printed = "yes" \/ status[p] = "printed" => HasReceipt(p)

\* While nothing disturbs, a retailer's sale is saved only once its receipt was printed, or sent to
\* the printer to the last slice (handleCheckout of retailer-checkout-screen.tsx).
SavedSaleHasReceipt ==
  Undisturbed => \A p \in saved : press[p].kind = "retailer" => HasReceipt(p)

\* While nothing disturbs, a press prints its receipt once, however often the printing was tried.
PrintedOnce ==
  Undisturbed => \A d \in Devices : \A i, j \in DOMAIN paper[d] :
    paper[d][i].slice = paper[d][j].slice /\ paper[d][i].for.press = paper[d][j].for.press => i = j

\* What comes out of a printer are whole receipts, each once.
PaperInv == TypeOK /\ ReceiptsWhole /\ PrintedOnce

\* While nothing disturbs, a receipt that the app takes as printed, by its status or by saving its
\* sale, is on paper or in the buffer of a printer that is still connected.
ToldAsPrinted == PrintedIsPrinted /\ SavedSaleHasReceipt

\* A handler whose screen was left before it began to print waits for ever.
Waits(p) == UnderWay(p) /\ press[p].printed # "never"

\* Every press ends and frees its button, whatever replaced, interrupted or failed its
\* print job (presses are bounded: if each ends, there is a time when all have).
PressesEnd == (\E p \in Presses : Waits(p)) ~> (\A p \in Presses : ~Waits(p))

\* A receipt counts as printed only if it was, even where several buttons print: "A new
\* receipt print job replaced the previous unfinished job."
EveryReceiptPrinted ==
  cuts = 0 => \A p \in Presses : press[p].printed = "yes" => HasReceipt(p)

\* An image that could not be sent is an error of its job, which "Receipt printing was
\* stopped to avoid garbled text output" would tell: a job that ends well ends connected.
LostImagesAreErrors ==
  [][Len(queue') < Len(queue) /\ Current.kind = "image" /\ result' = "done"
       => link = Current.device]_vars
=============================================================================
