------------------------------- MODULE Printer -------------------------------
(***************************************************************************)
(* The driver of the receipt printers (frontend/printer/index.ts).  Jobs   *)
(* run one after the other on a chain of promises.  They share a session,  *)
(* an open connection to one device: it is closed when it was idle for     *)
(* some time, when the app leaves the foreground and when a job is for     *)
(* another device, but not before the device was given the time to print   *)
(* what it was sent (the drain), an estimate of at most DRAIN_CAP_MS.      *)
(*                                                                         *)
(* The native module and the devices are modelled from how the code uses   *)
(* them: what is written to an open connection is printed in order, and    *)
(* closing it loses what was not printed yet.                              *)
(***************************************************************************)
EXTENDS Naturals, Sequences

CONSTANTS
  Devices,   \* printers
  Slices,    \* images a receipt is cut into
  MaxQueue,  \* bound: jobs that wait to be disconnected, or to run
  MaxCuts,   \* bound: printers switched off, carried away or slower than they are waited for
  None       \* no device, no receipt

VARIABLES
  queue,    \* printerJobQueue: the jobs that have not ended, the first one runs
  at,       \* where the running job waits
  sent,     \* slices it has sent
  result,   \* how the job before it ended
  session,  \* device of activeSession
  drain,    \* pendingDrainMs > 0
  timer,    \* does idleDisconnectTimer run?
  link,     \* device the native module has a connection to
  on,       \* devices that are switched on and in reach
  buffer,   \* slices that were sent over the connection and not printed yet
  paper,    \* what came out of each device
  left,     \* history: slices in the buffer when a wait for them was over
  cuts      \* printers switched off, or slower than the wait, so far

driver == <<queue, at, sent, result, session, drain, timer>>
devices == <<link, on, buffer, paper, left, cuts>>

ASSUME PrinterAssumption ==
  /\ Slices \in Nat \ {0}
  /\ {MaxQueue, MaxCuts} \subseteq Nat
  /\ None \notin Devices

-----------------------------------------------------------------------------
(* The queue.                                                              *)

\* for is what the job prints for, None if nobody waits for it.
Job(kind, device, for) == [kind |-> kind, device |-> device, for |-> for]

Enqueue(job) == queue' = Append(queue, job)

Running == queue # <<>>
Current == Head(queue)

\* The promise of the running job settles, the next job starts.
Finish(how) == queue' = Tail(queue) /\ at' = "start" /\ sent' = 0 /\ result' = how

-----------------------------------------------------------------------------
(* The session.                                                            *)

\* Faulty: what was printed a moment ago is not waited for.
NoDrain == drain' = FALSE /\ timer' = TRUE

\* Printing leaves something to wait for, and every job starts the idle timer anew.
Release == drain' = (drain \/ Current.kind # "connect") /\ timer' = TRUE

\* The wait for what was printed before.  It may be over before the device is done: what was
\* sent is taken to be printed at DRAIN_BYTES_PER_SEC, in DRAIN_CAP_MS at the most.
Drain ==
  /\ Running /\ at = "start" /\ drain
  /\ drain' = FALSE
  /\ timer' = (timer /\ (Current.kind = "disconnect" \/ Current.device = session))
  /\ \/ /\ paper' = IF link = None THEN paper ELSE [paper EXCEPT ![link] = @ \o buffer]
        /\ buffer' = <<>> /\ left' = {}
        /\ UNCHANGED cuts
     \/ /\ buffer # <<>> /\ cuts < MaxCuts /\ cuts' = cuts + 1
        /\ left' = left \cup {buffer[i] : i \in DOMAIN buffer}
        /\ UNCHANGED <<paper, buffer>>
  /\ UNCHANGED <<queue, at, sent, result, session, link, on>>

CloseConnection == session' = None /\ link' = None /\ buffer' = <<>> /\ left' = {}

\* disconnectActiveSession, from the idle timer or the app's state.
Disconnect ==
  /\ Running /\ Current.kind = "disconnect" /\ at = "start" /\ ~drain
  /\ CloseConnection
  /\ timer' = FALSE
  /\ Finish("done")
  /\ UNCHANGED <<drain, on, paper, cuts>>

Reusable == session = Current.device

\* acquirePrinterSession: the open session, if it is the device's.
Acquire ==
  /\ Running /\ Current.kind # "disconnect" /\ at = "start" /\ ~drain
  /\ timer' = FALSE
  /\ IF Reusable THEN at' = "running" /\ UNCHANGED <<session, link, buffer, left>>
     ELSE at' = "connecting" /\ CloseConnection
  /\ UNCHANGED <<queue, sent, result, drain, on, paper, cuts>>

\* connectWithRetry.  A device that is there may still refuse.
Connect ==
  /\ Running /\ at \in {"connecting", "again"}
  /\ \/ /\ Current.device \in on
        /\ session' = Current.device /\ link' = Current.device
        /\ at' = "running"
        /\ UNCHANGED <<queue, sent, result>>
     \/ /\ at = "connecting"
        /\ at' = "again"
        /\ UNCHANGED <<queue, sent, result, session, link>>
     \/ /\ at = "again"
        /\ Finish("failed")
        /\ UNCHANGED <<session, link>>
  /\ UNCHANGED <<drain, timer, on, buffer, paper, left, cuts>>

\* getPrinterRuntime: no permission, no native module, or it does not start.
Unavailable ==
  /\ Running /\ at = "connecting"
  /\ Finish("failed")
  /\ UNCHANGED <<session, drain, timer, devices>>

-----------------------------------------------------------------------------
(* Printing.                                                               *)

Parts(kind) == CASE kind = "image" -> Slices [] kind = "text" -> 1 [] OTHER -> 0

\* Is the native module told to report the errors of a job?  The options of an
\* image slice hold an onError that is undefined, and take precedence.
Reports(kind) == kind = "text"

\* waitForPrintDispatch: after a fixed time what was dispatched counts as printed,
\* unless an error was reported by then.
Send ==
  /\ Running /\ at = "running" /\ sent < Parts(Current.kind)
  /\ buffer' = IF link = Current.device
               THEN Append(buffer, [for |-> Current.for, slice |-> sent + 1]) ELSE buffer
  /\ \/ sent' = sent + 1 /\ UNCHANGED <<queue, at, result, drain, timer>>
     \/ link # Current.device /\ Reports(Current.kind) /\ Finish("failed") /\ Release
  /\ UNCHANGED <<session, link, on, paper, left, cuts>>

\* The job is over.
Complete ==
  /\ Running /\ at = "running" /\ sent = Parts(Current.kind)
  /\ Finish("done") /\ Release
  /\ UNCHANGED <<session, devices>>

DriverStep == Drain \/ Disconnect \/ Acquire \/ Connect \/ Unavailable \/ Send \/ Complete

-----------------------------------------------------------------------------
(* Around the driver.                                                      *)

Bye == Job("disconnect", None, None)

\* One disconnection at a time is enough to ask for.
Room == Len(queue) < MaxQueue /\ \A i \in DOMAIN queue : queue[i] # Bye

\* The session was idle for SESSION_IDLE_DISCONNECT_MS.
IdleTimeout ==
  /\ timer
  /\ Room
  /\ timer' = FALSE
  /\ Enqueue(Bye)
  /\ UNCHANGED <<at, sent, result, session, drain, devices>>

\* The app leaves the foreground.  The listener is there from the first job on.
Background ==
  /\ session # None \/ Running
  /\ Room
  /\ Enqueue(Bye)
  /\ UNCHANGED <<at, sent, result, session, drain, timer, devices>>

\* The device prints what it was sent.
Prints ==
  /\ buffer # <<>>
  /\ paper' = [paper EXCEPT ![link] = Append(@, Head(buffer))]
  /\ buffer' = Tail(buffer)
  /\ left' = IF buffer' = <<>> THEN {} ELSE left
  /\ UNCHANGED <<driver, link, on, cuts>>

\* The connected device is switched off or carried away, for good; any other one may
\* refuse to connect all the same.
SwitchOff(d) ==
  /\ d \in on /\ link = d /\ cuts < MaxCuts
  /\ cuts' = cuts + 1
  /\ on' = on \ {d}
  /\ link' = None /\ buffer' = <<>> /\ left' = {}
  /\ UNCHANGED <<driver, paper>>

DevicesStep == Prints \/ \E d \in Devices : SwitchOff(d)

DriverInit ==
  /\ queue = <<>> /\ at = "start" /\ sent = 0 /\ result = "done"
  /\ session = None /\ drain = FALSE /\ timer = FALSE
  /\ link = None /\ on = Devices /\ buffer = <<>>
  /\ paper = [d \in Devices |-> <<>>] /\ left = {} /\ cuts = 0

-----------------------------------------------------------------------------
\* Whatever waits for the printer: idle timers, the app going to the background and
\* jobs for other devices never close a connection while the device prints what was not
\* waited for (the drain of withPrinterSession, scheduleIdleDisconnect and the app's
\* listener): all that is lost is what outlasted its wait.
NeverCutShort ==
  [][link # None /\ link' = None /\ on' = on => \A i \in DOMAIN buffer : buffer[i] \in left]_
    <<driver, devices>>

\* A device prints all it was sent before its connection is closed, which is what the drain is for
\* (index.ts, DRAIN_CAP_MS): a longer receipt, or a slower printer, is cut off.
PrintersAreWaitedFor ==
  [][link # None /\ link' = None /\ on' = on => buffer = <<>>]_<<driver, devices>>

\* Receipts come out whole and one after the other: every slice but the first follows the
\* slice before it of the same receipt, out of the device that was asked for it.
ReceiptsWhole ==
  \A d \in Devices : \A i \in DOMAIN paper[d] :
    /\ paper[d][i].for.device = d
    /\ paper[d][i].slice > 1 =>
         i > 1 /\ paper[d][i - 1] = [paper[d][i] EXCEPT !.slice = @ - 1]
=============================================================================
