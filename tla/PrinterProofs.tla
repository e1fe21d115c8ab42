---------------------------- MODULE PrinterProofs ----------------------------
(***************************************************************************)
(* That no connection is closed while its device prints what was not       *)
(* waited for, that what comes out of a printer are whole receipts, each   *)
(* once, and that what the app takes as printed was printed or sent to the *)
(* printer: for any printers, screens, presses, slices and bounds.         *)
(***************************************************************************)
EXTENDS ReceiptPrinting, SequenceTheorems, TLAPS

IsSeq(q) == \E S : q \in Seq(S)

\* A device has slices to print that no wait was for.
Unwaited == \E i \in DOMAIN buffer : buffer[i] \notin left

\* What a device was not waited for is still being sent, or the next job will wait for it.
DrainInv ==
  /\ IsSeq(queue) /\ IsSeq(buffer) /\ sent \in Nat /\ on \subseteq Devices
  /\ at # "start" => Running
  /\ Unwaited => drain \/ (Running /\ at = "running" /\ Current.kind # "connect")

CutShort == link # None /\ link' = None /\ on' = on /\ Unwaited

-----------------------------------------------------------------------------
\* A job that is appended leaves the one that runs.
LEMMA Appended ==
  ASSUME NEW q, NEW x, IsSeq(q)
  PROVE  IsSeq(Append(q, x)) /\ Append(q, x) # <<>> /\ (q # <<>> => Head(Append(q, x)) = Head(q))
<1>1. PICK S : q \in Seq(S)
  BY DEF IsSeq
<1>2. q \in Seq(S \cup {x}) /\ x \in S \cup {x}
  BY <1>1
<1>3. Append(q, x) \in Seq(S \cup {x}) /\ Append(q, x) # <<>> /\ (q # <<>> => Head(Append(q, x)) = Head(q))
  BY <1>2
<1> QED
  BY <1>3 DEF IsSeq

LEMMA Tailed == ASSUME NEW q, IsSeq(q), q # <<>> PROVE IsSeq(Tail(q))
  BY DEF IsSeq

LEMMA EmptyIsSeq == IsSeq(<<>>)
  BY DEF IsSeq

\* What is left of a sequence was in it.
LEMMA TailIn ==
  ASSUME NEW q, IsSeq(q), q # <<>>, NEW i \in DOMAIN Tail(q)
  PROVE  i + 1 \in DOMAIN q /\ Tail(q)[i] = q[i + 1]
<1>1. PICK S : q \in Seq(S)
  BY DEF IsSeq
<1> QED
  BY <1>1

\* The driver.
LEMMA DriverKeeps == ASSUME DrainInv, DriverStep PROVE DrainInv' /\ ~CutShort
<1>1. CASE Drain
  <2>1. ~Unwaited' /\ IsSeq(buffer')
    BY <1>1, EmptyIsSeq DEF Drain, Unwaited, DrainInv
  <2> QED
    BY <1>1, <2>1 DEF Drain, DrainInv, CutShort, Running, Current
<1>2. CASE Disconnect
  <2>1. ~Unwaited
    BY <1>2 DEF Disconnect, DrainInv
  <2>2. ~Unwaited' /\ IsSeq(buffer') /\ IsSeq(queue') /\ at' = "start" /\ sent' = 0 /\ on' = on
    BY <1>2, EmptyIsSeq, Tailed DEF Disconnect, CloseConnection, Finish, Unwaited, DrainInv, Running
  <2> QED
    BY <2>1, <2>2 DEF DrainInv, CutShort
<1>3. CASE Acquire
  <2>1. ~Unwaited
    BY <1>3 DEF Acquire, DrainInv
  <2>2. ~Unwaited' /\ IsSeq(buffer')
    BY <1>3, <2>1, EmptyIsSeq DEF Acquire, CloseConnection, Unwaited, DrainInv
  <2> QED
    BY <1>3, <2>1, <2>2 DEF Acquire, DrainInv, CutShort, Running, Current
<1>4. CASE Connect
  <2>1. Running /\ at # "running" /\ (UNCHANGED <<queue, sent>> \/ Finish("failed"))
    BY <1>4 DEF Connect
  <2>2. link' = link \/ link' # None
    BY <1>4, PrinterAssumption DEF Connect, DrainInv
  <2>3. IsSeq(queue') /\ sent' \in Nat
    <3>1. CASE UNCHANGED <<queue, sent>>
      BY <3>1 DEF DrainInv, IsSeq
    <3>2. CASE Finish("failed")
      BY <2>1, <3>2, Tailed DEF Finish, DrainInv, Running
    <3> QED
      BY <2>1, <3>1, <3>2
  <2>4. at' # "start" => Running'
    BY <2>1 DEF Finish, Running
  <2>5. UNCHANGED <<Unwaited, buffer>>
    BY <1>4 DEF Connect, Unwaited
  <2> QED
    BY <1>4, <2>1, <2>2, <2>3, <2>4, <2>5 DEF Connect, DrainInv, CutShort
<1>5. CASE Unavailable
  <2>1. UNCHANGED <<Unwaited, buffer>>
    BY <1>5 DEF Unavailable, devices, Unwaited
  <2> QED
    BY <1>5, <2>1, Tailed DEF Unavailable, Finish, devices, DrainInv, CutShort, Running, Current
<1>6. CASE Send
  <2>1. Current.kind # "connect" /\ sent + 1 \in Nat
    BY <1>6 DEF Send, Parts, DrainInv
  <2>2. UNCHANGED <<link, on>> /\ Running /\ at = "running" /\ IsSeq(buffer')
    BY <1>6, Appended DEF Send, DrainInv
  <2>3. CASE sent' = sent + 1 /\ UNCHANGED <<queue, at, result, drain, timer>>
    BY <2>1, <2>2, <2>3 DEF DrainInv, CutShort, Running, Current
  <2>4. CASE Finish("failed") /\ Release
    BY <2>1, <2>2, <2>4, Tailed DEF Release, Finish, DrainInv, CutShort, Running, Current
  <2> QED
    BY <1>6, <2>3, <2>4 DEF Send
<1>7. CASE Complete
  <2>1. UNCHANGED <<Unwaited, buffer>>
    BY <1>7 DEF Complete, devices, Unwaited
  <2> QED
    BY <1>7, <2>1, Tailed DEF Complete, Release, Finish, devices, DrainInv, CutShort, Running, Current
<1> QED
  BY <1>1, <1>2, <1>3, <1>4, <1>5, <1>6, <1>7 DEF DriverStep

\* A job that is added, with the rest of the driver and the devices as they were.
LEMMA EnqueueKeeps ==
  ASSUME DrainInv, NEW j, Enqueue(j), UNCHANGED <<at, sent, drain, on, buffer, left>>
  PROVE  DrainInv'
  BY Appended DEF Enqueue, DrainInv, Unwaited, Running, Current

\* The printers print and are switched off.
LEMMA DevicesKeep == ASSUME DrainInv, DevicesStep PROVE DrainInv' /\ ~CutShort
<1>1. CASE Prints
  <2>1. IsSeq(buffer') /\ buffer' = Tail(buffer) /\ buffer # <<>> /\ IsSeq(buffer)
    BY <1>1, Tailed DEF Prints, DrainInv
  <2>2. Unwaited' => Unwaited
    <3>1. ASSUME NEW i \in DOMAIN Tail(buffer), Tail(buffer)[i] \notin left' PROVE Unwaited
      <4>1. i + 1 \in DOMAIN buffer /\ Tail(buffer)[i] = buffer[i + 1] /\ Tail(buffer) # <<>>
        BY <2>1, TailIn
      <4> QED
        BY <1>1, <2>1, <3>1, <4>1 DEF Prints, Unwaited
    <3> QED
      BY <2>1, <3>1 DEF Unwaited
  <2> QED
    BY <1>1, <2>1, <2>2 DEF Prints, driver, DrainInv, CutShort, Running, Current
<1>2. ASSUME NEW d \in Devices, SwitchOff(d) PROVE DrainInv' /\ ~CutShort
  <2>1. ~Unwaited' /\ IsSeq(buffer')
    BY <1>2, EmptyIsSeq DEF SwitchOff, Unwaited
  <2> QED
    BY <1>2, <2>1 DEF SwitchOff, driver, DrainInv, CutShort, Running, Current
<1> QED
  BY <1>1, <1>2 DEF DevicesStep

LEMMA Keeps == ASSUME DrainInv, [Next]_vars PROVE DrainInv' /\ ~CutShort
<1>1. CASE Driver
  BY <1>1, DriverKeeps DEF Driver
<1>2. CASE Outside
  <2>1. CASE DevicesStep
    BY <2>1, DevicesKeep
  <2>2. CASE IdleTimeout \/ Background
    BY <2>2, EnqueueKeeps DEF IdleTimeout, Background, devices, CutShort
  <2> QED
    BY <1>2, <2>1, <2>2 DEF Outside
<1>3. CASE Export
  BY <1>3, EnqueueKeeps DEF Export, devices, CutShort
<1>4. CASE UNCHANGED <<driver, devices>>
  BY <1>4 DEF driver, devices, DrainInv, Unwaited, CutShort, Running, Current
<1>5. Driver \/ Outside \/ Export \/ UNCHANGED <<driver, devices>>
  <2>1. CASE \E p \in Presses, kind \in DOMAIN Script, d \in Devices : Press(p, kind, d)
    BY <2>1 DEF Press
  <2>2. CASE Handlers
    BY <2>2 DEF Handlers, StartJob, Ask, Patch
  <2>3. CASE Bridge
    BY <2>3 DEF Bridge, Load, ExportFails
  <2>4. CASE Reload \/ Loaded \/ Leave \/ UNCHANGED vars
    BY <2>4 DEF Reload, Loaded, Leave, vars
  <2> QED
    BY <2>1, <2>2, <2>3, <2>4 DEF Next
<1> QED
  BY <1>1, <1>2, <1>3, <1>4, <1>5

-----------------------------------------------------------------------------
\* Whatever waits for the printer, idle timers, the app going to the background and jobs for other
\* devices never close a connection whose device has something to print that no wait was for: all
\* that is lost is what took a printer longer than the wait for it (DRAIN_CAP_MS at the most).
THEOREM PrintsAreNotCutShort == Spec => NeverCutShort
<1>1. Init => DrainInv
  BY EmptyIsSeq DEF Init, DriverInit, DrainInv, Unwaited
<1>2. DrainInv /\ [Next]_vars => DrainInv'
  BY Keeps
<1>3. DrainInv /\ [Next]_vars =>
        [link # None /\ link' = None /\ on' = on => \A i \in DOMAIN buffer : buffer[i] \in left]_<<driver, devices>>
  BY Keeps DEF CutShort, Unwaited
<1> QED
  BY <1>1, <1>2, <1>3, PTL DEF Spec, NeverCutShort

-----------------------------------------------------------------------------
(* The receipts.  What a device printed and is still to print is one line  *)
(* of sheets, whoever prints when.                                         *)

Closures == [press : Presses, attempt : Nat, mount : Nat, device : Devices]
Jobs == {Bye} \cup {Job("image", c.device, c) : c \in Closures}
Sheets == [for : Closures, slice : Nat]
PressType ==
  [kind : DOMAIN Script \cup {None}, device : Devices \cup {None}, step : Nat,
   printed : {"no", "yes", "failed", "never"}]

Lines == [d \in Devices |-> IF d = link THEN paper[d] \o buffer ELSE paper[d]]

\* A sheet of n's slice for p is in the lines l.
On(l, p, n) ==
  \E d \in Devices : \E i \in DOMAIN l[d] : l[d][i].for.press = p /\ l[d][i].slice = n

WholeLine(s, d) ==
  \A i \in DOMAIN s :
    /\ s[i].for.device = d
    /\ s[i].slice > 1 => i > 1 /\ s[i - 1] = [s[i] EXCEPT !.slice = @ - 1]

OnceIn(s) ==
  \A i, j \in DOMAIN s : s[i].slice = s[j].slice /\ s[i].for.press = s[j].for.press => i = j

DriverType ==
  /\ queue \in Seq(Jobs) /\ at \in {"start", "connecting", "again", "running"}
  /\ sent \in 0..Slices /\ result \in {"done", "failed"}
  /\ session \in Devices \cup {None} /\ link \in {session, None}
  /\ drain \in BOOLEAN /\ timer \in BOOLEAN

DevicesType ==
  /\ on \subseteq Devices /\ cuts \in Nat
  /\ paper \in [Devices -> Seq(Sheets)] /\ buffer \in Seq(Sheets)

\* The running job has the session, and what it sent last is the last of its line.
JobInv ==
  /\ at # "start" => Running /\ Current.kind = "image"
  /\ at # "running" => sent = 0
  /\ at = "running" => session = Current.device
  /\ at \in {"connecting", "again"} => session = None
  /\ cuts = 0 => link = session /\ left = {}
  /\ buffer # <<>> => link # None
  /\ \A d \in Devices : WholeLine(Lines[d], d)
  /\ at = "running" /\ sent > 0 /\ link = session =>
       LET l == Lines[link] IN l # <<>> /\ l[Len(l)] = [for |-> Current.for, slice |-> sent]

\* The screen, the hook and the bridge.
HookInv ==
  /\ screen \in Screens \cup {None} /\ loading \in BOOLEAN /\ busy \in BOOLEAN
  /\ {attempt, mounts, reloads} \subseteq Nat
  /\ press \in [Presses -> PressType]
  /\ saved \subseteq Presses /\ status \in [Presses -> {"pending", "printed", "failed"}]
  /\ pending \in Presses \cup {None} /\ job = pending
  /\ web \in {"none", "loading", "exporting", "exported"}
  /\ web # "none" => job # None
  /\ loading => reloads > 0
  /\ screen = None => job = None
  /\ \A p \in Presses : press[p].kind # None =>
       press[p].device \in Devices /\ (screen # None => press[p].kind \in Buttons[screen])
  /\ pending # None => UnderWay(pending) /\ Step(pending) = "print" /\ press[pending].printed = "no"
  /\ \A p \in Presses : press[p].kind = "retailer" /\ press[p].step = 3 => press[p].printed = "yes"
  /\ \A p \in saved : press[p].kind # None
  /\ \A p \in Presses : press[p].kind = None => press[p].printed = "no"

\* Nothing of p's receipt is printed or waits for the driver.
Fresh(p) ==
  /\ \A n \in Nat : ~On(Lines, p, n)
  /\ \A i \in DOMAIN queue : queue[i].kind = "image" => queue[i].for.press # p

Whole(p) == \A n \in 1..Slices : On(Lines, p, n)

\* One press prints at a time.
Alone == \A p, q \in Presses : UnderWay(p) /\ UnderWay(q) => p = q

\* What nobody printed, or began to, is neither on paper nor on its way.
Unstarted == \A p \in Presses : press[p].printed = "no" /\ pending # p => Fresh(p)
ShownFresh == web \in {"loading", "exporting"} => Fresh(job)

\* A job that waits for the driver is of the press that waits for the hook, unless the
\* screen was left, and nothing of its receipt was sent.
Queued ==
  \A i \in DOMAIN queue : queue[i].kind = "image" =>
    /\ screen = None \/ job = queue[i].for.press
    /\ job # None => web = "exported"
    /\ (i = 1 /\ at = "running") \/ \A n \in Nat : ~On(Lines, queue[i].for.press, n)
QueuedOnce ==
  \A i, j \in DOMAIN queue :
    queue[i].kind = "image" /\ queue[j].kind = "image" /\ queue[i].for.press = queue[j].for.press => i = j

\* Of the receipt that is being sent, the lines have what was sent.
SentSoFar == at = "running" => \A n \in Nat : On(Lines, Current.for.press, n) <=> n \in 1..sent
LinesOnce == \A d \in Devices : OnceIn(Lines[d])

ToldWhole ==
  \A p \in Presses :
    press[p].printed = "yes" \/ status[p] = "printed" \/ (p \in saved /\ press[p].kind = "retailer")
      => Whole(p)

\* Undisturbed, every job sends what no job sent before it.
OncePrinted == Alone /\ Unstarted /\ ShownFresh /\ Queued /\ QueuedOnce /\ SentSoFar /\ LinesOnce /\ ToldWhole
OnceInv == Undisturbed => OncePrinted

PrinterInv == DriverType /\ DevicesType /\ DrainInv /\ JobInv /\ HookInv
ReceiptInv == PrinterInv /\ OnceInv

-----------------------------------------------------------------------------
LEMMA JobsAre ==
  ASSUME NEW j \in Jobs
  PROVE  /\ j.kind \in {"image", "disconnect"} /\ j.device \in Devices \cup {None}
         /\ j.kind = "image" => j.for \in Closures /\ j.device = j.for.device /\ j.device \in Devices
  BY DEF Jobs, Job, Bye, Closures

LEMMA ShiftedLine ==
  ASSUME NEW S, NEW s \in Seq(S), NEW b \in Seq(S), b # <<>>
  PROVE  Append(s, Head(b)) \o Tail(b) = s \o b
<1>1. Head(b) \in S /\ Tail(b) \in Seq(S) /\ Len(b) \in Nat \ {0} /\ Len(Tail(b)) = Len(b) - 1
  BY HeadTailProperties
<1> DEFINE l == Append(s, Head(b)) \o Tail(b)
           m == s \o b
<1>2. l \in Seq(S) /\ m \in Seq(S) /\ Len(l) = Len(m) /\ Len(m) = Len(s) + Len(b)
  BY <1>1
<1>3. ASSUME NEW i \in 1..Len(l) PROVE l[i] = m[i]
  BY <1>1, <1>2
<1> QED
  BY <1>2, <1>3, SeqEqual

LEMMA AppendedLine ==
  ASSUME NEW S, NEW s \in Seq(S), NEW b \in Seq(S), NEW x \in S
  PROVE  s \o Append(b, x) = Append(s \o b, x)
<1> DEFINE l == s \o Append(b, x)
           m == Append(s \o b, x)
<1>1. l \in Seq(S) /\ m \in Seq(S) /\ Len(l) = Len(m) /\ Len(m) = Len(s) + Len(b) + 1
  OBVIOUS
<1>2. ASSUME NEW i \in 1..Len(l) PROVE l[i] = m[i]
  BY <1>1
<1>3. l = m
  BY <1>1, <1>2, SeqEqual
<1> QED
  BY <1>3

LEMMA LinesAre ==
  ASSUME DevicesType
  PROVE  /\ Lines \in [Devices -> Seq(Sheets)]
         /\ link \notin Devices => Lines = paper
         /\ buffer = <<>> => Lines = paper
<1>1. \A d \in Devices : paper[d] \in Seq(Sheets) /\ paper[d] \o buffer \in Seq(Sheets) /\ paper[d] \o <<>> = paper[d]
  BY DEF DevicesType
<1> QED
  BY <1>1 DEF Lines, DevicesType

\* A slice is in the lines if it is on paper or on its way.
LEMMA OnIsSlice ==
  ASSUME DevicesType, buffer # <<>> => link \in Devices, NEW p, NEW n
  PROVE  On(Lines, p, n) <=> Slice(p, n)
<1>1. ASSUME NEW d \in Devices
      PROVE  paper[d] \in Seq(Sheets) /\ buffer \in Seq(Sheets) /\ Len(paper[d]) \in Nat /\ Len(buffer) \in Nat
  BY DEF DevicesType
<1>2. ASSUME On(Lines, p, n) PROVE Slice(p, n)
  <2>1. PICK d \in Devices : \E i \in DOMAIN Lines[d] : Lines[d][i].for.press = p /\ Lines[d][i].slice = n
    BY <1>2 DEF On
  <2>2. PICK i \in DOMAIN Lines[d] : Lines[d][i].for.press = p /\ Lines[d][i].slice = n
    BY <2>1
  <2>3. CASE d # link
    BY <2>2, <2>3 DEF Lines, Slice
  <2>4. CASE d = link
    <3>1. i \in 1..Len(paper[d]) + Len(buffer) /\ Lines[d] = paper[d] \o buffer
      BY <1>1, <2>2, <2>4 DEF Lines
    <3>2. CASE i \in 1..Len(paper[d])
      BY <1>1, <2>2, <3>1, <3>2 DEF Slice
    <3>3. CASE i \notin 1..Len(paper[d])
      <4>1. i - Len(paper[d]) \in 1..Len(buffer) /\ Lines[d][i] = buffer[i - Len(paper[d])]
        BY <1>1, <3>1, <3>3
      <4> QED
        BY <1>1, <2>2, <4>1 DEF Slice
    <3> QED
      BY <3>2, <3>3
  <2> QED
    BY <2>3, <2>4
<1>3. ASSUME Slice(p, n) PROVE On(Lines, p, n)
  <2>1. CASE \E d \in Devices : \E i \in DOMAIN paper[d] : paper[d][i].for.press = p /\ paper[d][i].slice = n
    <3>0. PICK d \in Devices : \E i \in DOMAIN paper[d] : paper[d][i].for.press = p /\ paper[d][i].slice = n
      BY <2>1
    <3>1. PICK i \in DOMAIN paper[d] : paper[d][i].for.press = p /\ paper[d][i].slice = n
      BY <3>0
    <3>2. i \in DOMAIN Lines[d] /\ Lines[d][i] = paper[d][i]
      BY <1>1, <3>1 DEF Lines
    <3> QED
      BY <3>1, <3>2 DEF On
  <2>2. CASE \E i \in DOMAIN buffer : buffer[i].for.press = p /\ buffer[i].slice = n
    <3>1. PICK i \in DOMAIN buffer : buffer[i].for.press = p /\ buffer[i].slice = n
      BY <2>2
    <3>2. link \in Devices
      BY <3>1, DevicesType DEF DevicesType
    <3>3. Len(paper[link]) + i \in DOMAIN Lines[link] /\ Lines[link][Len(paper[link]) + i] = buffer[i]
      BY <1>1, <3>1, <3>2 DEF Lines
    <3> QED
      BY <3>1, <3>2, <3>3 DEF On
  <2> QED
    BY <1>3, <2>1, <2>2 DEF Slice
<1> QED
  BY <1>2, <1>3

\* The line of a device whose connection is lost keeps what is on paper.
LEMMA PaperIsWhole ==
  ASSUME DevicesType, NEW d \in Devices, WholeLine(Lines[d], d)
  PROVE  WholeLine(paper[d], d)
<1>1. paper[d] \in Seq(Sheets) /\ buffer \in Seq(Sheets) /\ Len(paper[d]) \in Nat /\ Len(buffer) \in Nat
  BY DEF DevicesType
<1>2. \A i \in DOMAIN paper[d] : i \in DOMAIN Lines[d] /\ Lines[d][i] = paper[d][i]
  BY <1>1 DEF Lines
<1>3. ASSUME NEW i \in DOMAIN paper[d], i > 1 PROVE i - 1 \in DOMAIN paper[d]
  BY <1>1, <1>3
<1> QED
  BY <1>2, <1>3 DEF WholeLine

\* A line gets the slice that follows its last one, or the first of a receipt.
LEMMA LineGrows ==
  ASSUME NEW d \in Devices, NEW s \in Seq(Sheets), WholeLine(s, d), NEW c \in Closures, c.device = d,
         NEW k \in Nat, k > 0 => s # <<>> /\ s[Len(s)] = [for |-> c, slice |-> k]
  PROVE  WholeLine(Append(s, [for |-> c, slice |-> k + 1]), d)
<1> DEFINE x == [for |-> c, slice |-> k + 1]
           t == Append(s, x)
<1>1. Len(s) \in Nat /\ DOMAIN t = 1..Len(s) + 1 /\ t[Len(s) + 1] = x /\ \A i \in 1..Len(s) : t[i] = s[i]
  <2>1. x \in Sheets
    BY DEF Sheets
  <2> QED
    BY <2>1
<1>2. x.for.device = d /\ x.slice = k + 1 /\ [x EXCEPT !.slice = @ - 1] = [for |-> c, slice |-> k]
  OBVIOUS
<1> HIDE DEF x, t
<1>3. ASSUME NEW i \in DOMAIN t, i # Len(s) + 1
      PROVE  t[i].for.device = d /\ (t[i].slice > 1 => i > 1 /\ t[i - 1] = [t[i] EXCEPT !.slice = @ - 1])
  <2>1. i \in DOMAIN s /\ t[i] = s[i] /\ (i > 1 => t[i - 1] = s[i - 1])
    BY <1>1, <1>3
  <2> QED
    BY <2>1 DEF WholeLine
<1>4. k > 0 => Len(s) + 1 > 1 /\ t[Len(s)] = [for |-> c, slice |-> k]
  BY <1>1
<1>5. t[Len(s) + 1].slice > 1 => k > 0
  BY <1>1, <1>2
<1>6. t[Len(s) + 1].for.device = d
      /\ (t[Len(s) + 1].slice > 1 => Len(s) + 1 > 1 /\ t[Len(s) + 1 - 1] = [t[Len(s) + 1] EXCEPT !.slice = @ - 1])
  <2>1. Len(s) + 1 - 1 = Len(s)
    BY <1>1
  <2> QED
    BY <1>1, <1>2, <1>4, <1>5, <2>1
<1>7. WholeLine(t, d)
  BY <1>3, <1>6 DEF WholeLine
<1> QED
  BY <1>7 DEF t, x

-----------------------------------------------------------------------------
(* What the driver, the devices and the app do to the queue and the lines. *)

NextSheet == [for |-> Current.for, slice |-> sent + 1]

\* Nothing is printed but the slice that the running job sends to its device, as long as every
\* printer was done with what was waited for.
DriverDoes ==
  /\ UNCHANGED cuts
  /\ \/ Lines' = Lines
     \/ /\ at = "running" /\ sent < Slices /\ link = Current.device
        /\ Lines' = [Lines EXCEPT ![link] = Append(@, NextSheet)]
        /\ sent' = sent + 1 /\ UNCHANGED <<queue, at>>
  /\ \/ /\ UNCHANGED queue
        /\ at = "running" => at' = "running"
        /\ at' = "running" => at = "running" \/ sent' = 0
        /\ sent' = sent \/ (at = "running" /\ sent < Slices /\ sent' = sent + 1)
        /\ sent' = sent + 1 /\ link = Current.device => Lines' # Lines
     \/ /\ queue # <<>> /\ queue' = Tail(queue) /\ at' = "start" /\ sent' = 0 /\ Lines' = Lines
        /\ Current.kind = "image" =>
             IF result' = "done" THEN at = "running" /\ sent = Slices
             ELSE result' = "failed" /\ at # "running"

LEMMA CurrentIs ==
  ASSUME DriverType, queue # <<>>
  PROVE  /\ Current \in Jobs /\ Tail(queue) \in Seq(Jobs) /\ Current = queue[1]
         /\ Len(queue) \in Nat \ {0} /\ 1 \in DOMAIN queue
  BY DEF DriverType, Current

\* A connection that is closed once its device was waited for: the lines keep what is on paper,
\* which is all of them as long as every printer was done when its wait was over.
LEMMA LinesClosed ==
  ASSUME DriverType, DevicesType, DrainInv, JobInv, at = "start", ~drain,
         link' = None, buffer' = <<>>, left' = {}, UNCHANGED paper
  PROVE  /\ \A d \in Devices : WholeLine(Lines'[d], d)
         /\ cuts = 0 => Lines' = Lines
<1>1. Lines' = paper
  BY PrinterAssumption DEF Lines, DevicesType
<1>2. \A d \in Devices : WholeLine(paper[d], d)
  BY PaperIsWhole DEF JobInv
<1>3. ASSUME cuts = 0 PROVE Lines = paper
  <2>1. buffer = <<>>
    <3>1. \A i \in DOMAIN buffer : FALSE
      BY <1>3 DEF DrainInv, Unwaited, JobInv
    <3>2. buffer \in Seq(Sheets)
      BY DEF DevicesType
    <3>3. Len(buffer) \in Nat /\ DOMAIN buffer = 1..Len(buffer)
      BY <3>2
    <3>4. Len(buffer) = 0
      BY <3>1, <3>3
    <3> QED
      BY <3>2, <3>4
  <2> QED
    BY <2>1, LinesAre
<1> QED
  BY <1>1, <1>2, <1>3

LEMMA DriverDone ==
  ASSUME DriverType, DevicesType, DrainInv, JobInv, DriverStep
  PROVE  /\ DriverType' /\ DevicesType' /\ JobInv'
         /\ cuts' = 0 => cuts = 0 /\ DriverDoes
<1>s. /\ Lines \in [Devices -> Seq(Sheets)] /\ Running
      /\ link \notin Devices => Lines = paper
      /\ buffer = <<>> => Lines = paper
  BY LinesAre DEF DriverStep, Drain, Disconnect, Acquire, Connect, Unavailable, Send, Complete
<1>c. /\ Current \in Jobs /\ Tail(queue) \in Seq(Jobs) /\ queue # <<>>
      /\ Current.kind \in {"image", "disconnect"} /\ Current.device \in Devices \cup {None}
      /\ Current.kind = "image" =>
           Current.for \in Closures /\ Current.device = Current.for.device /\ Current.device \in Devices
  BY <1>s, CurrentIs, JobsAre DEF Running
<1>0. CASE Drain /\ buffer # <<>> /\ cuts < MaxCuts /\ cuts' = cuts + 1 /\ UNCHANGED <<paper, buffer>>
  <2>1. UNCHANGED <<queue, at, sent, result, session, link, on, paper, buffer>>
        /\ drain' \in BOOLEAN /\ timer' \in BOOLEAN /\ cuts' \in Nat /\ cuts' # 0
    <3>1. cuts \in Nat /\ cuts' = cuts + 1
      BY <1>0 DEF DevicesType
    <3>2. cuts' \in Nat /\ cuts' # 0
      BY <3>1
    <3> QED
      BY <1>0, <3>2 DEF Drain, DriverType
  <2>2. Lines' = Lines
    BY <2>1 DEF Lines
  <2>3. DriverType' /\ DevicesType'
    BY <2>1 DEF DriverType, DevicesType
  <2>4. JobInv'
    BY <2>1, <2>2 DEF JobInv, Running, Current
  <2> QED
    BY <2>1, <2>3, <2>4
<1>1. CASE Drain /\ UNCHANGED cuts /\ buffer' = <<>> /\ left' = {}
           /\ paper' = IF link = None THEN paper ELSE [paper EXCEPT ![link] = @ \o buffer]
  <2>1. Lines' = Lines
    <3>1. CASE link = None
      BY <1>1, <1>s, <3>1, PrinterAssumption DEF Drain, Lines, DevicesType, JobInv
    <3>2. CASE link # None
      <4>1. link \in Devices /\ paper' = [paper EXCEPT ![link] = @ \o buffer] /\ buffer' = <<>> /\ link' = link
        BY <1>1, <3>2 DEF Drain, DriverType
      <4>2. paper[link] \o buffer \in Seq(Sheets) /\ (paper[link] \o buffer) \o <<>> = paper[link] \o buffer
        BY <4>1 DEF DevicesType
      <4> QED
        BY <4>1, <4>2 DEF Lines, DevicesType
    <3> QED
      BY <3>1, <3>2
  <2>2. paper' \in [Devices -> Seq(Sheets)] /\ buffer' = <<>> /\ <<>> \in Seq(Sheets)
    BY <1>1 DEF Drain, DevicesType, DriverType
  <2>3. UNCHANGED <<queue, at, sent, result, session, link, on, cuts>> /\ drain' \in BOOLEAN /\ timer' \in BOOLEAN
    BY <1>1 DEF Drain, DriverType
  <2>4. DevicesType' /\ DriverType'
    BY <2>2, <2>3 DEF DevicesType, DriverType
  <2>5. JobInv'
    <3>1. left' = {} /\ ~(buffer' # <<>>)
      BY <1>1
    <3> QED
      BY <2>1, <2>3, <3>1 DEF JobInv, Running, Current
  <2> QED
    BY <1>1, <2>1, <2>3, <2>4, <2>5 DEF Drain, DriverDoes, DriverType
<1>2. CASE Disconnect
  <2>1. /\ at = "start" /\ ~drain /\ link' = None /\ session' = None /\ buffer' = <<>> /\ left' = {} /\ timer' = FALSE
        /\ UNCHANGED <<drain, on, paper, cuts>> /\ Current.kind # "image"
        /\ queue' = Tail(queue) /\ at' = "start" /\ sent' = 0 /\ result' = "done"
    BY <1>2 DEF Disconnect, CloseConnection, Finish
  <2>2. (\A d \in Devices : WholeLine(Lines'[d], d)) /\ (cuts = 0 => Lines' = Lines)
    BY <2>1, LinesClosed
  <2>3. DriverType' /\ DevicesType'
    <3>1. <<>> \in Seq(Sheets) /\ 0 \in 0..Slices
      BY PrinterAssumption
    <3> QED
      BY <1>c, <2>1, <3>1 DEF DriverType, DevicesType
  <2>4. JobInv'
    BY <2>1, <2>2 DEF JobInv
  <2>5. cuts = 0 => DriverDoes
    BY <1>c, <2>1, <2>2 DEF DriverDoes
  <2> QED
    BY <2>1, <2>3, <2>4, <2>5
<1>3. CASE Acquire
  <2>3. /\ Current.kind = "image" /\ sent = 0 /\ UNCHANGED <<queue, sent, result, drain, on, paper, cuts>>
        /\ timer' = FALSE /\ at = "start" /\ ~drain
    BY <1>3, <1>c DEF Acquire, JobInv
  <2>4. CASE Reusable
    <3>1. at' = "running" /\ session = Current.device /\ UNCHANGED <<session, link, buffer, left>>
      BY <1>3, <2>4 DEF Acquire, Reusable
    <3>2. DriverType' /\ DevicesType'
      BY <2>3, <3>1 DEF DriverType, DevicesType
    <3>5. Lines' = Lines
      BY <2>3, <3>1 DEF Lines
    <3>4. DriverDoes
      BY <2>3, <3>1, <3>5 DEF DriverDoes
    <3>3. JobInv'
      BY <1>s, <2>3, <3>1, <3>5 DEF JobInv, Running, Current
    <3> QED
      BY <2>3, <3>2, <3>3, <3>4
  <2>5. CASE ~Reusable
    <3>1. at' = "connecting" /\ session' = None /\ link' = None /\ buffer' = <<>> /\ left' = {}
      BY <1>3, <2>5 DEF Acquire, CloseConnection
    <3>2. DriverType' /\ DevicesType'
      <4>1. <<>> \in Seq(Sheets)
        OBVIOUS
      <4> QED
        BY <2>3, <3>1, <4>1 DEF DriverType, DevicesType
    <3>5. (\A d \in Devices : WholeLine(Lines'[d], d)) /\ (cuts = 0 => Lines' = Lines)
      BY <2>3, <3>1, LinesClosed
    <3>4. cuts = 0 => DriverDoes
      BY <2>3, <3>1, <3>5 DEF DriverDoes
    <3>3. JobInv'
      BY <1>s, <2>3, <3>1, <3>5 DEF JobInv, Running, Current
    <3> QED
      BY <2>3, <3>2, <3>3, <3>4
  <2> QED
    BY <2>4, <2>5
<1>4. CASE Connect
  <2>1. buffer = <<>>
    BY <1>4, PrinterAssumption DEF Connect, JobInv, DriverType
  <2>2. Lines' = Lines /\ UNCHANGED <<paper, buffer, on, left, cuts>>
    BY <1>4, <1>s, <2>1 DEF Connect, Lines, DevicesType
  <2>3. Current.kind = "image" /\ sent = 0
    BY <1>4, <1>s DEF Connect, JobInv
  <2>4. UNCHANGED <<drain, timer>> /\ at \in {"connecting", "again"}
    BY <1>4 DEF Connect
  <2>5. CASE /\ session' = Current.device /\ link' = Current.device /\ at' = "running"
             /\ UNCHANGED <<queue, sent, result>>
    <3>1. DriverType' /\ DevicesType'
      BY <1>c, <2>2, <2>3, <2>4, <2>5 DEF DriverType, DevicesType
    <3>2. JobInv'
      BY <1>s, <2>1, <2>2, <2>3, <2>4, <2>5 DEF JobInv, Running, Current
    <3>3. DriverDoes
      BY <2>2, <2>3, <2>4, <2>5 DEF DriverDoes
    <3> QED
      BY <2>2, <3>1, <3>2, <3>3
  <2>6. CASE at' = "again" /\ UNCHANGED <<queue, sent, result, session, link>>
    <3>1. DriverType' /\ DevicesType'
      BY <2>2, <2>4, <2>6 DEF DriverType, DevicesType
    <3>2. JobInv'
      <4>1. UNCHANGED <<Current, Running, Lines>> /\ session = None
        BY <2>2, <2>4, <2>6 DEF JobInv, Running, Current
      <4> QED
        BY <1>s, <2>1, <2>2, <2>3, <2>4, <2>6, <4>1 DEF JobInv
    <3>3. DriverDoes
      BY <2>2, <2>3, <2>4, <2>6 DEF DriverDoes
    <3> QED
      BY <2>2, <3>1, <3>2, <3>3
  <2>7. CASE Finish("failed") /\ UNCHANGED <<session, link>>
    <3>0. queue' = Tail(queue) /\ at' = "start" /\ sent' = 0 /\ result' = "failed"
      BY <2>7 DEF Finish
    <3>1. DriverType' /\ DevicesType'
      BY <1>c, <2>2, <2>3, <2>4, <2>7, <3>0 DEF DriverType, DevicesType
    <3>2. JobInv'
      BY <2>1, <2>2, <2>3, <2>4, <2>7, <3>0 DEF JobInv
    <3>3. DriverDoes
      BY <1>c, <2>2, <2>4, <3>0 DEF DriverDoes
    <3> QED
      BY <2>2, <3>1, <3>2, <3>3
  <2> QED
    BY <1>4, <2>5, <2>6, <2>7 DEF Connect
<1>5. CASE Unavailable
  <2>1. Lines' = Lines
    BY <1>5 DEF Unavailable, devices, Lines
  <2> QED
    BY <1>5, <1>s, <1>c, <2>1
       DEF Unavailable, Finish, devices, DriverType, DevicesType, JobInv, DriverDoes, Running, Current
<1>6. CASE Send
  <2>1. Current.kind = "image" /\ at = "running" /\ session = Current.device /\ sent \in Nat /\ sent < Slices
    BY <1>6, <1>s DEF Send, Parts, JobInv, DriverType
  <2>2. sent' = sent + 1 /\ UNCHANGED <<queue, at, result, drain, timer, session, link, on, paper, left, cuts>>
    BY <1>6, <2>1 DEF Send, Reports
  <2>3. sent + 1 \in 0..Slices
    BY <2>1, PrinterAssumption
  <2>4. CASE link # Current.device
    <3>1. buffer' = buffer /\ link = None
      BY <1>6, <2>1, <2>4 DEF Send, DriverType
    <3>2. Lines' = Lines
      BY <2>2, <3>1 DEF Lines
    <3> QED
      BY <1>s, <1>c, <2>1, <2>2, <2>3, <2>4, <3>1, <3>2
         DEF DriverType, DevicesType, JobInv, DriverDoes, Running, Current
  <2>5. CASE link = Current.device
    <3> DEFINE x == NextSheet
    <3>1. x \in Sheets /\ buffer' = Append(buffer, x)
      BY <1>6, <1>c, <2>1, <2>5 DEF Send, Sheets, NextSheet
    <3>2. link \in Devices /\ paper[link] \in Seq(Sheets) /\ buffer \in Seq(Sheets)
      BY <1>c, <2>1, <2>5 DEF DevicesType
    <3>3. Lines'[link] = Append(Lines[link], x)
      <4>1. Lines'[link] = paper[link] \o Append(buffer, x) /\ Lines[link] = paper[link] \o buffer
        BY <2>2, <3>1, <3>2 DEF Lines
      <4> QED
        <5>1. x \in Sheets
          BY <3>1
        <5> HIDE DEF x
        <5>2. \A y \in Sheets : paper[link] \o Append(buffer, y) = Append(paper[link] \o buffer, y)
          <6>1. paper[link] \in Seq(Sheets) /\ buffer \in Seq(Sheets)
            BY <3>2
          <6> DEFINE s == paper[link]
                     b == buffer
          <6>2. s \in Seq(Sheets) /\ b \in Seq(Sheets)
            BY <6>1
          <6> HIDE DEF s, b
          <6>3. \A y \in Sheets : s \o Append(b, y) = Append(s \o b, y)
            BY <6>2, AppendedLine
          <6> QED
            BY <6>3 DEF s, b
        <5> QED
          BY <4>1, <5>1, <5>2
    <3>4. \A d \in Devices : d # link => Lines'[d] = Lines[d]
      BY <2>2 DEF Lines
    <3>5. Lines' = [Lines EXCEPT ![link] = Append(@, x)]
      <4>1. DOMAIN Lines' = Devices /\ Lines' = [d \in Devices |-> Lines'[d]]
        BY DEF Lines
      <4> QED
        BY <1>s, <3>2, <3>3, <3>4, <4>1
    <3>6. WholeLine(Lines'[link], link)
      <4>1. Lines[link] \in Seq(Sheets) /\ WholeLine(Lines[link], link)
        BY <1>s, <3>2 DEF JobInv
      <4>2. sent > 0 => Lines[link] # <<>> /\ Lines[link][Len(Lines[link])] = [for |-> Current.for, slice |-> sent]
        BY <2>1, <2>5 DEF JobInv
      <4>3. WholeLine(Append(Lines[link], x), link)
        BY <1>c, <2>1, <2>5, <3>2, <4>1, <4>2, LineGrows DEF NextSheet
      <4> QED
        BY <3>3, <4>3
    <3>7. \A d \in Devices : WholeLine(Lines'[d], d)
      BY <3>4, <3>6 DEF JobInv
    <3>8. LET l == Lines'[link] IN l # <<>> /\ l[Len(l)] = [for |-> Current.for, slice |-> sent + 1]
      <4>1. Lines[link] \in Seq(Sheets)
        BY <1>s, <3>2
      <4>2. LET l == Append(Lines[link], x) IN l # <<>> /\ l[Len(l)] = x
        BY <3>1, <4>1
      <4> QED
        BY <3>3, <4>2 DEF NextSheet
    <3>9. JobInv'
      BY <1>s, <2>1, <2>2, <3>2, <3>7, <3>8, PrinterAssumption DEF JobInv, Running, Current
    <3>10. DriverType' /\ DevicesType'
      BY <2>1, <2>2, <2>3, <3>1, <3>2 DEF DriverType, DevicesType
    <3>11. Lines' # Lines
      <4>1. Len(Append(Lines[link], x)) # Len(Lines[link])
        BY <1>s, <3>1, <3>2
      <4> QED
        BY <3>3, <4>1
    <3>12. DriverDoes
      BY <2>1, <2>2, <2>5, <3>5, <3>11 DEF DriverDoes
    <3> QED
      BY <2>2, <3>9, <3>10, <3>12
  <2> QED
    BY <2>4, <2>5
<1>7. CASE Complete
  <2>1. Lines' = Lines
    BY <1>7 DEF Complete, devices, Lines
  <2>2. Current.kind = "image" /\ sent = Slices /\ drain' \in BOOLEAN
    BY <1>7, <1>s DEF Complete, Parts, JobInv, Release, DriverType
  <2> QED
    BY <1>7, <1>s, <1>c, <2>1, <2>2
       DEF Complete, Release, Finish, devices, DriverType, DevicesType, JobInv, DriverDoes, Running, Current
<1> QED
  BY <1>0, <1>1, <1>2, <1>3, <1>4, <1>5, <1>6, <1>7 DEF DriverStep, Drain

\* A job joins the queue.
LEMMA JobAdded ==
  ASSUME DriverType, DevicesType, JobInv, NEW j \in Jobs, Enqueue(j), timer' \in BOOLEAN,
         UNCHANGED <<at, sent, result, session, drain, devices>>
  PROVE  DriverType' /\ DevicesType' /\ JobInv' /\ Lines' = Lines
<1>1. queue' \in Seq(Jobs) /\ (queue # <<>> => queue' # <<>> /\ Head(queue') = Head(queue))
  BY DEF Enqueue, DriverType
<1>2. Lines' = Lines /\ DriverType' /\ DevicesType'
  BY <1>1 DEF devices, Lines, DriverType, DevicesType
<1>3. at # "start" => Running' /\ Current' = Current
  BY <1>1 DEF JobInv, Running, Current
<1>4. JobInv'
  BY <1>2, <1>3 DEF devices, JobInv
<1> QED
  BY <1>2, <1>4

\* A printer prints on, or is switched off.
LEMMA DevicesDone ==
  ASSUME DriverType, DevicesType, JobInv, DevicesStep
  PROVE  /\ DriverType' /\ DevicesType' /\ JobInv'
         /\ UNCHANGED driver
         /\ (UNCHANGED cuts /\ Lines' = Lines) \/ cuts' # 0
<1>1. CASE Prints
  <2>1. link \in Devices /\ paper[link] \in Seq(Sheets) /\ buffer \in Seq(Sheets) /\ buffer # <<>>
        /\ paper' = [paper EXCEPT ![link] = Append(@, Head(buffer))] /\ buffer' = Tail(buffer)
        /\ UNCHANGED <<driver, link, on, cuts>> /\ (left = {} => left' = {})
    BY <1>1 DEF Prints, JobInv, DriverType, DevicesType
  <2>2. Append(paper[link], Head(buffer)) \o Tail(buffer) = paper[link] \o buffer
        /\ Append(paper[link], Head(buffer)) \in Seq(Sheets) /\ Tail(buffer) \in Seq(Sheets)
    <3> DEFINE s == paper[link]
               b == buffer
    <3>1. s \in Seq(Sheets) /\ b \in Seq(Sheets) /\ b # <<>>
      BY <2>1
    <3> HIDE DEF s, b
    <3>2. Append(s, Head(b)) \o Tail(b) = s \o b
      BY <3>1, ShiftedLine
    <3>3. Append(s, Head(b)) \in Seq(Sheets) /\ Tail(b) \in Seq(Sheets)
      BY <3>1
    <3> QED
      BY <3>2, <3>3 DEF s, b
  <2>3. Lines' = Lines
    <3>1. ASSUME NEW d \in Devices
          PROVE  (IF d = link THEN paper'[d] \o buffer' ELSE paper'[d])
                   = IF d = link THEN paper[d] \o buffer ELSE paper[d]
      BY <2>1, <2>2 DEF DevicesType
    <3> QED
      BY <2>1, <3>1 DEF Lines
  <2>4. DriverType' /\ DevicesType'
    BY <2>1, <2>2 DEF driver, DriverType, DevicesType
  <2>5. JobInv'
    BY <2>1, <2>3 DEF driver, JobInv, Running, Current
  <2> QED
    BY <2>1, <2>3, <2>4, <2>5
<1>2. ASSUME NEW d \in Devices, SwitchOff(d)
      PROVE  DriverType' /\ DevicesType' /\ JobInv' /\ UNCHANGED driver /\ cuts' # 0
  <2>1. link' = None /\ buffer' = <<>> /\ UNCHANGED <<driver, paper>> /\ cuts' = cuts + 1 /\ on' \subseteq Devices
    BY <1>2 DEF SwitchOff, DevicesType
  <2>2. DriverType' /\ DevicesType' /\ cuts' # 0
    <3>1. <<>> \in Seq(Sheets)
      OBVIOUS
    <3> QED
      BY <2>1, <3>1 DEF driver, DriverType, DevicesType
  <2>3. Lines' = paper
    BY <2>1, PrinterAssumption DEF Lines, DevicesType
  <2>4. \A e \in Devices : WholeLine(paper[e], e)
    BY PaperIsWhole DEF JobInv
  <2>5. at = "running" => session # None
    BY PrinterAssumption, CurrentIs, JobsAre DEF JobInv, Running
  <2>6. JobInv'
    BY <2>1, <2>2, <2>3, <2>4, <2>5 DEF driver, JobInv, Running, Current
  <2> QED
    BY <2>1, <2>2, <2>6
<1> QED
  BY <1>1, <1>2 DEF DevicesStep

-----------------------------------------------------------------------------
(* The screen and its hook.                                                *)

LEMMA ScriptIs ==
  ASSUME NEW k \in DOMAIN Script
  PROVE  /\ k \in {"checkout", "reprint", "retailer", "collect", "receipt", "settle"}
         /\ Len(Script[k]) \in 1..3 /\ DOMAIN Script[k] = 1..Len(Script[k])
         /\ Last(Script[k]) = "patch" <=> k \in {"checkout", "reprint"}
         /\ k \in {"checkout", "reprint", "retailer"} => Len(Script[k]) = 3
         /\ k = "retailer" => Script[k][1] = "preview" /\ Script[k][2] = "print" /\ Script[k][3] = "save"
         /\ k \in {"checkout", "reprint"} =>
              Script[k][1] = "save" /\ Script[k][2] = "print" /\ Script[k][3] = "patch"
         /\ \A n \in 1..Len(Script[k]) : Script[k][n] = "patch" => n = 3 /\ k \in {"checkout", "reprint"}
<1>1. k \in {"checkout", "reprint", "retailer", "collect", "receipt", "settle"}
  BY DEF Script
<1>2. CASE k \in {"checkout", "reprint"}
  <2>1. Script[k] = <<"save", "print", "patch">>
    BY <1>2 DEF Script
  <2> QED
    BY <1>2, <2>1 DEF Last
<1>3. CASE k = "retailer"
  <2>1. Script[k] = <<"preview", "print", "save">>
    BY <1>3 DEF Script
  <2> QED
    BY <1>3, <2>1 DEF Last
<1>4. CASE k \in {"collect", "settle"}
  <2>1. Script[k] = <<"save", "print">>
    BY <1>4 DEF Script
  <2> QED
    BY <1>4, <2>1 DEF Last
<1>5. CASE k = "receipt"
  <2>1. Script[k] = <<"print">>
    BY <1>5 DEF Script
  <2> QED
    BY <1>5, <2>1 DEF Last
<1> QED
  BY <1>1, <1>2, <1>3, <1>4, <1>5

\* A press that goes on is a press of the same button.
PressKept(r, s) ==
  /\ s \in PressType /\ s.kind = r.kind /\ s.device = r.device
  /\ s.kind = "retailer" /\ s.step = 3 => s.printed = "yes"

\* In a step, presses go on only if they are under way.
PressesKept ==
  \A p \in Presses : (UnderWay(p) /\ PressKept(press[p], press'[p])) \/ press'[p] = press[p]

LEMMA UnprintedIs ==
  ASSUME NEW r \in PressType, r.kind # None
  PROVE  PressKept(r, Unprinted(r)) /\ Unprinted(r).printed = "failed"
<1>1. r.kind \in DOMAIN Script /\ Len(Script[r.kind]) \in Nat /\ Len(Script[r.kind]) + 1 \in Nat
  BY ScriptIs DEF PressType
<1>2. CASE Last(Script[r.kind]) = "patch"
  <2>1. r.kind # "retailer"
    BY <1>1, <1>2, ScriptIs
  <2>2. Unprinted(r) = [r EXCEPT !.printed = "failed", !.step = Len(Script[r.kind])]
    BY <1>2 DEF Unprinted
  <2> QED
    BY <1>1, <2>1, <2>2 DEF PressKept, PressType
<1>3. CASE Last(Script[r.kind]) # "patch"
  <2>1. r.kind = "retailer" => Len(Script[r.kind]) + 1 = 4
    BY <1>1, ScriptIs
  <2> DEFINE n == Len(Script[r.kind]) + 1
  <2>2. Unprinted(r) = [[r EXCEPT !.step = n] EXCEPT !.printed = "failed"]
    BY <1>3 DEF Unprinted, Ending
  <2>3. n \in Nat /\ (r.kind = "retailer" => n # 3)
    BY <1>1, <2>1
  <2> HIDE DEF n
  <2>4. Unprinted(r) = [r EXCEPT !.step = n, !.printed = "failed"]
    BY <2>2
  <2> QED
    BY <2>3, <2>4 DEF PressKept, PressType
<1> QED
  BY <1>2, <1>3

LEMMA AfterIs ==
  ASSUME NEW r \in PressType, r.kind # None, NEW how
  PROVE  /\ PressKept(r, After(r, how))
         /\ After(r, how).printed = IF how = "done" THEN "yes" ELSE "failed"
<1>1. CASE how = "done"
  <2>1. After(r, how) = [r EXCEPT !.step = @ + 1, !.printed = "yes"]
    BY <1>1 DEF After
  <2> DEFINE n == r.step + 1
  <2>2. n \in Nat /\ After(r, how) = [r EXCEPT !.step = n, !.printed = "yes"]
    BY <2>1 DEF PressType
  <2> HIDE DEF n
  <2>3. PressKept(r, After(r, how)) /\ After(r, how).printed = "yes"
    BY <2>2 DEF PressKept, PressType
  <2> QED
    BY <1>1, <2>3
<1>2. CASE how # "done"
  BY <1>2, UnprintedIs DEF After
<1> QED
  BY <1>1, <1>2

\* The presses go on as they may, and who waits for the hook still does.
LEMMA HookKept ==
  ASSUME HookInv,
         screen' \in {screen, None}, loading' \in BOOLEAN, busy' \in BOOLEAN,
         {attempt', mounts', reloads'} \subseteq Nat, status' \in [Presses -> {"pending", "printed", "failed"}],
         press' = [p \in Presses |-> press'[p]],
         PressesKept,
         saved' \subseteq saved \cup {p \in Presses : press[p].kind # None},
         pending' \in {pending, None} /\ job' = pending',
         pending' # None => press'[pending] = press[pending],
         web' \in {"none", "loading", "exporting", "exported"}, web' # "none" => job' # None,
         loading' => reloads' > 0, screen' = None => job' = None
  PROVE  HookInv'
<1>1. \A p \in Presses : press[p] \in PressType
  BY DEF HookInv
<1>2. press' \in [Presses -> PressType]
  BY <1>1 DEF PressKept, PressesKept
<1>3. ASSUME NEW p \in Presses, press'[p].kind # None
      PROVE  press'[p].device \in Devices /\ (screen' # None => press'[p].kind \in Buttons[screen'])
  BY <1>3 DEF HookInv, PressKept, PressesKept
<1>4. ASSUME NEW p \in Presses, press'[p].kind = "retailer", press'[p].step = 3 PROVE press'[p].printed = "yes"
  BY <1>4 DEF HookInv, PressKept, PressesKept
<1>5. \A p \in saved' : press'[p].kind # None
  BY DEF HookInv, PressKept, PressesKept
<1>6. pending' # None => UnderWay(pending)' /\ Step(pending)' = "print" /\ press'[pending'].printed = "no"
  BY DEF HookInv, UnderWay, Step
<1>8. ASSUME NEW p \in Presses, press'[p].kind = None PROVE press'[p].printed = "no"
  BY <1>8 DEF HookInv, PressKept, PressesKept, UnderWay
<1>7. saved' \subseteq Presses /\ pending' \in Presses \cup {None} /\ screen' \in Screens \cup {None}
  BY DEF HookInv
<1> QED
  BY <1>2, <1>3, <1>4, <1>5, <1>6, <1>7, <1>8 DEF HookInv

LEMMA PressesAre ==
  ASSUME HookInv, NEW p \in Presses
  PROVE  /\ press[p] \in PressType /\ press[p].kind \in DOMAIN Script \cup {None}
         /\ UnderWay(p) => press[p].kind # None /\ press[p].kind \in DOMAIN Script
  BY DEF HookInv, PressType, UnderWay

\* Whoever waits for the hook is told.
LEMMA Told ==
  ASSUME HookInv, NEW how,
         press' = IF pending = None THEN press ELSE [press EXCEPT ![pending] = After(@, how)]
  PROVE  /\ press' = [p \in Presses |-> press'[p]]
         /\ PressesKept
         /\ \A p \in Presses : p # pending => press'[p] = press[p]
         /\ pending # None => press'[pending].printed = IF how = "done" THEN "yes" ELSE "failed"
<1>1. pending # None => pending \in Presses /\ press[pending] \in PressType /\ press[pending].kind # None
        /\ UnderWay(pending)
  BY DEF HookInv, UnderWay
<1>2. pending # None => PressKept(press[pending], After(press[pending], how))
        /\ After(press[pending], how).printed = IF how = "done" THEN "yes" ELSE "failed"
  BY <1>1, AfterIs
<1>3. press = [p \in Presses |-> press[p]]
  BY DEF HookInv
<1> QED
  BY <1>1, <1>2, <1>3 DEF PressesKept

LEMMA HookHas ==
  ASSUME HookInv
  PROVE  /\ screen \in Screens \cup {None} /\ loading \in BOOLEAN /\ busy \in BOOLEAN
         /\ attempt \in Nat /\ mounts \in Nat /\ reloads \in Nat
         /\ status \in [Presses -> {"pending", "printed", "failed"}]
         /\ press = [p \in Presses |-> press[p]]
         /\ job = pending /\ web \in {"none", "loading", "exporting", "exported"}
         /\ (web # "none" => job # None) /\ (loading => reloads > 0) /\ (screen = None => job = None)
  BY DEF HookInv

LEMMA Cleared ==
  ASSUME HookInv, NEW how, ClearPending(how), UNCHANGED <<app, server, mounts>>
  PROVE  HookInv' /\ PressesKept
<1>1. pending' = None /\ job' = None /\ attempt' = 0 /\ busy' = FALSE /\ web' = "none"
  BY DEF ClearPending, Show
<1>2. press' = IF pending = None THEN press ELSE [press EXCEPT ![pending] = After(@, how)]
  BY DEF ClearPending
<1>3. UNCHANGED <<screen, loading, reloads, saved, status, mounts>>
  BY DEF app, server
<1> QED
  <2>1. /\ press' = [p \in Presses |-> press'[p]]
        /\ PressesKept
    BY <1>2, Told
  <2>2. attempt' \in Nat /\ mounts' \in Nat /\ reloads' \in Nat
    BY <1>1, <1>3, HookHas
  <2> QED
    BY <1>1, <1>3, <2>1, <2>2, HookKept, HookHas

LEMMA Retried ==
  ASSUME HookInv, NEW c, Retry(c), UNCHANGED <<app, server, mounts>>
  PROVE  HookInv' /\ PressesKept
<1>1. CASE ClearPending("failed")
  BY <1>1, Cleared
<1>2. CASE NextAttempt /\ UNCHANGED promise /\ job # None
  <2>1. attempt' \in Nat /\ busy' = FALSE /\ web' = "loading" /\ UNCHANGED <<job, press, pending>>
        /\ UNCHANGED <<screen, loading, reloads, saved, status, mounts>>
    BY <1>2, HookHas DEF NextAttempt, promise, app, server
  <2>2. PressesKept
    BY <2>1 DEF PressesKept
  <2> QED
    BY <1>2, <2>1, <2>2, HookKept, HookHas
<1>3. CASE UNCHANGED <<promise, bridge>>
  <2>1. PressesKept
    BY <1>3 DEF promise, PressesKept
  <2> QED
    BY <1>3, <2>1, HookKept DEF promise, bridge, app, server, HookInv
<1> QED
  BY <1>1, <1>2, <1>3 DEF Retry

\* One press goes on.
LEMMA OneGoesOn ==
  ASSUME HookInv, NEW p \in Presses, NEW r, UnderWay(p), PressKept(press[p], r),
         press' = [press EXCEPT ![p] = r]
  PROVE  /\ press' = [q \in Presses |-> press'[q]]
         /\ PressesKept
         /\ \A q \in Presses : q # p => press'[q] = press[q]
         /\ press'[p] = r
  BY DEF HookInv, PressesKept

\* What a handler does next is as its script says.
LEMMA StepIs ==
  ASSUME HookInv, NEW p \in Presses, UnderWay(p)
  PROVE  /\ press[p].step \in Nat
         /\ Step(p) = "patch" => press[p].step = 3 /\ press[p].kind # "retailer"
         /\ press[p].kind = "retailer" =>
              Step(p) = CASE press[p].step = 1 -> "preview" [] press[p].step = 2 -> "print" [] OTHER -> "save"
         /\ press[p].kind = "retailer" => press[p].step \in 1..3
  BY PressesAre, ScriptIs DEF UnderWay, Step, PressType

LEMMA HandlersKeep ==
  ASSUME HookInv, NEW p \in Presses, StartJob(p) \/ Ask(p) \/ Patch(p)
  PROVE  HookInv' /\ PressesKept
<1>s. press[p] \in PressType /\ press[p].kind # None /\ UnderWay(p)
  BY PressesAre DEF StartJob, Ask, Patch
<1>1. CASE StartJob(p) /\ screen = None
  <2> DEFINE r == [press[p] EXCEPT !.printed = "never"]
  <2>1. press' = [press EXCEPT ![p] = r] /\ UNCHANGED <<app, server, pending, bridge, mounts>> /\ pending # p
    BY <1>1 DEF StartJob
  <2>2. press[p].kind = "retailer" => press[p].step # 3
    BY <1>1, <1>s, StepIs DEF StartJob
  <2>3. PressKept(press[p], r)
    BY <1>s, <2>2 DEF PressKept, PressType
  <2> HIDE DEF r
  <2> QED
    BY <1>s, <2>1, <2>3, OneGoesOn, HookKept DEF app, server, bridge, HookInv
<1>2. CASE StartJob(p) /\ screen # None
  <2>1. press' = (IF pending = None THEN press ELSE [press EXCEPT ![pending] = After(@, "failed")])
        /\ pending' = p /\ job' = p /\ attempt' = 0 /\ busy' = FALSE /\ web' \in {"none", "loading"}
        /\ UNCHANGED <<screen, loading, reloads, saved, status, mounts>> /\ pending # p
        /\ UnderWay(p) /\ Step(p) = "print" /\ press[p].printed = "no"
    BY <1>2 DEF StartJob, Replaced, Show, app, server
  <2>2. press'[p] = press[p] /\ p # None
    BY <2>1, Told, ScreensAssumption
  <2>3. ASSUME NEW q \in Presses, press'[q].kind # None
        PROVE  press'[q].device \in Devices /\ (screen' # None => press'[q].kind \in Buttons[screen'])
    BY <2>1, <2>3, Told DEF HookInv, PressKept, PressesKept
  <2>4. press' \in [Presses -> PressType]
    BY <2>1, Told DEF HookInv, PressKept, PressesKept
  <2>5. \A q \in Presses : press'[q].kind = "retailer" /\ press'[q].step = 3 => press'[q].printed = "yes"
    BY <2>1, Told DEF HookInv, PressKept, PressesKept
  <2>6. \A q \in Presses : (press'[q].kind = None => press'[q].printed = "no") /\ (q \in saved => press'[q].kind # None)
    BY <2>1, Told DEF HookInv, PressKept, PressesKept, UnderWay
  <2>7. UnderWay(p)' /\ Step(p)' = "print"
    BY <2>1, <2>2 DEF UnderWay, Step
  <2> QED
    <3>1. loading' \in BOOLEAN /\ (loading' => reloads' > 0) /\ saved' \subseteq Presses
          /\ attempt' \in Nat /\ mounts' \in Nat /\ reloads' \in Nat /\ screen' \in Screens \cup {None}
          /\ status' \in [Presses -> {"pending", "printed", "failed"}] /\ screen' # None
      BY <1>2, <2>1 DEF HookInv
    <3>2. UnderWay(pending)' /\ Step(pending)' = "print" /\ press'[pending'].printed = "no"
      BY <2>1, <2>2, <2>7 DEF UnderWay, Step
    <3>3. PressesKept
      BY <2>1, Told
    <3> QED
      BY <2>1, <2>2, <2>3, <2>4, <2>5, <2>6, <3>1, <3>2, <3>3 DEF HookInv
<1>3. CASE Ask(p)
  <2>1. PICK answer \in {"done", "lost", "refused"} :
          /\ saved' = IF Step(p) = "save" /\ answer # "refused" THEN saved \cup {p} ELSE saved
          /\ press' = [press EXCEPT ![p] =
               IF answer = "done" THEN [press[p] EXCEPT !.step = @ + 1]
               ELSE IF @.kind = "reprint" THEN Unprinted(@) ELSE Ending(@)]
    BY <1>3 DEF Ask
  <2> DEFINE r == IF answer = "done" THEN [press[p] EXCEPT !.step = @ + 1]
                  ELSE IF press[p].kind = "reprint" THEN Unprinted(press[p]) ELSE Ending(press[p])
  <2>2. press' = [press EXCEPT ![p] = r]
    BY <2>1, <1>s DEF HookInv
  <2>3. PressKept(press[p], r)
    <3>1. press[p].step + 1 \in Nat /\ (press[p].kind = "retailer" => press[p].step + 1 # 3)
      BY <1>3, <1>s, StepIs DEF Ask
    <3>2. PressKept(press[p], [press[p] EXCEPT !.step = @ + 1])
      BY <1>s, <3>1 DEF PressKept, PressType
    <3>3. PressKept(press[p], Ending(press[p]))
      <4> DEFINE n == Len(Script[press[p].kind]) + 1
      <4>1. n \in Nat /\ (press[p].kind = "retailer" => n # 3)
        BY <1>s, PressesAre, ScriptIs
      <4>2. Ending(press[p]) = [press[p] EXCEPT !.step = n]
        BY DEF Ending
      <4> HIDE DEF n
      <4> QED
        BY <1>s, <4>1, <4>2 DEF PressKept, PressType
    <3> QED
      BY <1>s, <3>2, <3>3, UnprintedIs
  <2> HIDE DEF r
  <2>4. UNCHANGED <<app, status, pending, bridge, mounts>> /\ (pending # None => pending # p)
    BY <1>3 DEF Ask, HookInv
  <2>5. saved' \subseteq saved \cup {q \in Presses : press[q].kind # None}
    BY <1>s, <2>1
  <2> QED
    BY <1>s, <2>2, <2>3, <2>4, <2>5, OneGoesOn, HookKept DEF app, bridge, HookInv
<1>4. CASE Patch(p)
  <2> DEFINE r == [press[p] EXCEPT !.step = press[p].step + 1]
  <2>1. press' = [press EXCEPT ![p] = r] /\ UNCHANGED <<app, saved, pending, bridge, mounts>>
    BY <1>4, <1>s DEF Patch, HookInv
  <2>2. status' \in [Presses -> {"pending", "printed", "failed"}]
    BY <1>4 DEF Patch, HookInv
  <2>3. PressKept(press[p], r)
    BY <1>4, <1>s, StepIs DEF Patch, PressKept, PressType
  <2> HIDE DEF r
  <2>4. pending # None => pending # p
    BY <1>4 DEF Patch, HookInv
  <2> QED
    BY <1>s, <2>1, <2>2, <2>3, <2>4, OneGoesOn, HookKept DEF app, bridge, HookInv
<1> QED
  BY <1>1, <1>2, <1>3, <1>4

LEMMA HookNext ==
  ASSUME HookInv, [Next]_vars
  PROVE  HookInv' /\ (PressesKept \/ \E p \in Presses, kind \in DOMAIN Script, d \in Devices : Press(p, kind, d))
<1>h. /\ press = [p \in Presses |-> press[p]] /\ attempt \in Nat /\ mounts \in Nat /\ reloads \in Nat
      /\ mounts + 1 \in Nat
      /\ status \in [Presses -> {"pending", "printed", "failed"}]
  BY HookHas
<1>k. ASSUME UNCHANGED <<screen, reloads, saved, status, promise, job>>,
             loading' \in BOOLEAN, busy' \in BOOLEAN, {attempt', mounts'} \subseteq Nat,
             web' \in {"none", "loading", "exporting", "exported"}, web' # "none" => job # None,
             loading' => reloads > 0
      PROVE  HookInv' /\ PressesKept
  <2>1. PressesKept
    BY <1>k DEF promise, PressesKept
  <2> QED
    BY <1>h, <1>k, <2>1, HookHas, HookKept DEF promise
<1>1. ASSUME NEW p \in Presses, NEW kind \in DOMAIN Script, NEW d \in Devices, Press(p, kind, d) PROVE HookInv'
  <2> DEFINE r == [Idle EXCEPT !.kind = kind, !.device = d, !.step = 1]
  <2>1. press' = [press EXCEPT ![p] = r] /\ press[p].kind = None /\ screen # None /\ kind \in Buttons[screen]
        /\ UNCHANGED <<app, server, pending, bridge, mounts>>
    BY <1>1 DEF Press
  <2>2. r \in PressType /\ r.kind = kind /\ r.device = d /\ r.step = 1 /\ r.printed = "no"
    BY DEF Idle, PressType
  <2> HIDE DEF r
  <2>3. pending # None => pending # p
    BY <2>1 DEF HookInv, UnderWay
  <2>4. press' \in [Presses -> PressType] /\ press'[p] = r /\ \A q \in Presses : q # p => press'[q] = press[q]
    BY <2>1, <2>2 DEF HookInv
  <2>5. UNCHANGED <<screen, loading, reloads, saved, status, pending, job, attempt, busy, web, mounts>>
    BY <2>1 DEF app, server, bridge
  <2>6. \A q \in Presses : press'[q].kind # None =>
          press'[q].device \in Devices /\ (screen' # None => press'[q].kind \in Buttons[screen'])
    BY <2>1, <2>2, <2>4, <2>5 DEF HookInv
  <2>7. pending' # None => UnderWay(pending)' /\ Step(pending)' = "print" /\ press'[pending'].printed = "no"
    BY <2>3, <2>4, <2>5 DEF HookInv, UnderWay, Step
  <2>8. /\ \A q \in Presses : press'[q].kind = "retailer" /\ press'[q].step = 3 => press'[q].printed = "yes"
        /\ \A q \in Presses : press'[q].kind = None => press'[q].printed = "no"
        /\ \A q \in saved' : press'[q].kind # None
    BY <2>1, <2>2, <2>4, <2>5, ScreensAssumption DEF HookInv
  <2> QED
    BY <2>4, <2>5, <2>6, <2>7, <2>8 DEF HookInv
<1>2. CASE Handlers
  BY <1>2, HandlersKeep DEF Handlers
<1>3. CASE Load
  BY <1>3, <1>k, <1>h, HookHas DEF Load, app, server, promise
<1>4. CASE Export
  BY <1>4, <1>k, <1>h, HookHas DEF Export, app, server, promise
<1>5. CASE ExportFails
  BY <1>5, Retried DEF ExportFails
<1>6. CASE Driver
  <2>1. CASE UNCHANGED <<promise, bridge>>
    BY <1>6, <2>1, <1>k, <1>h, HookHas DEF Driver, bridge, app, server, promise
  <2>2. CASE Printed(Current.for, result')
    BY <1>6, <2>2, Retried, Cleared DEF Driver, Printed
  <2> QED
    BY <1>6, <2>1, <2>2 DEF Driver
<1>7. CASE Reload
  <2>1. reloads' = reloads + 1 /\ reloads' > 0 /\ reloads' \in Nat
    BY <1>7, <1>h DEF Reload
  <2> QED
    <3>1. PressesKept
      BY <1>7 DEF Reload, promise, PressesKept
    <3> QED
      BY <1>7, <2>1, <3>1, <1>h, HookHas, HookKept DEF Reload, server, promise
<1>8. CASE Loaded
  <2>1. web' \in {"none", "loading"} /\ (web' # "none" => job # None)
    BY <1>8 DEF Loaded
  <2> QED
    <3>1. /\ UNCHANGED <<screen, reloads, saved, status, press, pending, job>>
          /\ loading' = FALSE /\ busy' = FALSE /\ attempt' \in Nat /\ mounts' \in Nat
      BY <1>8, <1>h DEF Loaded, server, promise
    <3> QED
      BY <2>1, <3>1, <1>k DEF promise
<1>9. CASE Leave
  <2>1. press' = IF pending = None THEN press ELSE [press EXCEPT ![pending] = After(@, "failed")]
    BY <1>9 DEF Leave
  <2>2. /\ press' = [p \in Presses |-> press'[p]]
        /\ PressesKept
    BY <2>1, Told
  <2> QED
    <3>1. /\ UNCHANGED <<reloads, saved, status>> /\ screen' = None /\ pending' = None /\ job' = None
          /\ loading' = FALSE /\ busy' = FALSE /\ attempt' \in Nat /\ mounts' \in Nat /\ reloads' \in Nat
          /\ web' = "none"
      BY <1>9, <1>h DEF Leave, server
    <3> QED
      BY <1>h, <2>2, <3>1, HookKept
<1>10. CASE Outside \/ UNCHANGED vars
  BY <1>10, <1>k, <1>h, HookHas DEF Outside, vars, app, server, promise, bridge
<1> QED
  BY <1>1, <1>2, <1>3, <1>4, <1>5, <1>6, <1>7, <1>8, <1>9, <1>10 DEF Next, Bridge

-----------------------------------------------------------------------------
(* Every receipt once, where nothing disturbs it.                          *)

\* Steps that leave the driver and the devices.
LEMMA QuietOnce ==
  ASSUME PrinterInv, PrinterInv', OncePrinted, UNCHANGED <<queue, at, sent, Lines>>,
         Alone',
         \A p \in Presses : press'[p].printed = "no" => press[p].printed = "no",
         pending # None => pending' = pending \/ press'[pending].printed # "no",
         web' \in {"loading", "exporting"} => Fresh(job'),
         \A i \in DOMAIN queue : queue[i].kind = "image" =>
           (screen' = None \/ job' = queue[i].for.press) /\ (job' # None => web' = "exported"),
         \A p \in Presses :
           press'[p].printed = "yes" \/ status'[p] = "printed" \/ (p \in saved' /\ press'[p].kind = "retailer")
             => Whole(p)
  PROVE  OncePrinted'
<1>1. \A p : Fresh(p)' <=> Fresh(p)
  BY DEF Fresh
<1>2. Unstarted'
  BY <1>1, ScreensAssumption DEF OncePrinted, Unstarted, PrinterInv, HookInv
<1>3. ShownFresh'
  <2>1. Fresh(job') => Fresh(job)'
    BY DEF Fresh
  <2> QED
    BY <2>1 DEF ShownFresh
<1>4. Queued' /\ QueuedOnce'
  BY DEF OncePrinted, Queued, QueuedOnce
<1>5. SentSoFar' /\ LinesOnce'
  BY DEF OncePrinted, SentSoFar, LinesOnce, Current
<1>6. ToldWhole'
  BY DEF ToldWhole, Whole
<1> QED
  BY <1>2, <1>3, <1>4, <1>5, <1>6 DEF OncePrinted

\* Who waits for the hook is under way, so there is no other.
LEMMA WaitsAlone ==
  ASSUME PrinterInv, OncePrinted, screen # None, job = None \/ web # "exported"
  PROVE  \A i \in DOMAIN queue : queue[i].kind # "image"
<1>1. ASSUME NEW i \in DOMAIN queue, queue[i].kind = "image" PROVE FALSE
  <2>1. queue[i].for.press \in Presses
    BY <1>1, JobsAre DEF PrinterInv, DriverType, Closures
  <2> QED
    BY <1>1, <2>1, ScreensAssumption DEF OncePrinted, Queued
<1> QED
  BY <1>1

\* Only presses that are under way go on.
LEMMA StaysAlone ==
  ASSUME Alone, PressesKept
  PROVE  Alone'
<1>1. \A p \in Presses : UnderWay(p)' => UnderWay(p)
  BY DEF UnderWay, Step, PressesKept
<1> QED
  BY <1>1 DEF Alone

\* What disturbs does not go away.
LEMMA WasUndisturbed ==
  ASSUME PrinterInv, [Next]_vars, Undisturbed'
  PROVE  Undisturbed
<1>1. (cuts' = 0 => cuts = 0) /\ (reloads' = 0 => reloads = 0)
  <2>1. cuts' = cuts \/ cuts' = cuts + 1 \/ Driver \/ Outside
    <3>1. CASE \E p \in Presses, kind \in DOMAIN Script, d \in Devices : Press(p, kind, d)
      BY <3>1 DEF Press, devices
    <3>2. CASE Handlers
      BY <3>2 DEF Handlers, StartJob, Ask, Patch, devices
    <3>3. CASE Bridge
      BY <3>3 DEF Bridge, Load, Export, ExportFails, devices
    <3>4. CASE Reload \/ Loaded \/ Leave \/ UNCHANGED vars
      BY <3>4 DEF Reload, Loaded, Leave, vars, devices
    <3> QED
      BY <3>1, <3>2, <3>3, <3>4 DEF Next
  <2>2. ASSUME Driver PROVE cuts' = 0 => cuts = 0
    BY <2>2, DriverDone DEF Driver, PrinterInv
  <2>3. ASSUME Outside PROVE cuts' = 0 => cuts = 0
    <3>1. CASE DevicesStep
      BY <3>1 DEF DevicesStep, Prints, SwitchOff, PrinterInv, DevicesType
    <3>2. CASE IdleTimeout \/ Background
      BY <3>2 DEF IdleTimeout, Background, devices
    <3> QED
      BY <2>3, <3>1, <3>2 DEF Outside
  <2>4. cuts \in Nat /\ reloads \in Nat
    BY DEF PrinterInv, DevicesType, HookInv
  <2>5. reloads' = reloads \/ reloads' = reloads + 1
    <3>1. CASE \E p \in Presses, kind \in DOMAIN Script, d \in Devices : Press(p, kind, d)
      BY <3>1 DEF Press, app
    <3>2. CASE Handlers
      BY <3>2 DEF Handlers, StartJob, Ask, Patch, app
    <3>3. CASE Bridge
      BY <3>3 DEF Bridge, Load, Export, ExportFails, app
    <3>4. CASE Driver \/ Outside
      BY <3>4 DEF Driver, Outside, app
    <3>5. CASE Reload \/ Loaded \/ Leave \/ UNCHANGED vars
      BY <3>5 DEF Reload, Loaded, Leave, vars, app
    <3> QED
      BY <3>1, <3>2, <3>3, <3>4, <3>5 DEF Next
  <2> QED
    BY <2>1, <2>2, <2>3, <2>4, <2>5
<1>2. CASE PressesKept
  BY <1>1, <1>2 DEF Undisturbed, PressKept, PressesKept
<1>3. ASSUME NEW p \in Presses, NEW kind \in DOMAIN Script, NEW d \in Devices, Press(p, kind, d) PROVE Undisturbed
  <2>1. press[p].kind = None /\ \A q \in Presses : q # p => press'[q] = press[q]
    BY <1>3 DEF Press, PrinterInv, HookInv
  <2>2. None \notin {"collect", "receipt", "settle"}
    BY ScreensAssumption DEF Script
  <2> QED
    BY <1>1, <2>1, <2>2 DEF Undisturbed
<1> QED
  BY <1>2, <1>3, HookNext DEF PrinterInv

\* The screen, the hook and the bridge, while the driver rests.
LEMMA AppOnce ==
  ASSUME PrinterInv, PrinterInv', OncePrinted, Undisturbed, Undisturbed', UNCHANGED <<driver, devices>>,
         \/ \E p \in Presses, kind \in DOMAIN Script, d \in Devices : Press(p, kind, d)
         \/ Handlers \/ Load \/ ExportFails \/ Reload \/ Loaded \/ Leave
  PROVE  OncePrinted'
<1>u. UNCHANGED <<queue, at, sent, Lines>>
  BY DEF driver, devices, Lines
<1>j. HookInv /\ job = pending /\ reloads = 0 /\ ~loading /\ (screen = None => job = None) /\ (web # "none" => job # None)
  BY DEF PrinterInv, HookInv, Undisturbed
<1>o. Alone /\ Unstarted /\ ShownFresh /\ Queued /\ ToldWhole
  BY DEF OncePrinted
<1>q. \A i \in DOMAIN queue : queue[i].kind = "image" =>
        (screen = None \/ job = queue[i].for.press) /\ (job # None => web = "exported")
  BY <1>o DEF Queued
<1>1. ASSUME NEW p \in Presses, NEW kind \in DOMAIN Script, NEW d \in Devices, Press(p, kind, d) PROVE OncePrinted'
  <2>1. /\ press[p].kind = None /\ screen # None /\ kind \in Buttons[screen] /\ ~Blocked(kind)
        /\ press' = [press EXCEPT ![p] = [Idle EXCEPT !.kind = kind, !.device = d, !.step = 1]]
        /\ UNCHANGED <<screen, saved, status, pending, job, web>>
    BY <1>1, Zenon DEF Press, app, server, bridge
  <2>2. press'[p].kind = kind /\ press'[p].printed = "no" /\ press[p].printed = "no"
        /\ \A q \in Presses : q # p => press'[q] = press[q]
    BY <1>j, <2>1 DEF HookInv, Idle
  <2>3. ASSUME NEW q \in Presses, q # p PROVE ~UnderWay(q)
    <3>1. CASE press[q].kind = None
      BY <3>1 DEF UnderWay
    <3>2. CASE press[q].kind # None
      <4>1. press[q].kind \in Buttons[screen] /\ press[q].kind \notin {"collect", "receipt", "settle"}
        BY <1>j, <2>1, <3>2 DEF HookInv, Undisturbed
      <4>2. kind \notin {"collect", "receipt", "settle"}
        BY <2>2 DEF Undisturbed
      <4>3. screen \in DOMAIN Buttons
        BY <1>j, <2>1, ScreensAssumption DEF HookInv
      <4>4. press[q].kind = kind
        BY <2>1, <4>1, <4>2, <4>3 DEF Buttons
      <4> QED
        BY <2>1, <4>2, <4>4 DEF Blocked
    <3> QED
      BY <3>1, <3>2
  <2>4. \A q \in Presses : UnderWay(q)' => q = p
    BY <2>2, <2>3 DEF UnderWay, Step
  <2>5. Alone'
    BY <2>4 DEF Alone
  <2>6. \A q \in Presses :
          press'[q].printed = "yes" \/ status'[q] = "printed" \/ (q \in saved' /\ press'[q].kind = "retailer")
             => Whole(q)
    BY <1>o, <1>j, <2>1, <2>2 DEF ToldWhole, HookInv
  <2>7. \A q \in Presses : press'[q].printed = "no" => press[q].printed = "no"
    BY <2>2
  <2>8. web' \in {"loading", "exporting"} => Fresh(job')
    BY <1>o, <2>1 DEF ShownFresh
  <2> QED
    BY <1>u, <1>q, <2>1, <2>5, <2>6, <2>7, <2>8, QuietOnce
<1>2. ASSUME NEW p \in Presses, StartJob(p), screen = None PROVE OncePrinted'
  <2>1. /\ press' = [press EXCEPT ![p].printed = "never"] /\ UnderWay(p) /\ pending # p
        /\ UNCHANGED <<screen, saved, status, pending, job, web>>
    BY <1>2 DEF StartJob, app, server, bridge
  <2>2. /\ press'[p].printed = "never" /\ press'[p].kind = press[p].kind
        /\ \A q \in Presses : q # p => press'[q] = press[q]
    BY <1>j, <2>1 DEF HookInv, PressType
  <2>3. PressesKept
    BY <1>2, <1>j, HandlersKeep
  <2>4. Alone'
    BY <1>o, <2>3, StaysAlone
  <2>5. \A q \in Presses :
          press'[q].printed = "yes" \/ status'[q] = "printed" \/ (q \in saved' /\ press'[q].kind = "retailer")
             => Whole(q)
    BY <1>o, <2>1, <2>2 DEF ToldWhole
  <2>6. web' \in {"loading", "exporting"} => Fresh(job')
    BY <1>o, <2>1 DEF ShownFresh
  <2>7. \A q \in Presses : press'[q].printed = "no" => press[q].printed = "no"
    BY <2>2
  <2> QED
    BY <1>u, <1>q, <2>1, <2>4, <2>5, <2>6, <2>7, QuietOnce
<1>3. ASSUME NEW p \in Presses, StartJob(p), screen # None PROVE OncePrinted'
  <2>1. UnderWay(p) /\ press[p].printed = "no" /\ pending # p /\ UNCHANGED <<screen, saved, status>>
        /\ pending' = p /\ job' = p /\ web' \in {"none", "loading"} /\ Replaced(p)
    BY <1>3 DEF StartJob, app, server, Show
  <2>2. pending = None
    BY <1>j, <1>o, <2>1 DEF HookInv, Alone
  <2>3. UNCHANGED press
    BY <2>1, <2>2 DEF Replaced
  <2>4. Fresh(p)
    BY <1>o, <2>1 DEF Unstarted
  <2>5. \A i \in DOMAIN queue : queue[i].kind # "image"
    BY <1>3, <1>j, <2>2, WaitsAlone
  <2>6. Alone'
    BY <1>o, <2>3 DEF Alone, UnderWay, Step
  <2>7. \A q \in Presses :
          press'[q].printed = "yes" \/ status'[q] = "printed" \/ (q \in saved' /\ press'[q].kind = "retailer")
             => Whole(q)
    BY <1>o, <2>1, <2>3 DEF ToldWhole
  <2> QED
    BY <1>u, <2>1, <2>2, <2>3, <2>4, <2>5, <2>6, <2>7, QuietOnce
<1>4. ASSUME NEW p \in Presses, Ask(p) \/ Patch(p) PROVE OncePrinted'
  <2>1. UnderWay(p) /\ press[p] \in PressType /\ UNCHANGED <<screen, pending, job, web>>
        /\ (pending # None => p # pending)
    BY <1>4, <1>j, PressesAre DEF Ask, Patch, app, bridge, HookInv
  <2>2. PressesKept
    BY <1>4, <1>j, HandlersKeep
  <2>3. /\ \A q \in Presses : q # p => press'[q] = press[q]
        /\ press'[p].printed = press[p].printed \/ press'[p].printed = "failed"
        /\ press'[p].kind = press[p].kind
    <3>1. CASE Ask(p)
      <4>1. PICK answer \in {"done", "lost", "refused"} :
              press' = [press EXCEPT ![p] =
                IF answer = "done" THEN [press[p] EXCEPT !.step = @ + 1]
                ELSE IF @.kind = "reprint" THEN Unprinted(@) ELSE Ending(@)]
        BY <3>1 DEF Ask
      <4>2. press[p].kind # None
        BY <2>1, <1>j, PressesAre
      <4>3. Unprinted(press[p]).printed = "failed" /\ Unprinted(press[p]).kind = press[p].kind
        BY <2>1, <4>2, UnprintedIs DEF PressKept
      <4>4. Ending(press[p]).printed = press[p].printed /\ Ending(press[p]).kind = press[p].kind
        BY <2>1 DEF Ending, PressType
      <4>5. [press[p] EXCEPT !.step = @ + 1].printed = press[p].printed
            /\ [press[p] EXCEPT !.step = @ + 1].kind = press[p].kind
        BY <2>1 DEF PressType
      <4>6. /\ press'[p] \in {[press[p] EXCEPT !.step = @ + 1], Unprinted(press[p]), Ending(press[p])}
            /\ \A q \in Presses : q # p => press'[q] = press[q]
        BY <1>j, <4>1 DEF HookInv
      <4> QED
        BY <4>3, <4>4, <4>5, <4>6
    <3>2. CASE Patch(p)
      BY <3>2, <2>1, <1>j DEF Patch, HookInv, PressType
    <3> QED
      BY <1>4, <3>1, <3>2
  <2>4. press[p].kind = "retailer" /\ Step(p) = "save" => press[p].printed = "yes"
    BY <2>1, <1>j, StepIs DEF HookInv
  <2>5. /\ \A q \in saved' : q \in saved \/ (q = p /\ Step(p) = "save")
        /\ \A q \in Presses : status'[q] = "printed" => status[q] = "printed" \/ (q = p /\ press[p].printed = "yes")
    BY <1>4, <1>j DEF Ask, Patch, HookInv
  <2>6. \A q \in Presses :
          press'[q].printed = "yes" \/ status'[q] = "printed" \/ (q \in saved' /\ press'[q].kind = "retailer")
             => Whole(q)
    BY <1>o, <2>3, <2>4, <2>5 DEF ToldWhole
  <2>7. Alone'
    BY <1>o, <2>2, StaysAlone
  <2>8. web' \in {"loading", "exporting"} => Fresh(job')
    BY <1>o, <2>1 DEF ShownFresh
  <2>9. \A q \in Presses : press'[q].printed = "no" => press[q].printed = "no"
    BY <2>3
  <2> QED
    BY <1>u, <1>q, <2>1, <2>6, <2>7, <2>8, <2>9, QuietOnce
<1>5. CASE Load
  <2>1. UNCHANGED <<screen, saved, status, press, pending, job>> /\ web = "loading" /\ web' = "exporting"
    BY <1>5 DEF Load, app, server, promise
  <2>2. Alone'
    BY <1>o, <2>1 DEF Alone, UnderWay, Step
  <2>3. Fresh(job') /\ job # None
    BY <1>o, <1>j, <2>1 DEF ShownFresh
  <2>4. \A i \in DOMAIN queue : queue[i].kind # "image"
    BY <1>j, <2>1, <2>3, WaitsAlone
  <2>5. \A q \in Presses :
          press'[q].printed = "yes" \/ status'[q] = "printed" \/ (q \in saved' /\ press'[q].kind = "retailer")
             => Whole(q)
    BY <1>o, <2>1 DEF ToldWhole
  <2> QED
    BY <1>u, <2>1, <2>2, <2>3, <2>4, <2>5, QuietOnce
<1>t. ASSUME press' = (IF pending = None THEN press ELSE [press EXCEPT ![pending] = After(@, "failed")]),
             UNCHANGED <<saved, status>>
      PROVE  /\ Alone'
             /\ \A q \in Presses : press'[q].printed = "no" => press[q].printed = "no"
             /\ pending # None => press'[pending].printed # "no"
             /\ \A q \in Presses :
                  press'[q].printed = "yes" \/ status'[q] = "printed" \/ (q \in saved' /\ press'[q].kind = "retailer")
                     => Whole(q)
  <2>1. /\ PressesKept
        /\ \A q \in Presses : q # pending => press'[q] = press[q]
        /\ pending # None => press'[pending].printed = "failed"
    <3>1. HookInv
      BY <1>j
    <3>2. /\ PressesKept
          /\ \A q \in Presses : q # pending => press'[q] = press[q]
          /\ pending # None => press'[pending].printed = IF "failed" = "done" THEN "yes" ELSE "failed"
      BY <1>t, <3>1, Told
    <3> QED
      BY <3>2
  <2>2. \A q \in Presses : press'[q].kind = press[q].kind
    BY <2>1 DEF PressesKept, PressKept
  <2>3. \A q \in Presses : press'[q] = press[q] \/ press'[q].printed = "failed"
    BY <2>1, ScreensAssumption
  <2> QED
    BY <1>o, <1>t, <2>1, <2>2, <2>3, StaysAlone DEF ToldWhole
<1>6. CASE ExportFails
  <2>1. web = "exporting" /\ UNCHANGED <<screen, saved, status>> /\ job # None /\ screen # None /\ Fresh(job)
    BY <1>6, <1>j, <1>o DEF ExportFails, app, server, ShownFresh
  <2>2. \A i \in DOMAIN queue : queue[i].kind # "image"
    BY <2>1, WaitsAlone
  <2>3. CASE ClearPending("failed")
    <3>1. press' = (IF pending = None THEN press ELSE [press EXCEPT ![pending] = After(@, "failed")])
          /\ pending' = None /\ web' = "none"
      BY <2>3 DEF ClearPending, Show
    <3> QED
      BY <1>u, <1>t, <2>1, <2>2, <3>1, QuietOnce
  <2>4. CASE UNCHANGED <<promise, job>> /\ (UNCHANGED web \/ web' = "loading")
    <3>1. UNCHANGED <<press, pending, job>> /\ web' \in {"loading", "exporting"}
      BY <2>1, <2>4 DEF promise
    <3>2. Alone'
      BY <1>o, <3>1 DEF Alone, UnderWay, Step
    <3>3. \A q \in Presses :
            press'[q].printed = "yes" \/ status'[q] = "printed" \/ (q \in saved' /\ press'[q].kind = "retailer")
               => Whole(q)
      BY <1>o, <2>1, <3>1 DEF ToldWhole
    <3> QED
      BY <1>u, <2>1, <2>2, <3>1, <3>2, <3>3, QuietOnce
  <2> QED
    BY <1>6, <2>3, <2>4 DEF ExportFails, Retry, NextAttempt, bridge
<1>7. CASE Reload \/ Loaded
  <2>1. ~Loaded
    BY <1>j DEF Loaded
  <2>2. reloads' # 0
    BY <1>7, <1>j, <2>1 DEF Reload
  <2> QED
    BY <2>2 DEF Undisturbed
<1>8. CASE Leave
  <2>1. press' = (IF pending = None THEN press ELSE [press EXCEPT ![pending] = After(@, "failed")])
        /\ pending' = None /\ web' = "none" /\ screen' = None /\ job' = None /\ UNCHANGED <<saved, status>>
    BY <1>8 DEF Leave, server
  <2> QED
    BY <1>u, <1>t, <2>1, QuietOnce
<1> QED
  BY <1>1, <1>2, <1>3, <1>4, <1>5, <1>6, <1>7, <1>8 DEF Handlers

\* The bridge's job: of the press that waits.
LEMMA ExportedJob ==
  ASSUME PrinterInv, web = "exporting"
  PROVE  Job("image", press[job].device, Closure) \in Jobs /\ job \in Presses
<1>1. job \in Presses /\ press[job].kind # None
  BY DEF PrinterInv, HookInv, UnderWay
<1>2. Closure \in Closures /\ Closure.device = press[job].device
  BY <1>1 DEF PrinterInv, HookInv, Closure, Closures
<1> QED
  BY <1>1, <1>2 DEF Jobs

LEMMA AppendedJob ==
  ASSUME queue \in Seq(Jobs), NEW j \in Jobs, Enqueue(j)
  PROVE  /\ DOMAIN queue' = DOMAIN queue \cup {Len(queue) + 1} /\ Len(queue) + 1 \notin DOMAIN queue
         /\ queue'[Len(queue) + 1] = j /\ \A i \in DOMAIN queue : queue'[i] = queue[i]
  BY DEF Enqueue

LEMMA ExportOnce ==
  ASSUME PrinterInv, PrinterInv', OncePrinted, Export
  PROVE  OncePrinted'
<1>1. /\ web = "exporting" /\ web' = "exported" /\ job \in Presses /\ job # None
      /\ UNCHANGED <<at, sent, screen, press, pending, job, saved, status, devices>>
      /\ screen # None /\ HookInv
  BY ExportedJob DEF Export, app, server, promise, PrinterInv, HookInv
<1> DEFINE j == Job("image", press[job].device, Closure)
<1>2. Enqueue(j) /\ j \in Jobs /\ j.kind = "image" /\ j.for.press = job
  BY <1>1, ExportedJob DEF Export, Job, Closure
<1> HIDE DEF j
<1>3. \A i \in DOMAIN queue : queue[i].kind # "image"
  BY <1>1, WaitsAlone
<1>4. /\ DOMAIN queue' = DOMAIN queue \cup {Len(queue) + 1} /\ Len(queue) + 1 \notin DOMAIN queue
      /\ queue'[Len(queue) + 1] = j /\ \A i \in DOMAIN queue : queue'[i] = queue[i]
  BY <1>2, AppendedJob DEF PrinterInv, DriverType
<1>5. Lines' = Lines
  BY <1>1 DEF devices, Lines
<1>6. at = "start"
  <2>1. at # "start" => 1 \in DOMAIN queue /\ Current = queue[1] /\ Current.kind = "image"
    BY CurrentIs DEF PrinterInv, JobInv, Running
  <2> QED
    BY <1>3, <2>1
<1>7. Fresh(job)
  BY <1>1 DEF OncePrinted, ShownFresh
<1>8. \A p \in Presses : p # job /\ Fresh(p) => Fresh(p)'
  BY <1>2, <1>4, <1>5 DEF Fresh
<1>9. Unstarted'
  BY <1>1, <1>8 DEF OncePrinted, Unstarted, PrinterInv, HookInv
<1>10. Alone' /\ ShownFresh'
  BY <1>1 DEF OncePrinted, Alone, UnderWay, Step, ShownFresh
<1>11. Queued'
  <2>1. ASSUME NEW i \in DOMAIN queue', queue'[i].kind = "image"
        PROVE  /\ screen' = None \/ job' = queue'[i].for.press
               /\ job' # None => web' = "exported"
               /\ \A n \in Nat : ~On(Lines', queue'[i].for.press, n)
    <3>1. i = Len(queue) + 1 /\ queue'[i] = j
      BY <1>3, <1>4, <2>1
    <3> QED
      BY <1>1, <1>2, <1>5, <1>7, <3>1 DEF Fresh
  <2> QED
    BY <2>1 DEF Queued
<1>12. QueuedOnce'
  BY <1>3, <1>4 DEF QueuedOnce
<1>13. SentSoFar' /\ LinesOnce'
  BY <1>1, <1>5, <1>6 DEF OncePrinted, SentSoFar, LinesOnce
<1>14. ToldWhole'
  BY <1>1, <1>5 DEF OncePrinted, ToldWhole, Whole
<1> QED
  BY <1>9, <1>10, <1>11, <1>12, <1>13, <1>14 DEF OncePrinted

\* A disconnection is asked for, or a printer prints.
LEMMA OutsideOnce ==
  ASSUME PrinterInv, PrinterInv', OncePrinted, Outside, Undisturbed'
  PROVE  OncePrinted'
<1>1. UNCHANGED <<web, screen, press, pending, job, saved, status>>
  BY DEF Outside, app, server, promise, bridge
<1>2. Alone'
  BY <1>1 DEF OncePrinted, Alone, UnderWay, Step
<1>3. \A q \in Presses :
        press'[q].printed = "yes" \/ status'[q] = "printed" \/ (q \in saved' /\ press'[q].kind = "retailer")
           => Whole(q)
  BY <1>1 DEF OncePrinted, ToldWhole
<1>4. CASE DevicesStep
  <2>1. UNCHANGED driver /\ Lines' = Lines
    BY <1>4, DevicesDone DEF PrinterInv, Undisturbed
  <2>2. UNCHANGED <<queue, at, sent, Lines>>
    BY <2>1 DEF driver
  <2>3. /\ \A i \in DOMAIN queue : queue[i].kind = "image" =>
             (screen' = None \/ job' = queue[i].for.press) /\ (job' # None => web' = "exported")
        /\ web' \in {"loading", "exporting"} => Fresh(job')
        /\ \A q \in Presses : press'[q].printed = "no" => press[q].printed = "no"
    BY <1>1 DEF OncePrinted, Queued, ShownFresh
  <2> QED
    BY <1>1, <1>2, <1>3, <2>2, <2>3, QuietOnce
<1>5. CASE Enqueue(Bye) /\ UNCHANGED <<at, sent, devices>>
  <2>1. Bye \in Jobs /\ Bye.kind # "image" /\ queue \in Seq(Jobs)
    BY DEF Jobs, Bye, Job, PrinterInv, DriverType
  <2>2. /\ DOMAIN queue' = DOMAIN queue \cup {Len(queue) + 1} /\ Len(queue) + 1 \notin DOMAIN queue
        /\ queue'[Len(queue) + 1] = Bye /\ \A i \in DOMAIN queue : queue'[i] = queue[i]
    BY <1>5, <2>1, AppendedJob
  <2>3. Lines' = Lines
    BY <1>5 DEF devices, Lines
  <2>4. at # "start" => Current' = Current
    BY <1>5, <2>1 DEF PrinterInv, JobInv, Running, Current, Enqueue
  <2>5. \A i \in DOMAIN queue' : queue'[i].kind = "image" => i \in DOMAIN queue /\ queue'[i] = queue[i]
    BY <2>1, <2>2
  <2>6. \A q : Fresh(q) => Fresh(q)'
    BY <2>3, <2>5 DEF Fresh
  <2>7. Unstarted' /\ ShownFresh'
    BY <1>1, <2>6 DEF OncePrinted, Unstarted, ShownFresh
  <2>8. Queued' /\ QueuedOnce'
    BY <1>1, <1>5, <2>3, <2>5 DEF OncePrinted, Queued, QueuedOnce
  <2>9. SentSoFar' /\ LinesOnce' /\ ToldWhole'
    BY <1>3, <1>5, <2>3, <2>4 DEF OncePrinted, SentSoFar, LinesOnce, ToldWhole, Whole
  <2> QED
    BY <1>2, <2>7, <2>8, <2>9 DEF OncePrinted
<1> QED
  BY <1>4, <1>5 DEF Outside, IdleTimeout, Background

-----------------------------------------------------------------------------
\* The driver goes on with its job.
LEMMA RunsOnce ==
  ASSUME PrinterInv, PrinterInv', OncePrinted, Undisturbed, Undisturbed', Driver, UNCHANGED queue
  PROVE  OncePrinted'
<1>1. DriverDoes /\ DriverStep
  BY DriverDone DEF Driver, PrinterInv, Undisturbed
<1>2. Running /\ queue \in Seq(Jobs) /\ queue # Tail(queue) /\ sent \in Nat
  <2>1. Running /\ queue \in Seq(Jobs) /\ queue # <<>> /\ sent \in Nat
    BY <1>1 DEF DriverStep, Drain, Disconnect, Acquire, Connect, Unavailable, Send, Complete, PrinterInv, DriverType, Running
  <2>2. Len(Tail(queue)) = Len(queue) - 1 /\ Len(queue) \in Nat
    BY <2>1
  <2>3. Len(Tail(queue)) # Len(queue)
    BY <2>2
  <2>4. Tail(queue) # queue
    BY <2>3
  <2> QED
    BY <2>1, <2>4
<1>3. UNCHANGED <<web, screen, press, pending, job, saved, status>>
  <2>1. ~(Len(queue') < Len(queue))
    BY <1>2
  <2> QED
    BY <2>1 DEF Driver, app, server, promise, bridge
<1>4. Alone'
  BY <1>3 DEF OncePrinted, Alone, UnderWay, Step
<1>5. Current' = Current
  BY DEF Current
<1>6. CASE Lines' = Lines /\ ~(at = "running" /\ sent' # sent)
  <2>1. \A q : Fresh(q) => Fresh(q)'
    BY <1>6 DEF Fresh
  <2>2. Unstarted' /\ ShownFresh' /\ QueuedOnce' /\ LinesOnce' /\ ToldWhole'
    BY <1>3, <1>6, <2>1 DEF OncePrinted, Unstarted, ShownFresh, QueuedOnce, LinesOnce, ToldWhole, Whole
  <2>3. at = "running" => at' = "running"
    BY <1>1, <1>2 DEF DriverDoes
  <2>4. Queued'
    BY <1>3, <1>6, <2>3 DEF OncePrinted, Queued
  <2>5. SentSoFar'
    <3>1. CASE at = "running"
      BY <1>5, <1>6, <3>1 DEF OncePrinted, SentSoFar
    <3>2. CASE at # "running" /\ at' = "running"
      <4>1. sent' = 0 /\ Current.kind = "image" /\ 1 \in DOMAIN queue /\ Current = queue[1]
        BY <1>1, <1>2, <1>5, <3>2, CurrentIs DEF DriverDoes, PrinterInv, JobInv, Running
      <4>2. \A n \in Nat : ~On(Lines, Current.for.press, n)
        BY <3>2, <4>1 DEF OncePrinted, Queued
      <4> QED
        BY <1>5, <1>6, <4>1, <4>2 DEF SentSoFar
    <3> QED
      BY <3>1, <3>2 DEF SentSoFar
  <2> QED
    BY <1>4, <2>2, <2>4, <2>5 DEF OncePrinted
<1>7. CASE ~(Lines' = Lines /\ ~(at = "running" /\ sent' # sent))
  <2>1. /\ at = "running" /\ at' = "running" /\ sent' = sent + 1 /\ link = Current.device
        /\ link \in Devices /\ Current.kind = "image" /\ Current.for \in Closures
        /\ 1 \in DOMAIN queue /\ Current = queue[1]
        /\ Lines' = [Lines EXCEPT ![link] = Append(@, NextSheet)]
    <3>1. at = "running" => session = Current.device /\ link = session /\ Current.kind = "image"
      BY DEF PrinterInv, JobInv, Undisturbed
    <3>2. Current \in Jobs /\ 1 \in DOMAIN queue /\ Current = queue[1]
      BY <1>2, CurrentIs DEF PrinterInv, Running
    <3> QED
      BY <1>1, <1>2, <1>7, <3>1, <3>2, JobsAre DEF DriverDoes
  <2> DEFINE p == Current.for.press
             l == Lines[link]
  <2>2. l \in Seq(Sheets) /\ NextSheet \in Sheets /\ Lines \in [Devices -> Seq(Sheets)]
    <3>1. NextSheet \in Sheets
      BY <1>2, <2>1 DEF NextSheet, Sheets
    <3>2. Lines \in [Devices -> Seq(Sheets)]
      BY LinesAre DEF PrinterInv
    <3> QED
      BY <2>1, <3>1, <3>2
  <2>3. /\ Lines'[link] = Append(l, NextSheet) /\ DOMAIN Lines'[link] = DOMAIN l \cup {Len(l) + 1}
        /\ Len(l) + 1 \notin DOMAIN l
        /\ Lines'[link][Len(l) + 1] = NextSheet /\ \A i \in DOMAIN l : Lines'[link][i] = l[i]
        /\ \A d \in Devices : d # link => Lines'[d] = Lines[d]
    BY <2>1, <2>2
  <2>4. NextSheet.for.press = p /\ NextSheet.slice = sent + 1
    BY DEF NextSheet
  <2> HIDE DEF p, l
  <2>5. ASSUME NEW q, NEW n PROVE On(Lines', q, n) <=> On(Lines, q, n) \/ (q = p /\ n = sent + 1)
    <3>1. ASSUME On(Lines', q, n) PROVE On(Lines, q, n) \/ (q = p /\ n = sent + 1)
      <4>1. PICK d \in Devices : \E i \in DOMAIN Lines'[d] : Lines'[d][i].for.press = q /\ Lines'[d][i].slice = n
        BY <3>1 DEF On
      <4>2. CASE d # link
        BY <2>3, <4>1, <4>2 DEF On
      <4>3. CASE d = link
        BY <2>1, <2>3, <2>4, <4>1, <4>3 DEF On, l
      <4> QED
        BY <4>2, <4>3
    <3>2. ASSUME On(Lines, q, n) PROVE On(Lines', q, n)
      <4>1. PICK d \in Devices : \E i \in DOMAIN Lines[d] : Lines[d][i].for.press = q /\ Lines[d][i].slice = n
        BY <3>2 DEF On
      <4>2. CASE d # link
        BY <2>3, <4>1, <4>2 DEF On
      <4>3. CASE d = link
        BY <2>1, <2>3, <4>1, <4>3 DEF On, l
      <4> QED
        BY <4>2, <4>3
    <3>3. ASSUME q = p, n = sent + 1 PROVE On(Lines', q, n)
      BY <2>1, <2>3, <2>4, <3>3 DEF On
    <3> QED
      BY <3>1, <3>2, <3>3
  <2>6. \A n \in Nat : On(Lines, p, n) <=> n \in 1..sent
    BY <2>1 DEF OncePrinted, SentSoFar, p
  <2>7. SentSoFar'
    <3>1. ASSUME NEW n \in Nat PROVE On(Lines', p, n) <=> n \in 1..sent'
      <4>1. On(Lines', p, n) <=> On(Lines, p, n) \/ n = sent + 1
        BY <2>5
      <4>2. On(Lines, p, n) <=> n \in 1..sent
        BY <2>6
      <4>3. n \in 1..sent + 1 <=> n \in 1..sent \/ n = sent + 1
        BY <1>2
      <4> QED
        BY <2>1, <4>1, <4>2, <4>3
    <3>2. Current'.for.press = p
      BY <1>5 DEF p
    <3> QED
      BY <3>1, <3>2 DEF SentSoFar
  <2>8. \A q : Fresh(q) => q # p /\ Fresh(q)'
    BY <2>1, <2>5 DEF Fresh, p
  <2>9. Unstarted' /\ ShownFresh'
    BY <1>3, <2>8 DEF OncePrinted, Unstarted, ShownFresh
  <2>10. QueuedOnce' /\ ToldWhole'
    BY <1>3, <2>5 DEF OncePrinted, QueuedOnce, ToldWhole, Whole
  <2>11. Queued'
    <3>1. \A i \in DOMAIN queue : queue[i].kind = "image" /\ i # 1 => queue[i].for.press # p
      BY <2>1 DEF OncePrinted, QueuedOnce, p
    <3> QED
      BY <1>3, <2>1, <2>5, <3>1 DEF OncePrinted, Queued
  <2>12. LinesOnce'
    <3>1. ASSUME NEW d \in Devices PROVE OnceIn(Lines'[d])
      <4>1. CASE d # link
        BY <2>3, <4>1 DEF OncePrinted, LinesOnce
      <4>2. CASE d = link
        <5>1. OnceIn(l)
          BY <2>1 DEF OncePrinted, LinesOnce, l
        <5>2. ~On(Lines, p, sent + 1)
          BY <1>2, <2>6
        <5>3. \A i \in DOMAIN l : ~(l[i].for.press = p /\ l[i].slice = sent + 1)
          BY <2>1, <5>2 DEF On, l
        <5> QED
          BY <2>3, <2>4, <4>2, <5>1, <5>3 DEF OnceIn
      <4> QED
        BY <4>1, <4>2
    <3> QED
      BY <3>1 DEF LinesOnce
  <2> QED
    BY <1>4, <2>7, <2>9, <2>10, <2>11, <2>12 DEF OncePrinted
<1> QED
  BY <1>6, <1>7

\* The driver is done with a job, and the bridge is told.
LEMMA EndsOnce ==
  ASSUME PrinterInv, PrinterInv', OncePrinted, Undisturbed, Undisturbed', Driver, queue' # queue
  PROVE  OncePrinted'
<1>1. /\ queue # <<>> /\ queue' = Tail(queue) /\ at' = "start" /\ Lines' = Lines
      /\ Current.kind = "image" => IF result' = "done" THEN at = "running" /\ sent = Slices
                                   ELSE result' = "failed" /\ at # "running"
  BY DriverDone DEF Driver, DriverDoes, PrinterInv, Undisturbed
<1>2. /\ Current \in Jobs /\ Current = queue[1] /\ 1 \in DOMAIN queue /\ Len(queue) \in Nat \ {0}
      /\ queue \in Seq(Jobs)
  BY <1>1, CurrentIs DEF PrinterInv, DriverType
<1>3. /\ Len(queue') < Len(queue)
      /\ \A i \in DOMAIN queue' : i \in Nat /\ i + 1 \in DOMAIN queue /\ queue'[i] = queue[i + 1] /\ i + 1 # 1
      /\ \A i, j \in DOMAIN queue' : i + 1 = j + 1 => i = j
  BY <1>1, <1>2
<1>j. HookInv /\ job = pending /\ (screen = None => job = None) /\ (web # "none" => job # None)
  BY DEF PrinterInv, HookInv
<1>o. Alone /\ Unstarted /\ ShownFresh /\ Queued /\ QueuedOnce /\ LinesOnce /\ ToldWhole /\ SentSoFar
  BY DEF OncePrinted
<1>a. UNCHANGED <<screen, saved, status>>
  BY DEF Driver, app, server
<1>4. \A q : Fresh(q) => Fresh(q)'
  BY <1>1, <1>3 DEF Fresh
<1>5. QueuedOnce' /\ LinesOnce' /\ SentSoFar'
  <2>1. QueuedOnce'
    <3>1. ASSUME NEW i \in DOMAIN queue', NEW k \in DOMAIN queue', queue'[i].kind = "image",
                 queue'[k].kind = "image", queue'[i].for.press = queue'[k].for.press
          PROVE  i = k
      <4>1. i + 1 = k + 1
        BY <1>3, <1>o, <3>1 DEF QueuedOnce
      <4> QED
        BY <1>3, <4>1
    <3> QED
      BY <3>1 DEF QueuedOnce
  <2> QED
    BY <1>1, <1>o, <2>1 DEF LinesOnce, SentSoFar
<1>6. \A i \in DOMAIN queue' : queue'[i].kind = "image" =>
        /\ screen = None \/ job = queue'[i].for.press
        /\ job # None => web = "exported"
        /\ \A n \in Nat : ~On(Lines, queue'[i].for.press, n)
        /\ Current.kind = "image" => queue'[i].for.press # Current.for.press
  BY <1>2, <1>3, <1>o DEF Queued, QueuedOnce
<1>7. CASE Current.kind # "image"
  <2>1. UNCHANGED <<web, press, pending, job>>
    BY <1>7 DEF Driver, promise, bridge
  <2>2. Alone' /\ Unstarted' /\ ShownFresh' /\ Queued' /\ ToldWhole'
    BY <1>1, <1>4, <1>6, <1>a, <1>o, <2>1
       DEF Alone, UnderWay, Step, Unstarted, ShownFresh, Queued, ToldWhole, Whole
  <2> QED
    BY <1>5, <2>2 DEF OncePrinted
<1>8. CASE Current.kind = "image"
  <2> DEFINE p == Current.for.press
  <2>1. Printed(Current.for, result') /\ p \in Presses
    BY <1>2, <1>3, <1>8, JobsAre DEF Driver, Closures
  <2>2. screen # None => job = p /\ pending = p
    BY <1>2, <1>8, <1>j, <1>o DEF Queued
  <2>3. screen # None => \A i \in DOMAIN queue' : queue'[i].kind # "image"
    BY <1>6, <1>8, <2>2
  <2>4. CASE ClearPending("done") /\ result' = "done"
    <3>1. Whole(p)
      <4>1. \A n \in 1..Slices : n \in Nat
        OBVIOUS
      <4> QED
        BY <1>1, <1>8, <1>o, <2>4, <4>1 DEF Whole, SentSoFar
    <3>2. press' = (IF pending = None THEN press ELSE [press EXCEPT ![pending] = After(@, "done")])
          /\ pending' = None /\ web' = "none" /\ job' = None
      BY <2>4 DEF ClearPending, Show
    <3>3. /\ PressesKept
          /\ \A q \in Presses : q # pending => press'[q] = press[q]
          /\ pending # None => press'[pending].printed = IF "done" = "done" THEN "yes" ELSE "failed"
      BY <1>j, <3>2, Told
    <3>4. Alone'
      BY <1>o, <3>3, StaysAlone
    <3>5. \A q \in Presses : press'[q].kind = press[q].kind
      BY <3>3 DEF PressesKept, PressKept
    <3>6. \A q \in Presses : press'[q] = press[q] \/ (q = p /\ press'[q].printed = "yes")
      BY <1>j, <2>2, <3>3, ScreensAssumption
    <3>7. Unstarted'
      <4>1. \A q \in Presses : press'[q].printed = "no" => press[q].printed = "no" /\ (q = pending => q = None)
        BY <3>3, <3>6
      <4> QED
        BY <1>4, <1>o, <4>1, ScreensAssumption DEF Unstarted
    <3>8. ShownFresh'
      BY <3>2 DEF ShownFresh
    <3>9. Queued'
      BY <1>1, <1>6, <1>a, <2>3, <3>2 DEF Queued
    <3>10. ToldWhole'
      BY <1>1, <1>a, <1>o, <3>1, <3>5, <3>6 DEF ToldWhole, Whole
    <3> QED
      BY <1>5, <3>4, <3>7, <3>8, <3>9, <3>10 DEF OncePrinted
  <2>5. CASE Retry(Current.for) /\ result' # "done"
    <3>1. \A n \in Nat : ~On(Lines, p, n)
      BY <1>1, <1>2, <1>8, <1>o, <2>5 DEF Queued
    <3>2. screen # None => \A q : q = p => Fresh(q)'
      <4>1. ASSUME screen # None, NEW n \in Nat PROVE ~On(Lines', p, n)
        BY <1>1, <3>1
      <4>2. ASSUME screen # None, NEW i \in DOMAIN queue' PROVE queue'[i].kind # "image"
        BY <2>3, <4>2
      <4> QED
        BY <4>1, <4>2 DEF Fresh
    <3>3. CASE ClearPending("failed")
      <4>1. press' = (IF pending = None THEN press ELSE [press EXCEPT ![pending] = After(@, "failed")])
            /\ pending' = None /\ web' = "none" /\ job' = None
        BY <3>3 DEF ClearPending, Show
      <4>2. /\ PressesKept
            /\ \A q \in Presses : q # pending => press'[q] = press[q]
            /\ pending # None => press'[pending].printed = IF "failed" = "done" THEN "yes" ELSE "failed"
        BY <1>j, <4>1, Told
      <4>3. Alone'
        BY <1>o, <4>2, StaysAlone
      <4>4. \A q \in Presses : press'[q].kind = press[q].kind
        BY <4>2 DEF PressesKept, PressKept
      <4>5. \A q \in Presses : press'[q] = press[q] \/ (q = pending /\ press'[q].printed = "failed")
        BY <4>2, ScreensAssumption
      <4>6. Unstarted'
        <5>1. \A q \in Presses : press'[q].printed = "no" => press[q].printed = "no" /\ (q = pending => q = None)
          BY <4>2, <4>5
        <5> QED
          BY <1>4, <1>o, <5>1, ScreensAssumption DEF Unstarted
      <4>7. ShownFresh' /\ Queued'
        BY <1>1, <1>6, <1>a, <2>3, <4>1 DEF ShownFresh, Queued
      <4>8. ToldWhole'
        BY <1>1, <1>a, <1>o, <4>4, <4>5 DEF ToldWhole, Whole
      <4> QED
        BY <1>5, <4>3, <4>6, <4>7, <4>8 DEF OncePrinted
    <3>4. CASE UNCHANGED <<promise, job>> /\ (UNCHANGED web \/ (web' = "loading" /\ job # None))
      <4>1. UNCHANGED <<press, pending, job>>
        BY <3>4 DEF promise
      <4>2. Alone' /\ Unstarted' /\ ToldWhole'
        BY <1>1, <1>4, <1>a, <1>o, <4>1 DEF Alone, UnderWay, Step, Unstarted, ToldWhole, Whole
      <4>3. ShownFresh'
        <5>1. CASE UNCHANGED web
          BY <1>4, <1>o, <4>1, <5>1 DEF ShownFresh
        <5>2. CASE job # None
          BY <1>j, <2>2, <3>2, <4>1, <5>2 DEF ShownFresh
        <5> QED
          BY <3>4, <5>1, <5>2
      <4>4. Queued'
        <5>1. CASE screen = None
          BY <1>1, <1>6, <1>a, <1>j, <4>1, <5>1 DEF Queued
        <5>2. CASE screen # None
          BY <2>3, <5>2 DEF Queued
        <5> QED
          BY <5>1, <5>2
      <4> QED
        BY <1>5, <4>2, <4>3, <4>4 DEF OncePrinted
    <3> QED
      BY <2>5, <3>3, <3>4 DEF Retry, NextAttempt, bridge
  <2> QED
    BY <2>1, <2>4, <2>5 DEF Printed
<1> QED
  BY <1>7, <1>8

-----------------------------------------------------------------------------
LEMMA DriverInvNext ==
  ASSUME PrinterInv, [Next]_vars
  PROVE  DriverType' /\ DevicesType' /\ JobInv'
<1>1. CASE Driver
  BY <1>1, DriverDone DEF Driver, PrinterInv
<1>2. CASE Outside
  <2>1. CASE DevicesStep
    BY <2>1, DevicesDone DEF PrinterInv
  <2>2. CASE IdleTimeout \/ Background
    <3>1. Bye \in Jobs
      BY DEF Jobs
    <3>2. timer' \in BOOLEAN
      BY <2>2 DEF IdleTimeout, Background, PrinterInv, DriverType
    <3> QED
      BY <2>2, <3>1, <3>2, JobAdded DEF IdleTimeout, Background, PrinterInv
  <2> QED
    BY <1>2, <2>1, <2>2 DEF Outside
<1>3. CASE Export
  <2>1. Job("image", press[job].device, Closure) \in Jobs /\ Enqueue(Job("image", press[job].device, Closure))
        /\ UNCHANGED <<at, sent, result, session, drain, timer, devices>>
    BY <1>3, ExportedJob DEF Export
  <2>2. timer' \in BOOLEAN
    BY <2>1 DEF PrinterInv, DriverType
  <2> QED
    BY <2>1, <2>2, JobAdded DEF PrinterInv
<1>4. CASE UNCHANGED <<driver, devices>>
  <2>1. Lines' = Lines
    BY <1>4 DEF devices, Lines
  <2> QED
    BY <1>4, <2>1 DEF driver, devices, PrinterInv, DriverType, DevicesType, JobInv, Running, Current
<1>5. Driver \/ Outside \/ Export \/ UNCHANGED <<driver, devices>>
  <2>1. CASE \E p \in Presses, kind \in DOMAIN Script, d \in Devices : Press(p, kind, d)
    BY <2>1 DEF Press
  <2>2. CASE Handlers
    BY <2>2 DEF Handlers, StartJob, Ask, Patch
  <2>3. CASE Bridge
    BY <2>3 DEF Bridge, Load, ExportFails
  <2>4. CASE Reload \/ Loaded \/ Leave \/ UNCHANGED vars
    BY <2>4 DEF Reload, Loaded, Leave, vars
  <2> QED
    BY <2>1, <2>2, <2>3, <2>4 DEF Next
<1> QED
  BY <1>1, <1>2, <1>3, <1>4, <1>5

LEMMA ReceiptNext == ASSUME ReceiptInv, [Next]_vars PROVE ReceiptInv'
<1>1. PrinterInv
  BY DEF ReceiptInv, PrinterInv
<1>2. PrinterInv'
  BY <1>1, DriverInvNext, HookNext, Keeps DEF PrinterInv
<1>3. ASSUME Undisturbed' PROVE OncePrinted'
  <2>1. Undisturbed /\ OncePrinted
    BY <1>1, <1>3, WasUndisturbed DEF ReceiptInv, PrinterInv, OnceInv
  <2>2. CASE Driver
    BY <1>1, <1>2, <1>3, <2>1, <2>2, RunsOnce, EndsOnce
  <2>3. CASE Outside
    BY <1>1, <1>2, <1>3, <2>1, <2>3, OutsideOnce
  <2>4. CASE Export
    BY <1>1, <1>2, <2>1, <2>4, ExportOnce
  <2>5. CASE \/ \E p \in Presses, kind \in DOMAIN Script, d \in Devices : Press(p, kind, d)
             \/ Handlers \/ Load \/ ExportFails \/ Reload \/ Loaded \/ Leave
    <3>1. UNCHANGED <<driver, devices>>
      BY <2>5, Zenon DEF Press, Handlers, StartJob, Ask, Patch, Load, ExportFails, Reload, Loaded, Leave
    <3> QED
      BY <1>1, <1>2, <1>3, <2>1, <2>5, <3>1, AppOnce
  <2>6. CASE UNCHANGED vars
    <3>1. UNCHANGED <<driver, devices, Lines, web, screen, press, pending, job, saved, status, queue, at, sent>>
      BY <2>6 DEF vars, app, server, promise, bridge, driver, devices, Lines
    <3>2. Alone' /\ Unstarted' /\ ShownFresh' /\ Queued' /\ QueuedOnce' /\ SentSoFar' /\ LinesOnce' /\ ToldWhole'
      BY <2>1, <3>1 DEF OncePrinted, Alone, UnderWay, Step, Unstarted, Fresh, ShownFresh, Queued, QueuedOnce,
                        SentSoFar, Current, LinesOnce, ToldWhole, Whole
    <3> QED
      BY <3>2 DEF OncePrinted
  <2> QED
    BY <2>2, <2>3, <2>4, <2>5, <2>6 DEF Next, Bridge
<1> QED
  BY <1>2, <1>3 DEF PrinterInv, ReceiptInv, OnceInv, OncePrinted

LEMMA ReceiptInit == ASSUME Init PROVE ReceiptInv
<1>1. \A d \in Devices : paper[d] = <<>> /\ Lines[d] = <<>>
  <2>1. paper = [d \in Devices |-> <<>>] /\ link = None
    BY Zenon DEF Init, DriverInit
  <2>2. \A d \in Devices : paper[d] = <<>> /\ d # link
    BY <2>1, PrinterAssumption, Zenon
  <2> QED
    BY <2>2, Zenon DEF Lines
<1>2. DriverType /\ DevicesType /\ DrainInv
  <2>1. <<>> \in Seq(Jobs) /\ <<>> \in Seq(Sheets) /\ 0 \in 0..Slices /\ IsSeq(<<>>)
    BY PrinterAssumption DEF IsSeq
  <2>2. paper \in [Devices -> Seq(Sheets)]
    BY <2>1 DEF Init, DriverInit
  <2>3. DriverType /\ DevicesType
    BY <2>1, <2>2 DEF Init, DriverInit, DriverType, DevicesType
  <2> QED
    BY <2>1, <2>3 DEF Init, DriverInit, DrainInv, Unwaited
<1>3. JobInv
  BY <1>1 DEF Init, DriverInit, JobInv, WholeLine
<1>4. HookInv
  <2>1. Idle \in PressType /\ Idle.kind = None /\ Idle.step = 0 /\ Idle.printed = "no"
    BY DEF Idle, PressType
  <2>2. None # "retailer"
    BY ScreensAssumption DEF Script
  <2> QED
    BY <2>1, <2>2, ScreensAssumption DEF Init, HookInv, PressType
<1>5. \A q, n : ~On(Lines, q, n)
  BY <1>1 DEF On
<1>6. OnceInv
  <2>1. \A q : Fresh(q)
    BY <1>5 DEF Fresh, Init, DriverInit
  <2>2. \A q \in Presses : ~UnderWay(q) /\ press[q].printed = "no" /\ press[q].kind = None
    BY DEF Init, Idle, UnderWay
  <2> QED
    BY <1>1, <2>1, <2>2 DEF Init, DriverInit, OnceInv, OncePrinted, Alone, Unstarted, ShownFresh, Queued, QueuedOnce,
                             SentSoFar, LinesOnce, OnceIn, ToldWhole
<1> QED
  BY <1>2, <1>3, <1>4, <1>6 DEF ReceiptInv, PrinterInv

\* The hook, the bridge and the driver agree on every job in every state.
THEOREM ReceiptsKept == Spec => []ReceiptInv
<1>1. Init => ReceiptInv
  BY ReceiptInit
<1>2. ReceiptInv /\ [Next]_vars => ReceiptInv'
  BY ReceiptNext
<1> QED
  BY <1>1, <1>2, PTL DEF Spec

\* What comes out of a printer are whole receipts, whatever is pressed, printed, left and tried
\* again, and each once while nothing disturbs.
THEOREM ReceiptsAreWhole == Spec => []PaperInv
<1>1. ASSUME ReceiptInv PROVE PaperInv
  <2>1. TypeOK
    <3>1. /\ drain \in BOOLEAN /\ timer \in BOOLEAN /\ loading \in BOOLEAN /\ busy \in BOOLEAN
      BY <1>1 DEF ReceiptInv, PrinterInv, DriverType, HookInv
    <3> QED
      BY <1>1, <3>1 DEF ReceiptInv, PrinterInv, DriverType, DevicesType, HookInv, TypeOK
  <2>2. ReceiptsWhole
    <3>0. DevicesType /\ \A d \in Devices : WholeLine(Lines[d], d)
      BY <1>1, Zenon DEF ReceiptInv, PrinterInv, JobInv
    <3>1. \A d \in Devices : WholeLine(paper[d], d)
      BY <3>0, PaperIsWhole, Zenon
    <3> QED
      BY <3>1 DEF WholeLine, ReceiptsWhole
  <2>3. PrintedOnce
    <3>1. ASSUME Undisturbed, NEW d \in Devices PROVE OnceIn(paper[d])
      <4>1. OnceIn(Lines[d])
        BY <1>1, <3>1 DEF ReceiptInv, PrinterInv, OnceInv, OncePrinted, LinesOnce
      <4>2. paper[d] \in Seq(Sheets) /\ buffer \in Seq(Sheets)
        BY <1>1 DEF ReceiptInv, PrinterInv, DevicesType
      <4>3. \A i \in DOMAIN paper[d] : i \in DOMAIN Lines[d] /\ Lines[d][i] = paper[d][i]
        BY <4>2 DEF Lines
      <4> QED
        BY <4>1, <4>3 DEF OnceIn
    <3> QED
      BY <3>1 DEF OnceIn, PrintedOnce
  <2> QED
    BY <2>1, <2>2, <2>3 DEF PaperInv
<1> QED
  BY <1>1, ReceiptsKept, PTL

\* While one button prints at a time, its screen stays as it is and the printers stay on and are
\* done when the wait for them is over (Undisturbed), a receipt that the app takes as printed, by its
\* status or by saving its sale, is on paper or in the buffer of its printer.
THEOREM ToldReceiptsArePrinted == Spec => []ToldAsPrinted
<1>1. ASSUME ReceiptInv PROVE ToldAsPrinted
  <2>1. ASSUME NEW p \in Presses, Whole(p) PROVE HasReceipt(p)
    <3>1. DevicesType /\ (buffer # <<>> => link \in Devices)
      BY <1>1 DEF ReceiptInv, PrinterInv, JobInv, DriverType
    <3> QED
      BY <2>1, <3>1, OnIsSlice DEF Whole, HasReceipt
  <2>2. Undisturbed => ToldWhole /\ saved \subseteq Presses
    BY <1>1 DEF ReceiptInv, PrinterInv, OnceInv, OncePrinted, HookInv
  <2> QED
    BY <2>1, <2>2 DEF ToldAsPrinted, ToldWhole, PrintedIsPrinted, SavedSaleHasReceipt
<1> QED
  BY <1>1, ReceiptsKept, PTL
=============================================================================
