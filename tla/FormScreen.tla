----------------------------- MODULE FormScreen -----------------------------
(***************************************************************************)
(* What the app changes on the server: in an editor (a modal, a row edited *)
(* in place, a screen of its own) that is opened on a record, typed into   *)
(* and saved, or with one press on a record (a switch, a row that is       *)
(* dragged, a deletion once confirmed).  While the calls of a save run the *)
(* user may go on: dismiss the editor, open another record, press again.   *)
(* What a form forbids meanwhile, and what the end of a save does to the   *)
(* editor that is then open, is its record in `Forms' (module AppForms).   *)
(***************************************************************************)
EXTENDS Naturals

CONSTANTS
  Forms,     \* the editors under check
  Records,   \* what they edit
  MaxTyped,  \* bound: changes typed
  MaxSaves   \* bound: saves made

VARIABLES
  form,    \* the editor the screen has
  open,    \* the record it is open on, or None
  draft,   \* what is typed there: a change, 0 while there is none
  typed,   \* changes typed so far
  saving,  \* records whose save the screen shows as running
  since,   \* saves made before the editor was there
  saves,   \* saves on their way
  made,    \* saves made so far
  server,  \* the change each record has on the server
  shown,   \* the change the list shows
  told,    \* records whose last save, or the load after it, the user saw fail
  crossed  \* history: records whose last save ran beside another that may answer for them

formVars ==
  <<form, open, draft, typed, saving, since, saves, made, server, shown, told, crossed>>

None == "none"

\* The common modal: Save is disabled while it runs, the cross and the back button are not.
Plain == [
  presses  |-> FALSE,  \* records are changed by a press, without an editor
  toggles  |-> FALSE,  \* records that are not open are, too, while no save is shown as running
  again    |-> FALSE,  \* Save can be pressed while a save runs
  closes   |-> TRUE,   \* the editor can be dismissed while a save runs
  switches |-> FALSE,  \* it is opened on another record without being dismissed
  waits    |-> FALSE,  \* it is opened only while no save is shown as running
  flag     |-> "one",  \* what disables Save: any save ("one"), or one of the same record, where
                       \* the screen remembers the "last" record saved, or "each"
  forgets  |-> FALSE,  \* opening it turns the flag off
  fresh    |-> FALSE,  \* a screen of its own, new whenever it is opened
  calls    |-> 1,      \* calls of a save, one after the other
  ends     |-> "any",  \* the end closes "any" editor, its "own", or "none",
  late     |-> FALSE,  \* once the list is loaded anew
  ahead    |-> FALSE,  \* the list shows the change before it is saved
  then     |-> {"reload"}, \* what becomes of the list, and
  fails    |-> {"stays"}]  \* what after a failure, a way of those below

\* The list, or the row, is loaded before the save ends, or the list beside it ("aside").
Reloads == {"reload", "row", "aside"}

\* The answer brings the record ("patch") or the whole list, or nothing that is listed.
Answers == {"patch", "list", "nothing"}

Behaviours == [
  presses : BOOLEAN, toggles : BOOLEAN, again : BOOLEAN, closes : BOOLEAN, switches : BOOLEAN,
  waits : BOOLEAN, flag : {"one", "last", "each"}, forgets : BOOLEAN, fresh : BOOLEAN,
  calls : 1..2, ends : {"any", "own", "none"}, late : BOOLEAN, ahead : BOOLEAN,
  then : SUBSET (Reloads \cup Answers), fails : SUBSET (Reloads \cup {"stays"})]

\* A list that the end of a save leaves alone shows the change already.
ASSUME FormAssumption ==
  /\ None \notin Records /\ MaxTyped \in Nat /\ MaxSaves \in Nat
  /\ Forms \subseteq Behaviours
  /\ \A f \in Forms : "nothing" \in f.then => f.ahead

-----------------------------------------------------------------------------
(* The user.                                                               *)

Running(r) == IF form.flag = "one" THEN saving # {} ELSE r \in saving

Open(r) ==
  /\ ~form.presses /\ (form.waits => saving = {})
  /\ open = None \/ (form.switches /\ open # r)
  /\ open' = r /\ draft' = 0
  /\ saving' = IF form.forgets \/ form.fresh THEN {} ELSE saving
  /\ since' = IF form.fresh THEN made ELSE 0
  /\ UNCHANGED <<form, typed, saves, made, server, shown, told, crossed>>

Type ==
  /\ open # None /\ typed < MaxTyped
  /\ typed' = typed + 1 /\ draft' = typed + 1
  /\ UNCHANGED <<since, form, open, saving, saves, made, server, shown, told, crossed>>

Dismiss ==
  /\ open # None
  /\ form.closes \/ ~Running(open)
  /\ open' = None /\ draft' = 0
  /\ UNCHANGED <<since, form, typed, saving, saves, made, server, shown, told, crossed>>

\* A save of one record may answer for another: the list it loads or brings has both.
Whole == (form.then \cup form.fails) \cap {"list", "reload", "aside"} # {}
Meets(r, q) == r = q \/ Whole

Start(r, change, pressed) ==
  LET beside == {t.record : t \in {s \in saves : Meets(r, s.record)}} IN
  /\ made < MaxSaves /\ made' = made + 1
  /\ form.again \/ ~Running(r)
  /\ saves' = saves \cup {[id |-> made + 1, record |-> r, change |-> change, pressed |-> pressed,
                            call |-> 1, way |-> "calls", served |-> FALSE, list |-> shown]}
  /\ saving' = {r} \cup (IF form.flag = "each" THEN saving ELSE {})
  /\ shown' = IF form.ahead THEN [shown EXCEPT ![r] = change] ELSE shown
  /\ told' = told \ {r}
  /\ crossed' = IF beside = {} THEN crossed \ {r} ELSE crossed \cup {r} \cup beside
  /\ UNCHANGED <<form, server>>

Save ==
  /\ open # None /\ draft # 0
  /\ Start(open, draft, FALSE)
  /\ UNCHANGED <<since, open, draft, typed>>

PressSave(r) ==
  /\ form.presses \/ (form.toggles /\ open # r /\ saving = {})
  /\ typed < MaxTyped
  /\ Start(r, typed + 1, TRUE)
  /\ typed' = typed + 1
  /\ UNCHANGED <<since, open, draft>>

-----------------------------------------------------------------------------
(* The calls of a save: call 1 changes the record, others complete it, and *)
(* a load may follow.  The server carries a call out at some time before   *)
(* its answer arrives.                                                     *)

Reloading(s) == s.way # "calls"

NextCall(s, call) == [s EXCEPT !.call = call, !.served = FALSE]

Loading(s, way) == [s EXCEPT !.way = way, !.served = FALSE]

Served(s, list) == [s EXCEPT !.served = TRUE, !.list = list]

Serve(s) ==
  LET now == IF s.call = 1 /\ ~Reloading(s) THEN [server EXCEPT ![s.record] = s.change] ELSE server
  IN
  /\ ~s.served
  /\ server' = now
  /\ saves' = (saves \ {s}) \cup {Served(s, IF Reloading(s) \/ "list" \in form.then THEN now ELSE s.list)}
  /\ UNCHANGED <<since, form, open, draft, typed, saving, made, shown, told, crossed>>

Closing(s) == ~s.pressed /\ (form.ends = "any" \/ (form.ends = "own" /\ open = s.record))

EndEditor(s) ==
  IF Closing(s) THEN open' = None /\ draft' = 0 ELSE UNCHANGED <<open, draft>>

\* Faulty: the flag is turned off only while the record is still open.
FreedWhileOpen(s) == IF open # None /\ open # s.record THEN saving ELSE {}

\* The flag once a save has ended, on the screen that began it.
Freed(s) ==
  IF s.id <= since THEN saving ELSE IF form.flag = "each" THEN saving \ {s.record} ELSE {}

End(s) ==
  /\ saves' = saves \ {s}
  /\ saving' = IF s.way = "aside" THEN saving ELSE Freed(s)

Load(s, way) ==
  /\ saves' = (saves \ {s}) \cup {Loading(s, way)}
  /\ saving' = IF way = "aside" THEN Freed(s) ELSE saving

\* Faulty: the answer is listed for the record that is open by then.
ListedForOpen(s, way) ==
  CASE way = "patch" -> [shown EXCEPT ![IF open = None THEN s.record ELSE open] = s.change]
    [] way = "list" -> s.list
    [] OTHER -> shown

ListedAfter(s, way) ==
  CASE way = "patch" -> [shown EXCEPT ![s.record] = s.change]
    [] way = "list" -> s.list
    [] OTHER -> shown

\* A call is answered, and the next one made.
Continue(s) ==
  /\ s.served /\ ~Reloading(s) /\ s.call < form.calls
  /\ saves' = (saves \ {s}) \cup {NextCall(s, s.call + 1)}
  /\ UNCHANGED <<since, form, open, draft, typed, saving, made, server, shown, told, crossed>>

\* The last one is answered.
Succeed(s) ==
  /\ s.served /\ ~Reloading(s) /\ s.call = form.calls
  /\ \E way \in form.then :
       /\ IF way \in Reloads THEN Load(s, way) ELSE End(s)
       /\ shown' = ListedAfter(s, way)
       /\ IF form.late /\ way \in Reloads THEN UNCHANGED <<open, draft>> ELSE EndEditor(s)
  /\ UNCHANGED <<since, form, typed, made, server, told, crossed>>

\* A call fails, carried out or not; where the list is then loaded aside the record is gone or
\* has been changed, and the editor is closed.
Fail(s) ==
  /\ ~Reloading(s) /\ told' = told \cup {s.record}
  /\ \E way \in form.fails :
       /\ IF way \in Reloads THEN Load(s, way) ELSE End(s)
       /\ IF way = "aside" THEN EndEditor(s) ELSE UNCHANGED <<open, draft>>
  /\ UNCHANGED <<since, form, typed, made, server, shown, crossed>>

\* What was loaded after a save arrives, or does not.
Reloaded(s) ==
  /\ Reloading(s) /\ s.served
  /\ End(s)
  /\ shown' = IF s.way = "row" THEN [shown EXCEPT ![s.record] = s.list[s.record]] ELSE s.list
  /\ IF form.late THEN EndEditor(s) ELSE UNCHANGED <<open, draft>>
  /\ UNCHANGED <<since, form, typed, made, server, told, crossed>>

NotReloaded(s) ==
  /\ Reloading(s)
  /\ End(s) /\ told' = told \cup {s.record}
  /\ UNCHANGED <<since, form, open, draft, typed, made, server, shown, crossed>>

-----------------------------------------------------------------------------
FormInit ==
  /\ form \in Forms
  /\ open = None /\ draft = 0 /\ typed = 0
  /\ saving = {} /\ since = 0 /\ saves = {} /\ made = 0
  /\ told = {} /\ crossed = {}
  /\ server = [r \in Records |-> 0] /\ shown = server

Changes == [Records -> 0..MaxTyped]

Requests == [id : 1..MaxSaves, record : Records, change : 1..MaxTyped, pressed : BOOLEAN,
             call : 1..2, way : {"calls"} \cup Reloads, served : BOOLEAN, list : Changes]

\* An editor is open on a record, and saves carry what was typed.
TypeOK ==
  /\ form \in Forms
  /\ open \in Records \cup {None} /\ typed \in 0..MaxTyped /\ draft \in 0..typed
  /\ saving \subseteq Records /\ told \subseteq Records /\ crossed \subseteq Records
  /\ saves \subseteq Requests /\ made \in 0..MaxSaves /\ since \in 0..made
  /\ server \in Changes /\ shown \in Changes

User == (\E r \in Records : Open(r)) \/ Type \/ Dismiss \/ Save \/ (\E r \in Records : PressSave(r))
Server ==
  \E s \in saves :
    Serve(s) \/ Continue(s) \/ Succeed(s) \/ Fail(s) \/ Reloaded(s) \/ NotReloaded(s)

FormNext == User \/ Server

\* Every call is answered or times out (the client's limit of ApiClient).
FormSpec == FormInit /\ [][FormNext]_formVars /\ WF_formVars(Server)
=============================================================================
