------------------------------- MODULE Session -------------------------------
(***************************************************************************)
(* The session of the app's user (frontend/src/store/auth-store.ts,        *)
(* auth/bootstrap-auth.ts, screens/auth/login-screen.tsx): a token and a   *)
(* user in memory, and a copy in secure storage that the next launch       *)
(* restores.  Launching, logging in, signing out and coming back to the    *)
(* foreground run as asynchronous functions that meet at every await; the  *)
(* epoch of the session tells each whether it is still the one it served.  *)
(*                                                                         *)
(* Operations of secure storage take effect in any order: nothing the code *)
(* uses promises another.  The app may be killed at any point.             *)
(***************************************************************************)
EXTENDS Naturals, Sequences, SequencesExt

CONSTANTS
  MaxLogins,  \* bound: sessions begun
  MaxLaunches,\* bound: launches after the first
  MaxEpoch,   \* bound: changes of session in a launch
  MaxWrites,  \* bound: storage operations under way
  Corrupt,    \* a stored payload that does not parse
  None        \* no session

VARIABLES
  token,      \* token in memory (its user goes with it), None when signed out
  checked,    \* sessionChecked
  hydrated,   \* hydrated
  epoch,      \* authSessionEpoch
  scope,      \* the session's abort scope
  disk,       \* the payload under AUTH_STORAGE_KEY
  writes,     \* storage operations under way, as they were issued
  persist,    \* persistWriteEpoch
  boot,       \* the bootstrap function: where it waits, and what for
  watchdog,   \* is the bootstrap's timer running?
  foreground, \* the validation when the app comes back to the foreground
  loggingIn,  \* does the login form wait for its answer?
  loggingOut, \* logoutInFlight
  issued,     \* tokens issued so far
  expired,    \* tokens past their expiry
  revoked,    \* tokens the server does not take any more
  ended,      \* tokens signed out or cleared, in an earlier launch only if it
              \* got to finish its storage operations
  launches    \* launches after the first

memory == <<token, checked, hydrated, epoch, scope>>
storage == <<disk, writes, persist>>
server == <<issued, expired, revoked>>
flows == <<boot, watchdog, foreground, loggingIn, loggingOut>>
vars == <<memory, storage, server, flows, ended, launches>>

Tokens == 0..MaxLogins   \* 0 is of a session before the first launch
Idle == [at |-> "idle", epoch |-> 0, token |-> None, scope |-> 0]

\* What Session asks of its constants.
SessionAssumption ==
  /\ {MaxLogins, MaxLaunches, MaxEpoch, MaxWrites} \subseteq Nat
  /\ {None, Corrupt} \cap Tokens = {} /\ None # Corrupt

\* What the navigator asks before it leaves the splash screen.
Ready == hydrated /\ (token = None \/ checked)

-----------------------------------------------------------------------------
(* Storage.                                                                *)

Write(op, t) == [op |-> op, token |-> t, epoch |-> persist, stage |-> "issued"]

\* persistAuthSession and clearAuthStorage up to their await.
Persist(t) == writes' = Append(writes, Write("set", t)) /\ UNCHANGED <<disk, persist>>
ClearStorage(by) ==
  /\ persist' = persist + 1
  /\ writes' = Append(writes, Write(by, None))
  /\ UNCHANGED disk

\* An operation takes effect ...
Apply(i) ==
  /\ writes[i].stage = "issued"
  /\ disk' = writes[i].token
  /\ writes' = [writes EXCEPT ![i].stage = "applied"]
  /\ UNCHANGED <<memory, persist, server, flows, ended, launches>>

\* Faulty: a write that was overtaken by a sign-out is left as it is.
KeepsOvertaken(i) ==
  /\ writes[i].stage = "applied"
  /\ writes' = RemoveAt(writes, i)
  /\ loggingOut' = (loggingOut /\ writes[i].op # "logout")
  /\ UNCHANGED <<memory, disk, persist, server, boot, watchdog, foreground, loggingIn,
                 ended, launches>>

\* ... and then the function that awaited it goes on: a session written while it
\* was being signed out is removed again.
GoOn(i) ==
  /\ writes[i].stage = "applied"
  /\ writes' = IF writes[i].op = "set" /\ writes[i].epoch # persist
               THEN Append(RemoveAt(writes, i), Write("undo", None)) ELSE RemoveAt(writes, i)
  /\ loggingOut' = (loggingOut /\ writes[i].op # "logout")
  /\ UNCHANGED <<memory, disk, persist, server, boot, watchdog, foreground, loggingIn,
                 ended, launches>>

-----------------------------------------------------------------------------
(* Changes of the session.  Each runs to its first await.                  *)

SetSession(t) ==
  /\ epoch' = epoch + 1
  /\ scope' = scope + 1
  /\ token' = t /\ checked' = TRUE /\ hydrated' = TRUE
  /\ Persist(t)
  /\ UNCHANGED ended

\* logout; one that is under way is all there is.
Logout ==
  IF loggingOut THEN UNCHANGED <<memory, storage, ended, loggingOut>>
  ELSE /\ epoch' = epoch + 1
       /\ scope' = scope + 1
       /\ token' = None /\ checked' = TRUE /\ UNCHANGED hydrated
       /\ ended' = IF token = None THEN ended ELSE ended \cup {token}
       /\ loggingOut' = TRUE
       /\ ClearStorage("logout")

\* clearInvalidAuthSession.
ClearInvalid ==
  /\ epoch' = epoch + 1
  /\ scope' = scope + 1
  /\ token' = None /\ checked' = TRUE /\ hydrated' = TRUE
  /\ ended' = IF token = None THEN ended ELSE ended \cup {token}
  /\ ClearStorage("clear")

\* completeBootstrapWithWatchdog.
Complete ==
  IF token # None /\ ~checked /\ token \in expired THEN ClearInvalid
  ELSE /\ hydrated' = TRUE /\ checked' = TRUE
       /\ UNCHANGED <<token, epoch, scope, storage, ended>>

-----------------------------------------------------------------------------
(* Launch.                                                                 *)

Finished == boot' = Idle /\ watchdog' = FALSE

\* Restore t and ask the server for its user.
Restore(t) ==
  /\ epoch' = epoch + 1
  /\ token' = t /\ checked' = FALSE /\ hydrated' = FALSE
  /\ boot' = [at |-> "validating", epoch |-> epoch + 1, token |-> t, scope |-> scope]
  /\ UNCHANGED <<scope, storage, ended, watchdog>>

MarkComplete(done) ==
  /\ hydrated' = TRUE /\ checked' = done
  /\ UNCHANGED <<token, epoch, scope, storage, ended>>

\* runAuthBootstrap with the payload it read.
Resume(payload) ==
  IF payload \in Tokens \ expired /\ boot.epoch = epoch THEN Restore(payload)
  ELSE /\ IF payload = None THEN MarkComplete(TRUE)
          ELSE IF payload \in Tokens \ expired THEN MarkComplete(checked) ELSE ClearInvalid
       /\ Finished

\* Reading may fail: the payload is as good as corrupt.
ReadSession ==
  /\ boot.at = "reading"
  /\ \E payload \in {disk, Corrupt} : Resume(payload)
  /\ UNCHANGED <<server, foreground, loggingIn, loggingOut, launches>>

\* What GET /auth/me ends with: a call of an aborted scope ends canceled.
Outcomes(f) ==
  IF f.scope # scope THEN {"canceled"}
  ELSE {"unreachable", IF f.token \in revoked THEN "refused" ELSE "user"}

Current(f) == f.epoch = epoch /\ f.token = token

Nothing == UNCHANGED <<memory, storage, ended, loggingOut>>

\* A user is taken for the session it was asked for (commitAuthSessionIfCurrent).
Commit(f) == IF Current(f) THEN SetSession(f.token) /\ UNCHANGED loggingOut ELSE Nothing

\* validatePersistedSession.  A 401 signs the user out in the response
\* interceptor first; the error it is turned into no longer shows it was one.
Validate(outcome) ==
  CASE outcome = "user" -> Commit(boot)
    [] outcome = "canceled" -> Nothing
    [] outcome = "refused" /\ ~loggingOut -> Logout
    [] OTHER ->
         /\ IF boot.epoch # epoch THEN UNCHANGED <<memory, storage, ended>>
            ELSE IF boot.token \in expired THEN ClearInvalid ELSE MarkComplete(TRUE)
         /\ UNCHANGED loggingOut

AnswerBootstrap ==
  /\ boot.at = "validating"
  /\ \E outcome \in Outcomes(boot) : Validate(outcome)
  /\ boot' = [Idle EXCEPT !.at = "ending"]
  /\ UNCHANGED <<server, watchdog, foreground, loggingIn, launches>>

\* Faulty: the bootstrap ends where its validation ends.
EndUnchecked ==
  /\ boot.at = "ending"
  /\ Finished
  /\ UNCHANGED <<memory, storage, server, foreground, loggingIn, loggingOut, ended, launches>>

\* The bootstrap's finally clause.
EndBootstrap ==
  /\ boot.at = "ending"
  /\ IF hydrated THEN UNCHANGED <<memory, storage, ended>> ELSE Complete
  /\ Finished
  /\ UNCHANGED <<server, foreground, loggingIn, loggingOut, launches>>

Watchdog ==
  /\ watchdog
  /\ watchdog' = FALSE
  /\ Complete
  /\ UNCHANGED <<server, boot, foreground, loggingIn, loggingOut, launches>>

-----------------------------------------------------------------------------
(* The user.                                                               *)

Login ==
  /\ Ready /\ token = None
  /\ ~loggingIn
  /\ issued < MaxLogins
  /\ loggingIn' = TRUE
  /\ UNCHANGED <<memory, storage, server, boot, watchdog, foreground, loggingOut, ended, launches>>

\* The answer sets the session, wherever the app is by then.
LoginAnswer ==
  /\ loggingIn
  /\ loggingIn' = FALSE
  /\ \/ SetSession(issued + 1) /\ issued' = issued + 1
     \/ UNCHANGED <<memory, storage, issued, ended>>
  /\ UNCHANGED <<expired, revoked, boot, watchdog, foreground, loggingOut, launches>>

SignOut ==
  /\ Ready /\ token # None
  /\ Logout
  /\ UNCHANGED <<server, boot, watchdog, foreground, loggingIn, launches>>

\* revalidateSessionOnForeground; one validation at a time.
ComeBack ==
  /\ token # None /\ checked
  /\ IF token \in expired THEN ClearInvalid /\ UNCHANGED foreground
     ELSE /\ foreground.at = "idle"
          /\ foreground' = [at |-> "validating", epoch |-> epoch, token |-> token, scope |-> scope]
          /\ UNCHANGED <<memory, storage, ended>>
  /\ UNCHANGED <<server, boot, watchdog, loggingIn, loggingOut, launches>>

AnswerForeground ==
  /\ foreground.at = "validating"
  /\ foreground' = Idle
  /\ \E outcome \in Outcomes(foreground) :
       CASE outcome = "user" -> Commit(foreground)
         [] outcome = "refused" -> Logout
         [] OTHER -> Nothing
  /\ UNCHANGED <<server, boot, watchdog, loggingIn, launches>>

\* A screen's call is refused under the live session.
RefuseCall ==
  /\ Ready /\ token \in revoked
  /\ Logout
  /\ UNCHANGED <<server, boot, watchdog, foreground, loggingIn, launches>>

Revoke ==
  /\ token # None
  /\ revoked' = revoked \cup {token}
  /\ UNCHANGED <<memory, storage, issued, expired, flows, ended, launches>>

Expire ==
  /\ \E t \in {token, disk} \cap Tokens : expired' = expired \cup {t}
  /\ UNCHANGED <<memory, storage, issued, revoked, flows, ended, launches>>

\* The app is killed and launched again: an operation under way took effect or not.
Relaunch ==
  /\ launches < MaxLaunches
  /\ launches' = launches + 1
  /\ disk' \in {disk} \cup {writes[i].token : i \in {j \in DOMAIN writes : writes[j].stage = "issued"}}
  /\ writes' = <<>> /\ persist' = 0
  /\ token' = None /\ checked' = FALSE /\ hydrated' = FALSE
  /\ epoch' = 0 /\ scope' = 0
  /\ boot' = [Idle EXCEPT !.at = "reading"] /\ watchdog' = TRUE
  /\ foreground' = Idle /\ loggingIn' = FALSE /\ loggingOut' = FALSE
  /\ ended' = IF writes = <<>> THEN ended ELSE {}
  /\ UNCHANGED server

-----------------------------------------------------------------------------
Init ==
  /\ disk \in {None, Corrupt, 0}
  /\ writes = <<>> /\ persist = 0
  /\ token = None /\ checked = FALSE /\ hydrated = FALSE
  /\ epoch = 0 /\ scope = 0
  /\ boot = [Idle EXCEPT !.at = "reading"] /\ watchdog = TRUE
  /\ foreground = Idle /\ loggingIn = FALSE /\ loggingOut = FALSE
  /\ issued = 0 /\ expired = {} /\ revoked = {}
  /\ ended = {}
  /\ launches = 0

\* At the bounds nothing new begins; what is under way goes on.
Room == epoch < MaxEpoch /\ Len(writes) < MaxWrites

Starts == Login \/ SignOut \/ ComeBack \/ RefuseCall \/ Revoke \/ Expire \/ Relaunch
Answers == AnswerBootstrap \/ AnswerForeground \/ LoginAnswer
Storing == \E i \in DOMAIN writes : Apply(i) \/ GoOn(i)

Next == (Room /\ Starts) \/ ReadSession \/ Answers \/ EndBootstrap \/ Watchdog \/ Storing

\* Calls and the timer end; whether storage ever answers is left open.
Fairness == WF_vars(Answers) /\ WF_vars(EndBootstrap) /\ WF_vars(Watchdog)

Spec == Init /\ [][Next]_vars
FairSpec == Spec /\ Fairness

-----------------------------------------------------------------------------
Flow == [at : {"idle", "reading", "validating", "ending"}, epoch : Nat,
         token : Tokens \cup {None}, scope : Nat]

\* Every variable has its type: store/auth-store.ts, auth/bootstrap-auth.ts.
TypeOK ==
  /\ token \in Tokens \cup {None}
  /\ {checked, hydrated, watchdog, loggingIn, loggingOut} \subseteq BOOLEAN
  /\ {epoch, scope, persist, launches} \subseteq Nat
  /\ disk \in Tokens \cup {None, Corrupt}
  /\ writes \in Seq([op : {"set", "undo", "logout", "clear"}, token : Tokens \cup {None},
                     epoch : Nat, stage : {"issued", "applied"}])
  /\ {boot, foreground} \subseteq Flow
  /\ issued \in Tokens
  /\ expired \cup revoked \cup ended \subseteq Tokens

\* Once storage has nothing under way, a session that was signed out or cleared is not
\* there for the next launch, in whatever order its write and its removal took effect
\* (persistAuthSession, clearAuthStorage).
EndedNotStored == writes = <<>> => disk \notin ended

\* A session that ended does not come back: not by the late end of a bootstrap the
\* watchdog gave up on, nor by a validation that was under way, nor at the next launch
\* if this one got to finish its storage operations.
EndedStaysEnded == token \notin ended

\* A session that was ended is neither in memory nor in storage, however the flows that end,
\* restore and validate it meet.
SessionInv == TypeOK /\ EndedNotStored /\ EndedStaysEnded

\* The splash screen ends: whatever storage and the network do, the navigator
\* gets to show the login form or the session (the watchdog and the finally clause).
SplashEnds == ~Ready ~> Ready
=============================================================================
