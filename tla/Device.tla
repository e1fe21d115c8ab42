------------------------------- MODULE Device -------------------------------
(***************************************************************************)
(* What the app on one device keeps of its user, in two views side by      *)
(* side: the client that sends the calls of the screens (ApiClient), for   *)
(* which a session begins, is renewed and ends at any time, and the        *)
(* session as launches, storage and validations make it (Session).         *)
(***************************************************************************)
EXTENDS ApiClient

CONSTANTS MaxLaunches, MaxEpoch, MaxWrites, Corrupt   \* of the session

VARIABLES
  signedIn, signal, refused,   \* Session's token, scope and revoked
  checked, hydrated, epoch, disk, writes, persist, boot, watchdog, foreground, loggingIn,
  loggingOut, issued, expired, ended, launches

Sessions == INSTANCE Session WITH token <- signedIn, scope <- signal, revoked <- refused

sessionVars == <<signedIn, signal, refused, checked, hydrated, epoch, disk, writes, persist, boot,
                 watchdog, foreground, loggingIn, loggingOut, issued, expired, ended, launches>>
deviceVars == <<vars, sessionVars>>

ASSUME DeviceAssumption == Sessions!SessionAssumption

-----------------------------------------------------------------------------
Sending == Next /\ UNCHANGED sessionVars

SigningIn == Sessions!Next /\ UNCHANGED vars

DeviceInit == Init /\ Sessions!Init

-----------------------------------------------------------------------------
\* A session that ended is neither in memory nor in storage (Session).
SessionInv == Sessions!SessionInv

\* The splash screen ends (Session).
SplashEnds == Sessions!SplashEnds
=============================================================================
