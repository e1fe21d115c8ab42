------------------------------ MODULE ApiClient ------------------------------
(***************************************************************************)
(* The app's HTTP client (frontend/src/api/client.ts): one axios instance  *)
(* for every screen.  A call is sent to the base URL in use with the token *)
(* of the session and under its abort signal.  A call that gets no answer  *)
(* is sent again: once after a probe of all base URLs, which the calls     *)
(* that fail meanwhile share, and then to the next base URL.  A 401 ends   *)
(* the session; ending or renewing a session aborts the calls under it.    *)
(***************************************************************************)
EXTENDS Naturals, Sequences, FiniteSets, Functions

CONSTANTS
  Deployments,  \* the base URLs an app may be configured with, in order of preference
  Calls,        \* calls made in the app's lifetime
  Mixes,        \* what the calls may be: "login", "plain", "upload", the banner's
                \* "retry", or none
  MaxLogins,    \* bound: sessions begun
  MaxRenewals,  \* bound: sessions renewed
  None          \* no session, no stored base URL

VARIABLES
  kind,      \* what each call is
  hosts,     \* API_BASE_URL followed by API_BASE_URL_FALLBACKS
  stored,    \* the base URL an earlier launch stored, until it is looked at
  base,      \* apiClient.defaults.baseURL
  status,    \* the connection status the banner shows
  probe,     \* hosts the running probe waits for; none is running if empty
  call,      \* every call of the app
  token,     \* token of the session, None when signed out
  scope,     \* number of the session's abort scope
  revoked    \* tokens the server no longer takes

setting == <<kind, hosts>>
session == <<token, scope, revoked>>
connection == <<base, status>>
vars == <<setting, stored, connection, probe, call, session>>

Logins == 1..MaxLogins
Kinds == {"login", "plain", "upload", "retry"}
UnderWay == {"sent", "answered", "refused", "failed"}
Final == {"done", "rejected", "canceled"}
Stages == {"idle", "waking", "probing"} \cup UnderWay \cup Final

ASSUME ClientAssumption ==
  /\ Deployments # {}
  /\ \A d \in Deployments : d \in Seq(Range(d)) /\ d # <<>> /\ IsInjective(d)
  /\ Mixes \subseteq [Calls -> Kinds \cup {None}]
  /\ {MaxLogins, MaxRenewals} \subseteq Nat
  /\ None \notin Logins /\ None \notin Kinds /\ None \notin UNION {Range(d) : d \in Deployments}

-----------------------------------------------------------------------------
(* Base URLs.                                                              *)

Host == Range(hosts)

\* The base URLs but one; none is there twice.
Others(candidates, h) ==
  LET i == CHOOSE j \in DOMAIN candidates : candidates[j] = h
  IN  IF h \in Range(candidates)
      THEN SubSeq(candidates, 1, i - 1) \o SubSeq(candidates, i + 1, Len(candidates))
      ELSE candidates

\* The base URLs a call may be sent to, the one in use first.
Candidates(first) == <<first>> \o Others(hosts, first)

\* A host answered well: it is the one to use (updateReachableBaseUrl).
Reached(h) == base' = h /\ status' = "healthy"

Offline == status' = "offline" /\ UNCHANGED base

-----------------------------------------------------------------------------
(* Sending.  The request interceptor runs on every send, resends included. *)

Public(c) == kind[c] = "login"
NotStarted == [stage |-> "idle", owner |-> None, header |-> None, scope |-> 0,
               candidates |-> <<>>, host |-> None, left |-> <<>>, retried |-> FALSE, sends |-> 0]

\* A call that is over needs no more than its stage.
Ended(stage) == [NotStarted EXCEPT !.stage = stage]

\* Sent to h, the call takes the token of the moment.  It keeps the signal of its
\* first send: a signal aborted meanwhile cancels it here.
\* sends is a counter of the model, it stops at 3.
Send(r, c, h) ==
  IF ~Public(c) /\ (token = None \/ r.scope # scope)
  THEN Ended("canceled")
  ELSE [r EXCEPT !.stage = "sent", !.header = IF Public(c) THEN None ELSE token,
                 !.host = h, !.left = Others(r.candidates, h),
                 !.sends = IF @ < 3 THEN @ + 1 ELSE @]

\* Faulty: a resend takes the signal of the moment as well.
SendUnderNewSignal(r, c, h) == Send([r EXCEPT !.scope = scope], c, h)

\* Faulty: a resend of an upload or of a call forgets that it was retried.
SendAnew(r, c, h) == Send([r EXCEPT !.retried = FALSE], c, h)

Resend(r, c, h) == Send(r, c, h)

\* The login form is locked while it waits.
LoggingIn == \E c \in Calls : Public(c) /\ call[c].stage \notin {"idle"} \cup Final

\* A screen makes a call.
Issue(c) ==
  /\ kind[c] \in {"login", "plain", "upload"}
  /\ call[c].stage = "idle"
  /\ IF Public(c) THEN token = None /\ ~LoggingIn ELSE token # None
  /\ call' = [call EXCEPT ![c] =
       Send([NotStarted EXCEPT !.owner = token, !.scope = scope,
                               !.candidates = Candidates(base)], c, base)]
  /\ UNCHANGED <<setting, stored, connection, probe, session>>

\* Faulty: the scope's signal is replaced, but the old one is not aborted.
NotAborted == call

\* Every call but a login that is on its way is aborted with its scope.
Aborted == [c \in Calls |->
  IF call[c].stage \in UnderWay /\ ~Public(c)
  THEN Ended("canceled") ELSE call[c]]

-----------------------------------------------------------------------------
(* The server, and what comes back.                                        *)

\* The host serves the call, for a token it accepts or not, or fails to.  A login
\* it refuses is no error to the client.
Serve(c) ==
  /\ call[c].stage = "sent"
  /\ \E verdict \in IF Public(c) THEN {"answered", "refused"}
                    ELSE {"failed"} \cup IF call[c].header \in revoked
                                        THEN {"refused"} ELSE {"answered"} :
       call' = [call EXCEPT ![c].stage = verdict]
  /\ UNCHANGED <<setting, stored, connection, probe, session>>

\* The answer of a login begins a session (setSession): the calls of the
\* scope before it are aborted.
Answer(c) ==
  /\ call[c].stage = "answered"
  /\ Reached(call[c].host)
  /\ IF Public(c)
     THEN /\ token' = Cardinality({d \in Calls : Public(d) /\ call[d].stage = "done"}) + 1
          /\ token' \in Logins
          /\ scope' = scope + 1
          /\ call' = [Aborted EXCEPT ![c] = Ended("done")]
     ELSE call' = [call EXCEPT ![c] = Ended("done")] /\ UNCHANGED <<token, scope>>
  /\ UNCHANGED <<setting, stored, probe, revoked>>

\* 401 or a revocation code: the session ends (logout).
Refused(c) ==
  /\ call[c].stage = "refused"
  /\ IF Public(c)
     THEN /\ Reached(call[c].host)
          /\ call' = [call EXCEPT ![c] = Ended("rejected")]
          /\ UNCHANGED <<token, scope>>
     ELSE /\ token' = None
          /\ scope' = IF token # None THEN scope + 1 ELSE scope
          /\ call' = [Aborted EXCEPT ![c] = Ended("rejected")]
          /\ UNCHANGED connection
  /\ UNCHANGED <<setting, stored, probe, revoked>>

\* Any other error the server answers with goes to the screen.
Failed(c) ==
  /\ call[c].stage = "failed"
  /\ call' = [call EXCEPT ![c] = Ended("rejected")]
  /\ UNCHANGED <<setting, stored, connection, probe, session>>

-----------------------------------------------------------------------------
(* No answer: the response interceptor's error path.                       *)

\* The next base URL, or the end.
FallBack(r, c) ==
  IF r.left = <<>> THEN Ended("rejected") ELSE Resend(r, c, Head(r.left))

\* The connection fails or the call times out, before or after it was served.
Lose(c) ==
  /\ call[c].stage \in UnderWay
  /\ Offline
  /\ call' = [call EXCEPT ![c] =
       IF kind[c] # "upload" /\ ~@.retried
       THEN [@ EXCEPT !.stage = "waking", !.retried = TRUE]
       ELSE FallBack(@, c)]
  /\ UNCHANGED <<setting, stored, probe, session>>

\* The banner's button probes as well.
PressRetry(c) ==
  /\ kind[c] = "retry"
  /\ call[c].stage = "idle"
  /\ status = "offline"
  /\ call' = [call EXCEPT ![c].stage = "waking"]
  /\ UNCHANGED <<setting, stored, connection, probe, session>>

\* The base URL stored by an earlier launch comes into use once; then the call
\* joins the running probe or starts one.
Wake(c) ==
  /\ call[c].stage = "waking"
  /\ IF stored # None /\ stored \in Host THEN Reached(stored) ELSE UNCHANGED connection
  /\ stored' = None
  /\ probe' = IF probe = {} THEN Host ELSE probe
  /\ call' = [call EXCEPT ![c].stage = "probing"]
  /\ UNCHANGED <<setting, session>>

\* What the calls that waited do when the probe ends, `next' for those with a request to send.
Resume(next) ==
  call' = [c \in Calls |->
    IF call[c].stage # "probing" THEN call[c]
    ELSE IF kind[c] = "retry" THEN [call[c] EXCEPT !.stage = "done"]
    ELSE next[c]]

\* The first host to answer its health check, well or starting up, is used.
ProbeAnswers(h) ==
  /\ h \in probe
  /\ base' = h
  /\ status' \in {"healthy", "degraded"}
  /\ probe' = {}
  /\ Resume([c \in Calls |-> Resend(call[c], c, h)])
  /\ UNCHANGED <<setting, stored, session>>

ProbeFails(h) ==
  /\ h \in probe
  /\ probe' = probe \ {h}
  /\ IF probe' = {}
     THEN Offline /\ Resume([c \in Calls |-> FallBack(call[c], c)])
     ELSE UNCHANGED <<connection, call>>
  /\ UNCHANGED <<setting, stored, session>>

-----------------------------------------------------------------------------
(* The user, the app's life cycle and the server.                          *)

\* logout, from the menu.
SignOut ==
  /\ token # None
  /\ token' = None
  /\ scope' = scope + 1
  /\ call' = Aborted
  /\ UNCHANGED <<setting, stored, connection, probe, revoked>>

\* The session is set again with the user the server returned for it.
Renew ==
  /\ token # None
  /\ scope < MaxLogins * 2 + MaxRenewals
  /\ scope' = scope + 1
  /\ call' = Aborted
  /\ UNCHANGED <<setting, stored, connection, probe, token, revoked>>

Revoke ==
  /\ token # None
  /\ revoked' = revoked \cup {token}
  /\ UNCHANGED <<setting, stored, connection, probe, call, token, scope>>

-----------------------------------------------------------------------------
Init ==
  /\ kind \in Mixes
  /\ hosts \in Deployments
  /\ stored \in Host \cup {None}
  /\ base = hosts[1]
  /\ status = "degraded"
  /\ probe = {}
  /\ call = [c \in Calls |-> NotStarted]
  /\ token = None
  /\ scope = 0
  /\ revoked = {}

\* What the network does with a call; its time-out sees to it that something does.
Settle(c) == Serve(c) \/ Answer(c) \/ Refused(c) \/ Failed(c) \/ Lose(c)

Next ==
  \/ \E c \in Calls : Issue(c) \/ Settle(c) \/ PressRetry(c) \/ Wake(c)
  \/ \E h \in Host : ProbeAnswers(h) \/ ProbeFails(h)
  \/ SignOut \/ Renew \/ Revoke

\* A call and a health check have time-outs; storage answers.
Fairness ==
  /\ \A c \in Calls : WF_vars(Settle(c)) /\ WF_vars(Wake(c))
  /\ WF_vars(\E h \in Host : ProbeAnswers(h) \/ ProbeFails(h))

Spec == Init /\ [][Next]_vars
FairSpec == Spec /\ Fairness

-----------------------------------------------------------------------------
CallType ==
  [stage : Stages, owner : Logins \cup {None}, header : Logins \cup {None}, scope : Nat,
   candidates : Seq(Host), host : Host \cup {None}, left : Seq(Host), retried : BOOLEAN,
   sends : 0..3]

\* Every variable has its type: api/client.ts and store/auth-store.ts.
TypeOK ==
  /\ kind \in Mixes
  /\ hosts \in Deployments
  /\ stored \in Host \cup {None}
  /\ base \in Host
  /\ status \in {"healthy", "degraded", "offline"}
  /\ probe \subseteq Host
  /\ call \in [Calls -> CallType]
  /\ token \in Logins \cup {None}
  /\ scope \in Nat
  /\ revoked \subseteq Logins

\* A call goes out, for the first time or again, only with the token of the
\* session whose screen made it, however long it waited for a probe and whoever
\* signed in meanwhile (request interceptor, session abort signal).
CallsKeepTheirSession ==
  \A c \in Calls : call[c].stage = "sent" /\ ~Public(c) => call[c].header = call[c].owner

\* An answer that signs the user out answers a call of that very session: a late
\* 401 of an earlier session never ends the next one (response interceptor, logout).
AnswersEndTheirOwnSession ==
  [][\A c \in Calls :
       call[c].stage = "refused" /\ call'[c].stage = "rejected" /\ token # None /\ token' = None
         => call[c].owner = token]_vars

Settles(c) == call[c].stage # "idle" ~> call[c].stage \in Final

\* With a single base URL, what every build but the development one has, a call
\* is sent twice at most ...
OneHostTwoSends ==
  Len(hosts) = 1 => \A c \in Calls : call[c].sends <= 2

\* ... and ends, whatever the network does.
OneHostCallsSettle ==
  \A c \in Calls : Len(hosts) = 1 /\ call[c].stage # "idle" ~> call[c].stage \in Final

\* No call goes out under another session than its own or more often than it may, whichever
\* probes, resends, sign-outs and renewals cross it.
SendsInv == TypeOK /\ CallsKeepTheirSession /\ OneHostTwoSends

\* Every call ends: after the last base URL "the original rejection" of the
\* comment in the response interceptor.
EveryCallSettles == \A c \in Calls : Settles(c)
=============================================================================
