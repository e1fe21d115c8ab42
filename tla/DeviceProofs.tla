---------------------------- MODULE DeviceProofs ----------------------------
(***************************************************************************)
(* The client and the session of the app, each by its own specification,   *)
(* for any number of calls, base URLs, sessions, launches and storage      *)
(* operations.  A call goes out only with the token and under the signal   *)
(* of the session it was made in, at most twice to one base URL, and a     *)
(* late 401 ends no other session.  A session that was signed out or       *)
(* cleared comes back neither in memory nor from storage.                  *)
(***************************************************************************)
EXTENDS Device, SequenceTheorems, TLAPS

-----------------------------------------------------------------------------
(* The client.                                                             *)

Shaped(r) == {"stage", "owner", "header", "scope", "host", "left", "retried", "sends"} \subseteq DOMAIN r

\* A scope belongs to one token.  What is on its way is under the scope and the token of the
\* moment; what waits for a probe may be under an older scope, or it is under that token too.
OfSession(c, r) ==
  ~Public(c) =>
    /\ r.scope \in Nat /\ r.scope <= scope
    /\ r.stage \in UnderWay => r.scope = scope /\ r.owner = token /\ r.header = token
    /\ kind[c] # "retry" /\ r.stage \in {"waking", "probing"} /\ r.scope = scope => r.owner = token
    /\ kind[c] = "retry" => r.stage \notin UnderWay

ScopesInv ==
  /\ scope \in Nat
  /\ DOMAIN call = Calls
  /\ \A c \in Calls : Shaped(call[c]) /\ OfSession(c, call[c])

-----------------------------------------------------------------------------
LEMMA EndedKeeps ==
  ASSUME NEW c, NEW stage \in Final \cup {"idle"}, scope \in Nat
  PROVE  Ended(stage).stage = stage /\ Shaped(Ended(stage)) /\ OfSession(c, Ended(stage))
  BY DEF Ended, NotStarted, Shaped, OfSession, Final, UnderWay

\* What is sent has the token of its own session, or is not sent.
LEMMA SendKeeps ==
  ASSUME NEW c, NEW r, NEW h, scope \in Nat, Shaped(r), kind[c] # "retry",
         ~Public(c) => r.scope \in Nat /\ (r.scope = scope => r.owner = token)
  PROVE  Shaped(Send(r, c, h)) /\ OfSession(c, Send(r, c, h))
<1>1. CASE ~Public(c) /\ (token = None \/ r.scope # scope)
  BY <1>1, EndedKeeps DEF Send, Final
<1>2. CASE ~(~Public(c) /\ (token = None \/ r.scope # scope))
  <2> DEFINE s == Send(r, c, h)
  <2>1. DOMAIN s = DOMAIN r /\ s.stage = "sent" /\ s.scope = r.scope /\ s.owner = r.owner
        /\ s.header = (IF Public(c) THEN None ELSE token)
    BY <1>2 DEF Send, Shaped
  <2> QED
    BY <1>2, <2>1 DEF Shaped, OfSession
<1> QED
  BY <1>1, <1>2

\* Nothing is on its way under a scope that is over.
LEMMA AbortedKeeps ==
  ASSUME ScopesInv, scope' = scope + 1, UNCHANGED kind, NEW c \in Calls
  PROVE  /\ DOMAIN Aborted = Calls /\ Shaped(Aborted[c])
         /\ ~Public(c) => /\ Aborted[c].scope \in Nat /\ Aborted[c].scope <= scope
                          /\ Aborted[c].stage \notin UnderWay
         /\ Aborted[c].stage = "rejected" => call[c].stage = "rejected"
<1>1. CASE call[c].stage \in UnderWay /\ ~Public(c)
  BY <1>1, EndedKeeps DEF Aborted, ScopesInv, Ended, NotStarted, UnderWay, Final, Shaped
<1>2. CASE ~(call[c].stage \in UnderWay /\ ~Public(c))
  BY <1>2 DEF Aborted, ScopesInv, OfSession
<1> QED
  BY <1>1, <1>2

\* The calls that are not under way wait on under a new scope.
LEMMA ScopeOver ==
  ASSUME ScopesInv, scope' = scope + 1, UNCHANGED kind, NEW d \in Calls,
         call' = Aborted \/ \E stage \in Final : call' = [Aborted EXCEPT ![d] = Ended(stage)]
  PROVE  ScopesInv'
<1>1. scope' \in Nat /\ DOMAIN call' = Calls
  BY AbortedKeeps DEF ScopesInv, Aborted
<1>2. ASSUME NEW c \in Calls PROVE Shaped(call'[c]) /\ OfSession(c, call[c])'
  <2>1. CASE call'[c] = Aborted[c]
    BY <2>1, AbortedKeeps DEF OfSession, Public, ScopesInv
  <2>2. CASE \E stage \in Final : call'[c] = Ended(stage)
    BY <1>1, <2>2 DEF Ended, NotStarted, Shaped, OfSession, Final, UnderWay, Public
  <2> QED
    BY <2>1, <2>2, AbortedKeeps
<1> QED
  BY <1>1, <1>2 DEF ScopesInv

\* One call changes, under the session as it is.
LEMMA OneCall ==
  ASSUME ScopesInv, UNCHANGED <<kind, token, scope>>, NEW d \in Calls, NEW r,
         Shaped(r), OfSession(d, r), call' = [call EXCEPT ![d] = r]
  PROVE  ScopesInv'
<1>1. ASSUME NEW c \in Calls PROVE Shaped(call'[c]) /\ OfSession(c, call[c])'
  BY DEF ScopesInv, OfSession, Public
<1> QED
  BY <1>1 DEF ScopesInv

LEMMA FallBackKeeps ==
  ASSUME NEW c, NEW r, scope \in Nat, Shaped(r), kind[c] # "retry",
         ~Public(c) => r.scope \in Nat /\ (r.scope = scope => r.owner = token)
  PROVE  Shaped(FallBack(r, c)) /\ OfSession(c, FallBack(r, c))
  BY SendKeeps, EndedKeeps DEF FallBack, Resend, Final

\* The calls that waited for the probe go on.
LEMMA ResumeKeeps ==
  ASSUME ScopesInv, UNCHANGED <<kind, token, scope>>, NEW next, Resume(next),
         \A c \in Calls : call[c].stage = "probing" /\ kind[c] # "retry" =>
           Shaped(next[c]) /\ OfSession(c, next[c])
  PROVE  ScopesInv'
<1>1. ASSUME NEW c \in Calls PROVE Shaped(call'[c]) /\ OfSession(c, call[c])'
  <2>1. CASE call[c].stage # "probing"
    BY <2>1 DEF Resume, ScopesInv, OfSession, Public
  <2>2. CASE call[c].stage = "probing" /\ kind[c] = "retry"
    BY <2>2 DEF Resume, ScopesInv, Shaped, OfSession, Public, UnderWay
  <2>3. CASE call[c].stage = "probing" /\ kind[c] # "retry"
    BY <2>3 DEF Resume, ScopesInv, OfSession, Public
  <2> QED
    BY <2>1, <2>2, <2>3
<1> QED
  BY <1>1 DEF ScopesInv, Resume

-----------------------------------------------------------------------------
LEMMA NextKeeps == ASSUME ScopesInv, [Next]_vars PROVE ScopesInv'
<1>s. /\ scope \in Nat
      /\ \A c \in Calls : Shaped(call[c]) /\ OfSession(c, call[c])
  BY DEF ScopesInv
<1>1. ASSUME NEW c \in Calls, Issue(c) PROVE ScopesInv'
  <2> DEFINE r == [NotStarted EXCEPT !.owner = token, !.scope = scope, !.candidates = Candidates(base)]
  <2>1. Shaped(r) /\ r.scope = scope /\ r.owner = token
    BY DEF NotStarted, Shaped
  <2>2. Shaped(Send(r, c, base)) /\ OfSession(c, Send(r, c, base))
    BY <1>1, <1>s, <2>1, SendKeeps DEF Issue
  <2> QED
    BY <1>1, <2>2, OneCall DEF Issue, setting, session
<1>2. ASSUME NEW c \in Calls, Serve(c) PROVE ScopesInv'
  <2>1. PICK verdict \in {"answered", "refused", "failed"} : call' = [call EXCEPT ![c].stage = verdict]
    BY <1>2 DEF Serve
  <2> DEFINE r == [call[c] EXCEPT !.stage = verdict]
  <2>2. call' = [call EXCEPT ![c] = r]
    BY <2>1
  <2>3. Shaped(r) /\ OfSession(c, r)
    BY <1>2, <1>s, <2>1 DEF Serve, Shaped, OfSession, UnderWay
  <2> QED
    BY <1>2, <2>2, <2>3, OneCall DEF Serve, setting, session
<1>3. ASSUME NEW c \in Calls, Answer(c) PROVE ScopesInv'
  <2>1. CASE Public(c)
    BY <1>3, <2>1, ScopeOver DEF Answer, setting, Final
  <2>2. CASE ~Public(c)
    BY <1>3, <1>s, <2>2, OneCall, EndedKeeps DEF Answer, setting, Final
  <2> QED
    BY <2>1, <2>2
<1>4. ASSUME NEW c \in Calls, Refused(c) PROVE ScopesInv'
  <2>1. CASE Public(c)
    BY <1>4, <1>s, <2>1, OneCall, EndedKeeps DEF Refused, setting, Final
  <2>2. CASE ~Public(c) /\ token # None
    BY <1>4, <2>2, ScopeOver DEF Refused, setting, Final
  <2>3. CASE ~Public(c) /\ token = None
    <3>1. UNCHANGED <<kind, token, scope>> /\ call' = [Aborted EXCEPT ![c] = Ended("rejected")]
      BY <1>4, <2>3 DEF Refused, setting
    <3>2. ASSUME NEW d \in Calls PROVE Shaped(call'[d]) /\ OfSession(d, call[d])'
      <4>1. call'[d] \in {call[d], Ended("canceled"), Ended("rejected")}
        BY <3>1 DEF Aborted
      <4>2. Shaped(call'[d]) /\ OfSession(d, call'[d])
        BY <1>s, <4>1, EndedKeeps DEF Final
      <4> QED
        BY <3>1, <4>2 DEF OfSession, Public
    <3> QED
      BY <1>s, <3>1, <3>2 DEF ScopesInv, Aborted
  <2> QED
    BY <2>1, <2>2, <2>3
<1>5. ASSUME NEW c \in Calls, Failed(c) PROVE ScopesInv'
  BY <1>5, <1>s, OneCall, EndedKeeps DEF Failed, setting, session, Final
<1>6. ASSUME NEW c \in Calls, Lose(c) PROVE ScopesInv'
  <2> DEFINE r == IF kind[c] # "upload" /\ ~call[c].retried
                  THEN [call[c] EXCEPT !.stage = "waking", !.retried = TRUE]
                  ELSE FallBack(call[c], c)
  <2>1. call' = [call EXCEPT ![c] = r] /\ UNCHANGED <<kind, token, scope>>
    BY <1>6 DEF Lose, setting, session
  <2>2. ~Public(c) => call[c].scope = scope /\ call[c].owner = token /\ kind[c] # "retry"
    BY <1>6, <1>s DEF Lose, OfSession
  <2>3. kind[c] # "retry"
    BY <2>2 DEF Public
  <2>4. Shaped(FallBack(call[c], c)) /\ OfSession(c, FallBack(call[c], c))
    BY <1>s, <2>2, <2>3, FallBackKeeps
  <2>5. Shaped(r) /\ OfSession(c, r)
    BY <1>s, <2>2, <2>4 DEF Shaped, OfSession, UnderWay
  <2> QED
    BY <2>1, <2>5, OneCall
<1>7. ASSUME NEW c \in Calls, PressRetry(c) PROVE ScopesInv'
  <2> DEFINE r == [call[c] EXCEPT !.stage = "waking"]
  <2>1. call' = [call EXCEPT ![c] = r] /\ UNCHANGED <<kind, token, scope>> /\ kind[c] = "retry"
    BY <1>7 DEF PressRetry, setting, session
  <2>2. Shaped(r) /\ OfSession(c, r)
    BY <1>s, <2>1 DEF Shaped, OfSession, UnderWay
  <2> QED
    BY <2>1, <2>2, OneCall
<1>8. ASSUME NEW c \in Calls, Wake(c) PROVE ScopesInv'
  <2> DEFINE r == [call[c] EXCEPT !.stage = "probing"]
  <2>1. call' = [call EXCEPT ![c] = r] /\ UNCHANGED <<kind, token, scope>> /\ call[c].stage = "waking"
    BY <1>8 DEF Wake, setting, session
  <2>2. Shaped(r) /\ OfSession(c, r)
    BY <1>s, <2>1 DEF Shaped, OfSession, UnderWay
  <2> QED
    BY <2>1, <2>2, OneCall
<1>p. ASSUME NEW c \in Calls, call[c].stage = "probing", kind[c] # "retry"
      PROVE  ~Public(c) => call[c].scope \in Nat /\ (call[c].scope = scope => call[c].owner = token)
  BY <1>p, <1>s DEF OfSession
<1>9. ASSUME NEW h \in Host, ProbeAnswers(h) PROVE ScopesInv'
  <2> DEFINE next == [c \in Calls |-> Resend(call[c], c, h)]
  <2>1. Resume(next) /\ UNCHANGED <<kind, token, scope>>
    BY <1>9 DEF ProbeAnswers, setting, session
  <2>2. ASSUME NEW c \in Calls, call[c].stage = "probing", kind[c] # "retry"
        PROVE  Shaped(next[c]) /\ OfSession(c, next[c])
    BY <1>p, <1>s, <2>2, SendKeeps DEF Resend
  <2> QED
    BY <2>1, <2>2, ResumeKeeps
<1>10. ASSUME NEW h \in Host, ProbeFails(h) PROVE ScopesInv'
  <2> DEFINE next == [c \in Calls |-> FallBack(call[c], c)]
  <2>1. (Resume(next) \/ UNCHANGED call) /\ UNCHANGED <<kind, token, scope>>
    BY <1>10 DEF ProbeFails, setting, session
  <2>2. ASSUME NEW c \in Calls, call[c].stage = "probing", kind[c] # "retry"
        PROVE  Shaped(next[c]) /\ OfSession(c, next[c])
    BY <1>p, <1>s, <2>2, FallBackKeeps
  <2>3. CASE Resume(next)
    BY <2>1, <2>2, <2>3, ResumeKeeps
  <2>4. CASE UNCHANGED call
    BY <2>1, <2>4 DEF ScopesInv, OfSession, Public
  <2> QED
    BY <2>1, <2>3, <2>4
<1>11. CASE SignOut \/ Renew
  <2>1. scope' = scope + 1 /\ UNCHANGED kind /\ call' = Aborted
    BY <1>11 DEF SignOut, Renew, setting
  <2>2. CASE Calls = {}
    BY <2>1, <2>2 DEF ScopesInv, Aborted
  <2>3. CASE Calls # {}
    BY <2>1, <2>3, ScopeOver
  <2> QED
    BY <2>2, <2>3
<1>12. CASE Revoke \/ UNCHANGED vars
  BY <1>12 DEF Revoke, vars, setting, session, ScopesInv, OfSession, Public
<1> QED
  BY <1>1, <1>2, <1>3, <1>4, <1>5, <1>6, <1>7, <1>8, <1>9, <1>10, <1>11, <1>12 DEF Next, Settle

-----------------------------------------------------------------------------
\* Calls and sessions keep to their scopes in every state of the client.
THEOREM SessionsKept == Spec => []ScopesInv
<1>1. Init => ScopesInv
  BY EndedKeeps DEF Init, ScopesInv, NotStarted, Shaped, OfSession, UnderWay
<1>2. ScopesInv /\ [Next]_vars => ScopesInv'
  BY NextKeeps
<1> QED
  BY <1>1, <1>2, PTL DEF Spec

\* A call goes out, for the first time or again, only with the token of the session whose screen
\* made it, however long it waited for a probe and whoever signed in meanwhile.
THEOREM CallsStayInTheirSession == Spec => []CallsKeepTheirSession
<1>1. ScopesInv => CallsKeepTheirSession
  BY DEF ScopesInv, OfSession, CallsKeepTheirSession, UnderWay
<1> QED
  BY <1>1, SessionsKept, PTL

\* A late 401 of an earlier session never ends the next one.
THEOREM SessionsEndThemselves == Spec => AnswersEndTheirOwnSession
<1> DEFINE Ends(c) == call[c].stage = "refused" /\ call'[c].stage = "rejected" /\ token # None /\ token' = None
<1>1. ScopesInv /\ [Next]_vars => [\A c \in Calls : Ends(c) => call[c].owner = token]_vars
  <2> SUFFICES ASSUME ScopesInv, [Next]_vars, NEW c \in Calls, Ends(c) PROVE call[c].owner = token
    OBVIOUS
  <2>1. CASE ~Public(c)
    BY <2>1 DEF ScopesInv, OfSession, UnderWay
  <2>2. CASE Public(c)
    <3>1. Aborted[c] = call[c]
      BY <2>2 DEF Aborted
    <3>2. ~(SignOut \/ Renew \/ Revoke \/ UNCHANGED vars)
      BY <2>2, <3>1 DEF SignOut, Renew, Revoke, vars, session
    <3>3. ASSUME NEW d \in Calls
          PROVE  ~(Issue(d) \/ Serve(d) \/ Answer(d) \/ Failed(d) \/ Lose(d) \/ PressRetry(d) \/ Wake(d))
      BY ClientAssumption DEF Issue, Serve, Answer, Failed, Lose, PressRetry, Wake, session
    <3>4. ASSUME NEW h \in Host PROVE ~(ProbeAnswers(h) \/ ProbeFails(h))
      BY DEF ProbeAnswers, ProbeFails, session
    <3>5. PICK d \in Calls : Refused(d)
      BY <3>2, <3>3, <3>4 DEF Next, Settle
    <3>6. call'[c] = call[c]
      BY <2>2, <3>1, <3>5 DEF Refused, ScopesInv, Aborted
    <3> QED
      BY <3>6
  <2> QED
    BY <2>1, <2>2
<1> QED
  BY <1>1, SessionsKept, PTL DEF Spec, AnswersEndTheirOwnSession

-----------------------------------------------------------------------------
(* How often a call is sent.  With one base URL, what is on its way has no *)
(* other left to try, and was sent once, or twice after a probe.           *)

Paced(c, r) ==
  /\ r \in CallType
  /\ r.stage \in UnderWay => r.host \in Host
  /\ Len(hosts) = 1 =>
       /\ r.left = <<>> /\ Len(r.candidates) <= 1
       /\ r.stage \in UnderWay => r.sends <= IF r.retried THEN 2 ELSE 1
       /\ r.stage \notin UnderWay => r.sends <= 1
       /\ r.stage \in {"waking", "probing"} => r.retried \/ kind[c] = "retry"

Connected ==
  /\ kind \in Mixes
  /\ hosts \in Deployments
  /\ stored \in Host \cup {None}
  /\ base \in Host
  /\ status \in {"healthy", "degraded", "offline"}
  /\ probe \subseteq Host

PaceInv ==
  /\ Connected
  /\ call = [x \in Calls |-> call[x]]
  /\ \A c \in Calls : Paced(c, call[c])
  /\ token \in Logins \cup {None}
  /\ scope \in Nat
  /\ revoked \subseteq Logins

\* None of the base URLs is another's twin, so one less is left.
LEMMA OthersAre ==
  ASSUME NEW S, NEW s \in Seq(S), NEW h
  PROVE  /\ Others(s, h) \in Seq(S)
         /\ h \in Range(s) => Len(Others(s, h)) = Len(s) - 1
<1>1. CASE h \notin Range(s)
  BY <1>1 DEF Others
<1>2. CASE h \in Range(s)
  <2> DEFINE i == CHOOSE j \in DOMAIN s : s[j] = h
  <2>1. \E j \in DOMAIN s : s[j] = h
    BY <1>2 DEF Range
  <2>2. i \in 1..Len(s)
    BY <2>1
  <2> HIDE DEF i
  <2>3. /\ SubSeq(s, 1, i - 1) \in Seq(S) /\ Len(SubSeq(s, 1, i - 1)) = i - 1
        /\ SubSeq(s, i + 1, Len(s)) \in Seq(S) /\ Len(SubSeq(s, i + 1, Len(s))) = Len(s) - i
    BY <2>2
  <2>4. Others(s, h) = SubSeq(s, 1, i - 1) \o SubSeq(s, i + 1, Len(s))
    BY <1>2 DEF Others, i
  <2> DEFINE front == SubSeq(s, 1, i - 1)
             back == SubSeq(s, i + 1, Len(s))
  <2>5. /\ front \in Seq(S) /\ Len(front) = i - 1 /\ back \in Seq(S) /\ Len(back) = Len(s) - i
        /\ Len(s) \in Nat /\ i \in Int
    BY <2>2, <2>3
  <2> HIDE DEF front, back
  <2>6. front \o back \in Seq(S) /\ Len(front \o back) = Len(front) + Len(back)
    BY <2>5
  <2>7. Len(front \o back) = Len(s) - 1
    BY <2>5, <2>6
  <2> QED
    BY <2>4, <2>6, <2>7 DEF front, back
<1> QED
  BY <1>1, <1>2

LEMMA HostsAre ==
  ASSUME Connected
  PROVE  /\ hosts \in Seq(Host) /\ hosts # <<>> /\ Len(hosts) \in Nat \ {0} /\ hosts[1] \in Host
         /\ Len(hosts) = 1 => Host = {hosts[1]}
         /\ None \notin Host
  BY ClientAssumption DEF Connected, Host, Range

\* The base URLs of a call.
LEMMA CandidatesAre ==
  ASSUME Connected, NEW h \in Host
  PROVE  /\ Candidates(h) \in Seq(Host)
         /\ Len(hosts) = 1 => Len(Candidates(h)) <= 1
  BY HostsAre, OthersAre DEF Candidates, Host

LEMMA NotStartedIs ==
  /\ NotStarted \in CallType /\ NotStarted.stage = "idle" /\ NotStarted.left = <<>>
  /\ Len(NotStarted.candidates) = 0 /\ NotStarted.sends = 0
<1>1. <<>> \in Seq(Host)
  OBVIOUS
<1> QED
  BY <1>1 DEF NotStarted, CallType, Stages

LEMMA EndedPaced == ASSUME NEW c, NEW stage \in Final \cup {"idle"} PROVE Paced(c, Ended(stage))
<1> DEFINE e == Ended(stage)
<1>1. /\ e.stage = stage /\ e.left = <<>> /\ e.candidates = <<>> /\ e.sends = 0 /\ stage \in Stages
      /\ stage \notin UnderWay \cup {"waking", "probing"}
  BY DEF Ended, NotStarted, Final, UnderWay, Stages
<1>2. e \in CallType
  BY <1>1, NotStartedIs DEF Ended, CallType
<1> HIDE DEF e
<1>3. Len(e.candidates) = 0
  BY <1>1
<1>4. Paced(c, e)
  BY <1>1, <1>2, <1>3 DEF Paced
<1> QED
  BY <1>4 DEF e

\* What is sent, once more, to a host of the app.
LEMMA SendPaced ==
  ASSUME Connected, token \in Logins \cup {None}, NEW c, NEW r \in CallType, NEW h \in Host,
         Len(hosts) = 1 => Len(r.candidates) <= 1 /\ r.sends <= IF r.retried THEN 1 ELSE 0
  PROVE  Paced(c, Send(r, c, h))
<1>1. CASE ~Public(c) /\ (token = None \/ r.scope # scope)
  BY <1>1, EndedPaced DEF Send, Final
<1>2. CASE ~(~Public(c) /\ (token = None \/ r.scope # scope))
  <2> DEFINE header == IF Public(c) THEN None ELSE token
             left == Others(r.candidates, h)
             sends == IF r.sends < 3 THEN r.sends + 1 ELSE r.sends
             s == [r EXCEPT !.stage = "sent", !.header = header, !.host = h, !.left = left, !.sends = sends]
  <2>1. Send(r, c, h) = s
    BY <1>2 DEF Send
  <2>2. r.candidates \in Seq(Host) /\ r.sends \in 0..3
    BY DEF CallType
  <2>3. left \in Seq(Host) /\ header \in Logins \cup {None} /\ sends \in 0..3 /\ "sent" \in Stages
    BY <2>2, OthersAre DEF Stages, UnderWay
  <2>4. ASSUME Len(hosts) = 1 PROVE left = <<>>
    <3>1. CASE r.candidates = <<>>
      BY <3>1 DEF Others, Range
    <3>2. CASE r.candidates # <<>>
      <4>1. Len(r.candidates) = 1 /\ r.candidates[1] = h
        BY <2>2, <2>4, <3>2, HostsAre
      <4>2. h \in Range(r.candidates)
        BY <2>2, <4>1 DEF Range
      <4>3. Len(left) = 0
        BY <2>2, <4>1, <4>2, OthersAre
      <4> QED
        BY <2>3, <4>3
    <3> QED
      BY <3>1, <3>2
  <2>5. s \in CallType
    <3> HIDE DEF header, left, sends
    <3> QED
      BY <2>3 DEF CallType
  <2>6. s.stage = "sent" /\ s.left = left /\ s.sends = sends /\ s.retried = r.retried
        /\ s.candidates = r.candidates /\ s.host = h
    BY DEF CallType
  <2> HIDE DEF s, left
  <2>7. Paced(c, s)
    BY <2>2, <2>4, <2>5, <2>6 DEF Paced, UnderWay, Final, CallType
  <2> QED
    BY <2>1, <2>7
<1> QED
  BY <1>1, <1>2

\* The next base URL, if there is one: never with one base URL.
LEMMA FallBackPaced ==
  ASSUME Connected, token \in Logins \cup {None}, NEW c, NEW r, Paced(c, r)
  PROVE  Paced(c, FallBack(r, c))
<1>1. CASE r.left = <<>>
  BY <1>1, EndedPaced DEF FallBack, Final
<1>2. CASE r.left # <<>>
  <2>1. Len(hosts) # 1 /\ r \in CallType /\ Head(r.left) \in Host
    BY <1>2 DEF Paced, CallType
  <2> QED
    BY <1>2, <2>1, SendPaced DEF FallBack, Resend
<1> QED
  BY <1>1, <1>2

LEMMA AbortedPaced ==
  ASSUME PaceInv
  PROVE  Aborted = [x \in Calls |-> Aborted[x]] /\ \A c \in Calls : Paced(c, Aborted[c])
  BY EndedPaced DEF Aborted, PaceInv, Final

\* What a step does to the calls, under the app's settings.
LEMMA PaceKept ==
  ASSUME PaceInv, UNCHANGED setting,
         call' = [x \in Calls |-> call'[x]], \A c \in Calls : Paced(c, call'[c]),
         stored' \in {stored, None}, base' \in Host, probe' \subseteq Host,
         status' \in {"healthy", "degraded", "offline"},
         token' \in Logins \cup {None}, scope' \in Nat, revoked' \subseteq Logins
  PROVE  PaceInv'
<1>1. Host' = Host /\ UNCHANGED <<kind, hosts>>
  BY DEF Host, setting
<1>2. Connected'
  BY <1>1 DEF PaceInv, Connected
<1>3. CallType' = CallType
  BY <1>1 DEF CallType
<1>4. ASSUME NEW c \in Calls PROVE Paced(c, call[c])'
  BY <1>1, <1>3 DEF Paced
<1> QED
  BY <1>2, <1>4 DEF PaceInv

\* One call changes, or one call after all others were aborted.
LEMMA OneCallPaced ==
  ASSUME PaceInv, NEW d \in Calls, NEW r, Paced(d, r),
         call' = [call EXCEPT ![d] = r] \/ call' = [Aborted EXCEPT ![d] = r]
  PROVE  call' = [x \in Calls |-> call'[x]] /\ \A c \in Calls : Paced(c, call'[c])
<1>1. call = [x \in Calls |-> call[x]] /\ Aborted = [x \in Calls |-> Aborted[x]]
  BY AbortedPaced DEF PaceInv
<1>2. ASSUME NEW c \in Calls PROVE call'[c] \in {call[c], Aborted[c], r} /\ (call'[c] = r => c = d \/ r = call[c] \/ r = Aborted[c])
  BY <1>1
<1>3. ASSUME NEW c \in Calls PROVE Paced(c, call'[c])
  BY <1>2, AbortedPaced DEF PaceInv
<1> QED
  BY <1>1, <1>3

\* What is on its way, another stage of it.
LEMMA StagePaced ==
  ASSUME PaceInv, NEW c \in Calls, NEW stage,
         call[c].stage \in UnderWay \cup {"waking", "probing"},
         IF call[c].stage \in UnderWay THEN stage \in UnderWay ELSE stage \in {"probing", "done"},
         stage = "done" => kind[c] = "retry"
  PROVE  Paced(c, [call[c] EXCEPT !.stage = stage])
<1> DEFINE r == [call[c] EXCEPT !.stage = stage]
<1>1. Paced(c, call[c]) /\ stage \in Stages
  BY DEF PaceInv, Stages, Final
<1>2. r \in CallType /\ r.stage = stage /\ r.left = call[c].left /\ r.candidates = call[c].candidates
      /\ r.sends = call[c].sends /\ r.retried = call[c].retried
  BY <1>1 DEF Paced, CallType
<1> QED
  BY <1>1, <1>2 DEF Paced, UnderWay

-----------------------------------------------------------------------------
LEMMA NextPaced == ASSUME PaceInv, [Next]_vars PROVE PaceInv'
<1>s. /\ Connected /\ call = [x \in Calls |-> call[x]] /\ scope \in Nat /\ revoked \subseteq Logins
      /\ token \in Logins \cup {None} /\ stored \in Host \cup {None} /\ base \in Host
      /\ probe \subseteq Host /\ status \in {"healthy", "degraded", "offline"}
      /\ \A c \in Calls : Paced(c, call[c]) /\ call[c] \in CallType
  BY DEF PaceInv, Connected, Paced
<1>1. ASSUME NEW c \in Calls, Issue(c) PROVE PaceInv'
  <2> DEFINE r == [NotStarted EXCEPT !.owner = token, !.scope = scope, !.candidates = Candidates(base)]
  <2>1. r \in CallType /\ r.candidates = Candidates(base) /\ r.sends = 0
    <3>1. r \in CallType
      BY <1>s, NotStartedIs, CandidatesAre DEF CallType
    <3> QED
      BY <3>1 DEF NotStarted
  <2> HIDE DEF r
  <2>2. Paced(c, Send(r, c, base))
    BY <1>s, <2>1, SendPaced, CandidatesAre
  <2>3. call' = [call EXCEPT ![c] = Send(r, c, base)]
    BY <1>1 DEF Issue, r
  <2>4. call' = [x \in Calls |-> call'[x]] /\ \A d \in Calls : Paced(d, call'[d])
    BY <2>2, <2>3, OneCallPaced
  <2> QED
    BY <1>1, <1>s, <2>4, PaceKept DEF Issue, session, connection
<1>2. ASSUME NEW c \in Calls, Serve(c) PROVE PaceInv'
  <2>1. PICK verdict \in {"answered", "refused", "failed"} : call' = [call EXCEPT ![c].stage = verdict]
    BY <1>2 DEF Serve
  <2>2. call' = [call EXCEPT ![c] = [call[c] EXCEPT !.stage = verdict]]
    BY <2>1
  <2>3. Paced(c, [call[c] EXCEPT !.stage = verdict])
    BY <1>2, StagePaced DEF Serve, UnderWay
  <2>4. call' = [x \in Calls |-> call'[x]] /\ \A d \in Calls : Paced(d, call'[d])
    BY <2>2, <2>3, OneCallPaced
  <2> QED
    BY <1>2, <1>s, <2>4, PaceKept DEF Serve, session, connection
<1>e. ASSUME NEW c \in Calls, NEW stage \in Final,
             call' = [call EXCEPT ![c] = Ended(stage)] \/ call' = [Aborted EXCEPT ![c] = Ended(stage)]
      PROVE  call' = [x \in Calls |-> call'[x]] /\ \A d \in Calls : Paced(d, call'[d])
  BY <1>e, EndedPaced, OneCallPaced
<1>3. ASSUME NEW c \in Calls, Answer(c) PROVE PaceInv'
  <2>1. call' = [x \in Calls |-> call'[x]] /\ \A d \in Calls : Paced(d, call'[d])
    BY <1>3, <1>e DEF Answer, Final
  <2>2. token' \in Logins \cup {None} /\ scope' \in Nat
    BY <1>3, <1>s DEF Answer
  <2> QED
    BY <1>3, <1>s, <2>1, <2>2, PaceKept DEF Answer, Reached, Paced, UnderWay
<1>4. ASSUME NEW c \in Calls, Refused(c) PROVE PaceInv'
  <2>1. call' = [x \in Calls |-> call'[x]] /\ \A d \in Calls : Paced(d, call'[d])
    BY <1>4, <1>e DEF Refused, Final
  <2> QED
    BY <1>4, <1>s, <2>1, PaceKept DEF Refused, Reached, connection, Paced, UnderWay
<1>5. ASSUME NEW c \in Calls, Failed(c) PROVE PaceInv'
  <2>1. call' = [x \in Calls |-> call'[x]] /\ \A d \in Calls : Paced(d, call'[d])
    BY <1>5, <1>e DEF Failed, Final
  <2> QED
    BY <1>5, <1>s, <2>1, PaceKept DEF Failed, session, connection
<1>6. ASSUME NEW c \in Calls, Lose(c) PROVE PaceInv'
  <2> DEFINE w == [call[c] EXCEPT !.stage = "waking", !.retried = TRUE]
             r == IF kind[c] # "upload" /\ ~call[c].retried THEN w ELSE FallBack(call[c], c)
  <2>1. call' = [call EXCEPT ![c] = r]
    BY <1>6 DEF Lose
  <2>2. Paced(c, FallBack(call[c], c))
    BY <1>s, FallBackPaced
  <2>3. ASSUME ~call[c].retried PROVE Paced(c, w)
    <3>1. call[c].stage \in UnderWay /\ Paced(c, call[c])
      BY <1>6, <1>s DEF Lose
    <3>2. w \in CallType /\ w.stage = "waking" /\ w.retried /\ w.left = call[c].left
          /\ w.candidates = call[c].candidates /\ w.sends = call[c].sends
      BY <1>s DEF CallType, Stages
    <3> HIDE DEF w
    <3> QED
      BY <2>3, <3>1, <3>2 DEF Paced, UnderWay
  <2>4. Paced(c, r)
    BY <2>2, <2>3
  <2> HIDE DEF r
  <2>5. call' = [x \in Calls |-> call'[x]] /\ \A d \in Calls : Paced(d, call'[d])
    BY <2>1, <2>4, OneCallPaced
  <2> QED
    BY <1>6, <1>s, <2>5, PaceKept DEF Lose, session, Offline
<1>7. ASSUME NEW c \in Calls, PressRetry(c) PROVE PaceInv'
  <2> DEFINE w == [call[c] EXCEPT !.stage = "waking"]
  <2>1. call' = [call EXCEPT ![c] = w] /\ kind[c] = "retry" /\ call[c].stage = "idle"
    BY <1>7 DEF PressRetry
  <2>2. w \in CallType /\ w.stage = "waking" /\ w.left = call[c].left
        /\ w.candidates = call[c].candidates /\ w.sends = call[c].sends
    BY <1>s DEF CallType, Stages
  <2> HIDE DEF w
  <2>3. Paced(c, w)
    BY <1>s, <2>1, <2>2 DEF Paced, UnderWay
  <2>4. call' = [x \in Calls |-> call'[x]] /\ \A d \in Calls : Paced(d, call'[d])
    BY <2>1, <2>3, OneCallPaced
  <2> QED
    BY <1>7, <1>s, <2>4, PaceKept DEF PressRetry, session, connection
<1>8. ASSUME NEW c \in Calls, Wake(c) PROVE PaceInv'
  <2>1. call' = [call EXCEPT ![c] = [call[c] EXCEPT !.stage = "probing"]]
    BY <1>8 DEF Wake
  <2>2. Paced(c, [call[c] EXCEPT !.stage = "probing"])
    BY <1>8, StagePaced DEF Wake, UnderWay
  <2>3. call' = [x \in Calls |-> call'[x]] /\ \A d \in Calls : Paced(d, call'[d])
    BY <2>1, <2>2, OneCallPaced
  <2> QED
    BY <1>8, <1>s, <2>3, PaceKept DEF Wake, session, connection, Reached
<1>r. ASSUME NEW next, Resume(next),
             \A c \in Calls : call[c].stage = "probing" /\ kind[c] # "retry" => Paced(c, next[c])
      PROVE  call' = [x \in Calls |-> call'[x]] /\ \A c \in Calls : Paced(c, call'[c])
  <2>1. ASSUME NEW c \in Calls PROVE Paced(c, call'[c])
    <3>1. CASE call[c].stage # "probing"
      BY <1>r, <1>s, <3>1 DEF Resume
    <3>2. CASE call[c].stage = "probing" /\ kind[c] = "retry"
      BY <1>r, <3>2, StagePaced DEF Resume, UnderWay
    <3>3. CASE call[c].stage = "probing" /\ kind[c] # "retry"
      BY <1>r, <3>3 DEF Resume
    <3> QED
      BY <3>1, <3>2, <3>3
  <2> QED
    BY <1>r, <2>1 DEF Resume
<1>9. ASSUME NEW h \in Host, ProbeAnswers(h) PROVE PaceInv'
  <2> DEFINE next == [c \in Calls |-> Resend(call[c], c, h)]
  <2>1. Resume(next)
    BY <1>9 DEF ProbeAnswers
  <2>2. ASSUME NEW c \in Calls, call[c].stage = "probing", kind[c] # "retry" PROVE Paced(c, next[c])
    <3>1. call[c] \in CallType /\ Paced(c, call[c])
      BY <1>s
    <3>2. Len(hosts) = 1 => Len(call[c].candidates) <= 1 /\ call[c].sends <= IF call[c].retried THEN 1 ELSE 0
      BY <2>2, <3>1 DEF Paced, UnderWay
    <3>3. Paced(c, Send(call[c], c, h))
      BY <1>s, <3>1, <3>2, SendPaced
    <3> QED
      BY <3>3 DEF Resend
  <2> HIDE DEF next
  <2>3. call' = [x \in Calls |-> call'[x]] /\ \A d \in Calls : Paced(d, call'[d])
    BY <2>1, <2>2, <1>r
  <2> QED
    BY <1>9, <1>s, <2>3, PaceKept DEF ProbeAnswers, session
<1>10. ASSUME NEW h \in Host, ProbeFails(h) PROVE PaceInv'
  <2> DEFINE next == [c \in Calls |-> FallBack(call[c], c)]
  <2>1. Resume(next) \/ UNCHANGED call
    BY <1>10 DEF ProbeFails
  <2>2. ASSUME NEW c \in Calls, call[c].stage = "probing", kind[c] # "retry" PROVE Paced(c, next[c])
    BY <1>s, FallBackPaced
  <2> HIDE DEF next
  <2>3. call' = [x \in Calls |-> call'[x]] /\ \A d \in Calls : Paced(d, call'[d])
    BY <1>s, <2>1, <2>2, <1>r
  <2> QED
    BY <1>10, <1>s, <2>3, PaceKept DEF ProbeFails, session, connection, Offline
<1>11. CASE SignOut \/ Renew
  <2>1. call' = [x \in Calls |-> call'[x]] /\ \A d \in Calls : Paced(d, call'[d])
    BY <1>11, AbortedPaced DEF SignOut, Renew
  <2> QED
    BY <1>11, <1>s, <2>1, PaceKept DEF SignOut, Renew, connection
<1>12. CASE Revoke
  BY <1>12, <1>s, PaceKept DEF Revoke, connection
<1>13. CASE UNCHANGED vars
  BY <1>13, <1>s, PaceKept DEF vars, connection, session
<1> QED
  BY <1>1, <1>2, <1>3, <1>4, <1>5, <1>6, <1>7, <1>8, <1>9, <1>10, <1>11, <1>12, <1>13 DEF Next, Settle

-----------------------------------------------------------------------------
\* With one base URL a call has nowhere to fall back to, and is sent once, or twice when a
\* probe has found the connection again.
THEOREM CallsArePaced == Spec => []PaceInv
<1>1. Init => PaceInv
  <2> SUFFICES ASSUME Init PROVE PaceInv
    OBVIOUS
  <2>1. hosts \in Deployments /\ base = hosts[1] /\ hosts \in Seq(Host) /\ hosts # <<>>
    BY ClientAssumption DEF Init, Host
  <2>2. base \in Host
    BY <2>1
  <2>3. Connected
    BY <2>1, <2>2 DEF Init, Connected
  <2>4. \A c \in Calls : Paced(c, NotStarted)
    BY NotStartedIs DEF Paced, UnderWay
  <2> QED
    BY <2>3, <2>4 DEF Init, PaceInv
<1>2. PaceInv /\ [Next]_vars => PaceInv'
  BY NextPaced
<1> QED
  BY <1>1, <1>2, PTL DEF Spec

\* No call goes out under another session than its own or more often than it may, whichever
\* probes, resends, sign-outs and renewals cross it: every variable is of its type, a call goes
\* out with its own session's token, and to the one base URL of a build twice at most.
THEOREM SendsAreInOrder == Spec => []SendsInv
<1>1. PaceInv => TypeOK /\ OneHostTwoSends
  <2> SUFFICES ASSUME PaceInv PROVE TypeOK /\ OneHostTwoSends
    OBVIOUS
  <2>2. TypeOK
    BY DEF PaceInv, Connected, Paced, TypeOK
  <2>3. ASSUME Len(hosts) = 1, NEW c \in Calls PROVE call[c].sends <= 2
    BY <2>3 DEF PaceInv, Paced, CallType
  <2> QED
    BY <2>2, <2>3 DEF OneHostTwoSends
<1> QED
  BY <1>1, CallsArePaced, CallsStayInTheirSession, PTL DEF SendsInv

-----------------------------------------------------------------------------
(* The session.                                                            *)

Operations == [op : {"set", "undo", "logout", "clear"}, token : Sessions!Tokens \cup {None},
               epoch : Nat, stage : {"issued", "applied"}]

\* An operation that leaves, or makes the function that awaits it leave, nothing in storage.
Removes(w, p) == (w.token = None /\ w.stage = "issued")
              \/ (w.op = "set" /\ w.stage = "applied" /\ w.epoch # p)

\* Storage forgets what ended: what it still holds is about to be removed, and what is still
\* to be written was overtaken by the sign-out.
StorageInv ==
  /\ disk \in ended => \E i \in DOMAIN writes : Removes(writes[i], persist)
  /\ \A i \in DOMAIN writes :
       /\ writes[i].epoch <= persist
       /\ writes[i].token # None => writes[i].op = "set"
       /\ writes[i].token \in ended => writes[i].epoch < persist

\* Tokens are issued in order, and none that ended is used; before the first change of a launch
\* nothing has been written, and only then storage is read.
MemoryInv ==
  /\ signedIn \notin ended
  /\ ended \subseteq 0..issued
  /\ signedIn \in Sessions!Tokens => signedIn <= issued
  /\ disk \in Sessions!Tokens => disk <= issued
  /\ \A i \in DOMAIN writes : writes[i].token \in Sessions!Tokens => writes[i].token <= issued
  /\ epoch = 0 => writes = <<>> /\ signedIn = None
  /\ boot.at = "reading" => boot.epoch = 0
  /\ boot.at = "validating" => boot.token \in Sessions!Tokens
  /\ foreground.at = "validating" => foreground.token \in Sessions!Tokens
  /\ loggingIn => issued < MaxLogins

SessIInv == Sessions!TypeOK /\ StorageInv /\ MemoryInv

-----------------------------------------------------------------------------
(* Sequences of operations.                                                *)

LEMMA Removed ==
  ASSUME NEW S, NEW s \in Seq(S), NEW i \in DOMAIN s
  PROVE  /\ Sessions!RemoveAt(s, i) \in Seq(S)
         /\ \A k \in DOMAIN Sessions!RemoveAt(s, i) : \E j \in DOMAIN s :
            Sessions!RemoveAt(s, i)[k] = s[j]
         /\ \A j \in DOMAIN s \ {i} : \E k \in DOMAIN Sessions!RemoveAt(s, i) :
            Sessions!RemoveAt(s, i)[k] = s[j]
<1> DEFINE a == SubSeq(s, 1, i - 1)
<1> DEFINE b == SubSeq(s, i + 1, Len(s))
<1> HIDE DEF a, b
<1>1. DOMAIN s = 1..Len(s) /\ Len(s) \in Nat /\ i \in 1..Len(s)
  OBVIOUS
<1>2. a \in Seq(S) /\ Len(a) = i - 1 /\ \A k \in 1..(i - 1) : a[k] = s[k]
  BY <1>1, SubSeqProperties DEF a
<1>3. b \in Seq(S) /\ Len(b) = Len(s) - i /\ \A k \in 1..(Len(s) - i) : b[k] = s[i + k]
  BY <1>1, SubSeqProperties DEF b
<1>4. Sessions!RemoveAt(s, i) = a \o b
  BY DEF Sessions!RemoveAt, a, b
<1>5. /\ a \o b \in Seq(S)
      /\ Len(a \o b) = Len(a) + Len(b)
      /\ \A k \in 1..(Len(a) + Len(b)) : (a \o b)[k] = IF k <= Len(a) THEN a[k] ELSE b[k - Len(a)]
  BY <1>2, <1>3, ConcatProperties
<1> DEFINE c == a \o b
<1> DEFINE n == Len(s)
<1> HIDE DEF c, n
<1>0. n \in Nat /\ i \in 1..n /\ Len(a) = i - 1 /\ Len(b) = n - i
  BY <1>1, <1>2, <1>3 DEF n
<1>6. c \in Seq(S) /\ DOMAIN c = 1..(n - 1) /\ n \in Nat /\ i \in 1..n
  <2>1. c \in Seq(S) /\ Len(c) = (i - 1) + (n - i)
    BY <1>0, <1>5 DEF c
  <2> QED
    BY <2>1, <1>0
<1>7. \A k \in 1..(n - 1) : c[k] = IF k <= i - 1 THEN a[k] ELSE b[k - (i - 1)]
  <2>1. Len(a) + Len(b) = n - 1
    BY <1>0
  <2> QED
    BY <1>0, <1>5, <2>1 DEF c
<1>8. \A k \in 1..(i - 1) : a[k] = s[k]
  BY <1>2
<1>9. \A k \in 1..(n - i) : b[k] = s[i + k]
  BY <1>3 DEF n
<1>10. ASSUME NEW k \in 1..(n - 1) PROVE c[k] = IF k <= i - 1 THEN s[k] ELSE s[k + 1]
  <2>1. CASE k <= i - 1
    BY <2>1, <1>6, <1>7, <1>8
  <2>2. CASE ~(k <= i - 1)
    <3>1. k - (i - 1) \in 1..(n - i) /\ i + (k - (i - 1)) = k + 1
      BY <2>2, <1>6
    <3> QED
      BY <2>2, <1>7, <1>9, <3>1
  <2> QED
    BY <2>1, <2>2
<1>11. \A j \in 1..n \ {i} : \E k \in 1..(n - 1) : c[k] = s[j]
  <2>1. ASSUME NEW j \in 1..n, j < i PROVE j \in 1..(n - 1) /\ c[j] = s[j]
    BY <1>6, <1>10, <2>1
  <2>2. ASSUME NEW j \in 1..n, j > i PROVE j - 1 \in 1..(n - 1) /\ c[j - 1] = s[j]
    <3>1. j - 1 \in 1..(n - 1) /\ (j - 1) + 1 = j /\ ~(j - 1 <= i - 1)
      BY <1>6, <2>2
    <3> QED
      BY <1>10, <3>1
  <2> QED
    BY <1>6, <2>1, <2>2
<1>12. \A k \in 1..(n - 1) : \E j \in 1..n : c[k] = s[j]
  <2>1. ASSUME NEW k \in 1..(n - 1) PROVE k \in 1..n /\ k + 1 \in 1..n
    BY <1>6
  <2> QED
    BY <1>10, <2>1
<1> QED
  BY <1>1, <1>4, <1>6, <1>11, <1>12 DEF c, n

LEMMA Appended ==
  ASSUME NEW S, NEW s \in Seq(S), NEW x \in S
  PROVE  /\ Append(s, x) \in Seq(S)
         /\ \A k \in DOMAIN Append(s, x) : Append(s, x)[k] = x \/ \E j \in DOMAIN s :
            Append(s, x)[k] = s[j]
         /\ \A j \in DOMAIN s : \E k \in DOMAIN Append(s, x) : Append(s, x)[k] = s[j]
         /\ \E k \in DOMAIN Append(s, x) : Append(s, x)[k] = x
<1>1. /\ DOMAIN s = 1..Len(s) /\ DOMAIN Append(s, x) = 1..(Len(s) + 1) /\ Len(s) \in Nat
      /\ Append(s, x) \in Seq(S) /\ Append(s, x)[Len(s) + 1] = x
      /\ \A j \in 1..Len(s) : Append(s, x)[j] = s[j]
  OBVIOUS
<1> QED
  BY <1>1

-----------------------------------------------------------------------------
(* Storage.                                                                *)

\* What the rest of the proof needs of it.
StorageKept ==
  /\ writes \in Seq(Operations) /\ persist \in Nat /\ disk \in Sessions!Tokens \cup {None, Corrupt}
  /\ disk \in Sessions!Tokens => disk <= issued
  /\ \A i \in DOMAIN writes : writes[i].token \in Sessions!Tokens => writes[i].token <= issued
  /\ StorageInv

LEMMA NoToken == None \notin Sessions!Tokens /\ Corrupt \notin Sessions!Tokens /\ None # Corrupt
  BY Sessions!SessionAssumption DEF Sessions!SessionAssumption

\* A session is written.
LEMMA SetKeeps ==
  ASSUME StorageKept, ended \subseteq Sessions!Tokens, issued \in Nat, issued' \in Nat,
         issued <= issued',
         NEW t \in Sessions!Tokens, t \notin ended, t <= issued', Sessions!Persist(t),
              UNCHANGED ended
  PROVE  StorageKept'
<1> DEFINE w == [op |-> "set", token |-> t, epoch |-> persist, stage |-> "issued"]
<1>1. w \in Operations /\ writes' = Append(writes, w) /\ disk' = disk /\ persist' = persist
  BY DEF StorageKept, Sessions!Persist, Sessions!Write, Operations
<1>2. w.token = t /\ w.op = "set" /\ w.epoch = persist
  OBVIOUS
<1> HIDE DEF w
<1>3. /\ writes' \in Seq(Operations)
      /\ \A k \in DOMAIN writes' : writes'[k] = w \/ \E j \in DOMAIN writes : writes'[k] = writes[j]
      /\ \A j \in DOMAIN writes : \E k \in DOMAIN writes' : writes'[k] = writes[j]
  <2>1. writes \in Seq(Operations)
    BY DEF StorageKept
  <2>2. \A j \in DOMAIN writes : \E k \in DOMAIN Append(writes, w) :
        Append(writes, w)[k] = writes[j]
    <3> DEFINE s == writes
    <3>1. w \in Operations /\ s \in Seq(Operations)
      BY <1>1, <2>1
    <3> HIDE DEF s
    <3>2. \A j \in DOMAIN s : \E k \in DOMAIN Append(s, w) : Append(s, w)[k] = s[j]
      <4> SUFFICES ASSUME NEW j \in DOMAIN s
                   PROVE  j \in DOMAIN Append(s, w) /\ Append(s, w)[j] = s[j]
        OBVIOUS
      <4>1. DOMAIN s = 1..Len(s) /\ Len(s) \in Nat
        BY <3>1
      <4> QED
        BY <3>1, <4>1, AppendProperties
    <3> QED
      BY <3>2 DEF s
  <2>3. \A k \in DOMAIN Append(writes, w) :
          Append(writes, w)[k] = w \/ \E j \in DOMAIN writes : Append(writes, w)[k] = writes[j]
    BY <1>1, <2>1, Appended
  <2> QED
    BY <1>1, <2>1, <2>2, <2>3, AppendProperties
<1>4. disk \in ended => \E k \in DOMAIN writes' : Removes(writes'[k], persist')
  BY <1>1, <1>3 DEF StorageKept, StorageInv, Removes
<1>5. \A k \in DOMAIN writes' :
        /\ writes'[k].epoch <= persist
        /\ writes'[k].token # None => writes'[k].op = "set"
        /\ writes'[k].token \in ended => writes'[k].epoch < persist
        /\ writes'[k].token \in Sessions!Tokens => writes'[k].token <= issued'
  <2> TAKE k \in DOMAIN writes'
  <2>1. CASE writes'[k] = w
    BY <1>2, <2>1 DEF StorageKept
  <2>2. CASE \E j \in DOMAIN writes : writes'[k] = writes[j]
    <3>1. PICK j \in DOMAIN writes : writes'[k] = writes[j]
      BY <2>2
    <3>2. writes[j].token \in Sessions!Tokens => writes[j].token <= issued
          /\ writes[j].token \in Nat
      BY DEF StorageKept, Sessions!Tokens
    <3> QED
      BY <3>1, <3>2 DEF StorageKept, StorageInv
  <2> QED
    BY <1>3, <2>1, <2>2
<1>6. disk \in Sessions!Tokens => disk <= issued'
  BY DEF StorageKept, Sessions!Tokens
<1> QED
  BY <1>1, <1>3, <1>4, <1>5, <1>6 DEF StorageKept, StorageInv

\* A session ends: what is in storage is removed, and what is being written is overtaken.
LEMMA ClearKeeps ==
  ASSUME StorageKept, ended \subseteq Sessions!Tokens, NEW by \in {"undo", "logout", "clear"},
         Sessions!ClearStorage(by), UNCHANGED issued
  PROVE  StorageKept'
<1> DEFINE w == [op |-> by, token |-> None, epoch |-> persist, stage |-> "issued"]
<1>1. w \in Operations /\ writes' = Append(writes, w) /\ disk' = disk /\ persist' = persist + 1
  BY DEF StorageKept, Sessions!ClearStorage, Sessions!Write, Operations
<1>2. w.token = None /\ w.stage = "issued" /\ w.epoch = persist /\ None \notin Sessions!Tokens
  BY NoToken
<1> HIDE DEF w
<1>3. /\ writes' \in Seq(Operations)
      /\ \A k \in DOMAIN writes' : writes'[k] = w \/ \E j \in DOMAIN writes : writes'[k] = writes[j]
      /\ \E k \in DOMAIN writes' : writes'[k] = w
  BY <1>1, Appended DEF StorageKept
<1>4. \E k \in DOMAIN writes' : Removes(writes'[k], persist')
  BY <1>1, <1>2, <1>3 DEF Removes
<1>5. \A k \in DOMAIN writes' :
        /\ writes'[k].epoch <= persist /\ writes'[k].epoch \in Nat
        /\ writes'[k].token # None => writes'[k].op = "set"
        /\ writes'[k].token \in Sessions!Tokens => writes'[k].token <= issued
  <2> TAKE k \in DOMAIN writes'
  <2>1. CASE writes'[k] = w
    BY <1>2, <2>1 DEF StorageKept
  <2>2. CASE \E j \in DOMAIN writes : writes'[k] = writes[j]
    <3>1. PICK j \in DOMAIN writes : writes'[k] = writes[j]
      BY <2>2
    <3>2. writes[j] \in Operations
      BY DEF StorageKept
    <3>3. writes[j].epoch \in Nat
      BY <3>2 DEF Operations
    <3> QED
      BY <3>1, <3>3 DEF StorageKept, StorageInv
  <2> QED
    BY <1>3, <2>1, <2>2
<1>6. \A k \in DOMAIN writes' : writes'[k].epoch <= persist' /\ writes'[k].epoch < persist'
  BY <1>1, <1>5 DEF StorageKept
<1> QED
  BY <1>1, <1>3, <1>4, <1>5, <1>6 DEF StorageKept, StorageInv

\* An operation takes effect.
LEMMA ApplyKeeps ==
  ASSUME StorageKept, ended \subseteq Sessions!Tokens, NEW i \in DOMAIN writes, Sessions!Apply(i)
  PROVE  StorageKept'
<1>1. /\ writes[i].stage = "issued" /\ disk' = writes[i].token
      /\ writes' = [writes EXCEPT ![i].stage = "applied"]
      /\ UNCHANGED <<persist, issued, ended>>
  BY DEF Sessions!Apply, Sessions!server
<1>2. writes[i] \in Operations /\ writes \in Seq(Operations)
  BY DEF StorageKept
<1>3. /\ writes' \in Seq(Operations) /\ DOMAIN writes' = DOMAIN writes
      /\ \A k \in DOMAIN writes : k # i => writes'[k] = writes[k]
      /\ writes'[i] = [writes[i] EXCEPT !.stage = "applied"]
  <2>1. [writes[i] EXCEPT !.stage = "applied"] \in Operations
    BY <1>2 DEF Operations
  <2>2. writes' = [writes EXCEPT ![i] = [writes[i] EXCEPT !.stage = "applied"]]
    BY <1>1
  <2> QED
    BY <1>2, <2>1, <2>2
<1>4. /\ writes'[i].token = writes[i].token /\ writes'[i].epoch = writes[i].epoch
      /\ writes'[i].op = writes[i].op /\ writes'[i].stage = "applied"
  BY <1>2, <1>3 DEF Operations
<1>5. ASSUME disk' \in ended PROVE Removes(writes'[i], persist')
  BY <1>1, <1>2, <1>4, <1>5, NoToken DEF StorageKept, StorageInv, Removes, Operations
<1>6. \A k \in DOMAIN writes' :
        /\ writes'[k].epoch <= persist
        /\ writes'[k].token # None => writes'[k].op = "set"
        /\ writes'[k].token \in ended => writes'[k].epoch < persist
        /\ writes'[k].token \in Sessions!Tokens => writes'[k].token <= issued
  <2> TAKE k \in DOMAIN writes'
  <2>1. CASE k = i
    BY <1>4, <2>1 DEF StorageKept, StorageInv
  <2>2. CASE k # i
    BY <1>3, <2>2 DEF StorageKept, StorageInv
  <2> QED
    BY <2>1, <2>2
<1>7. disk' \in Sessions!Tokens \cup {None} /\ (disk' \in Sessions!Tokens => disk' <= issued)
  BY <1>1, <1>2 DEF StorageKept, Operations
<1> QED
  BY <1>1, <1>3, <1>5, <1>6, <1>7 DEF StorageKept, StorageInv

\* The function that awaited it goes on.
LEMMA GoOnKeeps ==
  ASSUME StorageKept, ended \subseteq Sessions!Tokens, NEW i \in DOMAIN writes, Sessions!GoOn(i)
  PROVE  StorageKept'
<1> DEFINE rest == Sessions!RemoveAt(writes, i)
<1> DEFINE w == [op |-> "undo", token |-> None, epoch |-> persist, stage |-> "issued"]
<1>1. /\ writes[i].stage = "applied" /\ UNCHANGED <<disk, persist, issued, ended>>
      /\ writes' = IF writes[i].op = "set" /\ writes[i].epoch # persist
                   THEN Append(rest, w) ELSE rest
  BY DEF Sessions!GoOn, Sessions!server, Sessions!Write
<1>2. w \in Operations /\ w.token = None /\ w.stage = "issued" /\ w.epoch = persist
  BY DEF StorageKept, Operations
<1>3. /\ rest \in Seq(Operations)
      /\ \A k \in DOMAIN rest : \E j \in DOMAIN writes : rest[k] = writes[j]
      /\ \A j \in DOMAIN writes \ {i} : \E k \in DOMAIN rest : rest[k] = writes[j]
  BY Removed DEF StorageKept
<1> HIDE DEF rest, w
<1>4. /\ writes' \in Seq(Operations)
      /\ \A k \in DOMAIN writes' : writes'[k] = w \/ \E j \in DOMAIN writes : writes'[k] = writes[j]
  <2>1. CASE writes[i].op = "set" /\ writes[i].epoch # persist
    BY <1>1, <1>2, <1>3, <2>1, Appended
  <2>2. CASE ~(writes[i].op = "set" /\ writes[i].epoch # persist)
    BY <1>1, <1>3, <2>2
  <2> QED
    BY <2>1, <2>2
<1>5. ASSUME disk \in ended PROVE \E k \in DOMAIN writes' : Removes(writes'[k], persist')
  <2>1. CASE writes[i].op = "set" /\ writes[i].epoch # persist
    <3>1. \E k \in DOMAIN writes' : writes'[k] = w
      BY <1>1, <1>2, <1>3, <2>1, Appended
    <3> QED
      BY <1>2, <3>1 DEF Removes
  <2>2. CASE ~(writes[i].op = "set" /\ writes[i].epoch # persist)
    <3>1. PICK j \in DOMAIN writes : Removes(writes[j], persist)
      BY <1>5 DEF StorageKept, StorageInv
    <3>2. j # i
      BY <1>1, <2>2, <3>1 DEF Removes
    <3>3. PICK k \in DOMAIN rest : rest[k] = writes[j]
      BY <1>3, <3>2
    <3> QED
      BY <1>1, <2>2, <3>1, <3>3 DEF Removes
  <2> QED
    BY <2>1, <2>2
<1>6. \A k \in DOMAIN writes' :
        /\ writes'[k].epoch <= persist
        /\ writes'[k].token # None => writes'[k].op = "set"
        /\ writes'[k].token \in ended => writes'[k].epoch < persist
        /\ writes'[k].token \in Sessions!Tokens => writes'[k].token <= issued
  <2> TAKE k \in DOMAIN writes'
  <2>1. CASE writes'[k] = w
    BY <1>2, <2>1, NoToken DEF StorageKept
  <2>2. CASE \E j \in DOMAIN writes : writes'[k] = writes[j]
    BY <2>2 DEF StorageKept, StorageInv
  <2> QED
    BY <1>4, <2>1, <2>2
<1> QED
  BY <1>1, <1>4, <1>5, <1>6 DEF StorageKept, StorageInv

-----------------------------------------------------------------------------
(* The session in memory.                                                  *)

LEMMA KeptFrom == ASSUME SessIInv PROVE StorageKept /\ ended \subseteq Sessions!Tokens
     /\ issued \in Nat
  BY DEF SessIInv, Sessions!TypeOK, MemoryInv, StorageKept, Operations, Sessions!Tokens

\* What the flows leave alone.
LEMMA FlowTypes == ASSUME SessIInv PROVE boot \in Sessions!Flow /\ foreground \in Sessions!Flow
     /\ Sessions!Idle \in Sessions!Flow
  BY DEF SessIInv, Sessions!TypeOK, Sessions!Idle, Sessions!Flow

\* What a change of session does to the memory: it names a session that has not ended, or none.
Changed ==
  /\ signedIn' \in Sessions!Tokens \cup {None} /\ signedIn' \notin ended'
     /\ (signedIn' \in Sessions!Tokens => signedIn' <= issued')
  /\ epoch' \in Nat /\ signal' \in Nat /\ {checked', hydrated'} \subseteq BOOLEAN
  /\ ended' \subseteq Sessions!Tokens /\ ended' \subseteq 0..issued'
  /\ epoch' = 0 => writes' = <<>> /\ signedIn' = None
  /\ StorageKept'

LEMMA SetChanges ==
  ASSUME SessIInv, NEW t \in Sessions!Tokens, t \notin ended, t <= issued', issued' \in Nat,
         issued <= issued',
         Sessions!SetSession(t)
  PROVE  Changed
<1>1. StorageKept'
  BY KeptFrom, SetKeeps DEF Sessions!SetSession
<1>2. ended \subseteq 0..issued'
  BY DEF SessIInv, MemoryInv, Sessions!TypeOK, Sessions!Tokens
<1> QED
  BY <1>1, <1>2 DEF Sessions!SetSession, Changed, SessIInv, Sessions!TypeOK

LEMMA EndChanges ==
  ASSUME SessIInv, UNCHANGED issued, NEW by \in {"logout", "clear"}, Sessions!ClearStorage(by),
         epoch' = epoch + 1, signal' = signal + 1, signedIn' = None,
         {checked', hydrated'} \subseteq BOOLEAN,
         ended' = IF signedIn = None THEN ended ELSE ended \cup {signedIn}
  PROVE  Changed
<1>1. StorageKept'
  BY KeptFrom, ClearKeeps
<1>2. ended' \subseteq Sessions!Tokens /\ ended' \subseteq 0..issued
  BY KeptFrom DEF SessIInv, Sessions!TypeOK, MemoryInv, Sessions!Tokens
<1>3. None \notin ended'
  BY <1>2, NoToken
<1> QED
  BY <1>1, <1>2, <1>3, NoToken DEF Changed, SessIInv, Sessions!TypeOK

LEMMA StillChanges ==
  ASSUME SessIInv, UNCHANGED <<signedIn, epoch, signal, Sessions!storage, ended, issued>>,
         {checked', hydrated'} \subseteq BOOLEAN
  PROVE  Changed
  BY KeptFrom DEF Changed, Sessions!storage, StorageKept, StorageInv, SessIInv, Sessions!TypeOK,
                  MemoryInv

LEMMA LogoutChanges == ASSUME SessIInv, Sessions!Logout, UNCHANGED issued PROVE Changed
     /\ loggingOut' \in BOOLEAN
<1>1. CASE loggingOut
  BY <1>1, StillChanges DEF Sessions!Logout, Sessions!memory, SessIInv, Sessions!TypeOK
<1>2. CASE ~loggingOut
  BY <1>2, EndChanges DEF Sessions!Logout, SessIInv, Sessions!TypeOK
<1> QED
  BY <1>1, <1>2

LEMMA ClearChanges == ASSUME SessIInv, Sessions!ClearInvalid, UNCHANGED issued PROVE Changed
  BY EndChanges DEF Sessions!ClearInvalid

LEMMA CompleteChanges == ASSUME SessIInv, Sessions!Complete, UNCHANGED issued PROVE Changed
  BY ClearChanges, StillChanges DEF Sessions!Complete

\* A session that was read is restored only when nothing was written since the launch.
LEMMA RestoreChanges ==
  ASSUME SessIInv, boot.at = "reading", boot.epoch = epoch, Sessions!Restore(disk),
         disk \in Sessions!Tokens, UNCHANGED issued
  PROVE  Changed
<1>1. epoch = 0 /\ writes = <<>>
  BY DEF SessIInv, MemoryInv
<1>2. disk \notin ended
  BY <1>1 DEF SessIInv, StorageInv
<1>3. StorageKept'
  BY KeptFrom DEF Sessions!Restore, Sessions!storage, StorageKept, StorageInv
<1> QED
  <2>1. /\ signedIn' = disk /\ epoch' = epoch + 1 /\ checked' = FALSE /\ hydrated' = FALSE
        /\ UNCHANGED <<signal, ended, issued>>
    BY DEF Sessions!Restore
  <2>2. epoch \in Nat /\ signal \in Nat /\ ended \subseteq Sessions!Tokens
        /\ ended \subseteq 0..issued
        /\ disk <= issued
    BY DEF SessIInv, Sessions!TypeOK, MemoryInv
  <2> QED
    <3>1. signedIn' \in Sessions!Tokens \cup {None} /\ signedIn' \notin ended'
          /\ (signedIn' \in Sessions!Tokens => signedIn' <= issued')
      BY <1>2, <2>1, <2>2
    <3>2. epoch' \in Nat /\ signal' \in Nat /\ epoch' # 0
      BY <2>1, <2>2
    <3>3. {checked', hydrated'} \subseteq BOOLEAN
      BY <2>1
    <3>4. ended' \subseteq Sessions!Tokens /\ ended' \subseteq 0..issued'
      BY <2>1, <2>2
    <3> QED
      BY <1>3, <3>1, <3>2, <3>3, <3>4 DEF Changed

\* The memory changed so, and the flows have what they ask for.
LEMMA Changes ==
  ASSUME SessIInv, Changed, UNCHANGED <<expired, refused, launches>>,
         issued' \in Sessions!Tokens, {watchdog', loggingIn', loggingOut'} \subseteq BOOLEAN,
         boot' \in Sessions!Flow, foreground' \in Sessions!Flow,
         boot'.at = "reading" => boot'.epoch = 0,
         boot'.at = "validating" => boot'.token \in Sessions!Tokens,
         foreground'.at = "validating" => foreground'.token \in Sessions!Tokens,
         loggingIn' => issued' < MaxLogins
  PROVE  SessIInv'
  BY DEF SessIInv, Sessions!TypeOK, StorageKept, MemoryInv, Changed, Operations

-----------------------------------------------------------------------------
(* The steps.                                                              *)

LEMMA FlowsKept ==
  ASSUME SessIInv
  PROVE  /\ issued \in Sessions!Tokens /\ {watchdog, loggingIn, loggingOut} \subseteq BOOLEAN
         /\ boot \in Sessions!Flow /\ foreground \in Sessions!Flow
            /\ Sessions!Idle \in Sessions!Flow /\ Sessions!Idle.at = "idle"
         /\ boot.at = "reading" => boot.epoch = 0
         /\ boot.at = "validating" => boot.token \in Sessions!Tokens
         /\ foreground.at = "validating" => foreground.token \in Sessions!Tokens
         /\ loggingIn => issued < MaxLogins
  BY FlowTypes DEF SessIInv, Sessions!TypeOK, MemoryInv, Sessions!Idle

LEMMA ReadKeeps == ASSUME SessIInv, Sessions!ReadSession PROVE SessIInv'
<1>1. PICK payload \in {disk, Corrupt} : Sessions!Resume(payload)
  BY DEF Sessions!ReadSession
<1>2. /\ boot.at = "reading"
      /\ UNCHANGED <<issued, expired, refused, foreground, loggingIn, loggingOut, launches>>
  BY DEF Sessions!ReadSession, Sessions!server
<1>3. CASE payload \in Sessions!Tokens \ expired /\ boot.epoch = epoch
  <2>1. Sessions!Restore(payload) /\ payload = disk
    BY <1>1, <1>3, NoToken DEF Sessions!Resume
  <2>2. Changed
    BY <1>2, <1>3, <2>1, RestoreChanges
  <2>3. boot' \in Sessions!Flow /\ boot'.at = "validating" /\ boot'.token \in Sessions!Tokens
    BY <1>3, <2>1 DEF Sessions!Restore, Sessions!Flow, SessIInv, Sessions!TypeOK
  <2>4. watchdog' = watchdog
    BY <2>1 DEF Sessions!Restore
  <2> QED
    BY <1>2, <2>2, <2>3, <2>4, Changes, FlowsKept
<1>4. CASE ~(payload \in Sessions!Tokens \ expired /\ boot.epoch = epoch)
  <2>1. Sessions!Finished /\ (Sessions!MarkComplete(TRUE) \/ Sessions!MarkComplete(checked)
        \/ Sessions!ClearInvalid)
    BY <1>1, <1>4 DEF Sessions!Resume
  <2>2. ASSUME NEW done \in BOOLEAN, Sessions!MarkComplete(done) PROVE Changed
    BY <1>2, <2>2, StillChanges DEF Sessions!MarkComplete
  <2>3. Changed
    BY <1>2, <2>1, <2>2, ClearChanges DEF SessIInv, Sessions!TypeOK
  <2> QED
    BY <1>2, <2>1, <2>3, Changes, FlowsKept DEF Sessions!Finished
<1> QED
  BY <1>3, <1>4

\* A session is committed only if it is still the one in memory.
LEMMA CommitChanges ==
  ASSUME SessIInv, NEW f, f.token \in Sessions!Tokens, Sessions!Commit(f), UNCHANGED issued
  PROVE  Changed /\ loggingOut' = loggingOut
<1>1. CASE Sessions!Current(f)
  <2>1. f.token \notin ended /\ f.token <= issued /\ issued \in Nat
    BY <1>1, KeptFrom DEF Sessions!Current, SessIInv, MemoryInv
  <2> QED
    BY <1>1, <2>1, SetChanges DEF Sessions!Commit
<1>2. CASE ~Sessions!Current(f)
  BY <1>2, StillChanges DEF Sessions!Commit, Sessions!Nothing, Sessions!memory, SessIInv,
                            Sessions!TypeOK
<1> QED
  BY <1>1, <1>2

LEMMA NothingChanges == ASSUME SessIInv, Sessions!Nothing, UNCHANGED issued PROVE Changed
     /\ loggingOut' = loggingOut
  BY StillChanges DEF Sessions!Nothing, Sessions!memory, SessIInv, Sessions!TypeOK

LEMMA ValidateKeeps == ASSUME SessIInv, Sessions!AnswerBootstrap PROVE SessIInv'
<1>1. PICK outcome : Sessions!Validate(outcome)
  BY DEF Sessions!AnswerBootstrap
<1>2. /\ boot.at = "validating" /\ boot' = [Sessions!Idle EXCEPT !.at = "ending"]
      /\ UNCHANGED <<issued, expired, refused, watchdog, foreground, loggingIn, launches>>
  BY DEF Sessions!AnswerBootstrap, Sessions!server
<1>3. Changed /\ loggingOut' \in BOOLEAN
  <2>1. CASE outcome = "user"
    BY <1>1, <1>2, <2>1, CommitChanges, FlowsKept DEF Sessions!Validate
  <2>2. CASE outcome = "canceled"
    BY <1>1, <1>2, <2>2, NothingChanges, FlowsKept DEF Sessions!Validate
  <2>3. CASE outcome = "refused" /\ ~loggingOut
    BY <1>1, <1>2, <2>3, LogoutChanges DEF Sessions!Validate
  <2>4. CASE outcome \notin {"user", "canceled"} /\ ~(outcome = "refused" /\ ~loggingOut)
    <3>1. /\ loggingOut' = loggingOut
          /\ UNCHANGED <<Sessions!memory, Sessions!storage, ended>> \/ Sessions!ClearInvalid
                         \/ Sessions!MarkComplete(TRUE)
      BY <1>1, <2>4 DEF Sessions!Validate
    <3> QED
      BY <1>2, <3>1, ClearChanges, StillChanges, FlowsKept DEF Sessions!memory,
           Sessions!MarkComplete, SessIInv, Sessions!TypeOK
  <2> QED
    BY <2>1, <2>2, <2>3, <2>4
<1>4. boot' \in Sessions!Flow /\ boot'.at = "ending"
  BY <1>2 DEF Sessions!Idle, Sessions!Flow
<1> QED
  BY <1>2, <1>3, <1>4, Changes, FlowsKept

LEMMA ForegroundKeeps == ASSUME SessIInv, Sessions!AnswerForeground PROVE SessIInv'
<1>1. PICK outcome : CASE outcome = "user" -> Sessions!Commit(foreground)
                       [] outcome = "refused" -> Sessions!Logout
                       [] OTHER -> Sessions!Nothing
  BY DEF Sessions!AnswerForeground
<1>2. /\ foreground.at = "validating" /\ foreground' = Sessions!Idle
      /\ UNCHANGED <<issued, expired, refused, boot, watchdog, loggingIn, launches>>
  BY DEF Sessions!AnswerForeground, Sessions!server
<1>3. Changed /\ loggingOut' \in BOOLEAN
  BY <1>1, <1>2, CommitChanges, NothingChanges, LogoutChanges, FlowsKept
<1> QED
  BY <1>2, <1>3, Changes, FlowsKept

LEMMA EndKeeps == ASSUME SessIInv, Sessions!EndBootstrap PROVE SessIInv'
<1>1. /\ boot' = Sessions!Idle /\ watchdog' = FALSE
      /\ UNCHANGED <<issued, expired, refused, foreground, loggingIn, loggingOut, launches>>
  BY DEF Sessions!EndBootstrap, Sessions!Finished, Sessions!server
<1>2. Changed
  BY <1>1, CompleteChanges, StillChanges DEF Sessions!EndBootstrap, Sessions!memory, SessIInv,
                                             Sessions!TypeOK
<1> QED
  BY <1>1, <1>2, Changes, FlowsKept

LEMMA LoginAnswerKeeps == ASSUME SessIInv, Sessions!LoginAnswer PROVE SessIInv'
<1>1. /\ loggingIn /\ loggingIn' = FALSE
      /\ UNCHANGED <<expired, refused, boot, watchdog, foreground, loggingOut, launches>>
  BY DEF Sessions!LoginAnswer
<1>2. CASE Sessions!SetSession(issued + 1) /\ issued' = issued + 1
  <2>1. issued \in Nat /\ issued + 1 \in Sessions!Tokens /\ issued + 1 \notin ended
    BY <1>1, Sessions!SessionAssumption DEF SessIInv, Sessions!TypeOK, MemoryInv, Sessions!Tokens,
                                            Sessions!SessionAssumption
  <2>2. Changed
    BY <1>2, <2>1, SetChanges
  <2> QED
    BY <1>1, <1>2, <2>1, <2>2, Changes, FlowsKept
<1>3. CASE UNCHANGED <<Sessions!memory, Sessions!storage, issued, ended>>
  <2>1. Changed
    BY <1>3, StillChanges DEF Sessions!memory, SessIInv, Sessions!TypeOK
  <2> QED
    BY <1>1, <1>3, <2>1, Changes, FlowsKept
<1> QED
  BY <1>2, <1>3 DEF Sessions!LoginAnswer

LEMMA StartsKeep == ASSUME SessIInv, Sessions!Login \/ Sessions!SignOut \/ Sessions!ComeBack
     \/ Sessions!RefuseCall PROVE SessIInv'
<1>1. CASE Sessions!Login
  <2>1. /\ UNCHANGED <<Sessions!memory, Sessions!storage, Sessions!server, boot, watchdog,
                       foreground, loggingOut, ended, launches>>
        /\ loggingIn' /\ loggingIn' \in BOOLEAN /\ issued < MaxLogins
    BY <1>1 DEF Sessions!Login
  <2>2. Changed
    BY <2>1, StillChanges DEF Sessions!memory, Sessions!server, SessIInv, Sessions!TypeOK
  <2> QED
    BY <2>1, <2>2, Changes, FlowsKept DEF Sessions!server
<1>2. CASE Sessions!SignOut \/ Sessions!RefuseCall
  <2>1. Sessions!Logout /\ UNCHANGED <<Sessions!server, boot, watchdog, foreground, loggingIn,
        launches>>
    BY <1>2 DEF Sessions!SignOut, Sessions!RefuseCall
  <2>2. Changed /\ loggingOut' \in BOOLEAN
    BY <2>1, LogoutChanges DEF Sessions!server
  <2> QED
    BY <2>1, <2>2, Changes, FlowsKept DEF Sessions!server
<1>3. CASE Sessions!ComeBack
  <2>1. /\ UNCHANGED <<Sessions!server, boot, watchdog, loggingIn, loggingOut, launches>>
                       /\ signedIn # None
    BY <1>3 DEF Sessions!ComeBack
  <2>2. CASE signedIn \in expired
    BY <1>3, <2>1, <2>2, ClearChanges, Changes, FlowsKept DEF Sessions!ComeBack, Sessions!server
  <2>3. CASE signedIn \notin expired
    <3>1. /\ foreground' = [at |-> "validating", epoch |-> epoch, token |-> signedIn,
             scope |-> signal]
          /\ UNCHANGED <<Sessions!memory, Sessions!storage, ended>>
      BY <1>3, <2>3 DEF Sessions!ComeBack
    <3>2. foreground' \in Sessions!Flow /\ foreground'.token \in Sessions!Tokens
      BY <2>1, <3>1 DEF SessIInv, Sessions!TypeOK, Sessions!Flow
    <3>3. Changed
      BY <2>1, <3>1, StillChanges DEF Sessions!memory, Sessions!server, SessIInv, Sessions!TypeOK
    <3> QED
      BY <2>1, <3>1, <3>2, <3>3, Changes, FlowsKept DEF Sessions!server
  <2> QED
    BY <2>2, <2>3
<1> QED
  BY <1>1, <1>2, <1>3

\* The app is killed: what it had not written yet is written or not, and nothing that ended is
\* known to have gone unless all of it was.
LEMMA RelaunchKeeps == ASSUME SessIInv, Sessions!Relaunch PROVE SessIInv'
<1>1. \A i \in DOMAIN writes : writes[i].token \in Sessions!Tokens \cup {None}
  <2>1. writes \in Seq(Operations)
    BY DEF SessIInv, Sessions!TypeOK, Operations
  <2>2. \A i \in DOMAIN writes : writes[i] \in Operations
    BY <2>1
  <2> QED
    BY <2>2 DEF Operations
<1>2. disk' \in Sessions!Tokens \cup {None, Corrupt}
      /\ (disk' \in Sessions!Tokens => disk' <= issued)
  BY <1>1 DEF Sessions!Relaunch, SessIInv, Sessions!TypeOK, MemoryInv
<1>3. ended' \subseteq ended /\ disk' \notin ended'
  <2>1. CASE writes = <<>>
    BY <2>1 DEF Sessions!Relaunch, SessIInv, StorageInv
  <2>2. CASE writes # <<>>
    BY <2>2 DEF Sessions!Relaunch
  <2> QED
    BY <2>1, <2>2 DEF Sessions!Relaunch
<1>4. /\ writes' = <<>> /\ persist' = 0 /\ signedIn' = None /\ checked' = FALSE /\ hydrated' = FALSE
      /\ epoch' = 0 /\ signal' = 0 /\ watchdog' = TRUE /\ foreground' = Sessions!Idle
      /\ loggingIn' = FALSE /\ loggingOut' = FALSE
      /\ launches' = launches + 1 /\ UNCHANGED <<issued, expired, refused>>
      /\ boot' = [Sessions!Idle EXCEPT !.at = "reading"]
  BY DEF Sessions!Relaunch, Sessions!server
<1>5. boot' \in Sessions!Flow /\ boot'.at = "reading" /\ boot'.epoch = 0
      /\ foreground' \in Sessions!Flow
      /\ foreground'.at = "idle"
  BY <1>4 DEF Sessions!Idle, Sessions!Flow
<1>6. Sessions!TypeOK'
  <2>1. writes' \in Seq(Operations)
    BY <1>4
  <2>2. launches' \in Nat /\ issued' \in Sessions!Tokens
        /\ expired' \cup refused' \cup ended' \subseteq Sessions!Tokens
    BY <1>3, <1>4 DEF SessIInv, Sessions!TypeOK
  <2> QED
    <3>1. {checked', hydrated', watchdog', loggingIn', loggingOut'} \subseteq BOOLEAN
      BY <1>4
    <3>2. {epoch', signal', persist', launches'} \subseteq Nat
      BY <1>4, <2>2
    <3>3. {boot', foreground'} \subseteq Sessions!Flow /\ signedIn' \in Sessions!Tokens \cup {None}
      BY <1>4, <1>5
    <3> QED
      BY <1>2, <2>1, <2>2, <3>1, <3>2, <3>3 DEF Sessions!TypeOK, Operations
<1>7. StorageInv'
  BY <1>3, <1>4 DEF StorageInv
<1>8. MemoryInv'
  BY <1>2, <1>3, <1>4, <1>5, NoToken DEF SessIInv, Sessions!TypeOK, MemoryInv, Sessions!Tokens
<1> QED
  BY <1>6, <1>7, <1>8 DEF SessIInv

LEMMA StoringKeeps == ASSUME SessIInv, NEW i \in DOMAIN writes, Sessions!Apply(i)
     \/ Sessions!GoOn(i) PROVE SessIInv'
<1>1. StorageKept'
  BY KeptFrom, ApplyKeeps, GoOnKeeps
<1>2. /\ UNCHANGED <<signedIn, checked, hydrated, epoch, signal, persist, issued, expired,
                     refused, boot,
                     watchdog, foreground, loggingIn, ended, launches>>
      /\ loggingOut' \in BOOLEAN
  BY DEF Sessions!Apply, Sessions!GoOn, Sessions!memory, Sessions!server, Sessions!flows,
         SessIInv, Sessions!TypeOK
<1>3. epoch # 0
  BY DEF SessIInv, MemoryInv
<1>4. Changed
  BY <1>1, <1>2, <1>3 DEF Changed, SessIInv, Sessions!TypeOK, MemoryInv
<1> QED
  BY <1>2, <1>4, Changes, FlowsKept

LEMMA SessionKeeps == SessIInv /\ [Sessions!Next]_(Sessions!vars) => SessIInv'
<1> SUFFICES ASSUME SessIInv, [Sessions!Next]_(Sessions!vars) PROVE SessIInv'
  OBVIOUS
<1>1. CASE Sessions!Revoke \/ Sessions!Expire \/ UNCHANGED Sessions!vars
  <2>1. UNCHANGED <<Sessions!memory, Sessions!storage, issued, Sessions!flows, ended, launches>>
    BY <1>1 DEF Sessions!Revoke, Sessions!Expire, Sessions!vars, Sessions!server
  <2>2. expired' \cup refused' \subseteq Sessions!Tokens
    BY <1>1 DEF Sessions!Revoke, Sessions!Expire, Sessions!vars, Sessions!server, SessIInv,
                Sessions!TypeOK
  <2>3. Sessions!TypeOK'
    BY <2>1, <2>2 DEF Sessions!memory, Sessions!storage, Sessions!flows, SessIInv, Sessions!TypeOK
  <2>4. StorageInv' /\ MemoryInv'
    BY <2>1 DEF Sessions!memory, Sessions!storage, Sessions!flows, SessIInv, StorageInv, MemoryInv
  <2> QED
    BY <2>3, <2>4 DEF SessIInv
<1>2. CASE Sessions!Watchdog
  <2>1. watchdog' = FALSE /\ Sessions!Complete
        /\ UNCHANGED <<Sessions!server, boot, foreground, loggingIn, loggingOut, launches>>
    BY <1>2 DEF Sessions!Watchdog
  <2>2. Changed
    BY <2>1, CompleteChanges DEF Sessions!server
  <2> QED
    BY <2>1, <2>2, Changes, FlowsKept DEF Sessions!server
<1>3. CASE Sessions!Storing
  BY <1>3, StoringKeeps DEF Sessions!Storing
<1> QED
  BY <1>1, <1>2, <1>3, ReadKeeps, ValidateKeeps, ForegroundKeeps, EndKeeps, LoginAnswerKeeps,
     StartsKeep, RelaunchKeeps DEF Sessions!Next, Sessions!Starts, Sessions!Answers

LEMMA SessionStarts == Sessions!Init => SessIInv
<1> SUFFICES ASSUME Sessions!Init PROVE SessIInv
  OBVIOUS
<1>1. Sessions!TypeOK
  <2>1. boot \in Sessions!Flow /\ foreground \in Sessions!Flow
    BY DEF Sessions!Init, Sessions!Flow, Sessions!Idle
  <2>2. writes \in Seq(Operations)
    BY DEF Sessions!Init
  <2>3. disk \in Sessions!Tokens \cup {None, Corrupt} /\ issued \in Sessions!Tokens
    BY Sessions!SessionAssumption DEF Sessions!Init, Sessions!Tokens, Sessions!SessionAssumption
  <2>4. {checked, hydrated, watchdog, loggingIn, loggingOut} \subseteq BOOLEAN
    BY DEF Sessions!Init
  <2>5. {epoch, signal, persist, launches} \subseteq Nat
    BY DEF Sessions!Init
  <2>6. signedIn \in Sessions!Tokens \cup {None}
        /\ expired \cup refused \cup ended \subseteq Sessions!Tokens
    BY DEF Sessions!Init
  <2> QED
    BY <2>1, <2>2, <2>3, <2>4, <2>5, <2>6 DEF Sessions!TypeOK, Operations
<1>2. StorageInv
  BY DEF Sessions!Init, StorageInv
<1>3. MemoryInv
  BY NoToken DEF Sessions!Init, MemoryInv, Sessions!Idle, Sessions!Tokens
<1> QED
  BY <1>1, <1>2, <1>3 DEF SessIInv

-----------------------------------------------------------------------------
\* A session that was signed out or cleared is neither in memory nor, once storage has nothing
\* under way, stored for the next launch, however launch, validations, sign-outs and storage
\* operations meet (auth-store.ts, bootstrap-auth.ts).
THEOREM EndedSessionsStayEnded == Sessions!Spec => []SessionInv
<1>1. SessIInv => SessionInv
  BY DEF SessIInv, StorageInv, MemoryInv, SessionInv, Sessions!SessionInv,
         Sessions!EndedNotStored, Sessions!EndedStaysEnded
<1>2. Sessions!Spec => []SessIInv
  BY SessionStarts, SessionKeeps, PTL DEF Sessions!Spec
<1> QED
  BY <1>1, <1>2, PTL
=============================================================================
