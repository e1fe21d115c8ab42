----------------------------- MODULE MCApiClient -----------------------------
(* Instances of ApiClient for TLC. *)
EXTENDS ApiClient

CONSTANTS c1, c2, c3, c4, h1, h2

Mix(a, b, c, d) ==
  [x \in Calls |-> CASE x = c1 -> a [] x = c2 -> b [] x = c3 -> c [] x = c4 -> d]

\* Two sessions with a call between them, two calls that share a probe, an upload, the
\* banner's button.
MCMixes == {Mix("login", "login", "plain", None),
            Mix("login", "plain", "plain", None),
            Mix("login", "upload", "retry", None)}

MCDeployments == {<<h1>>, <<h1, h2>>}

\* The calls are bounded: a quiet app is no deadlock.
Quiet == UNCHANGED vars
MCSpec == Init /\ [][Next \/ Quiet]_vars /\ Fairness
=============================================================================
