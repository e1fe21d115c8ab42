------------------------------ MODULE MCSession ------------------------------
(* Instance of the sessions of Device for TLC; no call is made and no base URL is stored. *)
EXTENDS Device

NoCalls == {<<>>}
OneHost == {<<"host">>}

\* Sessions, launches and storage operations are bounded: a quiet app is no deadlock.
Quiet == UNCHANGED deviceVars
MCInit == DeviceInit /\ stored = None
MCSpec == MCInit /\ [][SigningIn \/ Quiet]_deviceVars /\ Sessions!Fairness
=============================================================================
