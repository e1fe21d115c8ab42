------------------------------ MODULE MCLists ------------------------------
(* Every list of the app, two queries of three pages each, and five loads. *)
EXTENDS AppLists

\* What the proofs assume of the records holds of every list of the app, and of
\* none that is excepted.
ASSUME ListsAreOrdered ==
  /\ ScreensAreOrdered
  /\ \A s \in Screens :
       /\ s \in LastAnswerWins \cup AppendsOldPages \cup FollowsOldCursor \cup LeavesLoadRunning \cup FailsSilently
            => ~OrdersQueries(s)
       /\ s \in AppendsAfterRefresh => ~OrdersPages(s)
       /\ s \in AbortsFirstPage => ~EndsSpinners(s)

MCQueries == {"today", "yesterday"}
=============================================================================
