----------------------------- MODULE MCEditors -----------------------------
(* Every form of the app on two records, and, each by itself, the editors  *)
(* of items with an image.                                                 *)
EXTENDS AppForms, ItemEditor

VARIABLE which

MCRecords == {"first", "second"}

-----------------------------------------------------------------------------
MCInit ==
  /\ which \in {"form", "item"}
  /\ FormInit /\ EditorInit
  \* What is not used is as one form, one editor begins.
  /\ which = "item" => form = BillCancelSave
  /\ which = "form" => kind = "expense" /\ route = Absent

Form == which = "form" /\ FormNext /\ UNCHANGED <<which, editorVars>>

Answered == which = "form" /\ Server /\ UNCHANGED <<which, editorVars>>

Item == which = "item" /\ EditorNext /\ UNCHANGED <<which, formVars>>

MCSpec ==
  /\ MCInit /\ [][Form \/ Item]_<<which, formVars, editorVars>>
  /\ WF_<<which, formVars, editorVars>>(Answered)
=============================================================================
