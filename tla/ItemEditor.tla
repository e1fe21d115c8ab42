----------------------------- MODULE ItemEditor -----------------------------
\* The administrator's editors of an item with an image: the billing item of
\* the catalogue or of one branch (admin-item-editor-screen.tsx), what money is
\* spent on (admin-expense-item-editor-screen.tsx) and the stock item
\* (admin-inventory-item-editor-screen.tsx).  The image is a shared template, a
\* file picked on the device and copied into a draft of its own, or removed;
\* picking, loading and saving are asynchronous, and another administrator
\* writes the same item meanwhile.
\*
\* An item's text fields are one value: what they were, what this administrator
\* typed, what another one saved, or something the form refuses.
EXTENDS Naturals, FiniteSets

CONSTANTS MaxPicked,   \* bound: files picked on the device
          MaxActs      \* bound: picks, saves, refreshes and writes of others, together

ASSUME EditorAssumption == {MaxPicked, MaxActs} \subseteq Nat

VARIABLES kind,      \* which of the editors
          stored,    \* the item as the server has it
          route,     \* the item the screen was opened with
          item,      \* the item the screen compares with
          fields,    \* what the screen shows and would save
          clean,     \* the fields the form calls unchanged
          files,     \* image files on the device
          picked,    \* how many were picked
          picks,     \* picks being copied, each with the draft it replaces
          asking,    \* whether to remove the image is being asked
          load,      \* the load of the item: none, the first, a refresh
          job,       \* the save in progress
          lock,      \* savingRef
          flag,      \* the flag the buttons are drawn from
          deleting,  \* a deletion in progress
          onScreen,  \* the screen is there
          others,    \* another administrator has written the item
          acts

editorVars == <<kind, stored, route, item, fields, clean, files, picked, picks, asking, load,
          job, lock, flag, deleting, onScreen, others, acts>>
fieldVars == <<fields, clean, item, load>>
fileVars == <<files, picked, picks, asking>>
saveVars == <<job, lock, flag, deleting>>
still == <<kind, route>>

EditorKinds == {"catalogue", "shop", "expense", "inventory"}
Items == {"catalogue", "shop"}    \* both drawn by admin-item-editor-screen.tsx
\* gone: the item names an image whose file was deleted.
Images == {"none", "template", "own", "draft", "gone"}
Texts == {"empty", "old", "mine", "theirs", "bad"}
Valid == {"old", "mine", "theirs"}

Act == acts < MaxActs /\ acts' = acts + 1

Absent == [made |-> FALSE, text |-> "empty", image |-> "none"]
NoJob == [step |-> "none"]
creates == ~route.made

\* What the form is when it is filled from an item.
Filled(i) == [text |-> i.text, draft |-> 0, removal |-> FALSE,
              template |-> i.image = "template"]

EditorTypeOK ==
  /\ kind \in EditorKinds /\ load \in {"none", "first", "refresh"}
  /\ {stored, route, item} \subseteq [made : BOOLEAN, text : Texts, image : Images]
  /\ fields \in [text : Texts, draft : 0..MaxPicked, removal : BOOLEAN, template : BOOLEAN]
  /\ clean \in Texts /\ files \subseteq 1..MaxPicked /\ picked \in 0..MaxPicked
  /\ picks \subseteq [file : 1..MaxPicked, over : 0..MaxPicked]
  /\ asking \in BOOLEAN
  /\ lock \in BOOLEAN /\ flag \in BOOLEAN /\ deleting \in BOOLEAN /\ onScreen \in BOOLEAN
  /\ others \in BOOLEAN /\ acts \in 0..MaxActs

-----------------------------------------------------------------------------
(* What the screen shows. *)

\* The image drawn: nothing once removal is asked, else the draft, else the
\* template selected, else what the item has.
ShownImage == IF fields.removal THEN "none"
              ELSE IF fields.draft # 0 THEN "draft"
              ELSE IF fields.template THEN "template" ELSE item.image

hasImageChange == fields.draft # 0 \/ fields.removal
hasTemplateChange == item.made /\ fields.template # (item.image = "template")
isDirty == fields.text # clean
hasPendingChanges == isDirty \/ hasImageChange \/ hasTemplateChange

\* The stock editor shows nothing until its first load has ended.
FormShown == onScreen /\ ~(kind = "inventory" /\ load = "first")
RemoveShown == \/ fields.draft # 0 \/ item.image # "none" \/ fields.template
               \/ fields.removal /\ kind # "inventory"

\* Save, as each of the editors draws it.
CatalogueSaveShown == /\ ~flag /\ ~deleting
                      /\ IF creates THEN fields.text \in Valid ELSE hasPendingChanges
ExpenseSaveShown == ~flag /\ ~deleting
SaveShown == /\ FormShown /\ ~asking
             /\ kind \in Items => CatalogueSaveShown
             /\ kind = "expense" => ExpenseSaveShown

-----------------------------------------------------------------------------
(* Filling the form. *)

\* The screen is opened on nothing, or on the row of a list that may be older
\* than the item; the expense editor never loads the item.
EditorInit ==
  /\ kind \in EditorKinds
  /\ \E image \in {"none", "template", "own"}, makes \in BOOLEAN :
       /\ route = IF makes THEN Absent ELSE [made |-> TRUE, text |-> "old", image |-> image]
       /\ stored = route
  /\ item = route /\ fields = Filled(route) /\ clean = route.text
  /\ load = IF kind = "inventory" \/ (kind \in Items /\ route.made) THEN "first" ELSE "none"
  /\ files = {} /\ picked = 0 /\ picks = {} /\ asking = FALSE
  /\ job = NoJob /\ lock = FALSE /\ flag = FALSE /\ deleting = FALSE /\ onScreen = TRUE
  /\ others = FALSE /\ acts = 0

\* The catalogue's editor starts over from the item it was opened with, whatever
\* was typed or picked, and loads again.
RefreshCatalogue ==
  /\ FormShown /\ kind \in Items /\ ~creates /\ ~flag /\ ~deleting
  /\ Act
  /\ item' = route /\ fields' = Filled(route) /\ clean' = route.text
  /\ load' = "refresh"
  /\ UNCHANGED <<still, stored, fileVars, saveVars, onScreen, others>>

\* The item that arrives is what the screen compares with from now on; the
\* fields take it only when nothing was changed.
CatalogueLoaded ==
  /\ onScreen /\ kind \in Items /\ load # "none" /\ load' = "none"
  /\ \/ /\ stored.made /\ item' = stored
        /\ IF hasPendingChanges THEN UNCHANGED <<fields, clean>>
           ELSE fields' = Filled(stored) /\ clean' = stored.text
     \/ UNCHANGED <<item, fields, clean>>
  /\ UNCHANGED <<still, stored, fileVars, saveVars, onScreen, others, acts>>

\* The stock editor's load: the item it was opened with is not asked for again,
\* and an editor opened to create forgets the item it has made.
RefreshInventory ==
  /\ FormShown /\ kind = "inventory" /\ load = "none"
  /\ Act
  /\ load' = "refresh"
  /\ UNCHANGED <<still, stored, item, fields, clean, fileVars, saveVars, onScreen, others>>

InventoryLoaded ==
  /\ onScreen /\ kind = "inventory" /\ load # "none" /\ load' = "none"
  /\ \/ item' = route /\ fields' = Filled(route) /\ clean' = route.text
     \/ UNCHANGED <<item, fields, clean>>
  /\ UNCHANGED <<still, stored, fileVars, saveVars, onScreen, others, acts>>

\* The fields: what each editor lets be typed, and what it accepts.
CatalogueAccepts == fields.text \in Valid
ExpenseAccepts == fields.text \in Valid
TypeText(text) ==
  /\ FormShown /\ ~asking /\ fields' = [fields EXCEPT !.text = text]
  /\ UNCHANGED <<still, stored, item, clean, load, fileVars, saveVars, onScreen, others, acts>>
TypeCatalogue(text) == kind \in Items /\ TypeText(text)
TypeExpense(text) == kind = "expense" /\ TypeText(text)
TypeInventory(text) == kind = "inventory" /\ TypeText(text)

-----------------------------------------------------------------------------
(* The image. *)

\* A picture is chosen on the device; while it is copied the screen goes on, and
\* the pick keeps the draft it is to replace.
PickStarts ==
  /\ FormShown /\ ~asking /\ picked < MaxPicked /\ Act /\ picked' = picked + 1
  /\ picks' = picks \union {[file |-> picked + 1, over |-> fields.draft]}
  /\ UNCHANGED <<still, stored, fieldVars, files, asking, saveVars, onScreen, others>>

\* The copy p is ready: the form shows it, if the screen is still there.
Picked(p, deleted, template) ==
  /\ p \in picks /\ picks' = picks \ {p}
  /\ files' = (files \ deleted) \union {p.file}
  /\ fields' = IF onScreen THEN [fields EXCEPT !.draft = p.file, !.removal = FALSE, !.template = template]
             ELSE fields
  /\ UNCHANGED <<still, stored, item, clean, load, picked, asking, saveVars, onScreen, others, acts>>

\* The catalogue's editor deletes the draft the pick remembers and drops the
\* template; the expense editor also deletes a draft that is no longer shown; the
\* stock editor uses the picker's own file and deletes nothing.
CataloguePicked(p) == kind \in Items /\ Picked(p, {p.over}, FALSE)
ExpensePicked(p) ==
  kind = "expense" /\ Picked(p, {p.over} \union (IF onScreen THEN {fields.draft} ELSE {}), fields.template)
InventoryPicked(p) == kind = "inventory" /\ Picked(p, {}, fields.template)

\* It is too large: the catalogue's editor leaves the copy behind.
PickRefused(p) ==
  /\ p \in picks /\ picks' = picks \ {p}
  /\ files' = IF kind \in Items THEN files \union {p.file} ELSE files
  /\ UNCHANGED <<still, stored, fieldVars, picked, asking, saveVars, onScreen, others, acts>>

\* The image of the form is set to newForm; a draft it drops is deleted, except
\* by the stock editor.
SetImage(newForm) ==
  /\ fields' = newForm
  /\ files' = IF kind = "inventory" THEN files ELSE files \ ({fields.draft} \ {newForm.draft})
  /\ UNCHANGED <<still, stored, item, clean, load, picked, picks, saveVars, onScreen, others, acts>>

\* A shared template takes the place of a draft; in the catalogue's editor a
\* second choice of it takes it away.
SelectInCatalogue ==
  /\ FormShown /\ ~asking /\ kind \in Items /\ UNCHANGED asking
  /\ SetImage([fields EXCEPT !.draft = 0, !.removal = FALSE, !.template = ~@])
SelectTemplate ==
  /\ FormShown /\ kind \notin Items /\ UNCHANGED asking
  /\ SetImage([fields EXCEPT !.draft = 0, !.removal = FALSE, !.template = TRUE])

\* One button drops the draft, or takes a removal back, or asks for one.  The
\* catalogue's editor asks first, and a copy may end meanwhile; it keeps the
\* template that was chosen, the others drop it.
CatalogueRemove ==
  /\ FormShown /\ RemoveShown /\ kind \in Items /\ ~asking
  /\ IF fields.draft # 0 THEN SetImage([fields EXCEPT !.draft = 0]) /\ UNCHANGED asking
     ELSE IF fields.removal THEN SetImage([fields EXCEPT !.removal = FALSE]) /\ UNCHANGED asking
     ELSE item.made /\ item.image # "none" /\ SetImage(fields) /\ asking' = TRUE
CatalogueRemoveConfirmed ==
  /\ FormShown /\ asking /\ asking' = FALSE /\ SetImage([fields EXCEPT !.removal = TRUE])
ExpenseRemove ==
  /\ FormShown /\ RemoveShown /\ kind = "expense" /\ UNCHANGED asking
  /\ SetImage(IF fields.draft # 0 THEN [fields EXCEPT !.draft = 0]
              ELSE IF fields.removal THEN [fields EXCEPT !.removal = FALSE]
              ELSE [fields EXCEPT !.removal = TRUE, !.template = FALSE])
InventoryRemove ==
  /\ FormShown /\ RemoveShown /\ kind = "inventory" /\ UNCHANGED asking
  /\ SetImage(IF fields.draft # 0 \/ fields.removal THEN [fields EXCEPT !.draft = 0, !.removal = FALSE]
              ELSE [fields EXCEPT !.removal = TRUE, !.template = FALSE])

-----------------------------------------------------------------------------
(* Saving. *)

\* What is said of the template: nothing when a draft is sent or the choice is
\* the item's own.  The catalogue's editor sends a removal as a field of its own,
\* the two others as a template that is cleared.
Chosen == IF fields.draft # 0 \/ fields.template = (item.image = "template") THEN "keep"
          ELSE IF fields.template THEN "set" ELSE "clear"
CataloguePayload ==
  [text |-> fields.text, draft |-> fields.draft, removal |-> fields.removal, template |-> Chosen]
OtherPayload ==
  [text |-> fields.text, draft |-> fields.draft, removal |-> fields.removal /\ fields.draft = 0,
   template |-> IF fields.removal /\ fields.draft = 0 THEN "clear" ELSE Chosen]

\* A save, with what the screen showed and compared with when it was pressed.
Job(step, sends) == [step |-> step, sends |-> sends, item |-> item, shown |-> ShownImage,
                     before |-> item.image, fresh |-> item.image = stored.image]

\* Which call the catalogue's editor makes: only the template, only the image
\* (never for an item of one branch), or everything.
metadataUnchanged == fields.text = item.text
CatalogueCall ==
  CASE creates -> "create"
    [] ~creates /\ hasTemplateChange /\ metadataUnchanged /\ ~isDirty /\ ~hasImageChange
         -> "template"
    [] ~creates /\ kind = "catalogue" /\ hasImageChange /\ metadataUnchanged /\ ~isDirty
         -> IF fields.draft # 0 THEN "upload" ELSE "remove"
    [] OTHER -> "all"

\* Fields the form refuses give the lock back, and leave the flag up.
SaveCatalogue ==
  /\ SaveShown /\ kind \in Items /\ ~lock /\ ~deleting /\ Act
  /\ flag' = TRUE
  /\ IF CatalogueAccepts THEN lock' = TRUE /\ job' = Job(CatalogueCall, CataloguePayload)
     ELSE UNCHANGED <<lock, job>>
  /\ UNCHANGED <<still, stored, fieldVars, fileVars, deleting, onScreen, others>>

\* The two others write the fields first, and the image in a call of its own.
SaveExpense ==
  /\ SaveShown /\ kind = "expense" /\ ExpenseAccepts /\ Act
  /\ flag' = TRUE /\ job' = Job(IF creates THEN "create" ELSE "fields", OtherPayload)
  /\ UNCHANGED <<still, stored, fieldVars, fileVars, lock, deleting, onScreen, others>>

SaveInventory ==
  /\ SaveShown /\ kind = "inventory" /\ ~lock /\ fields.text \in Valid /\ Act
  /\ lock' = TRUE /\ flag' = TRUE
  /\ job' = Job(IF item.made THEN "fields" ELSE "create", OtherPayload)
  /\ UNCHANGED <<still, stored, fieldVars, fileVars, deleting, onScreen, others>>

\* What a template that is set or cleared does to an image.
TemplateApplied(image) ==
  CASE job.sends.template = "set" -> "template"
    [] job.sends.template = "clear" -> IF image = "template" THEN "none" ELSE image
    [] job.sends.template = "keep" -> image

\* All of an item in one call.  A template that is cleared on an item with an
\* image of its own leaves the image's name and deletes its file.
ItemUpdated ==
  [made |-> TRUE, text |-> job.sends.text,
   image |-> IF job.sends.draft # 0 THEN "draft"
             ELSE IF job.sends.removal THEN "none"
             ELSE IF job.sends.template = "clear" /\ stored.image \in {"own", "draft"} THEN "gone"
             ELSE TemplateApplied(stored.image)]
FieldsWritten ==
  [made |-> TRUE, text |-> job.sends.text, image |-> TemplateApplied(stored.image)]
\* Removing an item's image, by itself, leaves its template.
ImageRemoved == [stored EXCEPT !.image = IF @ = "template" THEN @ ELSE "none"]

Effect ==
  CASE job.step = "all" \/ (job.step = "create" /\ kind \in Items) -> ItemUpdated
    [] job.step = "fields" \/ (job.step = "create" /\ kind \notin Items) -> FieldsWritten
    [] job.step = "template" -> [stored EXCEPT !.image = TemplateApplied(@)]
    [] job.step = "upload" -> [stored EXCEPT !.image = "draft"]
    [] job.step = "remove" -> ImageRemoved
    [] job.step = "undo" -> Absent

\* Faulty: only a picked file is followed by a call for the image.
FaultyImageCall ==
  IF kind \notin Items /\ job.step \in {"create", "fields"} /\ job.sends.draft # 0
  THEN "upload" ELSE "none"

\* The call for the image that follows the one for the fields.
ImageCall ==
  IF kind \in Items \/ job.step \notin {"create", "fields"} THEN "none"
  ELSE IF job.sends.draft # 0 THEN "upload"
  ELSE IF /\ job.sends.removal
          /\ kind = "inventory" \/ (job.step = "fields" /\ job.before # "none")
       THEN "remove" ELSE "none"

Released == lock' = FALSE /\ flag' = FALSE

\* The last call was answered: the draft is deleted and the screen left.  A
\* screen that was left before takes no notice.
Saved ==
  /\ job' = NoJob /\ Released /\ onScreen' = FALSE
  /\ files' = IF kind = "inventory" THEN files
              ELSE IF kind = "expense" THEN files \ {job.sends.draft, fields.draft}
              ELSE files \ {job.sends.draft}
  /\ fields' = IF kind = "inventory" THEN fields ELSE [fields EXCEPT !.draft = 0]
  /\ UNCHANGED <<item, clean>>

\* Faulty: the draft is deleted however the save ends.
FaultySaveFailed ==
  /\ job' = NoJob /\ Released /\ files' = files \ {job.sends.draft}
  /\ UNCHANGED <<onScreen, fields, item, clean>>

\* A call failed.  An expense that was just made is deleted again; a stock item
\* is kept, and is what the screen edits from now on.
SaveFailed ==
  /\ UNCHANGED onScreen
  /\ IF kind = "expense" /\ creates /\ job.step = "upload"
     THEN job' = [job EXCEPT !.step = "undo"] /\ UNCHANGED <<lock, flag, fields, item, clean, files>>
     ELSE /\ job' = NoJob /\ Released /\ UNCHANGED files
          /\ IF kind = "inventory" /\ job.step \in {"upload", "remove"} /\ onScreen
             THEN item' = job.item /\ clean' = job.item.text
                  /\ fields' = [fields EXCEPT !.text = job.item.text, !.draft = 0, !.removal = FALSE]
             ELSE UNCHANGED <<fields, item, clean>>

\* A call is answered, with the next one to make or none.
Calling == job.step # "none"
Accepted == stored.made <=> job.step # "create"    \* names are unique
CallSucceeds ==
  /\ Calling /\ Accepted
  /\ stored' = Effect
  /\ IF ImageCall # "none"
     THEN /\ job' = [job EXCEPT !.step = ImageCall, !.item = stored']
          /\ UNCHANGED <<lock, flag, onScreen, files, fields, item, clean>>
     ELSE IF job.step = "undo" THEN SaveFailed ELSE Saved
  /\ UNCHANGED <<still, load, picked, picks, asking, deleting, others, acts>>

\* A call fails before or after it took effect.
CallFails ==
  /\ Calling
  /\ stored' \in {stored} \union (IF Accepted THEN {Effect} ELSE {})
  /\ SaveFailed
  /\ UNCHANGED <<still, load, picked, picks, asking, deleting, others, acts>>

-----------------------------------------------------------------------------
(* Deleting, leaving, the others. *)

\* The question is asked with nothing else running; the stock editor's deletion
\* raises no flag.
DeleteStarts ==
  /\ FormShown /\ ~asking /\ item.made /\ ~lock /\ ~flag /\ (kind # "inventory" => ~deleting)
  /\ deleting' = TRUE
  /\ UNCHANGED <<still, stored, fieldVars, fileVars, job, lock, flag, onScreen, others, acts>>

DeleteEnds ==
  /\ deleting /\ deleting' = FALSE
  /\ \/ /\ stored' = Absent /\ onScreen' = FALSE
        /\ files' = IF kind = "expense" THEN files \ {fields.draft} ELSE files
     \/ UNCHANGED <<stored, onScreen, files>>
  /\ UNCHANGED <<still, fieldVars, picked, picks, asking, job, lock, flag, others, acts>>

\* Only the expense editor deletes its draft when it is left.
LeaveEditor ==
  /\ onScreen /\ onScreen' = FALSE
  /\ files' = IF kind = "expense" THEN files \ {fields.draft} ELSE files
  /\ UNCHANGED <<still, stored, fieldVars, picked, picks, asking, saveVars, others, acts>>

OtherSaves ==
  /\ ~creates /\ stored.made /\ Act /\ others' = TRUE
  /\ \E image \in {"none", "template", "own"} :
       stored' = [stored EXCEPT !.text = "theirs", !.image = image]
  /\ UNCHANGED <<still, fieldVars, fileVars, saveVars, onScreen>>

EditorNext ==
  \/ RefreshCatalogue \/ CatalogueLoaded \/ RefreshInventory \/ InventoryLoaded
  \/ \E text \in {"mine", "bad"} :
       TypeCatalogue(text) \/ TypeExpense(text) \/ TypeInventory(text)
  \/ PickStarts
  \/ \E p \in picks :
       CataloguePicked(p) \/ ExpensePicked(p) \/ InventoryPicked(p) \/ PickRefused(p)
  \/ SelectInCatalogue \/ SelectTemplate
  \/ CatalogueRemove \/ CatalogueRemoveConfirmed \/ ExpenseRemove \/ InventoryRemove
  \/ SaveCatalogue \/ SaveExpense \/ SaveInventory \/ CallSucceeds \/ CallFails
  \/ DeleteStarts \/ DeleteEnds \/ LeaveEditor \/ OtherSaves

EditorSpec == EditorInit /\ [][EditorNext]_editorVars

-----------------------------------------------------------------------------
(* Properties. *)

\* The draft that is shown, and that a save would upload, is still on the
\* device, whichever picks, choices and removals crossed (deleteImageDraftFile is
\* called with the draft of an earlier render).
DraftHasFile == onScreen /\ fields.draft # 0 => fields.draft \in files

\* A save that succeeds leaves the image the screen showed when it was pressed,
\* unless the item was written unknown to the screen (by another administrator,
\* or by a save whose answer was lost).  Items with a template are
\* excluded: there, undoing a pick or a removal loses the template the screen goes
\* on showing, and a removal alone does not remove it (deleteItemImage); so is a
\* removal that was confirmed while a copy ended, which the file then wins.
SavedIsShown ==
  [][(Calling /\ onScreen /\ ~onScreen' /\ ~Calling' /\ ~others /\ job.fresh /\ job.before # "template"
        /\ ~(job.sends.removal /\ job.sends.draft # 0))
       => stored'.image = job.shown]_editorVars

\* While the expense editor is shown, only its draft is on the device.
OnlyItsDraft == kind = "expense" /\ onScreen => files \subseteq {fields.draft}

\* The catalogue's and the expense editor never save an item while deleting it.
SaveOrDelete == kind # "inventory" => ~(Calling /\ deleting)

\* A flag that is up belongs to a save that runs: the buttons come back.  The
\* catalogue's editor is excluded, whose flag stays up when it refuses a field.
SavingIsReal == kind \notin Items => (flag <=> Calling)

\* Files, flags and deletions agree with the form whatever picks, saves and answers cross.
EditorInv == EditorTypeOK /\ DraftHasFile /\ OnlyItsDraft /\ SaveOrDelete /\ SavingIsReal
=============================================================================
