------------------------------ MODULE ImageForm ------------------------------
(***************************************************************************)
(* The administrators' form of a restaurant (AddEditRestaurantPage; the    *)
(* form of a menu, AddEditMenuPage, runs the same way): picking a photo,   *)
(* deleting it and saving are three asynchronous calls on one form state,  *)
(* which may be disposed of at any await.                                  *)
(*                                                                         *)
(* Three places hold the photo: the storage the file, the form its         *)
(* address, the document the address saved last.                           *)
(***************************************************************************)
EXTENDS Naturals, FiniteSets

CONSTANTS
  Forms,        \* forms, each opened once
  Restaurants,  \* ids of documents of 'restaurant'
  Images,       \* names of files; a new one has the time in it
  Tasks,        \* bound: calls under way at one time
  Folder,       \* 'restaurants'
  NoForm, NoDoc, NoImage

(* The name of a file is not the encoding of another's path. *)
ASSUME ImageAssumption ==
  /\ NoForm \notin Forms
  /\ NoDoc \notin Restaurants \cup Images
  /\ NoImage \notin Images
  /\ Images \cap ({Folder} \X Images) = {}

VARIABLES
  storage,  \* paths of the files stored
  doc,      \* 'image_url' of each restaurant, NoDoc where there is no document
  form,     \* _AddEditRestaurantPageState
  task,     \* the calls under way, each at one of its awaits
  used      \* history: names already given to a file

vars == <<storage, doc, form, task, used>>

Path == [folder : {Folder}, name : Images \cup ({Folder} \X Images)]
PathOf(i) == [folder |-> Folder, name |-> i]

(* Mutant: the name is decoded before it is looked up. *)
DecodedRef(i) == PathOf(i)

(* The path is encoded in the address as one segment, "restaurants%2Fname"; *)
(* the last segment of the address is then put under 'restaurants' again.   *)
RefOf(i) == [folder |-> Folder, name |-> <<Folder, i>>]

FormState == [stage : {"new", "open", "gone"}, restaurant : Restaurants \cup {NoDoc},
              imageUrl : Images \cup {NoImage}, isSaving : BOOLEAN]
Awaits == {"idle", "picking", "replacing", "putting", "linking", "deleting", "saving", "saved"}
Task == [pc : Awaits, form : Forms \cup {NoForm}, image : Images \cup {NoImage},
         old : Images \cup {NoImage}]
Idle == [pc |-> "idle", form |-> NoForm, image |-> NoImage, old |-> NoImage]

Open(f) == form[f].stage = "open"
GalleryUp == \E t \in Tasks : task[t].pc = "picking"
Edited(f) == form[f].restaurant # NoDoc
UrlOf(t) == form[task[t].form].imageUrl

(* setState on a form that is gone throws: nothing of it is seen. *)
SetState(f, url, saving) ==
  form' = IF Open(f) THEN [form EXCEPT ![f].imageUrl = url, ![f].isSaving = saving] ELSE form

Begin(t, f, pc, image) ==
  /\ task[t].pc = "idle" /\ Open(f) /\ ~GalleryUp
  /\ task' = [task EXCEPT ![t] = [Idle EXCEPT !.pc = pc, !.form = f, !.image = image]]
  /\ form' = [form EXCEPT ![f].isSaving = TRUE]

MoveTo(t, pc) == task' = [task EXCEPT ![t].pc = pc]
End(t) == task' = [task EXCEPT ![t] = Idle]

(* The finally block of a call, and the end of the call. *)
Finally(t, url) ==
  /\ SetState(task[t].form, url, FALSE)
  /\ End(t)

-----------------------------------------------------------------------------
Init ==
  /\ used \in {{i} : i \in Images}
  /\ storage = {PathOf(i) : i \in used}
  /\ \E r \in Restaurants :
       doc \in {[d EXCEPT ![r] = i] : d \in [Restaurants -> {NoDoc, NoImage}], i \in used}
  /\ form = [f \in Forms |-> [stage |-> "new", restaurant |-> NoDoc, imageUrl |-> NoImage,
                              isSaving |-> FALSE]]
  /\ task = [t \in Tasks |-> Idle]

(* Mutant: a form opens on a document that is not there. *)
OpenDeleted(f, r) ==
  /\ form[f].stage = "new" /\ ~GalleryUp
  /\ form' = [form EXCEPT ![f] = [stage |-> "open", restaurant |-> r, isSaving |-> FALSE,
                                  imageUrl |-> IF r = NoDoc THEN NoImage ELSE doc[r]]]
  /\ UNCHANGED <<storage, doc, task, used>>

(* initState, with the document shown in the list or with none. *)
OpenForm(f, r) ==
  /\ form[f].stage = "new" /\ ~GalleryUp
  /\ r # NoDoc => doc[r] # NoDoc
  /\ form' = [form EXCEPT ![f] = [stage |-> "open", restaurant |-> r, isSaving |-> FALSE,
                                  imageUrl |-> IF r = NoDoc THEN NoImage ELSE doc[r]]]
  /\ UNCHANGED <<storage, doc, task, used>>

LeaveForm(f) ==
  /\ Open(f) /\ ~GalleryUp
  /\ form' = [form EXCEPT ![f].stage = "gone"]
  /\ UNCHANGED <<storage, doc, task, used>>

(* _pickAndUploadImage, from a button that isSaving disables. *)
TapPick(t, f) ==
  /\ ~form[f].isSaving
  /\ Begin(t, f, "picking", NoImage)
  /\ UNCHANGED <<storage, doc, used>>

(* Mutant: without a finally block, a cancelled choice leaves isSaving set. *)
CancelSilently(t) ==
  /\ task[t].pc = "picking"
  /\ End(t)
  /\ UNCHANGED <<storage, doc, form, used>>

Cancel(t) ==
  /\ task[t].pc = "picking"
  /\ Finally(t, UrlOf(t))
  /\ UNCHANGED <<storage, doc, used>>

(* The file chosen; _deleteCurrentImage first if there is an old one. *)
Choose(t) ==
  /\ task[t].pc = "picking"
  /\ \E i \in Images \ used :
       /\ used' = used \cup {i}
       /\ task' = [task EXCEPT ![t].image = i, ![t].old = UrlOf(t),
                               ![t].pc = IF UrlOf(t) = NoImage THEN "putting" ELSE "replacing"]
  /\ UNCHANGED <<storage, doc, form>>

(* The delete() of the storage takes the file, if it is found and reached. *)
Removal(i) == storage' \in {storage, storage \ {RefOf(i)}}

(* The nested _deleteCurrentImage is over, its finally block included; on a *)
(* form that is gone it throws, and so do the handlers it throws into.      *)
Replaced(t) ==
  /\ task[t].pc = "replacing"
  /\ Removal(task[t].old)
  /\ SetState(task[t].form, NoImage, FALSE)
  /\ IF Open(task[t].form) THEN MoveTo(t, "putting") ELSE End(t)
  /\ UNCHANGED <<doc, used>>

(* putFile, then getDownloadURL. *)
Put(t) ==
  /\ task[t].pc = "putting"
  /\ storage' = storage \cup {PathOf(task[t].image)}
  /\ MoveTo(t, "linking")
  /\ UNCHANGED <<doc, form, used>>

Link(t) ==
  /\ task[t].pc = "linking"
  /\ Finally(t, task[t].image)
  /\ UNCHANGED <<storage, doc, used>>

(* The delete button of an edited form, which isSaving does not disable. *)
TapDelete(t, f) ==
  /\ Edited(f) /\ form[f].imageUrl # NoImage
  /\ Begin(t, f, "deleting", form[f].imageUrl)
  /\ UNCHANGED <<storage, doc, used>>

Deleted(t) ==
  /\ task[t].pc = "deleting"
  /\ Removal(task[t].image)
  /\ Finally(t, NoImage)
  /\ UNCHANGED <<doc, used>>

(* _saveRestaurant: the address is read at the tap. *)
TapSave(t, f) ==
  /\ ~form[f].isSaving
  /\ Begin(t, f, "saving", form[f].imageUrl)
  /\ UNCHANGED <<storage, doc, used>>

(* update() of the document edited, or add() of a new one. *)
Save(t) ==
  /\ task[t].pc = "saving"
  /\ \E r \in Restaurants :
       /\ IF Edited(task[t].form) THEN r = form[task[t].form].restaurant ELSE doc[r] = NoDoc
       /\ doc' = [doc EXCEPT ![r] = task[t].image]
  /\ MoveTo(t, "saved")
  /\ UNCHANGED <<storage, form, used>>

(* The answer: the form is popped if it is still there. *)
Saved(t) ==
  /\ task[t].pc = "saved"
  /\ form' = IF Open(task[t].form) THEN [form EXCEPT ![task[t].form].stage = "gone"] ELSE form
  /\ End(t)
  /\ UNCHANGED <<storage, doc, used>>

(* An exception of the picker, of the storage or of the database. *)
Fail(t) ==
  /\ task[t].pc \in {"picking", "putting", "linking", "saving"}
  /\ Finally(t, UrlOf(t))
  /\ UNCHANGED <<storage, doc, used>>

Answer(t) ==
  \/ Cancel(t) \/ Choose(t) \/ Replaced(t) \/ Put(t) \/ Link(t)
  \/ Deleted(t) \/ Save(t) \/ Saved(t) \/ Fail(t)

Tap(f) ==
  \/ \E r \in Restaurants \cup {NoDoc} : OpenForm(f, r)
  \/ LeaveForm(f)
  \/ \E t \in Tasks : TapPick(t, f) \/ TapDelete(t, f) \/ TapSave(t, f)

Next == (\E t \in Tasks : Answer(t)) \/ (\E f \in Forms : Tap(f))

Spec == Init /\ [][Next]_vars

(* Every call of a library answers or throws, and the gallery is left. *)
FairSpec == Spec /\ \A t \in Tasks : WF_vars(Answer(t))

-----------------------------------------------------------------------------
(* The types of the storage, the documents, the forms and their calls. *)
TypeOK ==
  /\ storage \subseteq Path
  /\ doc \in [Restaurants -> Images \cup {NoImage, NoDoc}]
  /\ form \in [Forms -> FormState]
  /\ task \in [Tasks -> Task]
  /\ used \subseteq Images

(* No address is left without its file: a restaurant of the shop, or a     *)
(* form, never shows a photo that was taken away, whatever another form,   *)
(* or the same form left without saving, does with the same photo.  (It is *)
(* so because _deleteCurrentImage never finds the file it is to delete.)   *)
AddressesLead ==
  /\ \A r \in Restaurants : doc[r] \in Images => PathOf(doc[r]) \in storage
  /\ \A f \in Forms : Open(f) /\ form[f].imageUrl # NoImage => PathOf(form[f].imageUrl) \in storage

(* Whose buttons are disabled, waits for a call of its own: the answer that *)
(* is to enable them again is still to come, and was not used up by another *)
(* call of the one flag.                                                    *)
BusyHasCall ==
  \A f \in Forms : Open(f) /\ form[f].isSaving =>
    \E t \in Tasks : task[t].pc # "idle" /\ task[t].form = f

(* A form is not left disabled: whatever call fails or is cancelled, its   *)
(* buttons come back or the form is closed.                                *)
SavingEnds ==
  \A f \in Forms : form[f].isSaving ~> (~form[f].isSaving \/ form[f].stage = "gone")

(* While a photo is being uploaded the button reads "Chargement...", and   *)
(* the form can neither be saved nor take another photo.                   *)
LoadingIsShown ==
  \A t \in Tasks :
    task[t].pc \in {"putting", "linking"} /\ Open(task[t].form) => form[task[t].form].isSaving

=============================================================================
