--------------------------- MODULE ImageFormProofs ---------------------------
(***************************************************************************)
(* No address of a photo loses its file, for any number of forms, files    *)
(* and calls under way.                                                    *)
(*                                                                         *)
(* AddressesLead alone is not inductive: a call carries an address from an *)
(* await to the next, and a save one from its tap to the commit.  Carried  *)
(* says that these lead to a file as well.                                 *)
(***************************************************************************)
EXTENDS ImageForm, TLAPS

(* Every call under way belongs to a form. *)
Owned == \A t \in Tasks : task[t].pc # "idle" => task[t].form \in Forms

Carried ==
  \A t \in Tasks :
    /\ task[t].pc \in {"putting", "linking", "replacing", "deleting"} => task[t].image \in Images
    /\ task[t].pc = "replacing" => task[t].old \in Images
    /\ task[t].pc \in {"linking", "saving"} /\ task[t].image # NoImage
         => PathOf(task[t].image) \in storage

IInv == TypeOK /\ Owned /\ AddressesLead /\ Carried

(* The file deleted is never one that an address leads to. *)
LEMMA RefIsNoPath ==
  ASSUME NEW i \in Images, NEW j \in Images
  PROVE  RefOf(i) # PathOf(j)
<1>1. <<Folder, i>> \in {Folder} \X Images
  OBVIOUS
<1>2. <<Folder, i>> # j
  BY <1>1, ImageAssumption
<1> QED BY <1>2 DEF RefOf, PathOf

(* A removal takes away no file that an address leads to. *)
LEMMA RemovalKeeps ==
  ASSUME NEW i \in Images, Removal(i), storage \subseteq Path
  PROVE  /\ storage' \subseteq Path
         /\ \A j \in Images : PathOf(j) \in storage => PathOf(j) \in storage'
BY RefIsNoPath DEF Removal

(* The files of the start are those the documents name. *)
LEMMA InitInv == Init => IInv
<1> SUFFICES ASSUME Init PROVE IInv
  OBVIOUS
<1> USE ImageAssumption
<1>1. TypeOK
  BY DEF Init, TypeOK, Path, PathOf, FormState, Task, Awaits, Idle
<1>2. Owned /\ Carried
  BY DEF Init, Owned, Carried, Idle
<1>3. AddressesLead
  BY DEF Init, AddressesLead, Open
<1> QED BY <1>1, <1>2, <1>3 DEF IInv

(* What a step does to the photos and the addresses, in one place: files    *)
(* stay, and every new address leads to one.                                *)
LEMMA KeepAddresses ==
  ASSUME IInv, storage' \subseteq Path,
         \A j \in Images : PathOf(j) \in storage => PathOf(j) \in storage',
         \A r \in Restaurants : doc'[r] = doc[r] \/ (doc'[r] \in Images => PathOf(doc'[r]) \in storage'),
         \A f \in Forms : form'[f].stage = "open" =>
            \/ form[f].stage = "open" /\ form'[f].imageUrl = form[f].imageUrl
            \/ form'[f].imageUrl = NoImage
            \/ PathOf(form'[f].imageUrl) \in storage'
  PROVE  AddressesLead'
BY ImageAssumption DEF IInv, TypeOK, AddressesLead, Open, FormState

(* The calls that a step leaves where they are. *)
LEMMA KeepCarried ==
  ASSUME IInv, NEW t \in Tasks,
         \A j \in Images : PathOf(j) \in storage => PathOf(j) \in storage',
         \A u \in Tasks \ {t} : task'[u] = task[u],
         task'[t].pc # "idle" => task'[t].form \in Forms,
         task'[t].pc \in {"putting", "linking", "replacing", "deleting"} => task'[t].image \in Images,
         task'[t].pc = "replacing" => task'[t].old \in Images,
         task'[t].pc \in {"linking", "saving"} /\ task'[t].image # NoImage
            => PathOf(task'[t].image) \in storage'
  PROVE  Owned' /\ Carried'
<1>1. ASSUME NEW u \in Tasks \ {t}
      PROVE  /\ task[u].pc \in {"linking", "saving"} /\ task[u].image # NoImage
                  => PathOf(task[u].image) \in storage'
  BY DEF IInv, TypeOK, Task, Carried
<1>2. Owned'
  BY DEF IInv, Owned
<1>3. Carried'
  BY <1>1 DEF IInv, Carried
<1> QED BY <1>2, <1>3

(* The types of one form and of one call, whichever field a step changes.   *)
LEMMA FormChange ==
  ASSUME NEW g \in FormState, NEW url \in Images \cup {NoImage}, NEW b \in BOOLEAN
  PROVE  /\ [g EXCEPT !.imageUrl = url, !.isSaving = b] \in FormState
         /\ [g EXCEPT !.isSaving = b] \in FormState
         /\ [g EXCEPT !.stage = "gone"] \in FormState
BY DEF FormState

(* What setState does to the forms, on one that is open and on one that is gone. *)
LEMMA SetStateEffect ==
  ASSUME TypeOK, NEW f \in Forms, NEW url \in Images \cup {NoImage}, NEW b \in BOOLEAN,
         SetState(f, url, b)
  PROVE  /\ form' \in [Forms -> FormState]
         /\ \A g \in Forms : /\ form'[g].stage = form[g].stage
                            /\ form'[g].imageUrl \in {form[g].imageUrl, url}
<1>1. form \in [Forms -> FormState] /\ form[f] \in FormState
  BY DEF TypeOK
<1>2. CASE ~Open(f)
  BY <1>1, <1>2 DEF SetState
<1>3. CASE Open(f)
  <2> DEFINE new == [form[f] EXCEPT !.imageUrl = url, !.isSaving = b]
  <2>1. form' = [form EXCEPT ![f] = new]
    BY <1>3 DEF SetState
  <2>2. new \in FormState
    BY <1>1, FormChange
  <2>3. new.stage = form[f].stage /\ new.imageUrl = url
    BY <1>1 DEF FormState
  <2> HIDE DEF new
  <2> QED BY <1>1, <2>1, <2>2, <2>3
<1> QED BY <1>2, <1>3

(* What the start of a call does to its form and to the calls. *)
LEMMA BeginEffect ==
  ASSUME TypeOK, NEW t \in Tasks, NEW f \in Forms, NEW pc \in Awaits,
         NEW image \in Images \cup {NoImage}, Begin(t, f, pc, image)
  PROVE  /\ form' \in [Forms -> FormState] /\ task' \in [Tasks -> Task]
         /\ \A g \in Forms : form'[g].stage = form[g].stage /\ form'[g].imageUrl = form[g].imageUrl
         /\ task'[t].pc = pc /\ task'[t].form = f /\ task'[t].image = image
         /\ \A u \in Tasks \ {t} : task'[u] = task[u]
<1> DEFINE new == [form[f] EXCEPT !.isSaving = TRUE]
           call == [Idle EXCEPT !.pc = pc, !.form = f, !.image = image]
<1>1. /\ form \in [Forms -> FormState] /\ form[f] \in FormState
      /\ task \in [Tasks -> Task]
  BY DEF TypeOK
<1>2. form' = [form EXCEPT ![f] = new] /\ task' = [task EXCEPT ![t] = call]
  BY DEF Begin
<1>3. new \in FormState /\ new.stage = form[f].stage /\ new.imageUrl = form[f].imageUrl
  BY <1>1 DEF FormState
<1>4. call \in Task /\ call.pc = pc /\ call.form = f /\ call.image = image
  BY DEF Task, Idle
<1> HIDE DEF new, call
<1> QED BY <1>1, <1>2, <1>3, <1>4

(* What going to the next await does. *)
LEMMA MoveEffect ==
  ASSUME TypeOK, NEW t \in Tasks, NEW pc \in Awaits, MoveTo(t, pc)
  PROVE  /\ task' \in [Tasks -> Task]
         /\ task'[t].pc = pc /\ task'[t].form = task[t].form
         /\ task'[t].image = task[t].image /\ task'[t].old = task[t].old
         /\ \A u \in Tasks \ {t} : task'[u] = task[u]
<1> DEFINE call == [task[t] EXCEPT !.pc = pc]
<1>1. task \in [Tasks -> Task] /\ task[t] \in Task
  BY DEF TypeOK
<1>2. task' = [task EXCEPT ![t] = call]
  BY DEF MoveTo
<1>3. /\ call \in Task /\ call.pc = pc /\ call.form = task[t].form
      /\ call.image = task[t].image /\ call.old = task[t].old
  BY <1>1 DEF Task
<1> HIDE DEF call
<1> QED BY <1>1, <1>2, <1>3

(* What the end of a call does. *)
LEMMA EndEffect ==
  ASSUME TypeOK, NEW t \in Tasks, End(t)
  PROVE  /\ task' \in [Tasks -> Task]
         /\ task'[t].pc = "idle"
         /\ \A u \in Tasks \ {t} : task'[u] = task[u]
BY DEF TypeOK, End, Idle, Task, Awaits

(* A call that ends in its finally block, the storage and the documents     *)
(* being what they were or more.                                            *)
LEMMA FinallyKeeps ==
  ASSUME IInv, NEW t \in Tasks, task[t].pc # "idle",
         NEW url \in Images \cup {NoImage}, Finally(t, url),
         storage' \subseteq Path, doc' = doc, used' = used,
         \A j \in Images : PathOf(j) \in storage => PathOf(j) \in storage',
         \/ url = NoImage
         \/ url = UrlOf(t)
         \/ PathOf(url) \in storage'
  PROVE  IInv'
<1> USE DEF IInv
<1>1. task[t].form \in Forms
  BY DEF Owned
<1>2. SetState(task[t].form, url, FALSE) /\ End(t)
  BY DEF Finally
<1>3. form' \in [Forms -> FormState]
  BY <1>1, <1>2, SetStateEffect
<1>4. task' \in [Tasks -> Task] /\ task'[t].pc = "idle" /\ \A u \in Tasks \ {t} : task'[u] = task[u]
  BY <1>2, EndEffect
<1>5. TypeOK'
  BY <1>3, <1>4 DEF TypeOK
<1>6. Owned' /\ Carried'
  BY <1>4, KeepCarried
<1>7. ASSUME NEW f \in Forms, form'[f].stage = "open"
      PROVE  \/ form[f].stage = "open" /\ form'[f].imageUrl = form[f].imageUrl
             \/ form'[f].imageUrl = NoImage
             \/ PathOf(form'[f].imageUrl) \in storage'
  <2>1. form'[f].stage = form[f].stage /\ form'[f].imageUrl \in {form[f].imageUrl, url}
    BY <1>1, <1>2, SetStateEffect
  <2>2. CASE url = UrlOf(t)
    BY <1>1, <1>2, <1>7, <2>1, <2>2 DEF SetState, UrlOf, TypeOK, FormState
  <2> QED BY <1>7, <2>1, <2>2
<1>8. AddressesLead'
  BY <1>7, KeepAddresses
<1> QED BY <1>5, <1>6, <1>8

(* The taps: one case per action of Tap. *)
LEMMA TapsKeep ==
  ASSUME IInv, NEW f \in Forms, Tap(f)
  PROVE  IInv'
<1> USE DEF IInv
<1>1. storage' = storage /\ doc' = doc /\ used' = used
  BY DEF Tap, OpenForm, LeaveForm, TapPick, TapDelete, TapSave
<1>2. form \in [Forms -> FormState] /\ form[f] \in FormState
  BY DEF TypeOK
<1>3. ASSUME NEW r \in Restaurants \cup {NoDoc}, OpenForm(f, r) PROVE IInv'
  <2> DEFINE new == [stage |-> "open", restaurant |-> r, isSaving |-> FALSE,
                     imageUrl |-> IF r = NoDoc THEN NoImage ELSE doc[r]]
  <2>1. form' = [form EXCEPT ![f] = new] /\ task' = task
    BY <1>3 DEF OpenForm
  <2>2. /\ new.imageUrl \in Images \cup {NoImage}
        /\ new.imageUrl # NoImage => PathOf(new.imageUrl) \in storage
    BY <1>3, ImageAssumption DEF OpenForm, TypeOK, AddressesLead
  <2>3. new \in FormState
    BY <2>2 DEF FormState
  <2> HIDE DEF new
  <2>4. TypeOK'
    BY <1>1, <1>2, <2>1, <2>3 DEF TypeOK
  <2>5. Owned' /\ Carried'
    BY <1>1, <2>1 DEF Owned, Carried
  <2>6. AddressesLead'
    BY <1>1, <1>2, <2>1, <2>2 DEF AddressesLead, Open
  <2> QED BY <2>4, <2>5, <2>6
<1>4. CASE LeaveForm(f)
  <2> DEFINE new == [form[f] EXCEPT !.stage = "gone"]
  <2>1. form' = [form EXCEPT ![f] = new] /\ task' = task
    BY <1>4 DEF LeaveForm
  <2>2. new \in FormState /\ new.stage = "gone"
    BY <1>2 DEF FormState
  <2> HIDE DEF new
  <2>3. TypeOK'
    BY <1>1, <1>2, <2>1, <2>2 DEF TypeOK
  <2>4. Owned' /\ Carried'
    BY <1>1, <2>1 DEF Owned, Carried
  <2>5. AddressesLead'
    BY <1>1, <1>2, <2>1, <2>2 DEF AddressesLead, Open
  <2> QED BY <2>3, <2>4, <2>5
<1>5. ASSUME NEW t \in Tasks, NEW pc \in {"picking", "deleting", "saving"},
             NEW image \in Images \cup {NoImage}, Begin(t, f, pc, image),
             pc = "deleting" => image \in Images,
             pc = "saving" => image = form[f].imageUrl
      PROVE  IInv'
  <2>1. /\ form' \in [Forms -> FormState] /\ task' \in [Tasks -> Task]
        /\ \A g \in Forms : form'[g].stage = form[g].stage /\ form'[g].imageUrl = form[g].imageUrl
        /\ task'[t].pc = pc /\ task'[t].form = f /\ task'[t].image = image
        /\ \A u \in Tasks \ {t} : task'[u] = task[u]
    BY <1>5, BeginEffect DEF Awaits
  <2>2. TypeOK'
    BY <1>1, <2>1 DEF TypeOK
  <2>3. pc = "saving" /\ image # NoImage => PathOf(image) \in storage
    BY <1>5 DEF Begin, AddressesLead
  <2>4. Owned' /\ Carried'
    BY <1>1, <1>5, <2>1, <2>3, KeepCarried
  <2>5. AddressesLead'
    BY <1>1, <2>1 DEF AddressesLead, Open
  <2> QED BY <2>2, <2>4, <2>5
<1>6. form[f].imageUrl \in Images \cup {NoImage}
  BY <1>2 DEF FormState
<1>7. ASSUME NEW t \in Tasks, TapPick(t, f) \/ TapDelete(t, f) \/ TapSave(t, f) PROVE IInv'
  BY <1>5, <1>6, <1>7 DEF TapPick, TapDelete, TapSave
<1> QED BY <1>3, <1>4, <1>7 DEF Tap

(* The answers: one case per action of Answer. *)
LEMMA AnswersKeep ==
  ASSUME IInv, NEW t \in Tasks, Answer(t)
  PROVE  IInv'
<1> USE DEF IInv
<1>1. task \in [Tasks -> Task] /\ task[t] \in Task /\ form \in [Forms -> FormState]
      /\ storage \subseteq Path
  BY DEF TypeOK
<1>2. task[t].pc # "idle" /\ task[t].form \in Forms
  BY DEF Answer, Cancel, Choose, Replaced, Put, Link, Deleted, Save, Saved, Fail, Owned
<1>3. UrlOf(t) \in Images \cup {NoImage}
  BY <1>1, <1>2 DEF UrlOf, FormState
<1>4. CASE Cancel(t) \/ Fail(t)
  BY <1>1, <1>2, <1>3, <1>4, FinallyKeeps DEF Cancel, Fail
<1>5. CASE Choose(t)
  <2>1. PICK i \in Images \ used :
          /\ used' = used \cup {i}
          /\ task' = [task EXCEPT ![t].image = i, ![t].old = UrlOf(t),
                        ![t].pc = IF UrlOf(t) = NoImage THEN "putting" ELSE "replacing"]
    BY <1>5 DEF Choose
  <2> DEFINE call == [task[t] EXCEPT !.image = i, !.old = UrlOf(t),
                        !.pc = IF UrlOf(t) = NoImage THEN "putting" ELSE "replacing"]
  <2>2. task' = [task EXCEPT ![t] = call]
    BY <1>1, <2>1
  <2>3. /\ call \in Task /\ call.image = i /\ call.old = UrlOf(t) /\ call.form = task[t].form
        /\ call.pc = IF UrlOf(t) = NoImage THEN "putting" ELSE "replacing"
    BY <1>1, <1>3 DEF Task, Awaits
  <2> HIDE DEF call
  <2>4. storage' = storage /\ doc' = doc /\ form' = form
    BY <1>5 DEF Choose
  <2>5. TypeOK'
    <3>1. task' \in [Tasks -> Task]
      BY <1>1, <2>2, <2>3 DEF TypeOK
    <3>2. used' \subseteq Images
      BY <2>1 DEF TypeOK
    <3> QED BY <2>4, <3>1, <3>2 DEF TypeOK
  <2>6. Owned' /\ Carried'
    BY <1>1, <1>2, <1>3, <2>2, <2>3, <2>4, KeepCarried
  <2>7. AddressesLead'
    BY <2>4 DEF AddressesLead, Open
  <2> QED BY <2>5, <2>6, <2>7
<1>6. CASE Replaced(t)
  <2>1. /\ Removal(task[t].old) /\ SetState(task[t].form, NoImage, FALSE)
        /\ IF Open(task[t].form) THEN MoveTo(t, "putting") ELSE End(t)
        /\ doc' = doc /\ used' = used /\ task[t].old \in Images
    BY <1>6 DEF Replaced, Carried
  <2>2. storage' \subseteq Path /\ \A j \in Images : PathOf(j) \in storage => PathOf(j) \in storage'
    BY <1>1, <2>1, RemovalKeeps
  <2>3. /\ form' \in [Forms -> FormState]
        /\ \A g \in Forms : /\ form'[g].stage = form[g].stage
                           /\ form'[g].imageUrl \in {form[g].imageUrl, NoImage}
    BY <1>2, <2>1, SetStateEffect
  <2>4. /\ task' \in [Tasks -> Task]
        /\ \A u \in Tasks \ {t} : task'[u] = task[u]
        /\ \/ task'[t].pc = "idle"
           \/ task'[t].pc = "putting" /\ task'[t].form = task[t].form /\ task'[t].image = task[t].image
    BY <2>1, MoveEffect, EndEffect DEF Awaits
  <2>5. task[t].image \in Images
    BY <1>6 DEF Replaced, Carried
  <2>6. TypeOK'
    BY <2>1, <2>2, <2>3, <2>4 DEF TypeOK
  <2>7. Owned' /\ Carried'
    BY <1>2, <2>2, <2>4, <2>5, KeepCarried
  <2>8. AddressesLead'
    BY <2>1, <2>2, <2>3, KeepAddresses
  <2> QED BY <2>6, <2>7, <2>8
<1>7. CASE Put(t)
  <2>1. /\ storage' = storage \cup {PathOf(task[t].image)} /\ MoveTo(t, "linking")
        /\ doc' = doc /\ form' = form /\ used' = used /\ task[t].image \in Images
    BY <1>7 DEF Put, Carried
  <2>2. storage' \subseteq Path /\ \A j \in Images : PathOf(j) \in storage => PathOf(j) \in storage'
    BY <1>1, <2>1 DEF Path, PathOf
  <2>3. /\ task' \in [Tasks -> Task]
        /\ \A u \in Tasks \ {t} : task'[u] = task[u]
        /\ task'[t].pc = "linking" /\ task'[t].form = task[t].form /\ task'[t].image = task[t].image
    BY <2>1, MoveEffect DEF Awaits
  <2>4. TypeOK'
    BY <2>1, <2>2, <2>3 DEF TypeOK
  <2>5. Owned' /\ Carried'
    BY <1>2, <2>1, <2>2, <2>3, KeepCarried
  <2>6. AddressesLead'
    BY <2>1, <2>2, KeepAddresses
  <2> QED BY <2>4, <2>5, <2>6
<1>8. CASE Link(t)
  <2>1. task[t].image \in Images /\ PathOf(task[t].image) \in storage
    BY <1>8, ImageAssumption DEF Link, Carried
  <2> QED BY <1>1, <1>2, <1>8, <2>1, FinallyKeeps DEF Link
<1>9. CASE Deleted(t)
  <2>1. /\ Removal(task[t].image) /\ Finally(t, NoImage) /\ doc' = doc /\ used' = used
        /\ task[t].image \in Images
    BY <1>9 DEF Deleted, Carried
  <2>2. storage' \subseteq Path /\ \A j \in Images : PathOf(j) \in storage => PathOf(j) \in storage'
    BY <1>1, <2>1, RemovalKeeps
  <2> QED BY <1>2, <2>1, <2>2, FinallyKeeps
<1>10. CASE Save(t)
  <2>1. PICK r \in Restaurants : doc' = [doc EXCEPT ![r] = task[t].image]
    BY <1>10 DEF Save
  <2>2. MoveTo(t, "saved") /\ storage' = storage /\ form' = form /\ used' = used
    BY <1>10 DEF Save
  <2>3. /\ task' \in [Tasks -> Task]
        /\ \A u \in Tasks \ {t} : task'[u] = task[u]
        /\ task'[t].pc = "saved" /\ task'[t].form = task[t].form
    BY <2>2, MoveEffect DEF Awaits
  <2>4. /\ task[t].image \in Images \cup {NoImage}
        /\ task[t].image # NoImage => PathOf(task[t].image) \in storage
    BY <1>1, <1>10 DEF Save, Carried, Task
  <2>5. TypeOK'
    BY <2>1, <2>2, <2>3, <2>4 DEF TypeOK
  <2>6. Owned' /\ Carried'
    BY <1>2, <2>2, <2>3, KeepCarried
  <2>7. AddressesLead'
    BY <2>1, <2>2, <2>4, ImageAssumption DEF AddressesLead, Open, TypeOK
  <2> QED BY <2>5, <2>6, <2>7
<1>11. CASE Saved(t)
  <2> DEFINE f == task[t].form
             new == [form[f] EXCEPT !.stage = "gone"]
  <2>1. /\ form' = IF Open(f) THEN [form EXCEPT ![f] = new] ELSE form
        /\ End(t) /\ storage' = storage /\ doc' = doc /\ used' = used
    BY <1>11 DEF Saved
  <2>2. new \in FormState /\ new.stage = "gone"
    BY <1>1, <1>2 DEF FormState
  <2> HIDE DEF new
  <2>3. form' \in [Forms -> FormState]
    BY <1>1, <1>2, <2>1, <2>2
  <2>4. /\ task' \in [Tasks -> Task] /\ task'[t].pc = "idle"
        /\ \A u \in Tasks \ {t} : task'[u] = task[u]
    BY <2>1, EndEffect
  <2>5. TypeOK'
    BY <2>1, <2>3, <2>4 DEF TypeOK
  <2>6. Owned' /\ Carried'
    BY <2>1, <2>4, KeepCarried
  <2>7. AddressesLead'
    BY <1>1, <1>2, <2>1, <2>2 DEF AddressesLead, Open
  <2> QED BY <2>5, <2>6, <2>7
<1> QED BY <1>4, <1>5, <1>6, <1>7, <1>8, <1>9, <1>10, <1>11 DEF Answer

(* Every step is a tap, an answer or none. *)
LEMMA StepInv == IInv /\ [Next]_vars => IInv'
<1> SUFFICES ASSUME IInv, [Next]_vars PROVE IInv'
  OBVIOUS
<1>1. CASE UNCHANGED vars
  BY <1>1 DEF vars, IInv, TypeOK, Owned, Carried, AddressesLead, Open
<1> QED BY <1>1, TapsKeep, AnswersKeep DEF Next

(* The inductive invariant holds throughout. *)
LEMMA Invariant == Spec => []IInv
BY InitInv, StepInv, PTL DEF Spec

(* The types of the storage, the documents, the forms and the calls.        *)
THEOREM TypeCorrect == Spec => []TypeOK
<1>1. IInv => TypeOK
  BY DEF IInv
<1> QED BY <1>1, Invariant, PTL

(* Neither a restaurant nor an open form ever names a file that was taken   *)
(* away, whatever calls of _deleteCurrentImage, _pickAndUploadImage and     *)
(* _saveRestaurant are under way, in whatever forms.                        *)
THEOREM AddressesLeadAlways == Spec => []AddressesLead
<1>1. IInv => AddressesLead
  BY DEF IInv
<1> QED BY <1>1, Invariant, PTL

-----------------------------------------------------------------------------
(***************************************************************************)
(* The flag and the calls it stands for.                                   *)
(***************************************************************************)
(* setState(isSaving = false) enables an open form, and touches no other.   *)
LEMMA EnabledBySetState ==
  ASSUME TypeOK, NEW g \in Forms, NEW url \in Images \cup {NoImage}, SetState(g, url, FALSE),
         NEW f \in Forms, Open(f)', form'[f].isSaving
  PROVE  f # g /\ form'[f] = form[f]
<1>1. form \in [Forms -> FormState] /\ form[g] \in FormState
  BY DEF TypeOK
<1>2. CASE ~Open(g)
  BY <1>1, <1>2 DEF SetState, Open
<1>3. CASE Open(g)
  <2> DEFINE new == [form[g] EXCEPT !.imageUrl = url, !.isSaving = FALSE]
  <2>1. form' = [form EXCEPT ![g] = new]
    BY <1>3 DEF SetState
  <2>2. new.isSaving = FALSE
    BY <1>1 DEF FormState
  <2> HIDE DEF new
  <2> QED BY <1>1, <2>1, <2>2
<1> QED BY <1>2, <1>3

(* A form that a step does not touch keeps the call it waits for, unless     *)
(* that step ends the call.                                                  *)
LEMMA StillBusy ==
  ASSUME BusyHasCall, NEW f \in Forms, form'[f] = form[f], Open(f)', form'[f].isSaving,
         NEW t \in Tasks,
         task[t].form = f => \/ task'[t] = task[t]
                             \/ task'[t].pc # "idle" /\ task'[t].form = f,
         \A u \in Tasks \ {t} : task'[u] = task[u]
  PROVE  \E u \in Tasks : task'[u].pc # "idle" /\ task'[u].form = f
<1>1. PICK u \in Tasks : task[u].pc # "idle" /\ task[u].form = f
  BY DEF BusyHasCall, Open
<1> QED BY <1>1

(* The taps: a call is begun with the flag, and no other tap sets it. *)
LEMMA TapsBusy ==
  ASSUME IInv, BusyHasCall, NEW g \in Forms, Tap(g),
         NEW f \in Forms, Open(f)', form'[f].isSaving
  PROVE  \E u \in Tasks : task'[u].pc # "idle" /\ task'[u].form = f
<1> USE DEF IInv
<1>1. form \in [Forms -> FormState] /\ task \in [Tasks -> Task] /\ form[g] \in FormState
  BY DEF TypeOK
<1>2. ASSUME NEW r \in Restaurants \cup {NoDoc}, OpenForm(g, r)
      PROVE  form'[f] = form[f] /\ task' = task
  BY <1>1, <1>2 DEF OpenForm
<1>3. ASSUME LeaveForm(g)
      PROVE  form'[f] = form[f] /\ task' = task
  <2>1. form' = [form EXCEPT ![g] = [form[g] EXCEPT !.stage = "gone"]] /\ task' = task
    BY <1>3 DEF LeaveForm
  <2>2. [form[g] EXCEPT !.stage = "gone"].stage = "gone"
    BY <1>1 DEF FormState
  <2> QED BY <1>1, <2>1, <2>2 DEF Open
<1>4. ASSUME form'[f] = form[f], task' = task
      PROVE  \E u \in Tasks : task'[u].pc # "idle" /\ task'[u].form = f
  BY <1>4 DEF BusyHasCall, Open
<1>5. ASSUME NEW t \in Tasks, NEW pc \in {"picking", "deleting", "saving"},
             NEW image \in Images \cup {NoImage}, Begin(t, g, pc, image)
      PROVE  \E u \in Tasks : task'[u].pc # "idle" /\ task'[u].form = f
  <2>1. /\ task'[t].pc = pc /\ task'[t].form = g
        /\ \A u \in Tasks \ {t} : task'[u] = task[u]
    BY <1>5, BeginEffect DEF Awaits
  <2>2. CASE f = g
    BY <2>1, <2>2
  <2>3. CASE f # g
    <3>1. form'[f] = form[f] /\ task[t].pc = "idle"
      BY <1>1, <1>5, <2>3 DEF Begin
    <3>2. PICK u \in Tasks : task[u].pc # "idle" /\ task[u].form = f
      BY <3>1 DEF BusyHasCall, Open
    <3> QED BY <2>1, <3>1, <3>2
  <2> QED BY <2>2, <2>3
<1>6. form[g].imageUrl \in Images \cup {NoImage} /\ NoImage \in Images \cup {NoImage}
  BY <1>1 DEF FormState
<1>7. ASSUME NEW t \in Tasks, TapPick(t, g) \/ TapDelete(t, g) \/ TapSave(t, g)
      PROVE  \E u \in Tasks : task'[u].pc # "idle" /\ task'[u].form = f
  BY <1>5, <1>6, <1>7 DEF TapPick, TapDelete, TapSave
<1> QED BY <1>2, <1>3, <1>4, <1>7 DEF Tap

(* The answers: who ends a call enables its form, or the form is gone. *)
LEMMA AnswersBusy ==
  ASSUME IInv, BusyHasCall, NEW t \in Tasks, Answer(t),
         NEW f \in Forms, Open(f)', form'[f].isSaving
  PROVE  \E u \in Tasks : task'[u].pc # "idle" /\ task'[u].form = f
<1> USE DEF IInv
<1> DEFINE g == task[t].form
<1>1. /\ form \in [Forms -> FormState] /\ task \in [Tasks -> Task] /\ task[t] \in Task
      /\ task[t].pc # "idle" /\ g \in Forms
  BY DEF TypeOK, Owned, Answer, Cancel, Choose, Replaced, Put, Link, Deleted, Save, Saved, Fail
<1>2. UrlOf(t) \in Images \cup {NoImage} /\ NoImage \in Images \cup {NoImage}
        /\ task[t].image \in Images \cup {NoImage}
  BY <1>1 DEF UrlOf, FormState, Task
<1>3. ASSUME NEW url \in Images \cup {NoImage}, Finally(t, url)
      PROVE  \E u \in Tasks : task'[u].pc # "idle" /\ task'[u].form = f
  <2>1. f # g /\ form'[f] = form[f]
    BY <1>1, <1>3, EnabledBySetState DEF Finally
  <2>2. \A u \in Tasks \ {t} : task'[u] = task[u]
    BY <1>3, EndEffect DEF Finally
  <2> QED BY <2>1, <2>2, StillBusy
<1>4. ASSUME NEW pc \in Awaits, MoveTo(t, pc), pc # "idle", form'[f] = form[f]
      PROVE  \E u \in Tasks : task'[u].pc # "idle" /\ task'[u].form = f
  <2>1. /\ task'[t].pc = pc /\ task'[t].form = g
        /\ \A u \in Tasks \ {t} : task'[u] = task[u]
    BY <1>4, MoveEffect
  <2> QED BY <1>4, <2>1, StillBusy
<1>5. CASE Choose(t)
  <2>1. PICK i \in Images :
          /\ task' = [task EXCEPT ![t] = [task[t] EXCEPT !.image = i, !.old = UrlOf(t),
                         !.pc = IF UrlOf(t) = NoImage THEN "putting" ELSE "replacing"]]
          /\ form' = form
    BY <1>5 DEF Choose
  <2>2. /\ task'[t].pc \in {"putting", "replacing"} /\ task'[t].form = g
        /\ \A u \in Tasks \ {t} : task'[u] = task[u]
    BY <1>1, <2>1 DEF Task
  <2> QED BY <2>1, <2>2, StillBusy
<1>6. CASE Replaced(t)
  <2>1. f # g /\ form'[f] = form[f]
    BY <1>1, <1>2, <1>6, EnabledBySetState DEF Replaced
  <2>2. \A u \in Tasks \ {t} : task'[u] = task[u]
    BY <1>6, EndEffect, MoveEffect DEF Replaced, Awaits
  <2> QED BY <2>1, <2>2, StillBusy
<1>7. CASE Put(t) \/ Save(t)
  BY <1>4, <1>7 DEF Put, Save, Awaits
<1>8. CASE Saved(t)
  <2>1. f # g /\ form'[f] = form[f]
    <3>1. form' = IF Open(g) THEN [form EXCEPT ![g] = [form[g] EXCEPT !.stage = "gone"]] ELSE form
      BY <1>8 DEF Saved
    <3>2. [form[g] EXCEPT !.stage = "gone"].stage = "gone"
      BY <1>1 DEF FormState
    <3> QED BY <1>1, <3>1, <3>2 DEF Open
  <2>2. \A u \in Tasks \ {t} : task'[u] = task[u]
    BY <1>8, EndEffect DEF Saved
  <2> QED BY <2>1, <2>2, StillBusy
<1>9. CASE Cancel(t) \/ Link(t) \/ Deleted(t) \/ Fail(t)
  BY <1>2, <1>3, <1>9 DEF Cancel, Link, Deleted, Fail
<1> QED BY <1>5, <1>6, <1>7, <1>8, <1>9 DEF Answer

(* A form whose buttons are disabled waits for a call of its own, whatever   *)
(* calls of other forms, or earlier ones of its own, have ended.             *)
THEOREM BusyHasCallAlways == Spec => []BusyHasCall
<1>1. Init => BusyHasCall
  BY DEF Init, BusyHasCall, Open
<1>2. ASSUME IInv, BusyHasCall, [Next]_vars PROVE BusyHasCall'
  <2>1. CASE UNCHANGED vars
    BY <1>2, <2>1 DEF vars, BusyHasCall, Open
  <2>2. CASE Next
    BY <1>2, <2>2, TapsBusy, AnswersBusy DEF Next, BusyHasCall
  <2> QED BY <1>2, <2>1, <2>2
<1> QED BY <1>1, <1>2, Invariant, PTL DEF Spec

=============================================================================
