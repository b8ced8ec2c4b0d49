----------------------------- MODULE UsersProofs -----------------------------
(***************************************************************************)
(* Who can change what in the documents of 'users', for any number of      *)
(* accounts, phones, waiting writes and calls of updateExistingUsers.      *)
(*                                                                         *)
(* The invariant has one part per question: SignupFirst says that the      *)
(* document of a sign-up that is still on its way is the first of its      *)
(* account; NamesKnown follows an empty name from the form over the queue  *)
(* to the document; CallsKnow says what is still true of what a call of    *)
(* the function has read.                                                  *)
(***************************************************************************)
EXTENDS Users, TLAPS

Index(p) == 1..Len(queue[p])

SignupFirst ==
  /\ \A u \in Accounts : doc[u] # NoDoc => u \in registered
  /\ \A p \in Phones : \A i \in Index(p) : queue[p][i].field = "all" =>
       queue[p][i].to \in registered /\ doc[queue[p][i].to] = NoDoc
  /\ \A p, q \in Phones : \A i \in Index(p), j \in Index(q) :
       /\ queue[p][i].field = "all" /\ queue[q][j].field = "all"
       /\ queue[p][i].to = queue[q][j].to
       => p = q /\ i = j

NamesKnown ==
  /\ BlankNameFromEarlySave
  /\ \A p \in Phones : form[p].loaded /\ form[p].name = "blank" => HolderOf[p] \in early
  /\ \A p \in Phones : \A i \in Index(p) :
       queue[p][i].field = "name" /\ queue[p][i].value = "blank" => queue[p][i].to \in early

CallsKnow ==
  \A m \in migrations :
    /\ m.targets \subseteq m.known
    /\ \A u \in m.known : /\ doc[u] # NoDoc
                          /\ u \in m.targets \/ doc[u].role # "unset"
    /\ \A u \in m.targets : u \in m.granted \/ doc[u].role # "yes"

IInv == TypeOK /\ SignupFirst /\ NamesKnown /\ CallsKnow

-----------------------------------------------------------------------------
(* The new document is a document. *)
LEMMA NewDocType == NewDoc \in Doc
  BY DEF NewDoc, Doc

(* What a write leaves: a document or none, whose role is set if it was. *)
LEMMA AppliedType ==
  ASSUME NEW d \in Doc \cup {NoDoc}, NEW w \in Write
  PROVE  /\ Applied(d, w) \in Doc \cup {NoDoc}
         /\ d # NoDoc => Applied(d, w) # NoDoc
         /\ d # NoDoc /\ d.role # "unset" => Applied(d, w).role # "unset"
         /\ w.field # "all" /\ d = NoDoc => Applied(d, w) = NoDoc
<1>1. CASE w.field = "all"
  <2>1. w.value = NewDoc
    BY <1>1 DEF Write
  <2>2. Applied(d, w) = NewDoc
    BY <1>1, <2>1 DEF Applied
  <2>3. NewDoc.role # "unset"
    BY DEF NewDoc
  <2> QED
    BY <1>1, <2>2, <2>3, NewDocType, UsersAssumption
<1>2. CASE w.field # "all" /\ d = NoDoc
  BY <1>2 DEF Applied
<1>3. CASE w.field # "all" /\ d # NoDoc
  <2>1. d \in Doc /\ Applied(d, w) = Updated(d, w)
    BY <1>3 DEF Applied
  <2>2. Updated(d, w) \in Doc
    BY <1>3, <2>1 DEF Updated, Write, Doc
  <2>3. d.role # "unset" => Updated(d, w).role # "unset"
    BY <1>3, <2>1 DEF Updated, Write, Doc
  <2> QED
    BY <1>3, <2>1, <2>2, <2>3, UsersAssumption
<1> QED
  BY <1>1, <1>2, <1>3

(* What a phone may show is a document or nothing. *)
LEMMA ShownType == \A p, u : Shown(p, u) \subseteq Doc \cup {NoDoc}
  BY DEF Shown

(* A blank name that a phone shows is in the document or in one of its writes. *)
LEMMA ShownName ==
  ASSUME IInv, NEW p \in Phones, NEW u \in Accounts, NEW d \in Shown(p, u),
         d # NoDoc, d.name = "blank"
  PROVE  u \in early
<1> USE DEF IInv
<1>1. PICK b \in ({doc[u]} \cup Held(p, u, "all")) \ {NoDoc} :
         d.name \in {b.name} \cup Held(p, u, "name")
  BY DEF Shown
<1>2. Len(queue[p]) \in Nat /\ DOMAIN queue[p] = 1..Len(queue[p]) /\ queue[p] \in Seq(Write)
  BY DEF TypeOK
<1>3. CASE d.name \in Held(p, u, "name")
  BY <1>2, <1>3 DEF Held, NamesKnown, Index
<1>4. CASE d.name = b.name /\ b = doc[u]
  BY <1>1, <1>4 DEF NamesKnown, BlankNameFromEarlySave
<1>5. CASE d.name = b.name /\ b \in Held(p, u, "all")
  <2>1. b = NewDoc
    BY <1>2, <1>5 DEF Held, Write
  <2> QED
    BY <1>5, <2>1 DEF NewDoc
<1> QED
  BY <1>1, <1>3, <1>4, <1>5

(* The queue of a phone that sends a write, and those of the others. *)
LEMMA SendQueue ==
  ASSUME TypeOK, NEW p \in Phones, NEW w \in Write, Send(p, w)
  PROVE  /\ queue' \in [Phones -> Seq(Write)]
         /\ \A q \in Phones : q # p => queue'[q] = queue[q]
         /\ Len(queue[p]) \in Nat /\ Len(queue'[p]) = Len(queue[p]) + 1
         /\ \A i \in 1..Len(queue[p]) : queue'[p][i] = queue[p][i]
         /\ queue'[p][Len(queue[p]) + 1] = w
<1>1. queue[p] \in Seq(Write)
  BY DEF TypeOK
<1>2. queue'[p] = Append(queue[p], w)
  BY DEF Send, TypeOK
<1> QED
  BY <1>1, <1>2 DEF Send, TypeOK

(* The queue of a phone whose first write is committed. *)
LEMMA CommitQueue ==
  ASSUME TypeOK, NEW p \in Phones, Commit(p)
  PROVE  /\ queue' \in [Phones -> Seq(Write)]
         /\ \A q \in Phones : q # p => queue'[q] = queue[q]
         /\ Len(queue[p]) \in Nat \ {0} /\ Len(queue'[p]) = Len(queue[p]) - 1
         /\ \A i \in 1..Len(queue[p]) - 1 : queue'[p][i] = queue[p][i + 1]
         /\ Head(queue[p]) = queue[p][1] /\ queue[p][1] \in Write
<1>1. queue[p] \in Seq(Write) /\ queue[p] # <<>>
  BY DEF TypeOK, Commit
<1>2. queue'[p] = Tail(queue[p])
  BY DEF Commit, TypeOK
<1> QED
  BY <1>1, <1>2 DEF Commit, TypeOK

-----------------------------------------------------------------------------
(* The collections the program starts on. *)
LEMMA InitInv == Init => IInv
<1> SUFFICES ASSUME Init PROVE IInv
  OBVIOUS
<1>1. /\ doc \in [Accounts -> Doc \cup {NoDoc}]
      /\ \A u \in Accounts : doc[u] # NoDoc => doc[u].name = "given"
  BY DEF Init, Doc
<1>2. \A p \in Phones : queue[p] = <<>> /\ Len(queue[p]) = 0 /\ Index(p) = {}
  BY DEF Init, Index
<1>3. TypeOK
  <2>1. NoForm \in Form
    BY DEF NoForm, Form
  <2>2. queue \in [Phones -> Seq(Write)]
    BY DEF Init
  <2>3. form \in [Phones -> Form]
    BY <2>1 DEF Init
  <2> QED
    BY <1>1, <2>2, <2>3 DEF Init, TypeOK
<1>4. SignupFirst
  BY <1>2 DEF Init, SignupFirst
<1>5. NamesKnown
  <2>1. \A p \in Phones : form[p] = NoForm /\ ~NoForm.loaded
    BY DEF Init, NoForm
  <2> QED
    BY <1>1, <1>2, <2>1 DEF NamesKnown, BlankNameFromEarlySave
<1>6. CallsKnow
  BY DEF Init, CallsKnow
<1> QED
  BY <1>3, <1>4, <1>5, <1>6 DEF IInv

(* A write of one field joins a queue: an empty name is accounted for. *)
LEMMA SendInv ==
  ASSUME IInv, NEW p \in Phones, NEW w \in Write, Send(p, w), w.field # "all",
         early \subseteq early', early' \subseteq Accounts,
         w.field = "name" /\ w.value = "blank" => w.to \in early',
         UNCHANGED <<registered, doc, form, usersPage, migrations>>
  PROVE  IInv'
<1> USE DEF IInv
<1>1. TypeOK
  OBVIOUS
<1> DEFINE n == Len(queue[p])
<1>2. /\ queue' \in [Phones -> Seq(Write)]
      /\ \A q \in Phones : q # p => queue'[q] = queue[q]
      /\ n \in Nat /\ Len(queue'[p]) = n + 1
      /\ \A i \in 1..n : queue'[p][i] = queue[p][i]
      /\ queue'[p][n + 1] = w
  BY <1>1, SendQueue
<1>3. TypeOK'
  BY <1>1, <1>2 DEF TypeOK
<1>4. \A q \in Phones : \A i \in Index(q)' :
        \/ i \in Index(q) /\ queue'[q][i] = queue[q][i]
        \/ q = p /\ i = n + 1 /\ queue'[q][i] = w
  BY <1>2 DEF Index
<1>5. SignupFirst'
  BY <1>4 DEF SignupFirst
<1>6. NamesKnown'
  BY <1>4 DEF NamesKnown, BlankNameFromEarlySave
<1>7. CallsKnow'
  BY DEF CallsKnow
<1> QED
  BY <1>3, <1>5, <1>6, <1>7

(* A sign-up: the account is new, and nothing about it is on its way. *)
LEMMA SignupInv ==
  ASSUME IInv, NEW p \in Phones, Signup(p)
  PROVE  IInv'
<1> USE DEF IInv
<1> DEFINE u == HolderOf[p]
           w == [to |-> u, field |-> "all", value |-> NewDoc]
           n == Len(queue[p])
<1>1. TypeOK /\ u \in Accounts /\ u \notin registered
  BY UsersAssumption DEF Signup
<1>2. w \in Write
  BY <1>1 DEF Write
<1>3. Send(p, w)
  BY DEF Signup
<1>4. /\ queue' \in [Phones -> Seq(Write)]
      /\ \A q \in Phones : q # p => queue'[q] = queue[q]
      /\ n \in Nat /\ Len(queue'[p]) = n + 1
      /\ \A i \in 1..n : queue'[p][i] = queue[p][i]
      /\ queue'[p][n + 1] = w
  BY <1>1, <1>2, <1>3, SendQueue
<1>5. TypeOK'
  BY <1>1, <1>4 DEF TypeOK, Signup
<1>6. \A q \in Phones : \A i \in Index(q)' :
        \/ i \in Index(q) /\ queue'[q][i] = queue[q][i]
        \/ q = p /\ i = n + 1 /\ queue'[q][i] = w
  BY <1>4 DEF Index
<1>7. SignupFirst'
  BY <1>1, <1>6 DEF SignupFirst, Signup
<1>8. NamesKnown'
  BY <1>6 DEF NamesKnown, BlankNameFromEarlySave, Signup
<1>9. CallsKnow'
  BY DEF CallsKnow, Signup
<1> QED
  BY <1>5, <1>7, <1>8, <1>9

(* The profile page, but for its saving. *)
LEMMA ProfileInv ==
  ASSUME IInv, NEW p \in Phones,
         OpenProfile(p) \/ LoadProfile(p) \/ TypeName(p) \/ CloseProfile(p)
  PROVE  IInv'
<1> USE DEF IInv
<1>1. UNCHANGED <<registered, doc, queue, usersPage, migrations, early>>
  BY DEF OpenProfile, LoadProfile, TypeName, CloseProfile
<1>2. /\ form' \in [Phones -> Form]
      /\ \A q \in Phones : form'[q].loaded /\ form'[q].name = "blank" => HolderOf[q] \in early
  <2>1. CASE OpenProfile(p) \/ CloseProfile(p)
    <3> DEFINE f == [NoForm EXCEPT !.stage = "loading"]
    <3>1. NoForm \in Form /\ f \in Form /\ ~NoForm.loaded /\ ~f.loaded
      BY DEF NoForm, Form
    <3>2. form' = [form EXCEPT ![p] = f] \/ form' = [form EXCEPT ![p] = NoForm]
      BY <2>1 DEF OpenProfile, CloseProfile
    <3> HIDE DEF f
    <3> QED
      BY <3>1, <3>2 DEF TypeOK, NamesKnown
  <2>2. CASE TypeName(p)
    BY <2>2 DEF TypeName, TypeOK, Form, NamesKnown
  <2>3. CASE LoadProfile(p)
    <3>1. PICK d \in Shown(p, HolderOf[p]) :
            form' = [form EXCEPT ![p] =
              IF d = NoDoc THEN [@ EXCEPT !.stage = "open"]
              ELSE [stage |-> "open", loaded |-> TRUE, name |-> d.name, admin |-> d.admin]]
      BY <2>3 DEF LoadProfile
    <3>2. HolderOf[p] \in Accounts /\ d \in Doc \cup {NoDoc}
      BY ShownType, UsersAssumption
    <3>3. CASE d = NoDoc
      BY <3>1, <3>3 DEF TypeOK, Form, NamesKnown
    <3>4. CASE d # NoDoc
      <4>1. [stage |-> "open", loaded |-> TRUE, name |-> d.name, admin |-> d.admin] \in Form
        BY <3>2, <3>4 DEF Form, Doc
      <4>2. d.name = "blank" => HolderOf[p] \in early
        BY <3>2, <3>4, ShownName
      <4> QED
        BY <3>1, <3>4, <4>1, <4>2 DEF TypeOK, NamesKnown
    <3> QED
      BY <3>3, <3>4
  <2> QED
    BY <2>1, <2>2, <2>3
<1>3. TypeOK'
  BY <1>1, <1>2 DEF TypeOK
<1>4. SignupFirst' /\ CallsKnow'
  BY <1>1 DEF SignupFirst, CallsKnow, Index
<1>5. NamesKnown'
  BY <1>1, <1>2 DEF NamesKnown, BlankNameFromEarlySave, Index
<1> QED
  BY <1>3, <1>4, <1>5

(* Saving before the loading is what 'early' records. *)
LEMMA SaveInv ==
  ASSUME IInv, NEW p \in Phones, SaveProfile(p)
  PROVE  IInv'
<1> DEFINE w == [to |-> HolderOf[p], field |-> "name", value |-> form[p].name]
<1>1. HolderOf[p] \in Accounts /\ form[p] \in Form
  BY UsersAssumption DEF IInv, TypeOK
<1>2. w \in Write /\ w.field = "name" /\ w.to = HolderOf[p] /\ w.value = form[p].name
  BY <1>1 DEF Write, Form
<1>3. early \subseteq early' /\ early' \subseteq Accounts
  BY <1>1 DEF SaveProfile, IInv, TypeOK
<1>4. w.value = "blank" => w.to \in early'
  BY <1>2 DEF SaveProfile, IInv, NamesKnown
<1>5. Send(p, w) /\ UNCHANGED <<registered, doc, form, usersPage, migrations>>
  BY DEF SaveProfile
<1> HIDE DEF w
<1> QED
  BY <1>2, <1>3, <1>4, <1>5, SendInv

(* The switches and the list of restaurants write a field that is no name. *)
LEMMA AdminWriteInv ==
  ASSUME IInv, NEW p \in Phones, NEW u \in Accounts,
         SwitchAdmin(p, u) \/ SwitchRole(p, u) \/ PickRestaurant(p, u)
  PROVE  IInv'
<1>1. PICK w \in Write : Send(p, w) /\ w.field \notin {"all", "name"}
  <2>1. CASE SwitchAdmin(p, u)
    <3>1. PICK d \in Cards(p, u) : Send(p, [to |-> u, field |-> "admin", value |-> ~d.admin])
      BY <2>1 DEF SwitchAdmin
    <3>2. [to |-> u, field |-> "admin", value |-> ~d.admin] \in Write
      BY DEF Write
    <3> QED
      BY <3>1, <3>2
  <2>2. CASE SwitchRole(p, u)
    <3>1. PICK d \in Cards(p, u) :
            Send(p, [to |-> u, field |-> "role", value |-> IF d.role = "yes" THEN "no" ELSE "yes"])
      BY <2>2 DEF SwitchRole
    <3>2. [to |-> u, field |-> "role", value |-> IF d.role = "yes" THEN "no" ELSE "yes"] \in Write
      BY DEF Write
    <3> QED
      BY <3>1, <3>2
  <2>3. CASE PickRestaurant(p, u)
    <3>1. [to |-> u, field |-> "shop", value |-> TRUE] \in Write
      BY DEF Write
    <3> QED
      BY <2>3, <3>1 DEF PickRestaurant
  <2> QED
    BY <2>1, <2>2, <2>3
<1>2. UNCHANGED <<registered, doc, form, usersPage, migrations, early>>
  BY DEF SwitchAdmin, SwitchRole, PickRestaurant
<1>3. early' \subseteq Accounts
  BY <1>2 DEF IInv, TypeOK
<1> QED
  BY <1>1, <1>2, <1>3, SendInv

(* The page comes and goes; a call of the function reads what is there. *)
LEMMA PageInv ==
  ASSUME IInv, NEW p \in Phones, OpenUsers(p) \/ LeaveUsers(p) \/ ReadUsers(p)
  PROVE  IInv'
<1> USE DEF IInv
<1>1. UNCHANGED <<registered, doc, queue, form, early>>
  BY DEF OpenUsers, LeaveUsers, ReadUsers
<1>2. SignupFirst' /\ NamesKnown'
  BY <1>1 DEF SignupFirst, NamesKnown, BlankNameFromEarlySave, Index
<1>3. CASE OpenUsers(p) \/ LeaveUsers(p)
  BY <1>1, <1>2, <1>3 DEF OpenUsers, LeaveUsers, TypeOK, CallsKnow
<1>4. CASE ReadUsers(p)
  <2>1. TypeOK'
    BY <1>4 DEF ReadUsers, TypeOK, Migration, Documented
  <2>2. CallsKnow'
    BY <1>4 DEF ReadUsers, CallsKnow, Documented, TypeOK
  <2> QED
    BY <1>2, <2>1, <2>2
<1> QED
  BY <1>3, <1>4

(* The batch: the accounts it was made for have a document, and now a role. *)
LEMMA BatchInv ==
  ASSUME IInv, NEW m \in migrations, CommitUsers(m) \/ FailUsers(m)
  PROVE  IInv'
<1> USE DEF IInv
<1>1. /\ UNCHANGED <<registered, queue, form, usersPage, early>>
      /\ migrations' \subseteq migrations
  BY DEF CommitUsers, FailUsers
<1>2. \A u \in Accounts :
        \/ doc'[u] = doc[u]
        \/ /\ doc[u] # NoDoc /\ doc'[u] \in Doc /\ doc'[u] # NoDoc
           /\ doc'[u].name = doc[u].name /\ doc'[u].role = "no"
  <2>1. CASE FailUsers(m)
    BY <2>1 DEF FailUsers
  <2>2. CASE CommitUsers(m)
    <3>1. \A u \in m.targets : doc[u] # NoDoc
      BY DEF CallsKnow
    <3>2. \A u \in Accounts : u \in m.targets => doc[u] \in Doc
      BY <3>1 DEF TypeOK
    <3> QED
      BY <2>2, <3>1, <3>2, UsersAssumption DEF CommitUsers, Doc
  <2> QED
    BY <2>1, <2>2
<1>3. doc' \in [Accounts -> Doc \cup {NoDoc}]
  <2>1. doc' = [u \in Accounts |-> doc'[u]]
    BY DEF CommitUsers, FailUsers, TypeOK
  <2>2. \A u \in Accounts : doc'[u] \in Doc \cup {NoDoc}
    BY <1>2 DEF TypeOK
  <2> QED
    BY <2>1, <2>2
<1>4. TypeOK'
  BY <1>1, <1>3 DEF TypeOK
<1>5. \A q \in Phones : \A i \in Index(q) : queue[q][i].to \in Accounts
  BY DEF TypeOK, Index, Write
<1>6. SignupFirst'
  BY <1>1, <1>2, <1>5 DEF SignupFirst, Index
<1>7. NamesKnown'
  BY <1>1, <1>2 DEF NamesKnown, BlankNameFromEarlySave, Index
<1>8. CallsKnow'
  BY <1>1, <1>2 DEF CallsKnow, TypeOK, Migration
<1> QED
  BY <1>4, <1>6, <1>7, <1>8

(* A commit: a sign-up finds no document, an update changes its field. *)
LEMMA CommitInv ==
  ASSUME IInv, NEW p \in Phones, Commit(p)
  PROVE  IInv'
<1> USE DEF IInv
<1> DEFINE w == queue[p][1]
           n == Len(queue[p])
<1>1. TypeOK
  OBVIOUS
<1>2. /\ queue' \in [Phones -> Seq(Write)]
      /\ \A q \in Phones : q # p => queue'[q] = queue[q]
      /\ n \in Nat \ {0} /\ Len(queue'[p]) = n - 1
      /\ \A i \in 1..n - 1 : queue'[p][i] = queue[p][i + 1]
      /\ Head(queue[p]) = w /\ w \in Write
  BY <1>1, CommitQueue
<1>3. /\ UNCHANGED <<registered, form, usersPage, early>>
      /\ doc' = [doc EXCEPT ![w.to] = Applied(@, w)]
      /\ migrations' = IF Grants(w)
                       THEN {[m EXCEPT !.granted = @ \cup {w.to}] : m \in migrations}
                       ELSE migrations
  BY <1>2 DEF Commit
<1>4. 1 \in Index(p) /\ w.to \in Accounts
  BY <1>2 DEF Index, Write
<1>5. \A q \in Phones : \A i \in Index(q)' :
        \/ q # p /\ i \in Index(q) /\ queue'[q][i] = queue[q][i]
        \/ q = p /\ i + 1 \in Index(q) /\ queue'[q][i] = queue[q][i + 1]
  BY <1>2 DEF Index
<1>6. \A u \in Accounts : u # w.to => doc'[u] = doc[u]
  BY <1>3 DEF TypeOK
<1>7. doc'[w.to] = Applied(doc[w.to], w) /\ doc[w.to] \in Doc \cup {NoDoc}
  BY <1>3, <1>4 DEF TypeOK
<1>8. /\ doc'[w.to] \in Doc \cup {NoDoc}
      /\ doc[w.to] # NoDoc => doc'[w.to] # NoDoc
      /\ doc[w.to] # NoDoc /\ doc[w.to].role # "unset" => doc'[w.to].role # "unset"
      /\ w.field # "all" /\ doc[w.to] = NoDoc => doc'[w.to] = NoDoc
  BY <1>2, <1>7, AppliedType
<1>9. TypeOK'
  <2>1. migrations' \subseteq Migration
    <3>1. \A m \in Migration : [m EXCEPT !.granted = @ \cup {w.to}] \in Migration
      BY <1>4 DEF Migration
    <3>2. migrations \subseteq Migration
      BY DEF TypeOK
    <3> QED
      BY <1>3, <3>1, <3>2
  <2>2. doc' \in [Accounts -> Doc \cup {NoDoc}]
    BY <1>3, <1>8 DEF TypeOK
  <2> QED
    BY <1>2, <1>3, <2>1, <2>2 DEF TypeOK
<1>10. w.field = "all" => doc[w.to] = NoDoc /\ w.to \in registered
  BY <1>4 DEF SignupFirst
<1>11. SignupFirst'
  <2>1. \A u \in Accounts : doc'[u] # NoDoc => u \in registered'
    BY <1>3, <1>6, <1>8, <1>10 DEF SignupFirst
  <2>2. \A q \in Phones : \A i \in Index(q)' : queue'[q][i].field = "all" =>
          queue'[q][i].to \in registered' /\ doc'[queue'[q][i].to] = NoDoc
    <3> SUFFICES ASSUME NEW q \in Phones, NEW i \in Index(q)', queue'[q][i].field = "all"
                 PROVE  queue'[q][i].to \in registered' /\ doc'[queue'[q][i].to] = NoDoc
      OBVIOUS
    <3>1. PICK j \in Index(q) : queue'[q][i] = queue[q][j] /\ (q = p => j # 1)
      <4>1. CASE q # p
        BY <1>5, <4>1
      <4>2. CASE q = p
        BY <1>2, <1>5, <4>2 DEF Index
      <4> QED
        BY <4>1, <4>2
    <3>2. queue[q][j].to \in registered /\ doc[queue[q][j].to] = NoDoc
      BY <3>1 DEF SignupFirst
    <3>3. CASE queue[q][j].to # w.to
      <4>1. queue[q][j].to \in Accounts
        BY DEF TypeOK, Index, Write
      <4> QED
        BY <1>3, <1>6, <3>1, <3>2, <3>3, <4>1
    <3>4. CASE queue[q][j].to = w.to
      <4>1. w.field # "all"
        BY <1>4, <3>1, <3>4 DEF SignupFirst
      <4> QED
        BY <1>3, <1>8, <3>1, <3>2, <3>4, <4>1
    <3> QED
      BY <3>3, <3>4
  <2>3. \A q, r \in Phones : \A i \in Index(q)', j \in Index(r)' :
          /\ queue'[q][i].field = "all" /\ queue'[r][j].field = "all"
          /\ queue'[q][i].to = queue'[r][j].to
          => q = r /\ i = j
    <3> SUFFICES ASSUME NEW q \in Phones, NEW r \in Phones, NEW i \in Index(q)', NEW j \in Index(r)',
                        queue'[q][i].field = "all", queue'[r][j].field = "all",
                        queue'[q][i].to = queue'[r][j].to
                 PROVE  q = r /\ i = j
      OBVIOUS
    <3> DEFINE k == IF q = p THEN i + 1 ELSE i
               l == IF r = p THEN j + 1 ELSE j
    <3>1. k \in Index(q) /\ queue'[q][i] = queue[q][k]
      BY <1>5
    <3>2. l \in Index(r) /\ queue'[r][j] = queue[r][l]
      BY <1>5
    <3>3. q = r /\ k = l
      BY <3>1, <3>2 DEF SignupFirst
    <3>4. i \in Nat /\ j \in Nat
      BY <1>2 DEF Index
    <3> QED
      BY <3>3, <3>4
  <2> QED
    BY <2>1, <2>2, <2>3 DEF SignupFirst
<1>12. NamesKnown'
  <2>1. doc'[w.to] # NoDoc /\ doc'[w.to].name = "blank" => w.to \in early
    <3>1. CASE w.field = "all"
      <4>1. doc'[w.to] = NewDoc
        BY <1>2, <1>7, <3>1 DEF Applied, Write
      <4> QED
        BY <4>1 DEF NewDoc
    <3>2. CASE w.field # "all" /\ doc[w.to] # NoDoc
      <4>1. doc'[w.to] = Updated(doc[w.to], w)
        BY <1>7, <3>2 DEF Applied
      <4> QED
        BY <1>4, <3>2, <4>1 DEF Updated, NamesKnown, BlankNameFromEarlySave
    <3>3. CASE w.field # "all" /\ doc[w.to] = NoDoc
      BY <1>8, <3>3
    <3> QED
      BY <3>1, <3>2, <3>3
  <2>2. BlankNameFromEarlySave'
    BY <1>3, <1>6, <2>1 DEF NamesKnown, BlankNameFromEarlySave
  <2>3. \A q \in Phones : \A i \in Index(q)' :
          queue'[q][i].field = "name" /\ queue'[q][i].value = "blank" => queue'[q][i].to \in early
    BY <1>5 DEF NamesKnown
  <2> QED
    BY <1>3, <2>2, <2>3 DEF NamesKnown
<1>13. CallsKnow'
  <2> SUFFICES ASSUME NEW m \in migrations'
               PROVE  /\ m.targets \subseteq m.known
                      /\ \A u \in m.known : /\ doc'[u] # NoDoc
                                            /\ u \in m.targets \/ doc'[u].role # "unset"
                      /\ \A u \in m.targets : u \in m.granted \/ doc'[u].role # "yes"
    BY DEF CallsKnow
  <2>1. PICK c \in migrations :
          /\ m.targets = c.targets /\ m.known = c.known /\ c.granted \subseteq m.granted
          /\ Grants(w) => w.to \in m.granted
    <3>1. CASE Grants(w)
      <4>1. PICK c \in migrations : m = [c EXCEPT !.granted = @ \cup {w.to}]
        BY <1>3, <3>1
      <4>2. c \in Migration
        BY DEF TypeOK
      <4>3. /\ m.targets = c.targets /\ m.known = c.known
            /\ m.granted = c.granted \cup {w.to}
        BY <4>1, <4>2 DEF Migration
      <4> QED
        BY <4>3
    <3>2. CASE ~Grants(w)
      BY <1>3, <3>2
    <3> QED
      BY <3>1, <3>2
  <2>2. /\ c.targets \subseteq c.known /\ c.known \subseteq Accounts
        /\ \A u \in c.known : /\ doc[u] # NoDoc
                              /\ u \in c.targets \/ doc[u].role # "unset"
        /\ \A u \in c.targets : u \in c.granted \/ doc[u].role # "yes"
    BY DEF CallsKnow, TypeOK, Migration
  <2>3. \A u \in m.known : doc'[u] # NoDoc /\ (u \in m.targets \/ doc'[u].role # "unset")
    BY <1>6, <1>8, <2>1, <2>2
  <2>4. ASSUME w.to \in m.targets, doc'[w.to].role = "yes" PROVE w.to \in m.granted
    <3>1. doc[w.to] # NoDoc /\ w.field # "all"
      BY <1>10, <2>1, <2>2, <2>4
    <3>2. doc'[w.to] = Updated(doc[w.to], w)
      BY <1>7, <3>1 DEF Applied
    <3>3. Grants(w) \/ doc[w.to].role = "yes"
      BY <2>4, <3>2 DEF Updated, Grants
    <3> QED
      BY <2>1, <2>2, <2>4, <3>3
  <2>5. \A u \in m.targets : u \in m.granted \/ doc'[u].role # "yes"
    BY <1>6, <2>1, <2>2, <2>4
  <2> QED
    BY <2>1, <2>2, <2>3, <2>5
<1> QED
  BY <1>9, <1>11, <1>12, <1>13

-----------------------------------------------------------------------------
(* Every step keeps the invariant: one case per group of actions. *)
LEMMA NextInv == IInv /\ [Next]_vars => IInv'
<1> SUFFICES ASSUME IInv, [Next]_vars PROVE IInv'
  OBVIOUS
<1>1. CASE UNCHANGED vars
  BY <1>1 DEF vars, IInv, TypeOK, SignupFirst, NamesKnown, BlankNameFromEarlySave, CallsKnow, Index
<1>2. ASSUME NEW p \in Phones, Customer(p) PROVE IInv'
  BY <1>2, SignupInv, ProfileInv, SaveInv DEF Customer
<1>3. ASSUME NEW p \in Phones, Admin(p) PROVE IInv'
  BY <1>3, PageInv, AdminWriteInv DEF Admin
<1> QED
  BY <1>1, <1>2, <1>3, CommitInv, BatchInv DEF Next

(* The invariant holds in every state. *)
LEMMA Invariance == Spec => []IInv
  BY InitInv, NextInv, PTL DEF Spec

(* The types of the documents, the writes on their way and the pages. *)
THEOREM TypeCorrect == Spec => []TypeOK
<1>1. IInv => TypeOK
  BY DEF IInv
<1> QED
  BY <1>1, Invariance, PTL

(* An empty name comes from a profile that was saved before it was loaded. *)
THEOREM BlankNameExplained == Spec => []BlankNameFromEarlySave
<1>1. IInv => BlankNameFromEarlySave
  BY DEF IInv, NamesKnown
<1> QED
  BY <1>1, Invariance, PTL

-----------------------------------------------------------------------------
(* One step: the write of a customer changes no role. *)
LEMMA CustomerWrite ==
  ASSUME IInv, NEW p \in Phones, NEW u \in Accounts, Commit(p),
         Head(queue[p]).field \in {"name", "all"}, doc[u] # NoDoc
  PROVE  /\ doc'[u] # NoDoc
         /\ doc'[u].role = doc[u].role /\ doc'[u].admin = doc[u].admin
         /\ doc'[u].shop = doc[u].shop
<1> DEFINE w == queue[p][1]
<1>1. TypeOK
  BY DEF IInv
<1>2. Head(queue[p]) = w /\ w \in Write /\ 1 \in Index(p)
  BY <1>1, CommitQueue DEF Index
<1>3. doc' = [doc EXCEPT ![w.to] = Applied(@, w)]
  BY <1>2 DEF Commit
<1>4. doc[u] \in Doc
  BY <1>1 DEF TypeOK
<1>5. CASE u # w.to
  BY <1>1, <1>3, <1>5 DEF TypeOK
<1>6. CASE u = w.to
  <2>1. w.field = "name"
    BY <1>2, <1>6 DEF IInv, SignupFirst
  <2>2. doc'[u] = Updated(doc[u], w)
    BY <1>1, <1>3, <1>6, <2>1 DEF TypeOK, Applied
  <2>3. doc'[u] # NoDoc
    BY <1>2, <1>4, <1>6, <2>2, <2>1, AppliedType DEF Applied
  <2> QED
    BY <2>1, <2>2, <2>3 DEF Updated
<1> QED
  BY <1>5, <1>6

(* A customer's own writes, a late sign-up among them, leave roles alone. *)
THEOREM RolesOnlyByAdminsHolds == Spec => RolesOnlyByAdmins
<1>1. IInv /\ [Next]_vars =>
        [\A p \in Phones, u \in Accounts :
           Commit(p) /\ Head(queue[p]).field \in {"name", "all"} /\ doc[u] # NoDoc =>
             /\ doc'[u] # NoDoc
             /\ doc'[u].role = doc[u].role /\ doc'[u].admin = doc[u].admin
             /\ doc'[u].shop = doc[u].shop]_vars
  BY CustomerWrite
<1> QED
  BY <1>1, Invariance, PTL DEF Spec, RolesOnlyByAdmins

(* One step: who can take a role back. *)
LEMMA RoleTaken ==
  ASSUME IInv, [Next]_vars, NEW u \in Accounts,
         doc[u] # NoDoc, doc[u].role = "yes", doc'[u].role # "yes"
  PROVE  \/ \E p \in Phones : queue[p] # <<>> /\ Head(queue[p]).field = "role" /\ Commit(p)
         \/ \E m \in migrations : u \in m.granted /\ CommitUsers(m)
<1>1. doc' # doc
  OBVIOUS
<1>2. CASE \E p \in Phones : Commit(p)
  <2>1. PICK p \in Phones : Commit(p)
    BY <1>2
  <2> DEFINE w == queue[p][1]
  <2>2. Head(queue[p]) = w /\ w \in Write
    BY <2>1, CommitQueue DEF IInv
  <2>3. doc' = [doc EXCEPT ![w.to] = Applied(@, w)]
    BY <2>1, <2>2 DEF Commit
  <2>4. u = w.to /\ doc'[u] = Applied(doc[u], w)
    BY <2>3 DEF IInv, TypeOK
  <2>5. w.field \notin {"name", "all"}
    BY <2>1, <2>2, CustomerWrite
  <2>6. doc'[u] = Updated(doc[u], w)
    BY <2>4, <2>5 DEF Applied
  <2>7. w.field = "role"
    BY <2>6 DEF Updated
  <2> QED
    BY <2>1, <2>2, <2>7 DEF Commit
<1>3. CASE \E m \in migrations : CommitUsers(m)
  <2>1. PICK m \in migrations : CommitUsers(m)
    BY <1>3
  <2>2. u \in m.targets
    BY <2>1 DEF CommitUsers
  <2>3. u \in m.granted
    BY <2>2 DEF IInv, CallsKnow
  <2> QED
    BY <2>1, <2>3
<1>4. CASE ~(\E p \in Phones : Commit(p)) /\ ~(\E m \in migrations : CommitUsers(m))
  BY <1>1, <1>4 DEF Next, vars, Customer, Admin, Signup, OpenProfile, LoadProfile, TypeName,
     SaveProfile, CloseProfile, OpenUsers, LeaveUsers, ReadUsers, SwitchAdmin, SwitchRole,
     PickRestaurant, FailUsers
<1> QED
  BY <1>2, <1>3, <1>4

(* A role that was given stands, but for an administrator and a stale batch. *)
THEOREM GrantStandsHolds == Spec => GrantStands
<1>1. IInv /\ [Next]_vars =>
        [\A u \in Accounts :
           doc[u] # NoDoc /\ doc[u].role = "yes" /\ doc'[u].role # "yes" =>
             \/ \E p \in Phones : queue[p] # <<>> /\ Head(queue[p]).field = "role" /\ Commit(p)
             \/ \E m \in migrations : u \in m.granted /\ CommitUsers(m)]_vars
  BY RoleTaken
<1> QED
  BY <1>1, Invariance, PTL DEF Spec, GrantStands

(* One step: the batch leaves none of the accounts it knew without role. *)
LEMMA BatchCompletes ==
  ASSUME IInv, NEW m \in migrations, CommitUsers(m), NEW u \in m.known
  PROVE  doc'[u].role # "unset"
<1>1. u \in Accounts /\ doc[u] \in Doc /\ (u \in m.targets \/ doc[u].role # "unset")
  BY DEF IInv, CallsKnow, TypeOK, Migration
<1>2. CASE u \in m.targets
  BY <1>1, <1>2 DEF CommitUsers, Doc
<1>3. CASE u \notin m.targets
  BY <1>1, <1>3 DEF CommitUsers
<1> QED
  BY <1>2, <1>3

(* A call of the function that succeeds has done what it was called for. *)
THEOREM MigrationCompletesHolds == Spec => MigrationCompletes
<1>1. IInv /\ [Next]_vars =>
        [\A m \in migrations : CommitUsers(m) =>
           \A u \in m.known : doc'[u].role # "unset"]_vars
  BY BatchCompletes
<1> QED
  BY <1>1, Invariance, PTL DEF Spec, MigrationCompletes

=============================================================================
