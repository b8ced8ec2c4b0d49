-------------------------------- MODULE Users --------------------------------
(***************************************************************************)
(* The documents of the collection 'users': who writes which field, from   *)
(* how many phones, and when.                                              *)
(*                                                                         *)
(* Signing up writes the whole document; the profile page, opened on what  *)
(* it reads, updates the name; the administrators' page, which listens to  *)
(* the collection, updates roles; updateExistingUsers gives the accounts   *)
(* without a role theirs, from one read and in one batch.  The phones send *)
(* their writes when they can, each in its order; nobody awaits the others.*)
(***************************************************************************)
EXTENDS Integers, Sequences, FiniteSets, FiniteSetsExt

CONSTANTS
  Accounts,
  Phones, HolderOf,  \* each phone is signed in to one account
  NoDoc,             \* the account has no document
  MaxWrites,         \* bound: writes the phones have not sent yet
  MaxCalls           \* bound: calls of updateExistingUsers under way

(* The fields two actors write; "blank" is the empty display_name, role is  *)
(* 'isRestaurateur' and shop tells whether 'restaurantId' is there.         *)
Doc == [name : {"blank", "given"}, role : {"unset", "no", "yes"},
        admin : BOOLEAN, shop : BOOLEAN]

NewDoc == [name |-> "given", role |-> "no", admin |-> FALSE, shop |-> FALSE]

(* A write names the field it updates, or sets the document of a sign-up. *)
Write ==
  [to : Accounts, field : {"name"}, value : {"blank", "given"}] \cup
  [to : Accounts, field : {"role"}, value : {"no", "yes"}] \cup
  [to : Accounts, field : {"admin", "shop"}, value : BOOLEAN] \cup
  [to : Accounts, field : {"all"}, value : {NewDoc}]

(* A call of the function: what it read, and what has happened since.       *)
Migration == [known : SUBSET Accounts, targets : SUBSET Accounts, granted : SUBSET Accounts]

Form == [stage : {"closed", "loading", "open"}, loaded : BOOLEAN,
         name : {"blank", "given"}, admin : BOOLEAN]

ASSUME UsersAssumption ==
  /\ HolderOf \in [Phones -> Accounts]
  /\ NoDoc \notin Doc
  /\ MaxWrites \in Nat /\ MaxCalls \in Nat

VARIABLES
  registered,  \* accounts that exist
  doc,         \* the collection 'users'
  queue,       \* the writes of each phone, in order
  form,        \* the ProfilePage of each phone
  usersPage,   \* the phones that show UserAdminPage
  migrations,  \* calls of updateExistingUsers between read and commit
  early        \* history: accounts whose profile was saved before it was loaded

vars == <<registered, doc, queue, form, usersPage, migrations, early>>

-----------------------------------------------------------------------------
NoForm == [stage |-> "closed", loaded |-> FALSE, name |-> "blank", admin |-> FALSE]

(* The document with the field of a write changed. *)
Updated(d, w) ==
  [name  |-> IF w.field = "name"  THEN w.value ELSE d.name,
   role  |-> IF w.field = "role"  THEN w.value ELSE d.role,
   admin |-> IF w.field = "admin" THEN w.value ELSE d.admin,
   shop  |-> IF w.field = "shop"  THEN w.value ELSE d.shop]

(* Mutant: set() in the place of update(). *)
AppliedBySet(d, w) ==
  IF w.field = "all" THEN w.value
  ELSE IF d = NoDoc THEN NoDoc
  ELSE IF w.field = "name"
       THEN [name |-> w.value, role |-> "unset", admin |-> FALSE, shop |-> FALSE]
       ELSE Updated(d, w)

(* set() leaves the new document, update() changes its field or fails. *)
Applied(d, w) ==
  IF w.field = "all" THEN w.value
  ELSE IF d = NoDoc THEN NoDoc
  ELSE Updated(d, w)

(* What phone p may show of u's document, with the writes that wait on it. *)
Held(p, u, f) ==
  {w.value : w \in {queue[p][i] : i \in {j \in DOMAIN queue[p] :
                                        queue[p][j].to = u /\ queue[p][j].field = f}}}

Shown(p, u) ==
  LET whole == ({doc[u]} \cup Held(p, u, "all")) \ {NoDoc} IN
  IF whole = {} THEN {NoDoc}
  ELSE {d \in Doc : \E b \in whole :
          /\ d.name \in {b.name} \cup Held(p, u, "name")
          /\ d.role \in {b.role} \cup Held(p, u, "role")
          /\ d.admin \in {b.admin} \cup Held(p, u, "admin")
          /\ d.shop \in {b.shop} \cup Held(p, u, "shop")}

Waiting == MapThenSumSet(LAMBDA p : Len(queue[p]), Phones)

Send(p, w) ==
  /\ Waiting < MaxWrites
  /\ queue' = [queue EXCEPT ![p] = Append(@, w)]

(* Accounts of before the roles, accounts whose signing up was cut, and the *)
(* administrators the program was delivered with.                           *)
Init ==
  /\ doc \in [Accounts -> {NoDoc} \cup
               [name : {"given"}, role : {"unset", "no"}, admin : BOOLEAN, shop : {FALSE}]]
  /\ registered \in SUBSET Accounts
  /\ \A u \in Accounts : doc[u] # NoDoc => u \in registered
  /\ queue = [p \in Phones |-> <<>>]
  /\ form = [p \in Phones |-> NoForm]
  /\ usersPage = {}
  /\ migrations = {}
  /\ early = {}

(***************************************************************************)
(* LoginSignupPage._signup.                                                *)
(***************************************************************************)
Signup(p) ==
  LET u == HolderOf[p] IN
  /\ u \notin registered
  /\ registered' = registered \cup {u}
  /\ Send(p, [to |-> u, field |-> "all", value |-> NewDoc])
  /\ UNCHANGED <<doc, form, usersPage, migrations, early>>

(***************************************************************************)
(* ProfilePage.                                                            *)
(***************************************************************************)
OpenProfile(p) ==
  /\ HolderOf[p] \in registered
  /\ form[p].stage = "closed"
  /\ form' = [form EXCEPT ![p] = [NoForm EXCEPT !.stage = "loading"]]
  /\ UNCHANGED <<registered, doc, queue, usersPage, migrations, early>>

(* Mutant: the city, which is empty at first, goes into the field of the name. *)
LoadCity(p) ==
  /\ form[p].stage = "loading"
  /\ \E d \in Shown(p, HolderOf[p]) :
       form' = [form EXCEPT ![p] =
         IF d = NoDoc THEN [@ EXCEPT !.stage = "open"]
         ELSE [stage |-> "open", loaded |-> TRUE, name |-> "blank", admin |-> d.admin]]
  /\ UNCHANGED <<registered, doc, queue, usersPage, migrations, early>>

(* _loadUserData, when get() answers: what was typed meanwhile is replaced;  *)
(* without document nothing is.                                              *)
LoadProfile(p) ==
  /\ form[p].stage = "loading"
  /\ \E d \in Shown(p, HolderOf[p]) :
       form' = [form EXCEPT ![p] =
         IF d = NoDoc THEN [@ EXCEPT !.stage = "open"]
         ELSE [stage |-> "open", loaded |-> TRUE, name |-> d.name, admin |-> d.admin]]
  /\ UNCHANGED <<registered, doc, queue, usersPage, migrations, early>>

(* The user types a name; nobody empties the field. *)
TypeName(p) ==
  /\ form[p].stage # "closed"
  /\ form' = [form EXCEPT ![p].name = "given"]
  /\ UNCHANGED <<registered, doc, queue, usersPage, migrations, early>>

(* The button is there from the start, whatever has been loaded. *)
SaveProfile(p) ==
  LET u == HolderOf[p] IN
  /\ form[p].stage # "closed"
  /\ Send(p, [to |-> u, field |-> "name", value |-> form[p].name])
  /\ early' = IF form[p].loaded THEN early ELSE early \cup {u}
  /\ UNCHANGED <<registered, doc, form, usersPage, migrations>>

CloseProfile(p) ==
  /\ form[p].stage # "closed"
  /\ p \notin usersPage
  /\ form' = [form EXCEPT ![p] = NoForm]
  /\ UNCHANGED <<registered, doc, queue, usersPage, migrations, early>>

(***************************************************************************)
(* UserAdminPage, reached from the profile of an administrator and open    *)
(* until it is left, whatever becomes of his role.                         *)
(***************************************************************************)
OpenUsers(p) ==
  /\ form[p].admin
  /\ usersPage' = usersPage \cup {p}
  /\ UNCHANGED <<registered, doc, queue, form, migrations, early>>

LeaveUsers(p) ==
  /\ p \in usersPage
  /\ usersPage' = usersPage \ {p}
  /\ UNCHANGED <<registered, doc, queue, form, migrations, early>>

(* The documents with a card: there is none without document, and name[0]   *)
(* of an empty name throws in its place.                                      *)
Cards(p, u) ==
  IF p \in usersPage THEN {d \in Shown(p, u) \ {NoDoc} : d.name # "blank"} ELSE {}

SwitchAdmin(p, u) ==
  /\ \E d \in Cards(p, u) : Send(p, [to |-> u, field |-> "admin", value |-> ~d.admin])
  /\ UNCHANGED <<registered, doc, form, usersPage, migrations, early>>

(* Mutant: switching the role off removes the field. *)
SwitchRoleByDelete(p, u) ==
  /\ \E d \in Cards(p, u) : Send(p, [to |-> u, field |-> "role",
                                   value |-> IF d.role = "yes" THEN "unset" ELSE "yes"])
  /\ UNCHANGED <<registered, doc, form, usersPage, migrations, early>>

SwitchRole(p, u) ==
  /\ \E d \in Cards(p, u) : Send(p, [to |-> u, field |-> "role",
                                   value |-> IF d.role = "yes" THEN "no" ELSE "yes"])
  /\ UNCHANGED <<registered, doc, form, usersPage, migrations, early>>

(* The list of restaurants is on the card of a restaurateur only. *)
PickRestaurant(p, u) ==
  /\ \E d \in Cards(p, u) : d.role = "yes"
  /\ Send(p, [to |-> u, field |-> "shop", value |-> TRUE])
  /\ UNCHANGED <<registered, doc, form, usersPage, migrations, early>>

(***************************************************************************)
(* updateExistingUsers.                                                    *)
(***************************************************************************)
Documented == {u \in Accounts : doc[u] # NoDoc}

(* Mutant: the batch is for everybody. *)
ReadUsersAll(p) ==
  /\ p \in usersPage
  /\ Cardinality(migrations) < MaxCalls
  /\ migrations' = migrations \cup
       {[known |-> Documented, granted |-> {}, targets |-> Documented]}
  /\ UNCHANGED <<registered, doc, queue, form, usersPage, early>>

(* One read of the collection: a batch for the documents without role. *)
ReadUsers(p) ==
  /\ p \in usersPage
  /\ Cardinality(migrations) < MaxCalls
  /\ migrations' = migrations \cup
       {[known |-> Documented, granted |-> {},
         targets |-> {u \in Documented : doc[u].role = "unset"}]}
  /\ UNCHANGED <<registered, doc, queue, form, usersPage, early>>

(* Documents are never deleted: the batch finds them all. *)
CommitUsers(m) ==
  /\ m \in migrations
  /\ doc' = [u \in Accounts |-> IF u \in m.targets THEN [doc[u] EXCEPT !.role = "no"] ELSE doc[u]]
  /\ migrations' = migrations \ {m}
  /\ UNCHANGED <<registered, queue, form, usersPage, early>>

(* The function ends in an error, which the administrator reads. *)
FailUsers(m) ==
  /\ m \in migrations
  /\ migrations' = migrations \ {m}
  /\ UNCHANGED <<registered, doc, queue, form, usersPage, early>>

(***************************************************************************)
(* Firestore: the oldest write of a phone is committed or turned down.     *)
(***************************************************************************)
Grants(w) == w.field = "role" /\ w.value = "yes"

Commit(p) ==
  LET w == Head(queue[p]) IN
  /\ queue[p] # <<>>
  /\ queue' = [queue EXCEPT ![p] = Tail(@)]
  /\ doc' = [doc EXCEPT ![w.to] = Applied(@, w)]
  /\ migrations' = IF Grants(w) THEN {[m EXCEPT !.granted = @ \cup {w.to}] : m \in migrations}
                                ELSE migrations
  /\ UNCHANGED <<registered, form, usersPage, early>>

-----------------------------------------------------------------------------
Customer(p) ==
  Signup(p) \/ OpenProfile(p) \/ LoadProfile(p) \/ TypeName(p) \/ SaveProfile(p) \/ CloseProfile(p)

Admin(p) ==
  \/ OpenUsers(p) \/ LeaveUsers(p) \/ ReadUsers(p)
  \/ \E u \in Accounts : SwitchAdmin(p, u) \/ SwitchRole(p, u) \/ PickRestaurant(p, u)

Next ==
  \/ \E p \in Phones : Customer(p) \/ Admin(p) \/ Commit(p)
  \/ \E m \in migrations : CommitUsers(m) \/ FailUsers(m)

Spec == Init /\ [][Next]_vars

-----------------------------------------------------------------------------
(* The types of the documents, the writes on their way and the pages. *)
TypeOK ==
  /\ registered \subseteq Accounts
  /\ doc \in [Accounts -> Doc \cup {NoDoc}]
  /\ queue \in [Phones -> Seq(Write)]
  /\ form \in [Phones -> Form]
  /\ usersPage \subseteq Phones
  /\ migrations \subseteq Migration
  /\ early \subseteq Accounts

(* A customer's own writes leave alone what administrators decide: whatever  *)
(* the phones, the order and the delay, saving a profile touches no role,    *)
(* and the document of a sign-up never replaces one that is there.           *)
RolesOnlyByAdmins ==
  [][\A p \in Phones, u \in Accounts :
       Commit(p) /\ Head(queue[p]).field \in {"name", "all"} /\ doc[u] # NoDoc =>
         /\ doc'[u] # NoDoc
         /\ doc'[u].role = doc[u].role /\ doc'[u].admin = doc[u].admin
         /\ doc'[u].shop = doc[u].shop]_vars

(* A role that was given is taken back by an administrator only, or by the   *)
(* one call of the function that had read the document before it was given:  *)
(* its batch does not look again.                                            *)
GrantStands ==
  [][\A u \in Accounts :
       doc[u] # NoDoc /\ doc[u].role = "yes" /\ doc'[u].role # "yes" =>
         \/ \E p \in Phones : queue[p] # <<>> /\ Head(queue[p]).field = "role" /\ Commit(p)
         \/ \E m \in migrations : u \in m.granted /\ CommitUsers(m)]_vars

(* When the function has ended every account it found has a role, though the *)
(* documents were written to between its read and its batch.                 *)
MigrationCompletes ==
  [][\A m \in migrations : CommitUsers(m) =>
       \A u \in m.known : doc'[u].role # "unset"]_vars

(* An account whose name is empty has no card on the administrators' page    *)
(* and cannot be given a role.  Nobody has to empty his name for that, but   *)
(* somebody has to save his profile before it was loaded.                    *)
BlankNameFromEarlySave ==
  \A u \in Accounts : doc[u] # NoDoc /\ doc[u].name = "blank" => u \in early

=============================================================================
