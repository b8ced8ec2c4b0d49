--------------------------- MODULE CatalogueProofs ---------------------------
(***************************************************************************)
(* The names the products carry, for any number of categories, products,    *)
(* names and forms.                                                         *)
(*                                                                         *)
(* A commit of the function takes its rename off the list, and with it the  *)
(* excuse of every product that still carries the old name.  NextAccounted  *)
(* therefore needs FoundAll: a product the query of an invocation missed    *)
(* carries the old name only if that name is somebody else's or was left    *)
(* behind.  It survives because no second rename can start meanwhile, which *)
(* is what MaxPending = 1 says.                                             *)
(***************************************************************************)
EXTENDS Catalogue, FiniteSetTheorems, WellFoundedInduction, TLAPS

Known == CurrentNames \cup strays

OnePending == \A e1, e2 \in Pending : e1 = e2

EventsKnown == \A e \in Pending : e.after \in Known

FoundAll ==
  \A h \in handlers : \A p \in Existing \ h.found :
    product[p].category = h.event.before => h.event.before \in Known

IInv == TypeOK /\ OnePending /\ EventsKnown /\ FoundAll /\ Accounted

-----------------------------------------------------------------------------
(* What is in the collections is what is neither unused nor gone. *)
LEMMA ExistingType ==
  ASSUME TypeOK
  PROVE  /\ \A p \in Existing : p \in ProductIds /\ product[p] \in Product
         /\ \A p \in ProductIds : product[p] \in Product => p \in Existing
         /\ CurrentNames \subseteq Names
         /\ \A c \in CategoryIds : category[c] \in Names => category[c] \in CurrentNames
  BY CatalogueAssumption DEF TypeOK, Existing, CurrentNames, Labels

(* The list of a form has a first category, or none at all. *)
LEMMA FirstCategoryType ==
  ASSUME TypeOK
  PROVE  FirstCategory \in Labels
<1>1. CASE CurrentNames = {}
  BY <1>1 DEF FirstCategory, Labels
<1>2. CASE CurrentNames # {}
  <2> DEFINE S == {c \in CategoryIds : category[c] \in Names}
  <2>1. S # {} /\ S \subseteq Nat
    BY <1>2, ExistingType, CatalogueAssumption DEF CurrentNames
  <2>2. \E c \in S : \A d \in S : c <= d
    <3> DEFINE R == OpToRel(<, Nat)
    <3>1. IsWellFoundedOn(R, Nat)
      BY NatLessThanWellFounded
    <3>2. \A i, j \in Nat : i < j => <<i, j>> \in R
      BY DEF OpToRel
    <3> HIDE DEF R, S
    <3>3. PICK c \in S : \A d \in S : <<d, c>> \notin R
      BY <2>1, <3>1, WFMin
    <3>4. ASSUME NEW d \in S PROVE c <= d
      <4>1. ~(d < c) /\ c \in Nat /\ d \in Nat
        BY <2>1, <3>2, <3>3
      <4> QED
        BY <4>1
    <3> QED
      BY <3>4
  <2>3. Min(S) \in S
    BY <2>2 DEF Min
  <2> QED
    BY <1>2, <2>3 DEF FirstCategory, Labels
<1> QED
  BY <1>1, <1>2

(* A catalogue in order. *)
LEMMA InitType == Init => TypeOK
<1> SUFFICES ASSUME Init PROVE TypeOK
  OBVIOUS
<1>1. category \in [CategoryIds -> Names \cup {Unused, Gone}]
  BY DEF Init
<1>2. CurrentNames \subseteq Names
  BY <1>1 DEF CurrentNames
<1>3. {[category |-> n, categoryId |-> NoId] : n \in CurrentNames \cup {NoName}} \subseteq Product
  BY <1>2 DEF Product, Labels
<1>4. product \in [ProductIds -> Product \cup {Unused, Gone}]
  BY <1>3 DEF Init
<1>5. forms \in [Forms -> Form]
  BY DEF Init, NoForm, Form, Labels
<1> QED
  BY <1>1, <1>4, <1>5 DEF Init, TypeOK

(* The categories and the function. *)
LEMMA StoreType ==
  ASSUME TypeOK,
         \/ \E c \in CategoryIds : \/ DeleteCategory(c)
                                   \/ \E n \in Names : AddCategory(c, n) \/ RenameCategory(c, n)
         \/ SyncRead \/ \E p \in ProductIds : SyncUpdate(p) \/ DeleteProduct(p)
         \/ Function
  PROVE  TypeOK'
<1>1. ASSUME NEW c \in CategoryIds, NEW n \in Names, AddCategory(c, n) PROVE TypeOK'
  BY <1>1 DEF AddCategory, TypeOK
<1>2. ASSUME NEW c \in CategoryIds, NEW n \in Names, RenameCategory(c, n) PROVE TypeOK'
  <2>1. category[c] \in Names
    BY <1>2 DEF RenameCategory, TypeOK
  <2>2. [id |-> c, before |-> category[c], after |-> n] \in Event
    BY <2>1 DEF Event
  <2> QED
    BY <1>2, <2>2 DEF RenameCategory, TypeOK
<1>3. ASSUME NEW c \in CategoryIds, DeleteCategory(c) PROVE TypeOK'
  BY <1>3 DEF DeleteCategory, TypeOK, Labels
<1>4. CASE SyncRead
  BY <1>4 DEF SyncRead, TypeOK, Existing
<1>5. ASSUME NEW p \in ProductIds, SyncUpdate(p) PROVE TypeOK'
  <2>1. p \in Existing => [product[p] EXCEPT !.category = Autre] \in Product
    BY ExistingType DEF Product, Labels
  <2> QED
    BY <1>5, <2>1 DEF SyncUpdate, TypeOK
<1>6. ASSUME NEW p \in ProductIds, DeleteProduct(p) PROVE TypeOK'
  BY <1>6 DEF DeleteProduct, TypeOK
<1>7. ASSUME NEW e \in events, StartHandler(e) PROVE TypeOK'
  BY <1>7 DEF StartHandler, TypeOK, Handler, Existing
<1>8. ASSUME NEW h \in handlers, CommitBatch(h) PROVE TypeOK'
  <2>1. [category |-> h.event.after, categoryId |-> h.event.id] \in Product
    BY DEF TypeOK, Handler, Event, Product, Labels
  <2> QED
    BY <1>8, <2>1 DEF CommitBatch, TypeOK
<1>9. ASSUME NEW h \in handlers, FailBatch(h) PROVE TypeOK'
  BY <1>9 DEF FailBatch, TypeOK, Handler, Event, Labels
<1> QED
  BY <1>1, <1>2, <1>3, <1>4, <1>5, <1>6, <1>7, <1>8, <1>9 DEF Function

(* The forms. *)
LEMMA FormType ==
  ASSUME TypeOK, NEW f \in Forms,
         \/ LoadCategories(f) \/ CloseForm(f) \/ SaveProduct(f) \/ CommitProduct(f)
         \/ \E p \in ProductIds \cup {NoId} : OpenForm(f, p)
         \/ \E n \in Names : PickCategory(f, n)
  PROVE  TypeOK'
<1>1. NoForm \in Form /\ forms[f] \in Form
  BY DEF NoForm, Form, Labels, TypeOK
<1>2. CASE LoadCategories(f)
  <2>1. FirstCategory \in Labels /\ CurrentNames \subseteq Names
    BY FirstCategoryType, ExistingType
  <2> QED
    BY <1>1, <1>2, <2>1 DEF LoadCategories, TypeOK, Form, Labels
<1>3. CASE CloseForm(f)
  BY <1>1, <1>3 DEF CloseForm, TypeOK
<1>4. CASE SaveProduct(f)
  BY <1>1, <1>4 DEF SaveProduct, TypeOK, Form
<1>5. ASSUME NEW p \in ProductIds \cup {NoId}, OpenForm(f, p) PROVE TypeOK'
  <2>1. CASE p = NoId /\ forms' = [forms EXCEPT ![f] = [NoForm EXCEPT !.stage = "loading"]]
    BY <1>1, <1>5, <2>1 DEF OpenForm, TypeOK, Form
  <2>2. CASE /\ p \in Existing
             /\ forms' = [forms EXCEPT ![f] =
                  [NoForm EXCEPT !.stage = "loading", !.target = p, !.category = product[p].category]]
    <3>1. p \in ProductIds /\ product[p].category \in Labels
      BY <2>2, ExistingType DEF Product
    <3> QED
      BY <1>1, <1>5, <2>2, <3>1 DEF OpenForm, TypeOK, Form
  <2> QED
    BY <1>5, <2>1, <2>2 DEF OpenForm
<1>6. ASSUME NEW n \in Names, PickCategory(f, n) PROVE TypeOK'
  BY <1>1, <1>6 DEF PickCategory, TypeOK, Form, Labels
<1>7. CASE CommitProduct(f)
  <2> DEFINE n == forms[f].category
             p == forms[f].target
  <2>1. n \in Labels /\ p \in ProductIds \cup {NoId}
    BY <1>1 DEF Form
  <2>2. \A q \in Existing : [product[q] EXCEPT !.category = n] \in Product
    BY <2>1, ExistingType DEF Product
  <2>3. [category |-> n, categoryId |-> NoId] \in Product
    BY <2>1 DEF Product
  <2>4. product' \in [ProductIds -> Product \cup {Unused, Gone}]
    BY <1>7, <2>2, <2>3 DEF CommitProduct, TypeOK
  <2>5. forms' \in [Forms -> Form]
    BY <1>1, <1>7 DEF CommitProduct, TypeOK, Form
  <2>6. strays' \subseteq Labels
    BY <1>7, <2>1 DEF CommitProduct, TypeOK
  <2> QED
    BY <1>7, <2>4, <2>5, <2>6 DEF CommitProduct, TypeOK
<1> QED
  BY <1>2, <1>3, <1>4, <1>5, <1>6, <1>7

(* Every step keeps the types. *)
LEMMA NextType == TypeOK /\ [Next]_vars => TypeOK'
<1>1. TypeOK /\ UNCHANGED vars => TypeOK'
  BY DEF TypeOK, vars
<1> QED
  BY <1>1, StoreType, FormType DEF Next, Admin

(* The types of the two collections, the events, the invocations, the forms. *)
THEOREM TypeCorrect == Spec => []TypeOK
  BY InitType, NextType, PTL DEF Spec

-----------------------------------------------------------------------------
(* What a step does to the names that are in use or were left behind. *)
LEMMA KnownGrows ==
  ASSUME TypeOK, strays \subseteq strays',
         category' = category \/ \E c \in CategoryIds : DeleteCategory(c)
                              \/ \E n \in Names : AddCategory(c, n)
  PROVE  Known \subseteq Known'
<1>1. CASE category' = category
  BY <1>1 DEF Known, CurrentNames
<1>2. ASSUME NEW c \in CategoryIds, DeleteCategory(c) PROVE Known \subseteq Known'
  BY <1>2 DEF Known, CurrentNames, DeleteCategory, TypeOK
<1>3. ASSUME NEW c \in CategoryIds, NEW n \in Names, AddCategory(c, n)
      PROVE  Known \subseteq Known'
  BY <1>3 DEF Known, CurrentNames, AddCategory, TypeOK
<1> QED
  BY <1>1, <1>2, <1>3

(* A step that takes no rename off the list and gives every product it      *)
(* touches a name that is accounted for.                                    *)
LEMMA QuietStep ==
  ASSUME IInv, TypeOK', Known \subseteq Known', Pending' = Pending,
         handlers' = handlers,
         \A p \in Existing' :
           \/ p \in Existing /\ product'[p].category = product[p].category
           \/ product'[p].category \in Known' \cup {Autre, NoName}
  PROVE  IInv'
<1> USE DEF IInv
<1>1. OnePending' /\ EventsKnown'
  BY DEF OnePending, EventsKnown
<1>2. FoundAll'
  <2> SUFFICES ASSUME NEW h \in handlers', NEW p \in Existing' \ h.found,
                      product'[p].category = h.event.before
               PROVE  h.event.before \in Known'
    BY DEF FoundAll
  <2>1. CASE p \in Existing /\ product'[p].category = product[p].category
    BY <2>1 DEF FoundAll
  <2>2. CASE product'[p].category \in Known' \cup {Autre, NoName}
    <3>1. h.event.before \in Names
      BY DEF TypeOK, Handler, Event
    <3> QED
      BY <2>2, <3>1, CatalogueAssumption
  <2> QED
    BY <2>1, <2>2
<1>3. Accounted'
  BY DEF Accounted, Known
<1> QED
  BY <1>1, <1>2, <1>3

(* The catalogue one starts on has nothing to account for. *)
LEMMA InitAccounted == Init => IInv
<1> SUFFICES ASSUME Init PROVE IInv
  OBVIOUS
<1>1. TypeOK
  BY InitType
<1>2. Pending = {} /\ handlers = {}
  BY DEF Init, Pending
<1>3. Accounted
  <2> SUFFICES ASSUME NEW p \in Existing PROVE product[p].category \in CurrentNames \cup {NoName}
    BY DEF Accounted
  <2> DEFINE F == {[category |-> n, categoryId |-> NoId] : n \in CurrentNames \cup {NoName}}
  <2>1. product[p] \in F
    BY DEF Init, Existing
  <2> QED
    BY <2>1
<1> QED
  BY <1>1, <1>2, <1>3 DEF IInv, OnePending, EventsKnown, FoundAll

(* A rename: nothing is on its way, and the old name is now excused by it. *)
LEMMA RenameAccounted ==
  ASSUME MaxPending = 1, IInv, TypeOK', NEW c \in CategoryIds, NEW n \in Names,
         RenameCategory(c, n)
  PROVE  IInv'
<1> USE DEF IInv
<1> DEFINE e == [id |-> c, before |-> category[c], after |-> n]
<1>1. Pending = {}
  <2>1. Cardinality(Pending) < 1
    BY DEF RenameCategory
  <2>2. CASE Pending # {}
    <3>1. PICK x : Pending = {x}
      BY <2>2 DEF OnePending
    <3> QED
      BY <2>1, <3>1, FS_Singleton
  <2> QED
    BY <2>2
<1>2. /\ events' = {e} /\ handlers' = {} /\ Pending' = {e}
      /\ category' = [category EXCEPT ![c] = n]
      /\ UNCHANGED <<product, strays>>
  BY <1>1 DEF RenameCategory, Pending
<1>3. n \in CurrentNames' /\ e.before = category[c] /\ e.after = n
  BY <1>2, CatalogueAssumption DEF CurrentNames, TypeOK, Labels
<1>4. CurrentNames \subseteq CurrentNames' \cup {e.before}
  BY <1>2, <1>3 DEF CurrentNames, TypeOK
<1> HIDE DEF e
<1>5. OnePending' /\ EventsKnown' /\ FoundAll'
  BY <1>2, <1>3 DEF OnePending, EventsKnown, FoundAll, Known
<1>6. Accounted'
  <2> SUFFICES ASSUME NEW p \in Existing
               PROVE  product[p].category \in CurrentNames' \cup {Autre, NoName} \cup strays
                                               \cup {e.before}
    BY <1>2 DEF Accounted, Existing
  <2>1. product[p].category \in CurrentNames \cup {Autre, NoName} \cup strays
    BY <1>1 DEF Accounted
  <2> QED
    BY <1>4, <2>1
<1> QED
  BY <1>5, <1>6

(* A batch is committed: what the query missed is accounted for. *)
LEMMA CommitAccounted ==
  ASSUME IInv, TypeOK', NEW h \in handlers, CommitBatch(h)
  PROVE  IInv'
<1> USE DEF IInv
<1>1. /\ UNCHANGED <<category, strays>> /\ handlers' = handlers \ {h}
      /\ events' \subseteq events
      /\ \A p \in ProductIds :
           \/ p \in h.found /\ p \in Existing /\ product'[p].category = h.event.after
           \/ p \notin h.found /\ product'[p] = product[p]
  BY DEF CommitBatch
<1>2. Known' = Known /\ Pending' \subseteq Pending /\ h.event \in Pending
  BY <1>1 DEF Known, CurrentNames, Pending
<1>3. h.event.after \in Known
  BY <1>2 DEF EventsKnown
<1>4. \A p \in Existing' :
        \/ p \in h.found /\ product'[p].category = h.event.after
        \/ p \in Existing \ h.found /\ product'[p] = product[p]
  BY <1>1 DEF Existing
<1>5. OnePending' /\ EventsKnown'
  BY <1>2 DEF OnePending, EventsKnown
<1>6. FoundAll'
  <2> SUFFICES ASSUME NEW g \in handlers', NEW p \in Existing' \ g.found,
                      product'[p].category = g.event.before
               PROVE  g.event.before \in Known
    BY <1>2 DEF FoundAll
  <2>1. CASE product'[p].category = h.event.after
    BY <1>3, <2>1
  <2>2. CASE p \in Existing /\ product'[p] = product[p]
    BY <1>1, <2>2 DEF FoundAll
  <2> QED
    BY <1>4, <2>1, <2>2
<1>7. Accounted'
  <2> SUFFICES ASSUME NEW p \in Existing'
               PROVE  product'[p].category \in Known \cup {Autre, NoName}
    BY <1>2 DEF Accounted, Known
  <2>1. CASE product'[p].category = h.event.after
    BY <1>3, <2>1
  <2>2. CASE p \in Existing \ h.found /\ product'[p] = product[p]
    <3>1. \A e \in Pending : e = h.event
      BY <1>2 DEF OnePending
    <3>2. product[p].category \in Known \cup {Autre, NoName} \cup {h.event.before}
      BY <2>2, <3>1 DEF Accounted, Known
    <3>3. product[p].category = h.event.before => product[p].category \in Known
      BY <2>2 DEF FoundAll
    <3> QED
      BY <2>2, <3>2, <3>3
  <2> QED
    BY <1>4, <2>1, <2>2
<1> QED
  BY <1>5, <1>6, <1>7

(* A batch fails: the old name is among those left behind. *)
LEMMA FailAccounted ==
  ASSUME IInv, TypeOK', NEW h \in handlers, FailBatch(h)
  PROVE  IInv'
<1> USE DEF IInv
<1>1. /\ UNCHANGED <<category, product>> /\ handlers' = handlers \ {h}
      /\ events' \subseteq events /\ strays' = strays \cup {h.event.before}
  BY DEF FailBatch
<1>2. /\ Known' = Known \cup {h.event.before} /\ Pending' \subseteq Pending
      /\ h.event \in Pending /\ Existing' = Existing
  BY <1>1 DEF Known, CurrentNames, Pending, Existing
<1>3. OnePending' /\ EventsKnown'
  BY <1>2 DEF OnePending, EventsKnown
<1>4. FoundAll'
  BY <1>1, <1>2 DEF FoundAll
<1>5. Accounted'
  <2> SUFFICES ASSUME NEW p \in Existing
               PROVE  product[p].category \in Known' \cup {Autre, NoName}
    BY <1>1, <1>2 DEF Accounted, Known
  <2>1. \A e \in Pending : e = h.event
    BY <1>2 DEF OnePending
  <2> QED
    BY <1>2, <2>1 DEF Accounted, Known
<1> QED
  BY <1>3, <1>4, <1>5

(* The other steps of administrators, forms and the function. *)
LEMMA OtherAccounted ==
  ASSUME IInv, TypeOK',
         \/ \E c \in CategoryIds : \/ DeleteCategory(c)
                                   \/ \E n \in Names : AddCategory(c, n)
         \/ SyncRead \/ \E p \in ProductIds : SyncUpdate(p) \/ DeleteProduct(p)
         \/ \E f \in Forms :
              \/ LoadCategories(f) \/ CloseForm(f) \/ SaveProduct(f) \/ CommitProduct(f)
              \/ \E p \in ProductIds \cup {NoId} : OpenForm(f, p)
              \/ \E n \in Names : PickCategory(f, n)
  PROVE  IInv'
<1> USE DEF IInv
<1>1. UNCHANGED <<events, handlers>> /\ Pending' = Pending
  BY DEF DeleteCategory, AddCategory, SyncRead, SyncUpdate, DeleteProduct, LoadCategories,
     CloseForm, SaveProduct, CommitProduct, OpenForm, PickCategory, Pending
<1>2. Known \subseteq Known'
  <2>1. strays \subseteq strays'
    BY DEF DeleteCategory, AddCategory, SyncRead, SyncUpdate, DeleteProduct, LoadCategories,
       CloseForm, SaveProduct, CommitProduct, OpenForm, PickCategory
  <2>2. \/ category' = category
        \/ \E c \in CategoryIds : DeleteCategory(c) \/ \E n \in Names : AddCategory(c, n)
    BY DEF SyncRead, SyncUpdate, DeleteProduct, LoadCategories,
       CloseForm, SaveProduct, CommitProduct, OpenForm, PickCategory
  <2> QED
    BY <2>1, <2>2, KnownGrows
<1>3. \A p \in Existing' :
        \/ p \in Existing /\ product'[p].category = product[p].category
        \/ product'[p].category \in Known' \cup {Autre, NoName}
  <2>1. CASE product' = product
    BY <2>1 DEF Existing
  <2>2. ASSUME NEW q \in ProductIds, SyncUpdate(q), product' # product,
               NEW p \in Existing'
        PROVE  \/ p \in Existing /\ product'[p].category = product[p].category
               \/ product'[p].category = Autre
    <3>1. q \in Existing /\ product' = [product EXCEPT ![q].category = Autre]
      BY <2>2 DEF SyncUpdate
    <3>2. product[q] \in Product /\ p \in ProductIds
      BY <3>1, ExistingType DEF Existing
    <3> QED
      BY <3>1, <3>2 DEF TypeOK, Existing, Product
  <2>3. ASSUME NEW q \in ProductIds, DeleteProduct(q), NEW p \in Existing'
        PROVE  p \in Existing /\ product'[p].category = product[p].category
    BY <2>3 DEF DeleteProduct, TypeOK, Existing
  <2>4. ASSUME NEW f \in Forms, CommitProduct(f), product' # product, NEW p \in Existing'
        PROVE  \/ p \in Existing /\ product'[p].category = product[p].category
               \/ product'[p].category \in Known'
    <3> DEFINE n == forms[f].category
    <3>1. n \in Known'
      BY <2>4 DEF CommitProduct, Known, CurrentNames
    <3>2. PICK q \in ProductIds :
            \/ q \in Existing /\ product' = [product EXCEPT ![q].category = n]
            \/ product' = [product EXCEPT ![q] = [category |-> n, categoryId |-> NoId]]
      BY <2>4, ExistingType DEF CommitProduct
    <3>3. p \in ProductIds
      BY DEF Existing
    <3>4. CASE p # q
      <4>1. product'[p] = product[p]
        BY <3>2, <3>3, <3>4 DEF TypeOK
      <4> QED
        BY <3>3, <4>1 DEF Existing
    <3>5. CASE p = q
      <4>1. product'[p].category = n
        BY <3>2, <3>5, ExistingType DEF TypeOK, Product
      <4> QED
        BY <3>1, <4>1
    <3> QED
      BY <3>4, <3>5
  <2>5. \/ product' = product
        \/ \E q \in ProductIds : SyncUpdate(q) \/ DeleteProduct(q)
        \/ \E f \in Forms : CommitProduct(f)
    BY DEF DeleteCategory, AddCategory, SyncRead, LoadCategories,
       CloseForm, SaveProduct, OpenForm, PickCategory
  <2> QED
    BY <2>1, <2>2, <2>3, <2>4, <2>5
<1> QED
  BY <1>1, <1>2, <1>3, QuietStep

(* The query of an invocation finds all there is to find. *)
LEMMA StartAccounted ==
  ASSUME IInv, TypeOK', NEW e \in events, StartHandler(e)
  PROVE  IInv'
<1> USE DEF IInv
<1> DEFINE h == [event |-> e, found |-> {p \in Existing : product[p].category = e.before}]
<1>1. /\ handlers' = handlers \cup {h}
      /\ UNCHANGED <<category, product, events, strays>>
  BY DEF StartHandler
<1>2. h.event = e /\ h.found = {p \in Existing : product[p].category = e.before}
  OBVIOUS
<1> HIDE DEF h
<1>3. Known' = Known /\ Existing' = Existing
  BY <1>1 DEF Known, CurrentNames, Existing
<1>4. Pending' = Pending /\ e \in Pending
  BY <1>1, <1>2 DEF Pending
<1>5. \A g \in handlers' :
        \/ g \in handlers
        \/ /\ g.event \in Pending
           /\ \A p \in Existing' \ g.found : product'[p].category # g.event.before
  BY <1>1, <1>2, <1>3, <1>4
<1>6. OnePending' /\ EventsKnown'
  BY <1>3, <1>4 DEF OnePending, EventsKnown
<1>7. FoundAll'
  BY <1>1, <1>3, <1>5 DEF FoundAll
<1>8. Accounted'
  <2>1. CurrentNames' = CurrentNames
    BY <1>1 DEF CurrentNames
  <2> QED
    BY <1>1, <1>3, <1>4, <2>1 DEF Accounted
<1> QED
  BY <1>6, <1>7, <1>8

(* Every step keeps the invariant, when renames come one at a time. *)
LEMMA NextAccounted == ASSUME MaxPending = 1 PROVE IInv /\ [Next]_vars => IInv'
<1> SUFFICES ASSUME IInv, [Next]_vars PROVE IInv'
  OBVIOUS
<1>1. TypeOK'
  BY NextType DEF IInv
<1>2. CASE UNCHANGED vars
  <2>1. UNCHANGED <<Known, Existing, Pending, CurrentNames>>
    BY <1>2 DEF vars, Known, Existing, Pending, CurrentNames
  <2> QED
    BY <1>1, <1>2, <2>1 DEF vars, IInv, OnePending, EventsKnown, FoundAll, Accounted
<1>3. CASE Function
  BY <1>1, <1>3, StartAccounted, CommitAccounted, FailAccounted DEF Function
<1>4. CASE Admin
  BY <1>1, <1>4, RenameAccounted, OtherAccounted DEF Admin
<1> QED
  BY <1>2, <1>3, <1>4 DEF Next

(* A stale name on a product has one of the causes the code accepts, when   *)
(* renames are dealt with one at a time.                                    *)
THEOREM AccountedHolds == ASSUME MaxPending = 1 PROVE Spec => []Accounted
<1>1. IInv => Accounted
  BY DEF IInv
<1> QED
  BY <1>1, InitAccounted, NextAccounted, PTL DEF Spec

=============================================================================
