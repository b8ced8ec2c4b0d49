------------------------------ MODULE Catalogue ------------------------------
(***************************************************************************)
(* The categories and the products that name them.                         *)
(*                                                                         *)
(* A product holds the NAME of its category.  Administrators rename and    *)
(* delete categories on AdminCategoryPage, edit products in forms that     *)
(* work on the data they were opened with, and may give every product      *)
(* without category the category 'Autre'.  The function                    *)
(* handleCategoryUpdate carries a rename over to the products, some time   *)
(* after it, and at least once.                                            *)
(***************************************************************************)
EXTENDS Integers, FiniteSets, FiniteSetsExt

CONSTANTS
  CategoryIds,  \* ids of the collection 'category'; a query returns them in order
  ProductIds,   \* ids of the collection 'product'
  Names,        \* names a category may have
  Autre,        \* the name assignDefaultCategoryToProducts gives
  Forms,        \* ProductAdminForm pages open at a time
  MaxPending,   \* bound: renames the function has not dealt with
  NoName,       \* no field, or an empty one
  Unused, Gone, \* an id without document yet, or not any more
  NoId

Labels  == Names \cup {Autre, NoName}
Product == [category : Labels, categoryId : CategoryIds \cup {NoId}]
Event   == [id : CategoryIds, before : Names, after : Names]
Handler == [event : Event, found : SUBSET ProductIds]
Form    == [stage : {"closed", "loading", "open", "saving"},
            target : ProductIds \cup {NoId}, category : Labels, offered : SUBSET Names]

ASSUME CatalogueAssumption ==
  /\ CategoryIds \subseteq Nat
  /\ Autre \notin Names /\ NoName \notin Names \cup {Autre}
  /\ {Unused, Gone} \cap (Labels \cup Product) = {}
  /\ NoId \notin CategoryIds \cup ProductIds
  /\ MaxPending \in Nat

VARIABLES
  category,   \* the collection 'category': the name of each document
  product,    \* the collection 'product'
  events,     \* document-updated events the function has yet to acknowledge
  handlers,   \* invocations of handleCategoryUpdate between get and commit
  forms,      \* ProductAdminForm pages
  todo,       \* products assignDefaultCategoryToProducts has yet to update
  strays      \* history: names that were left behind (see Accounted)

vars == <<category, product, events, handlers, forms, todo, strays>>

CurrentNames == {category[c] : c \in CategoryIds} \ {Unused, Gone}
Existing == {p \in ProductIds : product[p] \notin {Unused, Gone}}

\* Renames whose function has not finished.
Pending == events \cup {h.event : h \in handlers}

NoForm == [stage |-> "closed", target |-> NoId, category |-> NoName, offered |-> {}]

-----------------------------------------------------------------------------
(* Any catalogue in which products name existing categories, or, as old     *)
(* documents do, none.                                                      *)
Init ==
  /\ category \in [CategoryIds -> Names \cup {Unused}]
  /\ product \in [ProductIds -> {Unused} \cup
       {[category |-> n, categoryId |-> NoId] : n \in CurrentNames \cup {NoName}}]
  /\ events = {}
  /\ handlers = {}
  /\ forms = [f \in Forms |-> NoForm]
  /\ todo = {}
  /\ strays = {}

(***************************************************************************)
(* AdminCategoryPage.                                                      *)
(***************************************************************************)
AddCategory(c, n) ==
  /\ category[c] = Unused
  /\ category' = [category EXCEPT ![c] = n]
  /\ UNCHANGED <<product, events, handlers, forms, todo, strays>>

(* Nothing checks that the name is free. A write that changes nothing       *)
(* raises no event.                                                         *)
RenameCategory(c, n) ==
  /\ category[c] \notin {Unused, Gone, n}
  /\ Cardinality(Pending) < MaxPending
  /\ category' = [category EXCEPT ![c] = n]
  /\ events' = events \cup {[id |-> c, before |-> category[c], after |-> n]}
  /\ UNCHANGED <<product, handlers, forms, todo, strays>>

(* The products of a deleted category keep its name. *)
DeleteCategory(c) ==
  /\ category[c] \notin {Unused, Gone}
  /\ category' = [category EXCEPT ![c] = Gone]
  /\ strays' = strays \cup {category[c]}
  /\ UNCHANGED <<product, events, handlers, forms, todo>>

(* assignDefaultCategoryToProducts: one get, then one update per product    *)
(* that had no category in it; an update of a deleted one ends the loop.    *)
SyncRead ==
  /\ todo = {}
  /\ todo' = {p \in Existing : product[p].category = NoName}
  /\ UNCHANGED <<category, product, events, handlers, forms, strays>>

SyncUpdate(p) ==
  /\ p \in todo
  /\ \/ /\ p \in Existing
        /\ product' = [product EXCEPT ![p].category = Autre]
        /\ todo' = todo \ {p}
     \/ /\ p \notin Existing
        /\ todo' = {}
        /\ UNCHANGED product
  /\ UNCHANGED <<category, events, handlers, forms, strays>>

(***************************************************************************)
(* handleCategoryUpdate.                                                   *)
(***************************************************************************)
(* Mutant: the query asks for the new name. *)
StartHandlerOnNew(e) ==
  /\ e \in events
  /\ handlers' = handlers \cup
       {[event |-> e, found |-> {p \in Existing : product[p].category = e.after}]}
  /\ UNCHANGED <<category, product, events, forms, todo, strays>>

(* The query: the products that now carry the old name. *)
StartHandler(e) ==
  /\ e \in events
  /\ handlers' = handlers \cup
       {[event |-> e, found |-> {p \in Existing : product[p].category = e.before}]}
  /\ UNCHANGED <<category, product, events, forms, todo, strays>>

(* Mutant: the id is written in the place of the name. *)
CommitIdForName(h) ==
  /\ h \in handlers
  /\ h.found \subseteq Existing
  /\ product' = [p \in ProductIds |->
       IF p \in h.found
       THEN [category |-> h.event.id, categoryId |-> h.event.id] ELSE product[p]]
  /\ handlers' = handlers \ {h}
  /\ events' = events \ {h.event}
  /\ UNCHANGED <<category, forms, todo, strays>>

(* The batch is committed whole; the event is delivered again or is done.   *)
CommitBatch(h) ==
  /\ h \in handlers
  /\ h.found \subseteq Existing
  /\ product' = [p \in ProductIds |->
       IF p \in h.found
       THEN [category |-> h.event.after, categoryId |-> h.event.id] ELSE product[p]]
  /\ handlers' = handlers \ {h}
  /\ events' \in {events, events \ {h.event}}
  /\ UNCHANGED <<category, forms, todo, strays>>

(* One of the products was deleted: the whole batch fails and the function  *)
(* rethrows; a failed invocation is not retried.                            *)
FailBatch(h) ==
  /\ h \in handlers
  /\ ~(h.found \subseteq Existing)
  /\ handlers' = handlers \ {h}
  /\ events' = events \ {h.event}
  /\ strays' = strays \cup {h.event.before}
  /\ UNCHANGED <<category, product, forms, todo>>

(***************************************************************************)
(* ProductAdminForm and ProductAdminPage.                                  *)
(***************************************************************************)
(* initState: the form works on the data the list showed when it opened. *)
OpenForm(f, p) ==
  /\ forms[f].stage = "closed"
  /\ \/ p = NoId /\ forms' = [forms EXCEPT ![f] = [NoForm EXCEPT !.stage = "loading"]]
     \/ p \in Existing /\ forms' = [forms EXCEPT ![f] =
          [NoForm EXCEPT !.stage = "loading", !.target = p, !.category = product[p].category]]
  /\ UNCHANGED <<category, product, events, handlers, todo, strays>>

(* categories.first, in the order of the ids; null when there is none. *)
FirstCategory ==
  IF CurrentNames = {} THEN NoName
  ELSE category[Min({c \in CategoryIds : category[c] \in Names})]

(* _loadCategories: a category that is not in the list is replaced by the first. *)
LoadCategories(f) ==
  /\ forms[f].stage = "loading"
  /\ forms' = [forms EXCEPT ![f].stage = "open", ![f].offered = CurrentNames,
                            ![f].category = IF @ \in CurrentNames THEN @ ELSE FirstCategory]
  /\ UNCHANGED <<category, product, events, handlers, todo, strays>>

(* The drop-down list offers the names that were loaded, current or not. *)
PickCategory(f, n) ==
  /\ forms[f].stage = "open"
  /\ n \in forms[f].offered
  /\ forms' = [forms EXCEPT ![f].category = n]
  /\ UNCHANGED <<category, product, events, handlers, todo, strays>>

CloseForm(f) ==
  /\ forms[f].stage \in {"loading", "open"}
  /\ forms' = [forms EXCEPT ![f] = NoForm]
  /\ UNCHANGED <<category, product, events, handlers, todo, strays>>

(* The validators pass; the buttons are disabled until the write ends. *)
SaveProduct(f) ==
  /\ forms[f].stage \in {"loading", "open"}
  /\ forms[f].category # NoName
  /\ forms' = [forms EXCEPT ![f].stage = "saving"]
  /\ UNCHANGED <<category, product, events, handlers, todo, strays>>

(* The write: update() of the document, which fails when it is gone, or     *)
(* add(); categoryId is not among the fields.                               *)
CommitProduct(f) ==
  LET n == forms[f].category
      p == forms[f].target IN
  /\ forms[f].stage = "saving"
  /\ \/ /\ p \in Existing
        /\ product' = [product EXCEPT ![p].category = n]
        /\ forms' = [forms EXCEPT ![f] = NoForm]
     \/ /\ p = NoId
        /\ \E q \in ProductIds :
             product[q] = Unused /\ product' = [product EXCEPT ![q] = [category |-> n, categoryId |-> NoId]]
        /\ forms' = [forms EXCEPT ![f] = NoForm]
     \/ /\ p \in ProductIds \ Existing
        /\ forms' = [forms EXCEPT ![f].stage = "open"]
        /\ UNCHANGED product
  /\ strays' = IF product' # product /\ n \notin CurrentNames
               THEN strays \cup {n} ELSE strays
  /\ UNCHANGED <<category, events, handlers, todo>>

DeleteProduct(p) ==
  /\ p \in Existing
  /\ product' = [product EXCEPT ![p] = Gone]
  /\ UNCHANGED <<category, events, handlers, forms, todo, strays>>

-----------------------------------------------------------------------------
Admin ==
  \/ \E c \in CategoryIds : \/ DeleteCategory(c)
                            \/ \E n \in Names : AddCategory(c, n) \/ RenameCategory(c, n)
  \/ SyncRead \/ \E p \in ProductIds : SyncUpdate(p) \/ DeleteProduct(p)
  \/ \E f \in Forms : \/ LoadCategories(f) \/ CloseForm(f) \/ SaveProduct(f)
                      \/ CommitProduct(f)
                      \/ \E p \in ProductIds \cup {NoId} : OpenForm(f, p)
                      \/ \E n \in Names : PickCategory(f, n)

Function ==
  \/ \E e \in events : StartHandler(e)
  \/ \E h \in handlers : CommitBatch(h) \/ FailBatch(h)

Next == Admin \/ Function

Spec == Init /\ [][Next]_vars

(* The platform runs the function for every event it holds. *)
FairSpec ==
  /\ Spec
  /\ \A e \in Event :
       /\ WF_vars(StartHandler(e))
       /\ WF_vars(\E h \in handlers : h.event = e /\ (CommitBatch(h) \/ FailBatch(h)))

-----------------------------------------------------------------------------
(* The types of the two collections, the events, the function's invocations  *)
(* and the forms.                                                            *)
TypeOK ==
  /\ category \in [CategoryIds -> Names \cup {Unused, Gone}]
  /\ product \in [ProductIds -> Product \cup {Unused, Gone}]
  /\ events \subseteq Event
  /\ handlers \subseteq Handler
  /\ forms \in [Forms -> Form]
  /\ todo \subseteq ProductIds
  /\ strays \subseteq Labels

(* A product never keeps a name that no category has, except for a reason    *)
(* the code accepts: the rename is still on its way, or the name was left    *)
(* behind by the deletion of a category, by a form that saved what it was    *)
(* opened with, or by a batch that failed on a deleted product.  It is so as *)
(* long as renames are dealt with one at a time, which the code does not     *)
(* see to: RenameTakesAll is about two.                                      *)
Accounted ==
  \A p \in Existing :
    product[p].category \in CurrentNames \cup {Autre, NoName} \cup strays
                            \cup {e.before : e \in Pending}

(* A product that carries a name no category has any more does not do so for *)
(* ever: the rename, delivered at least once, catches up with it.             *)
Dangling(p) ==
  /\ p \in Existing
  /\ product[p].category \notin CurrentNames \cup {Autre, NoName} \cup strays

RenameCatchesUp == \A p \in ProductIds : Dangling(p) ~> ~Dangling(p)

(* What the comment "Recuperer tous les produits de l'ancienne categorie"    *)
(* says: a rename takes along all the products of the category, so that once *)
(* the function is done and nothing else interfered none keeps an old name.  *)
RenameTakesAll ==
  Pending = {} /\ strays = {} =>
    \A p \in Existing : product[p].category \in CurrentNames \cup {Autre, NoName}

=============================================================================
