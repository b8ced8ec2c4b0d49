----------------------------- MODULE OrderStatus -----------------------------
(***************************************************************************)
(* What becomes of an order after the checkout: AdminOrdersPage lists the  *)
(* orders of all customers and moves their status, OrdersPage shows a      *)
(* customer his own.  Both work on users/{uid}/orderedProduct; the copy in *)
(* 'orders' is written once, by the checkout, and left out here.           *)
(*                                                                         *)
(* The administrators' page does not listen: it reads the customers, then  *)
(* the orders of one customer after the other, once.  A change of status   *)
(* is an update() whose answer is shown on that page only.                 *)
(***************************************************************************)
EXTENDS Integers, FiniteSets, Sequences

CONSTANTS
  Users,      \* accounts
  OrderIds,   \* ids of the documents of users/{uid}/orderedProduct
  Admins,     \* AdminOrdersPage pages, each opened once
  Statuses,   \* the items of the drop-down list
  EnCours,    \* the one an order is placed with
  MaxUpdates, \* bound: updates of a page that are not answered
  NoUser, NoOrder

ASSUME StatusAssumption ==
  /\ EnCours \in Statuses
  /\ NoUser \notin Users \cup Admins
  /\ NoOrder \notin Statuses
  /\ MaxUpdates \in Nat

Change   == [order : OrderIds, status : Statuses]

(* The fields _submitOrder writes, and the field OrdersPage sorts by. *)
OrderFields == {"products", "type", "order_total", "delivery_fee", "delivery_city",
                "created_at", "status", "user_info"}
SortField == "createdAt"

VARIABLES
  users,     \* accounts that have a document in 'users'
  customer,  \* whose orderedProduct holds each order; NoUser before it is added
  status,    \* its 'status' there
  page,      \* AdminOrdersPage: stage, customers still to read, list shown
  queue,     \* per page, updates sent and not committed, in order
  acks,      \* per page, updates committed and not answered, in order
  atOpen,    \* history: the orders there were when the page was opened
  writer     \* history: the page whose update of an order was committed last

vars == <<users, customer, status, page, queue, acks, atOpen, writer>>

Page == [stage : {"new", "loading", "ready", "gone"}, left : SUBSET Users,
         list : [OrderIds -> Statuses \cup {NoOrder}]]

NewPage == [stage |-> "new", left |-> {}, list |-> [o \in OrderIds |-> NoOrder]]

Placed == {o \in OrderIds : customer[o] # NoUser}
OrdersOf(u) == {o \in OrderIds : customer[o] = u}
Listed(a) == {o \in OrderIds : page[a].list[o] # NoOrder}

-----------------------------------------------------------------------------
Init ==
  /\ users = {}
  /\ customer = [o \in OrderIds |-> NoUser]
  /\ status = [o \in OrderIds |-> EnCours]
  /\ page = [a \in Admins |-> NewPage]
  /\ queue = [a \in Admins |-> <<>>]
  /\ acks = [a \in Admins |-> <<>>]
  /\ atOpen = [a \in Admins |-> {}]
  /\ writer = [o \in OrderIds |-> NoUser]

(* _signup: the document follows the account, and may never come. *)
SignUp(u) ==
  /\ users' = users \cup {u}
  /\ UNCHANGED <<customer, status, page, queue, acks, atOpen, writer>>

(* _submitOrder: orderRef.add, by the customer's own device. *)
BookOrder(o, u) ==
  /\ customer[o] = NoUser
  /\ customer' = [customer EXCEPT ![o] = u]
  /\ UNCHANGED <<users, status, page, queue, acks, atOpen, writer>>

(* initState and the first get of _fetchAllOrders: the customers that have *)
(* a document.                                                             *)
OpenOrders(a) ==
  /\ page[a].stage = "new"
  /\ page' = [page EXCEPT ![a].stage = IF users = {} THEN "ready" ELSE "loading",
                          ![a].left = users]
  /\ atOpen' = [atOpen EXCEPT ![a] = UNION {OrdersOf(u) : u \in users}]
  /\ UNCHANGED <<users, customer, status, queue, acks, writer>>

(* Mutant: the list is shown one customer too early. *)
FetchEarly(a, u) ==
  /\ page[a].stage = "loading" /\ u \in page[a].left
  /\ page' = [page EXCEPT
       ![a].left = @ \ {u},
       ![a].list = [o \in OrderIds |-> IF o \in OrdersOf(u) THEN status[o] ELSE @[o]],
       ![a].stage = IF Cardinality(page[a].left) <= 2 THEN "ready" ELSE @]
  /\ UNCHANGED <<users, customer, status, queue, acks, atOpen, writer>>

(* One turn of the loop; the list is shown after the last one. *)
FetchOrders(a, u) ==
  /\ page[a].stage = "loading" /\ u \in page[a].left
  /\ page' = [page EXCEPT
       ![a].left = @ \ {u},
       ![a].list = [o \in OrderIds |-> IF o \in OrdersOf(u) THEN status[o] ELSE @[o]],
       ![a].stage = IF page[a].left = {u} THEN "ready" ELSE @]
  /\ UNCHANGED <<users, customer, status, queue, acks, atOpen, writer>>

LeaveOrders(a) ==
  /\ page[a].stage \in {"loading", "ready"}
  /\ page' = [page EXCEPT ![a] = [NewPage EXCEPT !.stage = "gone"]]
  /\ atOpen' = [atOpen EXCEPT ![a] = {}]
  /\ UNCHANGED <<users, customer, status, queue, acks, writer>>

(* Mutant: the test newStatus != null is dropped. *)
PickNothing(a, o, s) ==
  /\ page[a].stage = "ready" /\ o \in Listed(a)
  /\ Len(queue[a]) + Len(acks[a]) < MaxUpdates
  /\ queue' = [queue EXCEPT ![a] = Append(@, [order |-> o, status |-> NoOrder])]
  /\ UNCHANGED <<users, customer, status, page, acks, atOpen, writer>>

(* onChanged of the drop-down list: any status may follow any other. *)
PickStatus(a, o, s) ==
  /\ page[a].stage = "ready" /\ o \in Listed(a)
  /\ Len(queue[a]) + Len(acks[a]) < MaxUpdates
  /\ queue' = [queue EXCEPT ![a] = Append(@, [order |-> o, status |-> s])]
  /\ UNCHANGED <<users, customer, status, page, acks, atOpen, writer>>

(* Mutant: an update gives way to one that another page made meanwhile. *)
CommitUnlessTaken(a) ==
  /\ queue[a] # <<>>
  /\ queue' = [queue EXCEPT ![a] = Tail(@)]
  /\ LET c == Head(queue[a])
         free == writer[c.order] \in {NoUser, a}
     IN /\ status' = IF free THEN [status EXCEPT ![c.order] = c.status] ELSE status
        /\ writer' = IF free THEN [writer EXCEPT ![c.order] = a] ELSE writer
        /\ acks' = IF free THEN [acks EXCEPT ![a] = Append(@, c)] ELSE acks
  /\ UNCHANGED <<users, customer, page, atOpen>>

(* The updates of one client are committed in the order it issued them; the *)
(* copy of the order in 'orders' keeps its status.                          *)
CommitStatus(a) ==
  /\ queue[a] # <<>>
  /\ queue' = [queue EXCEPT ![a] = Tail(@)]
  /\ LET c == Head(queue[a]) IN
       /\ status' = [status EXCEPT ![c.order] = c.status]
       /\ writer' = [writer EXCEPT ![c.order] = a]
       /\ acks' = [acks EXCEPT ![a] = Append(@, c)]
  /\ UNCHANGED <<users, customer, page, atOpen>>

(* Mutant: the answers of several updates are taken as one, the first. *)
AnswerOnce(a) ==
  /\ acks[a] # <<>>
  /\ acks' = [acks EXCEPT ![a] = <<>>]
  /\ page' = IF page[a].stage = "ready"
             THEN [page EXCEPT ![a].list[Head(acks[a]).order] = Head(acks[a]).status]
             ELSE page
  /\ UNCHANGED <<users, customer, status, queue, atOpen, writer>>

(* The answer: setState on the page, if it is still there. *)
AnswerStatus(a) ==
  /\ acks[a] # <<>>
  /\ acks' = [acks EXCEPT ![a] = Tail(@)]
  /\ page' = IF page[a].stage = "ready"
             THEN [page EXCEPT ![a].list[Head(acks[a]).order] = Head(acks[a]).status]
             ELSE page
  /\ UNCHANGED <<users, customer, status, queue, atOpen, writer>>

Customer == \E u \in Users : SignUp(u) \/ \E o \in OrderIds : BookOrder(o, u)

AdminStep(a) ==
  \/ OpenOrders(a) \/ LeaveOrders(a)
  \/ \E u \in Users : FetchOrders(a, u)
  \/ \E o \in OrderIds, s \in Statuses : PickStatus(a, o, s)

Server ==
  \E a \in Admins : CommitStatus(a) \/ AnswerStatus(a)

Next == Customer \/ Server \/ \E a \in Admins : AdminStep(a)

Spec == Init /\ [][Next]_vars

(* A connected client sends what it has queued and gets its answers. *)
FairSpec == Spec /\ \A a \in Admins : WF_vars(CommitStatus(a)) /\ WF_vars(AnswerStatus(a))

-----------------------------------------------------------------------------
(* The types of the orders, the pages and the updates on their way. *)
TypeOK ==
  /\ users \subseteq Users
  /\ customer \in [OrderIds -> Users \cup {NoUser}]
  /\ status \in [OrderIds -> Statuses]
  /\ page \in [Admins -> Page]
  /\ queue \in [Admins -> Seq(Change)]
  /\ acks \in [Admins -> Seq(Change)]
  /\ atOpen \in [Admins -> SUBSET OrderIds]
  /\ writer \in [OrderIds -> Admins \cup {NoUser}]

(* A page with nothing under way shows, for every order that it was the    *)
(* last to move, the status the order has: answers that nobody waits for   *)
(* do not leave it with an earlier pick.  (Of the orders another page      *)
(* moved it may show an old status for ever: nothing refreshes the list.)  *)
LastWriterSees ==
  \A a \in Admins, o \in OrderIds :
    /\ page[a].stage = "ready" /\ queue[a] = <<>> /\ acks[a] = <<>>
    /\ writer[o] = a
    => page[a].list[o] = status[o]

(* The list, read customer by customer while orders are being placed and   *)
(* moved, has every order that the customers known then had when the page  *)
(* was opened, and no order that nobody placed.  (The orders of an account *)
(* whose document was not written are never listed.)                       *)
NoOrderMissed ==
  \A a \in Admins :
    page[a].stage = "ready" => atOpen[a] \subseteq Listed(a) /\ Listed(a) \subseteq Placed

Picked(a, o, s) == \E i \in DOMAIN queue[a] : queue[a][i] = [order |-> o, status |-> s]

Answered(a, o, s) == \E i \in DOMAIN acks[a] : acks[a][i] = [order |-> o, status |-> s]

(* No pick is dropped or overtaken by another of the same page: it waits    *)
(* until the store has it, whether the page is left meanwhile or not, and   *)
(* then until the page, if it is still there, shows it.                     *)
PicksAreNotLost ==
  [][\A a \in Admins, o \in OrderIds, s \in Statuses :
       /\ Picked(a, o, s) => \/ Picked(a, o, s)'
                             \/ status'[o] = s /\ Answered(a, o, s)'
       /\ Answered(a, o, s) => \/ Answered(a, o, s)'
                               \/ page'[a].stage = "gone"
                               \/ page'[a].list[o] = s]_vars

(* A status picked in the list is eventually shown by that list, whatever  *)
(* other administrators do to the order, unless the page is left first.    *)
PickedIsShown ==
  \A a \in Admins, o \in OrderIds, s \in Statuses :
    Picked(a, o, s) ~> (page[a].stage = "gone" \/ page[a].list[o] = s)

(* OrdersPage's query is sorted, and a sorted query returns only documents *)
(* that have the field.                                                    *)
ShownTo(u) == {o \in OrdersOf(u) : SortField \in OrderFields}

(* OrdersPage says that no order was found only if the customer has none. *)
CustomerSeesOrders ==
  \A u \in Users : ShownTo(u) = {} => OrdersOf(u) = {}

=============================================================================
