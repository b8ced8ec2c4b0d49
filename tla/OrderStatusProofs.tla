-------------------------- MODULE OrderStatusProofs --------------------------
(***************************************************************************)
(* What the list of AdminOrdersPage shows, for any number of pages,        *)
(* customers, orders and updates on their way.                             *)
(*                                                                         *)
(* NoOrderMissed becomes inductive with Reading: while the list is being   *)
(* read, an order that is not in it yet is of a customer still to come.    *)
(* LastWriterSees becomes inductive with Catching up: the last answer on   *)
(* its way, or else the list, has the status of every order that the page  *)
(* was the last to move.                                                   *)
(***************************************************************************)
EXTENDS OrderStatus, TLAPS

(* A page that is not shown has sent nothing. *)
Silent ==
  \A a \in Admins :
    page[a].stage \in {"new", "loading"} =>
      queue[a] = <<>> /\ acks[a] = <<>> /\ \A o \in OrderIds : writer[o] # a

(* Where the orders of before the opening are while the list is read. *)
Reading ==
  \A a \in Admins :
    /\ Listed(a) \subseteq Placed
    /\ page[a].stage = "new" => atOpen[a] = {}
    /\ page[a].stage = "ready" => page[a].left = {}
    /\ page[a].stage # "gone" =>
         \A o \in atOpen[a] : o \in Listed(a) \/ customer[o] \in page[a].left

(* Updates are of orders that were listed. *)
Known ==
  \A a \in Admins :
    /\ \A i \in 1..Len(queue[a]) : queue[a][i].order \in Placed
    /\ \A i \in 1..Len(acks[a]) : acks[a][i].order \in Placed

Mentions(s, o) == \E i \in 1..Len(s) : s[i].order = o
LastIs(s, o, x) ==
  \E i \in 1..Len(s) : /\ s[i].order = o /\ s[i].status = x
                       /\ \A j \in i + 1..Len(s) : s[j].order # o

CatchingUp ==
  \A a \in Admins, o \in OrderIds :
    page[a].stage = "ready" /\ writer[o] = a =>
      IF Mentions(acks[a], o) THEN LastIs(acks[a], o, status[o])
      ELSE page[a].list[o] = status[o]

IInv == TypeOK /\ Silent /\ Reading /\ Known /\ CatchingUp

-----------------------------------------------------------------------------
(* The answer added last is the one that counts for its order. *)
LEMMA AppendAnswer ==
  ASSUME NEW s \in Seq(Change), NEW c \in Change, NEW o \in OrderIds
  PROVE  /\ Append(s, c) \in Seq(Change)
         /\ c.order = o => Mentions(Append(s, c), o) /\ LastIs(Append(s, c), o, c.status)
         /\ c.order # o => /\ Mentions(Append(s, c), o) <=> Mentions(s, o)
                           /\ \A x : LastIs(s, o, x) => LastIs(Append(s, c), o, x)
<1> DEFINE t == Append(s, c)
<1>1. /\ t \in Seq(Change) /\ Len(t) = Len(s) + 1 /\ t[Len(s) + 1] = c /\ Len(s) \in Nat
      /\ \A i \in 1..Len(s) : t[i] = s[i]
  OBVIOUS
<1> HIDE DEF t
<1>2. c.order = o => Mentions(t, o) /\ LastIs(t, o, c.status)
  BY <1>1 DEF Mentions, LastIs
<1>3. c.order # o => (Mentions(t, o) <=> Mentions(s, o))
  BY <1>1 DEF Mentions
<1>4. ASSUME c.order # o, NEW x, LastIs(s, o, x) PROVE LastIs(t, o, x)
  BY <1>1, <1>4 DEF LastIs
<1> QED BY <1>1, <1>2, <1>3, <1>4 DEF t

(* What the orders of a sequence all are stays so. *)
LEMMA AppendWithin ==
  ASSUME NEW s \in Seq(Change), NEW c \in Change, NEW S, c.order \in S,
         \A i \in 1..Len(s) : s[i].order \in S
  PROVE  /\ Append(s, c) \in Seq(Change)
         /\ \A i \in 1..Len(Append(s, c)) : Append(s, c)[i].order \in S
<1> DEFINE t == Append(s, c)
<1>1. /\ t \in Seq(Change) /\ Len(t) = Len(s) + 1 /\ t[Len(s) + 1] = c /\ Len(s) \in Nat
      /\ \A i \in 1..Len(s) : t[i] = s[i]
  OBVIOUS
<1> HIDE DEF t
<1>2. ASSUME NEW i \in 1..Len(t) PROVE t[i].order \in S
  <2>1. i = Len(s) + 1 \/ i \in 1..Len(s)
    BY <1>1
  <2> QED BY <1>1, <2>1
<1> QED BY <1>1, <1>2 DEF t

(* And when the first is taken. *)
LEMMA TailWithin ==
  ASSUME NEW s \in Seq(Change), s # <<>>, NEW S, \A i \in 1..Len(s) : s[i].order \in S
  PROVE  /\ Tail(s) \in Seq(Change) /\ Head(s) \in Change /\ Head(s).order \in S
         /\ \A i \in 1..Len(Tail(s)) : Tail(s)[i].order \in S
<1> DEFINE t == Tail(s)
<1>1. /\ t \in Seq(Change) /\ Len(t) = Len(s) - 1 /\ Len(s) \in Nat /\ Len(s) > 0
      /\ Head(s) = s[1] /\ s[1] \in Change
      /\ \A i \in 1..Len(t) : t[i] = s[i + 1]
  OBVIOUS
<1> HIDE DEF t
<1>2. ASSUME NEW i \in 1..Len(t) PROVE t[i].order \in S
  <2>1. i + 1 \in 1..Len(s)
    BY <1>1
  <2> QED BY <1>1, <2>1
<1>3. Head(s).order \in S
  BY <1>1
<1> QED BY <1>1, <1>2, <1>3 DEF t

(* Either a later answer still speaks for the order, or the first one does. *)
LEMMA TailAnswer ==
  ASSUME NEW s \in Seq(Change), s # <<>>, NEW o \in OrderIds
  PROVE  /\ Tail(s) \in Seq(Change) /\ Head(s) \in Change
         /\ \A x : LastIs(s, o, x) =>
              \/ Mentions(Tail(s), o) /\ LastIs(Tail(s), o, x)
              \/ ~Mentions(Tail(s), o) /\ Head(s).order = o /\ Head(s).status = x
         /\ ~Mentions(s, o) => ~Mentions(Tail(s), o) /\ Head(s).order # o
<1> DEFINE t == Tail(s)
<1>1. /\ t \in Seq(Change) /\ Len(t) = Len(s) - 1 /\ Len(s) \in Nat /\ Len(s) > 0
      /\ Head(s) = s[1] /\ s[1] \in Change
      /\ \A i \in 1..Len(t) : t[i] = s[i + 1]
  OBVIOUS
<1> HIDE DEF t
<1>2. ASSUME ~Mentions(s, o) PROVE ~Mentions(t, o) /\ Head(s).order # o
  BY <1>1, <1>2 DEF Mentions
<1>3. ASSUME NEW x, LastIs(s, o, x)
      PROVE  \/ Mentions(t, o) /\ LastIs(t, o, x)
             \/ ~Mentions(t, o) /\ Head(s).order = o /\ Head(s).status = x
  <2>1. PICK i \in 1..Len(s) : /\ s[i].order = o /\ s[i].status = x
                               /\ \A j \in i + 1..Len(s) : s[j].order # o
    BY <1>3 DEF LastIs
  <2>2. CASE i = 1
    BY <1>1, <2>1, <2>2 DEF Mentions
  <2>3. CASE i # 1
    <3>1. i - 1 \in 1..Len(t) /\ t[i - 1] = s[i]
      BY <1>1, <2>3
    <3>2. \A j \in (i - 1) + 1..Len(t) : t[j].order # o
      BY <1>1, <2>1
    <3> QED BY <2>1, <3>1, <3>2 DEF Mentions, LastIs
  <2> QED BY <2>2, <2>3
<1> QED BY <1>1, <1>2, <1>3 DEF t

(* Nothing is placed, listed or sent at the start. *)
LEMMA InitInv == Init => IInv
<1> SUFFICES ASSUME Init PROVE IInv
  OBVIOUS
<1>1. TypeOK
  BY StatusAssumption DEF Init, TypeOK, Page, NewPage
<1>2. Silent /\ Reading /\ Known /\ CatchingUp
  BY StatusAssumption DEF Init, Silent, Reading, Known, CatchingUp, NewPage, Listed, Placed
<1> QED BY <1>1, <1>2 DEF IInv

-----------------------------------------------------------------------------
(* The document of a customer touches no page. *)
LEMMA SignUpKeeps ==
  ASSUME IInv, NEW u \in Users, SignUp(u) PROVE IInv'
<1> USE DEF IInv, SignUp
<1>1. TypeOK'
  BY DEF TypeOK
<1>2. Silent'
  BY DEF Silent
<1>3. Reading'
  BY DEF Reading, Listed, Placed
<1>4. Known'
  BY DEF Known, Placed
<1>5. CatchingUp'
  BY DEF CatchingUp, Mentions, LastIs
<1> QED BY <1>1, <1>2, <1>3, <1>4, <1>5

(* An order that is placed now was not there when a page was opened. *)
LEMMA BookOrderKeeps ==
  ASSUME IInv, NEW o \in OrderIds, NEW u \in Users, BookOrder(o, u) PROVE IInv'
<1> USE StatusAssumption DEF BookOrder, IInv, TypeOK
<1>1. TypeOK'
  OBVIOUS
<1>2. Placed \subseteq Placed'
  BY DEF Placed
<1>3. Silent' /\ Known' /\ CatchingUp'
  <2>1. Silent' /\ CatchingUp'
    BY DEF Silent, CatchingUp, Mentions, LastIs
  <2>2. Known'
    BY <1>2 DEF Known
  <2> QED BY <2>1, <2>2
<1>4. ASSUME NEW a \in Admins, page[a].stage # "gone", NEW p \in atOpen[a]
      PROVE p \in Listed(a)' \/ customer'[p] \in page'[a].left
  <2>1. p \in OrderIds /\ page[a].left \subseteq Users
    BY DEF Page
  <2>2. p \in Listed(a) \/ customer[p] \in page[a].left
    BY <1>4 DEF Reading
  <2>3. p \in Listed(a) => p \in Listed(a)'
    BY DEF Listed
  <2>4. customer[p] \in page[a].left => p # o
    BY <2>1
  <2> QED BY <2>1, <2>2, <2>3, <2>4
<1>5. Reading'
  BY <1>2, <1>4 DEF Reading, Listed
<1> QED BY <1>1, <1>3, <1>5

(* The customers read first are those that the orders of then belong to. *)
LEMMA OpenOrdersKeeps ==
  ASSUME IInv, NEW a \in Admins, OpenOrders(a) PROVE IInv'
<1> USE DEF IInv
<1> DEFINE new == [page[a] EXCEPT !.stage = IF users = {} THEN "ready" ELSE "loading",
                                  !.left = users]
<1>1. page[a].stage = "new" /\ page' = [page EXCEPT ![a] = new]
  BY DEF OpenOrders
<1>2. /\ page[a] \in Page /\ users \subseteq Users
      /\ customer \in [OrderIds -> Users \cup {NoUser}]
  BY DEF TypeOK
<1>3. /\ new \in Page /\ new.left = users /\ new.list = page[a].list
      /\ new.stage = IF users = {} THEN "ready" ELSE "loading"
  BY <1>2 DEF Page
<1> HIDE DEF new
<1>4. \A b \in Admins : page'[b] = IF b = a THEN new ELSE page[b]
  BY <1>1 DEF TypeOK
<1>5. UNION {OrdersOf(u) : u \in users} = {o \in OrderIds : customer[o] \in users}
  BY DEF OrdersOf
<1>6. TypeOK'
  <2>1. page' \in [Admins -> Page]
    BY <1>1, <1>3 DEF TypeOK
  <2>2. atOpen' \in [Admins -> SUBSET OrderIds]
    BY <1>5 DEF OpenOrders, TypeOK
  <2> QED BY <2>1, <2>2 DEF OpenOrders, TypeOK
<1>7. Silent' /\ Known'
  BY <1>1, <1>3, <1>4 DEF OpenOrders, Silent, Known, Placed
<1>8. \A b \in Admins : Listed(b)' = Listed(b)
  BY <1>3, <1>4 DEF Listed
<1>9. /\ Placed' = Placed /\ customer' = customer
      /\ \A b \in Admins : atOpen'[b] = IF b = a THEN {o \in OrderIds : customer[o] \in users}
                                                ELSE atOpen[b]
  BY <1>5 DEF OpenOrders, Placed, TypeOK
<1>10. Reading'
  BY <1>3, <1>4, <1>8, <1>9 DEF Reading
<1>11. CatchingUp'
  <2>1. ASSUME NEW b \in Admins, NEW o \in OrderIds, page'[b].stage = "ready", writer[o] = b
        PROVE b # a
    BY <1>1, <2>1 DEF Silent
  <2>2. UNCHANGED <<acks, status, writer>>
    BY DEF OpenOrders
  <2>3. ASSUME NEW b \in Admins, NEW o \in OrderIds, page'[b].stage = "ready", writer'[o] = b
        PROVE  IF Mentions(acks'[b], o) THEN LastIs(acks'[b], o, status'[o])
               ELSE page'[b].list[o] = status'[o]
    <3>1. page'[b] = page[b]
      BY <1>4, <2>1, <2>2, <2>3
    <3> QED BY <2>2, <2>3, <3>1 DEF CatchingUp
  <2> QED BY <2>3 DEF CatchingUp, Mentions, LastIs
<1> QED BY <1>6, <1>7, <1>10, <1>11

(* Every order of the customer read is listed, and none that was is lost. *)
LEMMA FetchOrdersKeeps ==
  ASSUME IInv, NEW a \in Admins, NEW u \in Users, FetchOrders(a, u) PROVE IInv'
<1> USE DEF IInv
<1> DEFINE read == [o \in OrderIds |-> IF o \in OrdersOf(u) THEN status[o] ELSE page[a].list[o]]
           new == [page[a] EXCEPT !.left = @ \ {u}, !.list = read,
                                  !.stage = IF page[a].left = {u} THEN "ready" ELSE @]
<1>1. page[a].stage = "loading" /\ page' = [page EXCEPT ![a] = new]
  BY DEF FetchOrders
<1>2. /\ page[a] \in Page /\ status \in [OrderIds -> Statuses]
  BY DEF TypeOK
<1>3. read \in [OrderIds -> Statuses \cup {NoOrder}]
  BY <1>2 DEF Page
<1>4. \A o \in OrderIds : read[o] = IF o \in OrdersOf(u) THEN status[o] ELSE page[a].list[o]
  OBVIOUS
<1> HIDE DEF read
<1>5. /\ new \in Page /\ new.left = page[a].left \ {u} /\ new.list = read
      /\ new.stage = IF page[a].left = {u} THEN "ready" ELSE "loading"
  BY <1>1, <1>2, <1>3 DEF Page
<1> HIDE DEF new
<1>6. \A b \in Admins : page'[b] = IF b = a THEN new ELSE page[b]
  BY <1>1 DEF TypeOK
<1>7. TypeOK'
  <2>1. page' \in [Admins -> Page]
    BY <1>1, <1>5 DEF TypeOK
  <2>2. UNCHANGED <<users, customer, status, queue, acks, atOpen, writer>>
    BY DEF FetchOrders
  <2> QED BY <2>1, <2>2 DEF TypeOK
<1>8. Silent' /\ Known'
  BY <1>1, <1>5, <1>6 DEF FetchOrders, Silent, Known, Placed
<1>9. Placed' = Placed /\ customer' = customer /\ atOpen' = atOpen
  BY DEF FetchOrders, Placed
<1>10. \A b \in Admins : Listed(b)' = IF b = a THEN Listed(a) \cup OrdersOf(u) ELSE Listed(b)
  <2>1. \A o \in OrderIds : status[o] # NoOrder
    BY <1>2, StatusAssumption
  <2> QED BY <1>4, <1>5, <1>6, <2>1 DEF Listed, OrdersOf
<1>11. OrdersOf(u) \subseteq Placed
  BY StatusAssumption DEF OrdersOf, Placed
<1>12. Reading'
  <2>1. ASSUME NEW b \in Admins
        PROVE  /\ Listed(b)' \subseteq Placed'
               /\ page'[b].stage = "new" => atOpen'[b] = {}
               /\ page'[b].stage = "ready" => page'[b].left = {}
    BY <1>1, <1>5, <1>6, <1>9, <1>10, <1>11 DEF Reading
  <2>2. ASSUME NEW b \in Admins, page'[b].stage # "gone", NEW o \in atOpen'[b]
        PROVE o \in Listed(b)' \/ customer'[o] \in page'[b].left
    <3>1. o \in OrderIds
      BY <1>9 DEF TypeOK
    <3>2. o \in Listed(b) \/ customer[o] \in page[b].left
      BY <1>1, <1>6, <1>9, <2>2 DEF Reading
    <3> QED BY <1>5, <1>6, <1>9, <1>10, <3>1, <3>2 DEF OrdersOf
  <2> QED BY <2>1, <2>2 DEF Reading
<1>13. CatchingUp'
  <2>1. ASSUME NEW b \in Admins, NEW o \in OrderIds, page'[b].stage = "ready", writer[o] = b
        PROVE b # a
    BY <1>1, <2>1 DEF Silent
  <2>2. UNCHANGED <<acks, status, writer>>
    BY DEF FetchOrders
  <2>3. ASSUME NEW b \in Admins, NEW o \in OrderIds, page'[b].stage = "ready", writer'[o] = b
        PROVE  IF Mentions(acks'[b], o) THEN LastIs(acks'[b], o, status'[o])
               ELSE page'[b].list[o] = status'[o]
    <3>1. page'[b] = page[b]
      BY <1>6, <2>1, <2>2, <2>3
    <3> QED BY <2>2, <2>3, <3>1 DEF CatchingUp
  <2> QED BY <2>3 DEF CatchingUp, Mentions, LastIs
<1> QED BY <1>7, <1>8, <1>12, <1>13

(* A page that was left shows nothing and reads nothing. *)
LEMMA LeaveOrdersKeeps ==
  ASSUME IInv, NEW a \in Admins, LeaveOrders(a) PROVE IInv'
<1> USE DEF IInv
<1> DEFINE new == [NewPage EXCEPT !.stage = "gone"]
<1>1. page' = [page EXCEPT ![a] = new]
  BY DEF LeaveOrders
<1>2. /\ new \in Page /\ new.stage = "gone" /\ new.left = {}
      /\ \A o \in OrderIds : new.list[o] = NoOrder
  BY DEF Page, NewPage
<1> HIDE DEF new
<1>3. \A b \in Admins : page'[b] = IF b = a THEN new ELSE page[b]
  BY <1>1 DEF TypeOK
<1>4. TypeOK'
  BY <1>1, <1>2 DEF LeaveOrders, TypeOK
<1>5. Silent' /\ Known' /\ CatchingUp'
  BY <1>2, <1>3 DEF LeaveOrders, Silent, Known, CatchingUp, Placed, Mentions, LastIs
<1>6. \A b \in Admins : Listed(b)' = IF b = a THEN {} ELSE Listed(b)
  BY <1>2, <1>3 DEF Listed
<1>7. Reading'
  BY <1>2, <1>3, <1>6 DEF LeaveOrders, Reading, Placed, TypeOK
<1> QED BY <1>4, <1>5, <1>7

-----------------------------------------------------------------------------
(* Only an order that is listed, so one that was placed, is picked. *)
LEMMA PickStatusKeeps ==
  ASSUME IInv, NEW a \in Admins, NEW o \in OrderIds, NEW s \in Statuses, PickStatus(a, o, s)
  PROVE  IInv'
<1> USE DEF IInv
<1> DEFINE c == [order |-> o, status |-> s]
           new == Append(queue[a], c)
<1>1. c \in Change /\ c.order = o /\ queue[a] \in Seq(Change)
  BY DEF Change, TypeOK
<1>2. page[a].stage = "ready" /\ o \in Placed /\ queue' = [queue EXCEPT ![a] = new]
  BY DEF PickStatus, Reading
<1> HIDE DEF c
<1>3. new \in Seq(Change) /\ \A i \in 1..Len(new) : new[i].order \in Placed
  BY <1>1, <1>2, AppendWithin DEF Known
<1> HIDE DEF new
<1>4. \A b \in Admins : queue'[b] = IF b = a THEN new ELSE queue[b]
  BY <1>2 DEF TypeOK
<1>5. TypeOK'
  BY <1>2, <1>3 DEF PickStatus, TypeOK
<1>6. Silent'
  BY <1>2, <1>4 DEF PickStatus, Silent
<1>7. Known'
  <2>1. Placed' = Placed /\ acks' = acks
    BY DEF PickStatus, Placed
  <2> QED BY <1>3, <1>4, <2>1 DEF Known
<1>8. Reading' /\ CatchingUp'
  BY DEF PickStatus, Reading, CatchingUp, Listed, Placed, Mentions, LastIs
<1> QED BY <1>5, <1>6, <1>7, <1>8

(* The answer to the update committed last is the last on its way. *)
LEMMA CommitStatusKeeps ==
  ASSUME IInv, NEW a \in Admins, CommitStatus(a) PROVE IInv'
<1> USE DEF IInv
<1> DEFINE c == Head(queue[a])
           rest == Tail(queue[a])
           sent == Append(acks[a], c)
<1>1. /\ queue[a] \in Seq(Change) /\ queue[a] # <<>> /\ acks[a] \in Seq(Change)
  BY DEF CommitStatus, TypeOK
<1>2. /\ rest \in Seq(Change) /\ c \in Change /\ c.order \in Placed
      /\ \A i \in 1..Len(rest) : rest[i].order \in Placed
  BY <1>1, TailWithin DEF Known
<1>3. /\ queue' = [queue EXCEPT ![a] = rest] /\ acks' = [acks EXCEPT ![a] = sent]
      /\ status' = [status EXCEPT ![c.order] = c.status]
      /\ writer' = [writer EXCEPT ![c.order] = a]
      /\ UNCHANGED <<users, customer, page, atOpen>>
  BY DEF CommitStatus
<1> HIDE DEF c, rest
<1>4. c.order \in OrderIds /\ c.status \in Statuses
  BY <1>2 DEF Change
<1>5. sent \in Seq(Change) /\ \A i \in 1..Len(sent) : sent[i].order \in Placed
  BY <1>1, <1>2, AppendWithin DEF Known
<1>6. ASSUME NEW o \in OrderIds
      PROVE  /\ c.order = o => Mentions(sent, o) /\ LastIs(sent, o, c.status)
             /\ c.order # o => /\ Mentions(sent, o) <=> Mentions(acks[a], o)
                               /\ \A x : LastIs(acks[a], o, x) => LastIs(sent, o, x)
  BY <1>1, <1>2, AppendAnswer
<1> HIDE DEF sent
<1>7. \A b \in Admins : /\ queue'[b] = IF b = a THEN rest ELSE queue[b]
                        /\ acks'[b] = IF b = a THEN sent ELSE acks[b]
  BY <1>3 DEF TypeOK
<1>8. \A o \in OrderIds : /\ status'[o] = IF o = c.order THEN c.status ELSE status[o]
                          /\ writer'[o] = IF o = c.order THEN a ELSE writer[o]
  BY <1>3, <1>4 DEF TypeOK
<1>9. TypeOK'
  BY <1>2, <1>3, <1>4, <1>5 DEF TypeOK
<1>10. Silent'
  BY <1>1, <1>3, <1>7, <1>8 DEF Silent
<1>11. Known'
  <2>1. Placed' = Placed
    BY <1>3 DEF Placed
  <2> QED BY <1>2, <1>5, <1>7, <2>1 DEF Known
<1>12. Reading'
  BY <1>3 DEF Reading, Listed, Placed
<1>13. ASSUME NEW b \in Admins, NEW o \in OrderIds, page'[b].stage = "ready", writer'[o] = b
       PROVE  IF Mentions(acks'[b], o) THEN LastIs(acks'[b], o, status'[o])
              ELSE page'[b].list[o] = status'[o]
  <2>1. CASE o = c.order
    BY <1>6, <1>7, <1>8, <1>13, <2>1
  <2>2. CASE o # c.order
    <3>1. IF Mentions(acks[b], o) THEN LastIs(acks[b], o, status[o])
          ELSE page[b].list[o] = status[o]
      BY <1>3, <1>8, <1>13, <2>2 DEF CatchingUp
    <3> QED BY <1>3, <1>6, <1>7, <1>8, <2>2, <3>1
  <2> QED BY <2>1, <2>2
<1>14. CatchingUp'
  BY <1>13 DEF CatchingUp, Mentions, LastIs
<1> QED BY <1>9, <1>10, <1>11, <1>12, <1>14

(* The answer shown is the last one, or one still on its way will mend it. *)
LEMMA AnswerStatusKeeps ==
  ASSUME IInv, NEW a \in Admins, AnswerStatus(a) PROVE IInv'
<1> USE DEF IInv
<1> DEFINE c == Head(acks[a])
           rest == Tail(acks[a])
           new == [page[a] EXCEPT !.list[c.order] = c.status]
<1>1. /\ acks[a] \in Seq(Change) /\ acks[a] # <<>>
  BY DEF AnswerStatus, TypeOK
<1>2. /\ rest \in Seq(Change) /\ c \in Change /\ c.order \in Placed
      /\ \A i \in 1..Len(rest) : rest[i].order \in Placed
  BY <1>1, TailWithin DEF Known
<1>3. /\ acks' = [acks EXCEPT ![a] = rest]
      /\ page' = IF page[a].stage = "ready" THEN [page EXCEPT ![a] = new] ELSE page
      /\ UNCHANGED <<users, customer, status, queue, atOpen, writer>>
  BY DEF AnswerStatus
<1>4. ASSUME NEW o \in OrderIds
      PROVE  /\ \A x : LastIs(acks[a], o, x) =>
                   \/ Mentions(rest, o) /\ LastIs(rest, o, x)
                   \/ ~Mentions(rest, o) /\ c.order = o /\ c.status = x
             /\ ~Mentions(acks[a], o) => ~Mentions(rest, o) /\ c.order # o
  BY <1>1, TailAnswer
<1> HIDE DEF c, rest
<1>5. c.order \in OrderIds /\ c.status \in Statuses /\ c.status # NoOrder
  BY <1>2, StatusAssumption DEF Change
<1>6. page[a] \in Page /\ page \in [Admins -> Page]
  BY DEF TypeOK
<1>7. /\ new \in Page /\ new.stage = page[a].stage /\ new.left = page[a].left
      /\ \A o \in OrderIds : new.list[o] = IF o = c.order THEN c.status ELSE page[a].list[o]
  <2> DEFINE l == [page[a].list EXCEPT ![c.order] = c.status]
  <2>1. new = [page[a] EXCEPT !.list = l]
    BY <1>6 DEF Page
  <2>2. /\ l \in [OrderIds -> Statuses \cup {NoOrder}]
        /\ \A o \in OrderIds : l[o] = IF o = c.order THEN c.status ELSE page[a].list[o]
    BY <1>5, <1>6 DEF Page
  <2> HIDE DEF l
  <2>3. [page[a] EXCEPT !.list = l] \in Page /\ [page[a] EXCEPT !.list = l].list = l
    BY <1>6, <2>2 DEF Page
  <2> QED BY <1>6, <2>1, <2>2, <2>3 DEF Page
<1> HIDE DEF new
<1>8. /\ \A b \in Admins : acks'[b] = IF b = a THEN rest ELSE acks[b]
      /\ \A b \in Admins : page'[b] = IF b = a /\ page[a].stage = "ready" THEN new ELSE page[b]
  BY <1>3 DEF TypeOK
<1>9. TypeOK'
  BY <1>2, <1>3, <1>6, <1>7 DEF TypeOK
<1>10. \A b \in Admins : page'[b].stage = page[b].stage /\ page'[b].left = page[b].left
  BY <1>7, <1>8
<1>11. Silent'
  BY <1>1, <1>3, <1>8, <1>10 DEF Silent
<1>12. Placed' = Placed
  BY <1>3 DEF Placed
<1>13. Known'
  BY <1>2, <1>3, <1>8, <1>12 DEF Known
<1>14. \A b \in Admins : /\ Listed(b) \subseteq Listed(b)'
                         /\ Listed(b)' \subseteq Listed(b) \cup Placed
  BY <1>2, <1>5, <1>7, <1>8 DEF Listed
<1>15. Reading'
  BY <1>3, <1>10, <1>12, <1>14 DEF Reading
<1>16. ASSUME NEW b \in Admins, NEW o \in OrderIds, page'[b].stage = "ready", writer'[o] = b
       PROVE  IF Mentions(acks'[b], o) THEN LastIs(acks'[b], o, status'[o])
              ELSE page'[b].list[o] = status'[o]
  <2>1. IF Mentions(acks[b], o) THEN LastIs(acks[b], o, status[o])
        ELSE page[b].list[o] = status[o]
    BY <1>3, <1>10, <1>16 DEF CatchingUp
  <2>2. CASE b # a
    BY <1>3, <1>8, <2>1, <2>2
  <2>3. CASE b = a
    <3>1. page'[a] = new /\ acks'[a] = rest /\ status' = status
      BY <1>3, <1>8, <1>10, <1>16, <2>3
    <3>2. CASE Mentions(acks[a], o)
      BY <1>4, <1>7, <2>1, <2>3, <3>1, <3>2
    <3>3. CASE ~Mentions(acks[a], o)
      BY <1>4, <1>7, <2>1, <2>3, <3>1, <3>3
    <3> QED BY <3>2, <3>3
  <2> QED BY <2>2, <2>3
<1>17. CatchingUp'
  BY <1>16 DEF CatchingUp, Mentions, LastIs
<1> QED BY <1>9, <1>11, <1>13, <1>15, <1>17

-----------------------------------------------------------------------------
(* One case per action. *)
LEMMA StepInv == IInv /\ [Next]_vars => IInv'
<1> SUFFICES ASSUME IInv, [Next]_vars PROVE IInv'
  OBVIOUS
<1>1. CASE Customer
  BY <1>1, SignUpKeeps, BookOrderKeeps DEF Customer
<1>2. CASE Server
  BY <1>2, CommitStatusKeeps, AnswerStatusKeeps DEF Server
<1>3. CASE \E a \in Admins : AdminStep(a)
  BY <1>3, OpenOrdersKeeps, LeaveOrdersKeeps, FetchOrdersKeeps, PickStatusKeeps DEF AdminStep
<1>4. CASE UNCHANGED vars
  BY <1>4 DEF vars, IInv, TypeOK, Silent, Reading, Known, CatchingUp, Listed, Placed,
              Mentions, LastIs
<1> QED BY <1>1, <1>2, <1>3, <1>4 DEF Next

(* The inductive invariant holds throughout. *)
LEMMA Invariant == Spec => []IInv
BY InitInv, StepInv, PTL DEF Spec

(* No step of a page or of the store takes a variable out of its type. *)
THEOREM TypeCorrect == Spec => []TypeOK
<1>1. IInv => TypeOK
  BY DEF IInv
<1> QED BY <1>1, Invariant, PTL

(* The list that _fetchAllOrders shows has every order of before its first *)
(* read, and only orders that were placed.                                 *)
THEOREM NoOrderMissedAlways == Spec => []NoOrderMissed
<1>1. IInv => NoOrderMissed
  BY DEF IInv, Reading, NoOrderMissed
<1> QED BY <1>1, Invariant, PTL

(* Once its updates are answered, a page shows the status of every order   *)
(* that it was the last to move.                                           *)
THEOREM LastWriterSeesAlways == Spec => []LastWriterSees
<1>1. IInv => LastWriterSees
  <2> SUFFICES ASSUME IInv, NEW a \in Admins, NEW o \in OrderIds,
                      page[a].stage = "ready", acks[a] = <<>>, writer[o] = a
               PROVE  page[a].list[o] = status[o]
    BY DEF LastWriterSees
  <2>1. ~Mentions(acks[a], o)
    BY DEF Mentions
  <2> QED BY <2>1 DEF IInv, CatchingUp
<1> QED BY <1>1, Invariant, PTL

-----------------------------------------------------------------------------
(***************************************************************************)
(* What becomes of a pick.                                                 *)
(***************************************************************************)
Has(s, d) == \E i \in DOMAIN s : s[i] = d

(* An element that was there stays, and the new one is there. *)
LEMMA AppendKeeps ==
  ASSUME NEW s \in Seq(Change), NEW c \in Change
  PROVE  Has(Append(s, c), c) /\ \A d : Has(s, d) => Has(Append(s, c), d)
<1> DEFINE t == Append(s, c)
<1>1. /\ DOMAIN s = 1..Len(s) /\ DOMAIN t = 1..Len(t) /\ Len(s) \in Nat
      /\ Len(t) = Len(s) + 1 /\ t[Len(s) + 1] = c
      /\ \A i \in 1..Len(s) : t[i] = s[i]
  OBVIOUS
<1> HIDE DEF t
<1>2. /\ Len(s) + 1 \in DOMAIN t
      /\ DOMAIN s \subseteq DOMAIN t /\ \A i \in DOMAIN s : t[i] = s[i]
  BY <1>1
<1> QED BY <1>1, <1>2 DEF t, Has

(* The first one is taken, and no other. *)
LEMMA TailKeeps ==
  ASSUME NEW s \in Seq(Change), s # <<>>, NEW d, Has(s, d)
  PROVE  Head(s) = d \/ Has(Tail(s), d)
<1> DEFINE t == Tail(s)
<1>1. /\ DOMAIN s = 1..Len(s) /\ DOMAIN t = 1..Len(t) /\ Len(s) \in Nat
      /\ Len(t) = Len(s) - 1 /\ Head(s) = s[1]
      /\ \A i \in 1..Len(t) : t[i] = s[i + 1]
  OBVIOUS
<1> HIDE DEF t
<1>2. PICK i \in 1..Len(s) : s[i] = d
  BY <1>1 DEF Has
<1>3. CASE i = 1
  BY <1>1, <1>2, <1>3
<1>4. CASE i # 1
  <2>1. i - 1 \in DOMAIN t /\ t[i - 1] = d
    BY <1>1, <1>2, <1>4
  <2> QED BY <2>1 DEF t, Has
<1> QED BY <1>3, <1>4

(* One step: an update leaves the queue for the store and the answers. *)
LEMMA PickedStays ==
  ASSUME IInv, [Next]_vars, NEW a \in Admins, NEW o \in OrderIds, NEW s \in Statuses,
         Picked(a, o, s)
  PROVE  Picked(a, o, s)' \/ (status'[o] = s /\ Answered(a, o, s)')
<1> DEFINE c == [order |-> o, status |-> s]
<1>1. queue[a] \in Seq(Change) /\ acks[a] \in Seq(Change) /\ c \in Change
  BY DEF IInv, TypeOK, Change
<1>2. c.order = o /\ c.status = s /\ Has(queue[a], c)
  BY DEF Picked, Has
<1>3. CASE queue'[a] = queue[a]
  BY <1>3 DEF Picked, Has
<1>4. CASE CommitStatus(a)
  <2>1. /\ queue[a] # <<>> /\ queue'[a] = Tail(queue[a])
        /\ acks'[a] = Append(acks[a], Head(queue[a]))
        /\ status' = [status EXCEPT ![Head(queue[a]).order] = Head(queue[a]).status]
    BY <1>4 DEF CommitStatus, IInv, TypeOK
  <2>2. CASE Head(queue[a]) = c
    <3>1. status'[o] = s
      BY <1>2, <2>1, <2>2 DEF IInv, TypeOK
    <3>2. Has(acks'[a], c)
      BY <1>1, <2>1, <2>2, AppendKeeps
    <3> QED BY <3>1, <3>2 DEF Answered, Has
  <2>3. CASE Has(Tail(queue[a]), c)
    BY <2>1, <2>3 DEF Picked, Has
  <2> QED BY <1>1, <1>2, <2>1, <2>2, <2>3, TailKeeps
<1>5. ASSUME NEW p \in OrderIds, NEW x \in Statuses, PickStatus(a, p, x)
      PROVE  Picked(a, o, s)'
  <2>1. queue'[a] = Append(queue[a], [order |-> p, status |-> x])
    BY <1>5 DEF PickStatus, IInv, TypeOK
  <2>2. [order |-> p, status |-> x] \in Change
    BY DEF Change
  <2>3. Has(queue'[a], c)
    BY <1>1, <1>2, <2>1, <2>2, AppendKeeps
  <2> QED BY <2>3 DEF Picked, Has
<1>6. \/ queue'[a] = queue[a] \/ CommitStatus(a)
      \/ \E p \in OrderIds, x \in Statuses : PickStatus(a, p, x)
  BY DEF Next, Customer, SignUp, BookOrder, Server, CommitStatus, AnswerStatus, AdminStep,
         OpenOrders, LeaveOrders, FetchOrders, PickStatus, vars, IInv, TypeOK
<1> QED BY <1>3, <1>4, <1>5, <1>6

(* One step: an answer is awaited until it is shown, or nobody is there. *)
LEMMA AnsweredStays ==
  ASSUME IInv, [Next]_vars, NEW a \in Admins, NEW o \in OrderIds, NEW s \in Statuses,
         Answered(a, o, s)
  PROVE  Answered(a, o, s)' \/ page'[a].stage = "gone" \/ page'[a].list[o] = s
<1> DEFINE c == [order |-> o, status |-> s]
<1>1. queue[a] \in Seq(Change) /\ acks[a] \in Seq(Change) /\ page[a] \in Page
  BY DEF IInv, TypeOK
<1>2. c.order = o /\ c.status = s /\ Has(acks[a], c)
  BY DEF Answered, Has
<1>3. CASE acks'[a] = acks[a]
  BY <1>3 DEF Answered, Has
<1>4. CASE AnswerStatus(a)
  <2>1. /\ acks[a] # <<>> /\ acks'[a] = Tail(acks[a])
        /\ page' = IF page[a].stage = "ready"
                   THEN [page EXCEPT ![a].list[Head(acks[a]).order] = Head(acks[a]).status]
                   ELSE page
    BY <1>4 DEF AnswerStatus, IInv, TypeOK
  <2>2. CASE Head(acks[a]) = c
    <3>1. page[a].stage \in {"ready", "gone"}
      BY <1>1, <2>1 DEF IInv, Silent, Page
    <3>2. CASE page[a].stage = "ready"
      <4>1. page' = [page EXCEPT ![a].list[o] = s]
        BY <1>2, <2>1, <2>2, <3>2
      <4>2. page[a].list \in [OrderIds -> Statuses \cup {NoOrder}]
        BY <1>1 DEF Page
      <4>3. page'[a].list = [page[a].list EXCEPT ![o] = s]
        BY <1>1, <4>1 DEF IInv, TypeOK, Page
      <4> QED BY <4>2, <4>3
    <3> QED BY <2>1, <3>1, <3>2
  <2>3. CASE Has(Tail(acks[a]), c)
    BY <2>1, <2>3 DEF Answered, Has
  <2> QED BY <1>1, <1>2, <2>1, <2>2, <2>3, TailKeeps
<1>5. CASE CommitStatus(a)
  <2>1. /\ acks'[a] = Append(acks[a], Head(queue[a])) /\ Head(queue[a]) \in Change
    BY <1>1, <1>5 DEF CommitStatus, IInv, TypeOK
  <2>2. Has(acks'[a], c)
    BY <1>1, <1>2, <2>1, AppendKeeps
  <2> QED BY <2>2 DEF Answered, Has
<1>6. acks'[a] = acks[a] \/ CommitStatus(a) \/ AnswerStatus(a)
  BY DEF Next, Customer, SignUp, BookOrder, Server, CommitStatus, AnswerStatus, AdminStep,
         OpenOrders, LeaveOrders, FetchOrders, PickStatus, vars, IInv, TypeOK
<1> QED BY <1>3, <1>4, <1>5, <1>6

(* No pick is dropped: it waits for the store, then for its own page. *)
THEOREM PicksAreNotLostAlways == Spec => PicksAreNotLost
<1> DEFINE Kept ==
      \A a \in Admins, o \in OrderIds, s \in Statuses :
        /\ Picked(a, o, s) => \/ Picked(a, o, s)'
                              \/ status'[o] = s /\ Answered(a, o, s)'
        /\ Answered(a, o, s) => \/ Answered(a, o, s)'
                                \/ page'[a].stage = "gone"
                                \/ page'[a].list[o] = s
<1>1. IInv /\ [Next]_vars => [Kept]_vars
  BY PickedStays, AnsweredStays
<1> HIDE DEF Kept
<1>2. Spec => [][Kept]_vars
  BY <1>1, Invariant, PTL DEF Spec
<1> QED BY <1>2 DEF PicksAreNotLost, Kept

=============================================================================
