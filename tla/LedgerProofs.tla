---------------------------- MODULE LedgerProofs ----------------------------
(***************************************************************************)
(* Checkout implements OrderLedger, and what it orders is deliverable and  *)
(* accounts for the cart, whatever the number of devices, pages, attempts  *)
(* and lines.                                                              *)
(*                                                                         *)
(* OrderLedger counts payments, Checkout runs attempts.  What ties them is *)
(* PaidOnce: attempts past the payment sheet hold different paid intents,  *)
(* though sheets of other attempts may have been opened for the same one.  *)
(* Booked then says, stage by stage, which orders an attempt has written,  *)
(* so that each add() is a step the ledger allows; DeliveryInv what they   *)
(* say of the delivery; LinesInv what has become of the lines.             *)
(***************************************************************************)
EXTENDS CheckoutProofs

PaidStages == {"confirmed", "reading", "book", "share", "stock", "clear",
               "done", "empty", "lost"}
WritingStages == {"book", "share", "stock", "clear", "done"}

PaidOnce ==
  \A a \in Attempts : pc[a] \in PaidStages =>
    /\ shown[a] \in charged
    /\ \A b \in Attempts : pc[b] \in PaidStages /\ shown[b] = shown[a] => b = a

Mine(a) == {o \in mine : o.attempt = a}

Booked ==
  /\ orders \subseteq mine
  /\ \A a \in Attempts :
       /\ pc[a] \notin WritingStages => Mine(a) = {}
       /\ pc[a] = "book" =>
            /\ draft[a].attempt = a
            /\ \A o \in Mine(a) : o \in orders /\ o.kind = "course"
                                               /\ draft[a].kind = "restaurant"
       /\ pc[a] = "share" =>
            /\ draft[a] \in Mine(a)
            /\ \A o \in Mine(a) : o \in orders => /\ o.kind = "course"
                                                  /\ draft[a].kind = "restaurant"
            /\ \A o \in Mine(a) : o = draft[a] \/ o \in orders
       /\ pc[a] = "stock" => \A o \in Mine(a) : o \in orders /\ o.kind = "course"

LedgerInv == PaidOnce /\ Booked

-----------------------------------------------------------------------------
(* Nothing is paid, booked or shared at the start. *)
LEMMA InitLedger == Init => LedgerInv /\ Ledger!Init
  BY DEF Init, LedgerInv, PaidOnce, Booked, Mine, PaidStages, Ledger!Init, Backing

(* A step that moves no attempt and writes no order keeps the invariant. *)
LEMMA QuietLedger ==
  ASSUME TypeInv, LedgerInv, UNCHANGED <<pc, shown, charged, draft, mine, orders>>
  PROVE  LedgerInv'
  BY DEF LedgerInv, PaidOnce, Booked, Mine

(* A step of an attempt that is not paid and goes on unpaid. *)
LEMMA UnpaidLedger ==
  ASSUME TypeInv, LedgerInv, NEW a \in Attempts,
         pc[a] \notin PaidStages, NEW s, s \notin PaidStages, pc' = [pc EXCEPT ![a] = s],
         \A b \in Attempts : b # a => shown'[b] = shown[b],
         UNCHANGED <<charged, draft, mine, orders>>
  PROVE  LedgerInv'
<1>1. \A b \in Attempts : pc'[b] \in PaidStages => b # a /\ pc'[b] = pc[b]
  BY DEF TypeInv, FlowInv, OwnTypeOK
<1>2. PaidOnce'
  BY <1>1 DEF LedgerInv, PaidOnce
<1>3. \A b \in Attempts : pc'[b] = pc[b] \/ (b = a /\ pc'[b] \notin WritingStages /\ pc[b] \notin WritingStages)
  BY DEF TypeInv, FlowInv, OwnTypeOK, PaidStages, WritingStages
<1>4. Booked'
  BY <1>3 DEF LedgerInv, Booked, Mine, WritingStages
<1> QED
  BY <1>2, <1>4 DEF LedgerInv

(* A payment is a Charge of an intent that was not paid. *)
LEMMA ConfirmLedger ==
  ASSUME TypeInv, LedgerInv, NEW a \in Attempts, Confirm(a)
  PROVE  LedgerInv' /\ Ledger!Charge(shown[a])
<1>1. /\ pc[a] = "sheet" /\ shown[a] \notin charged /\ charged' = charged \cup {shown[a]}
      /\ UNCHANGED <<shown, draft, mine, orders>>
  BY DEF Confirm, At, storeVars
<1>2. pc'[a] = "confirmed" /\ \A b \in Attempts : b # a => pc'[b] = pc[b]
  BY DEF Confirm, TypeInv, FlowInv, OwnTypeOK
<1>3. PaidOnce'
  BY <1>1, <1>2 DEF LedgerInv, PaidOnce, PaidStages
<1>4. Booked'
  BY <1>1, <1>2 DEF LedgerInv, Booked, Mine, WritingStages
<1>5. Ledger!Charge(shown[a])
  BY <1>1 DEF Ledger!Charge, Backing
<1> QED
  BY <1>3, <1>4, <1>5 DEF LedgerInv

(* A step of a paid attempt that writes no order: where it may go. *)
LEMMA PaidLedger ==
  ASSUME TypeInv, LedgerInv, NEW a \in Attempts, pc[a] \in PaidStages, pc'[a] \in PaidStages,
         \A b \in Attempts : b # a => pc'[b] = pc[b] /\ draft'[b] = draft[b],
         \/ pc[a] \notin WritingStages /\ pc'[a] \notin WritingStages
         \/ pc[a] \in WritingStages /\ pc'[a] \in {"clear", "done"}
         \/ pc[a] = "stock" /\ pc'[a] = "stock"
         \/ /\ pc[a] = "reading" /\ pc'[a] = "book" /\ draft'[a].attempt = a
         \/ /\ pc[a] = "stock" /\ pc'[a] = "book" /\ draft'[a].attempt = a
            /\ draft'[a].kind = "restaurant",
         UNCHANGED <<shown, charged, mine, orders>>
  PROVE  LedgerInv'
<1>1. PaidOnce'
  BY DEF LedgerInv, PaidOnce
<1>2. \A b \in Attempts : Mine(b)' = Mine(b)
  BY DEF Mine
<1>3. Booked'
  BY <1>2 DEF LedgerInv, Booked, WritingStages
<1> QED
  BY <1>1, <1>3 DEF LedgerInv

(* Two orders of the ledger under one intent are of one attempt. *)
LEMMA SameAttempt ==
  ASSUME TypeInv, LedgerInv, NEW a \in Attempts, pc[a] \in PaidStages,
         NEW o \in mine, shown[o.attempt] = shown[a]
  PROVE  o.attempt = a
<1>1. o.attempt \in Attempts
  BY DEF TypeInv, FlowInv, LedgerTypeOK, Order
<1>2. pc[o.attempt] \in PaidStages
  BY <1>1 DEF LedgerInv, Booked, Mine, WritingStages, PaidStages
<1> QED
  BY <1>1, <1>2 DEF LedgerInv, PaidOnce

(* BookOrder is a Book of the intent its sheet was opened for. *)
LEMMA BookLedger ==
  ASSUME TypeInv, LedgerInv, NEW a \in Attempts, BookOrder(a)
  PROVE  LedgerInv' /\ Ledger!Book(shown[a], draft[a].kind)
<1>1. /\ pc[a] = "book" /\ mine' = mine \cup {draft[a]}
      /\ UNCHANGED <<shown, charged, draft, orders>>
  BY DEF BookOrder, At
<1>2. pc'[a] = "share" /\ \A b \in Attempts : b # a => pc'[b] = pc[b]
  BY DEF BookOrder, TypeInv, FlowInv, OwnTypeOK
<1>3. /\ draft[a].attempt = a
      /\ \A o \in Mine(a) : o \in orders /\ o.kind = "course" /\ draft[a].kind = "restaurant"
  BY <1>1 DEF LedgerInv, Booked
<1>4. pc[a] \in PaidStages /\ pc'[a] \in PaidStages
  BY <1>1, <1>2 DEF PaidStages
<1>5. PaidOnce'
  BY <1>1, <1>2, <1>4 DEF LedgerInv, PaidOnce
<1>6. /\ Mine(a)' = Mine(a) \cup {draft[a]}
      /\ \A b \in Attempts : b # a => Mine(b)' = Mine(b)
  BY <1>1, <1>3 DEF Mine
<1>7. draft[a] \notin orders
  BY <1>3 DEF LedgerInv, Booked, Mine
<1>8. Booked'
  BY <1>1, <1>2, <1>3, <1>6, <1>7 DEF LedgerInv, Booked, WritingStages
<1>9. Ledger!Book(shown[a], draft[a].kind)
  <2>1. shown[a] \in charged
    BY <1>4 DEF LedgerInv, PaidOnce
  <2>2. \A e \in Backing(mine) : e[1] = shown[a] =>
          e \in Backing(orders) /\ e[2] = "course" /\ draft[a].kind = "restaurant"
    <3> SUFFICES ASSUME NEW o \in mine, shown[o.attempt] = shown[a]
                 PROVE  o \in orders /\ o.kind = "course" /\ draft[a].kind = "restaurant"
      BY DEF Backing
    <3>1. o \in Mine(a)
      BY <1>4, SameAttempt DEF Mine
    <3> QED
      BY <3>1, <1>3
  <2>3. Backing(mine)' = Backing(mine) \cup {<<shown[a], draft[a].kind>>}
    BY <1>1, <1>3 DEF Backing
  <2>4. Backing(orders)' = Backing(orders)
    BY <1>1 DEF Backing
  <2> QED
    BY <1>1, <2>1, <2>2, <2>3, <2>4 DEF Ledger!Book
<1> QED
  BY <1>5, <1>8, <1>9 DEF LedgerInv

(* ShareOrder is a Share of what was booked. *)
LEMMA ShareLedger ==
  ASSUME TypeInv, LedgerInv, NEW a \in Attempts, ShareOrder(a)
  PROVE  LedgerInv' /\ Ledger!Share(shown[a], draft[a].kind)
<1>1. /\ pc[a] = "share" /\ orders' = orders \cup {draft[a]}
      /\ UNCHANGED <<shown, charged, draft, mine>>
  BY DEF ShareOrder, StartClear, At
<1>2. /\ \A b \in Attempts : b # a => pc'[b] = pc[b]
      /\ \/ draft[a].kind = "course" /\ pc'[a] = "stock"
         \/ draft[a].kind = "restaurant" /\ pc'[a] = "clear"
  BY DEF ShareOrder, StartClear, TypeInv, FlowInv, OwnTypeOK
<1>3. /\ draft[a] \in Mine(a) /\ draft[a].attempt = a
      /\ \A o \in Mine(a) : o \in orders => o.kind = "course" /\ draft[a].kind = "restaurant"
      /\ \A o \in Mine(a) : o = draft[a] \/ o \in orders
  BY <1>1 DEF LedgerInv, Booked, Mine
<1>4. pc[a] \in PaidStages /\ pc'[a] \in PaidStages
  BY <1>1, <1>2 DEF PaidStages
<1>5. PaidOnce'
  BY <1>1, <1>2, <1>4 DEF LedgerInv, PaidOnce
<1>6. \A b \in Attempts : Mine(b)' = Mine(b)
  BY <1>1 DEF Mine
<1>7. \A b \in Attempts : b # a => draft[a] \notin Mine(b)
  BY <1>3 DEF Mine
<1>8. Booked'
  BY <1>1, <1>2, <1>3, <1>6, <1>7 DEF LedgerInv, Booked, Mine, WritingStages
<1>9. Ledger!Share(shown[a], draft[a].kind)
  <2>1. <<shown[a], draft[a].kind>> \in Backing(mine)
    BY <1>3 DEF Backing, Mine
  <2>2. <<shown[a], draft[a].kind>> \notin Backing(orders)
    <3> SUFFICES ASSUME NEW o \in orders, shown[o.attempt] = shown[a], o.kind = draft[a].kind
                 PROVE  FALSE
      BY DEF Backing
    <3>1. o \in Mine(a)
      BY <1>4, SameAttempt DEF Mine, LedgerInv, Booked
    <3> QED
      BY <3>1, <1>3
  <2>3. Backing(orders)' = Backing(orders) \cup {<<shown[a], draft[a].kind>>}
    BY <1>1, <1>3 DEF Backing
  <2>4. Backing(mine)' = Backing(mine)
    BY <1>1 DEF Backing
  <2> QED
    BY <1>1, <2>1, <2>2, <2>3, <2>4 DEF Ledger!Share
<1> QED
  BY <1>5, <1>8, <1>9 DEF LedgerInv

-----------------------------------------------------------------------------
(* The steps before the payment, and Resume. *)
LEMMA PayLedger ==
  ASSUME TypeInv, LedgerInv, NEW a \in Attempts, Pay(a), ~Confirm(a)
  PROVE  LedgerInv' /\ UNCHANGED <<charged, Backing(mine), Backing(orders)>>
<1>1. PICK s \in {"intent", "ready", "sheet", "failed"} :
        /\ pc[a] \notin PaidStages /\ pc' = [pc EXCEPT ![a] = s]
        /\ \A b \in Attempts : b # a => shown'[b] = shown[b]
        /\ UNCHANGED <<charged, draft, mine, orders>>
  BY DEF Pay, CreateIntent, InitSheet, Present, Fail, At, PaidStages, storeVars,
         TypeInv, FlowInv, OwnTypeOK
<1>2. LedgerInv'
  BY <1>1, UnpaidLedger DEF PaidStages
<1>3. \A o \in mine : o.attempt \in Attempts /\ o.attempt # a
  BY <1>1 DEF TypeInv, FlowInv, LedgerTypeOK, Order, LedgerInv, Booked, Mine,
              PaidStages, WritingStages
<1>4. Backing(mine)' = Backing(mine) /\ Backing(orders)' = Backing(orders)
  BY <1>1, <1>3 DEF Backing, LedgerInv, Booked
<1> QED
  BY <1>1, <1>2, <1>4

(* Going on after the payment is no step of the ledger. *)
LEMMA ResumeLedger ==
  ASSUME TypeInv, LedgerInv, NEW a \in Attempts, Resume(a)
  PROVE  LedgerInv' /\ UNCHANGED <<charged, Backing(mine), Backing(orders)>>
<1>1. /\ pc[a] = "confirmed" /\ pc'[a] \in {"reading", "lost"}
      /\ \A b \in Attempts : b # a => pc'[b] = pc[b]
      /\ UNCHANGED <<shown, charged, draft, mine, orders>>
  BY DEF Resume, At, storeVars, TypeInv, FlowInv, OwnTypeOK
<1> QED
  BY <1>1, PaidLedger DEF PaidStages, WritingStages, Backing

(* Nor is reading the cart, which drafts the first order. *)
LEMMA ReadCartLedger ==
  ASSUME TypeInv, LedgerInv, NEW a \in Attempts, ReadCart(a)
  PROVE  LedgerInv' /\ UNCHANGED <<charged, Backing(mine), Backing(orders)>>
<1>1. /\ pc[a] = "reading" /\ owner[a] \in Pages /\ cart \in Lines
      /\ UNCHANGED <<shown, charged, mine, orders>>
  BY DEF ReadCart, At, storeVars, TypeInv, FlowInv, Reached, CartTypeOK, Lines
<1>2. CASE InCart = {}
  <2>1. /\ pc'[a] = "empty" /\ draft' = draft
        /\ \A b \in Attempts : b # a => pc'[b] = pc[b]
    BY <1>2 DEF ReadCart, TypeInv, FlowInv, OwnTypeOK
  <2> QED
    BY <1>1, <2>1, PaidLedger DEF PaidStages, WritingStages, Backing
<1>3. CASE InCart # {}
  <2> DEFINE kind == IF OnlyRestaurant THEN "restaurant" ELSE "course"
  <2>1. kind \in Kinds /\ StartOrder(a, cart, kind)
    BY <1>3 DEF ReadCart, Kinds
  <2> HIDE DEF kind
  <2>2. /\ pc'[a] = "book" /\ draft'[a].attempt = a
        /\ \A b \in Attempts : b # a => pc'[b] = pc[b] /\ draft'[b] = draft[b]
    BY <1>1, <2>1, OrderDataType, StartOrderFlow DEF StartOrder, TypeInv, FlowInv, OwnTypeOK
  <2> QED
    BY <1>1, <2>2, PaidLedger DEF PaidStages, WritingStages, Backing
<1> QED
  BY <1>2, <1>3

(* Nor is taking the stock, which drafts the second. *)
LEMMA StockStepLedger ==
  ASSUME TypeInv, LedgerInv, NEW a \in Attempts, StockStep(a)
  PROVE  LedgerInv' /\ UNCHANGED <<charged, Backing(mine), Backing(orders)>>
<1>1. /\ pc[a] = "stock" /\ owner[a] \in Pages /\ snap[a] \in Lines
      /\ UNCHANGED <<shown, charged, mine, orders>>
  BY DEF StockStep, At, TypeInv, FlowInv, OwnTypeOK, Reached
<1>2. CASE UNCHANGED <<pc, draft>>
  BY <1>1, <1>2, PaidLedger DEF PaidStages, WritingStages, Backing
<1>3. CASE StartOrder(a, snap[a], "restaurant")
  <2>1. /\ pc'[a] = "book" /\ draft'[a].attempt = a /\ draft'[a].kind = "restaurant"
        /\ \A b \in Attempts : b # a => pc'[b] = pc[b] /\ draft'[b] = draft[b]
    BY <1>1, <1>3, OrderDataType, StartOrderFlow
       DEF Kinds, StartOrder, TypeInv, FlowInv, OwnTypeOK
  <2> QED
    BY <1>1, <2>1, PaidLedger DEF PaidStages, WritingStages, Backing
<1>4. CASE StartClear(a)
  BY <1>1, <1>4, StartClearFlow, PaidLedger DEF PaidStages, WritingStages, Backing
<1> QED
  BY <1>2, <1>3, <1>4 DEF StockStep

(* Nor is clearing a line. *)
LEMMA ClearLineLedger ==
  ASSUME TypeInv, LedgerInv, NEW a \in Attempts, ClearLine(a)
  PROVE  LedgerInv' /\ UNCHANGED <<charged, Backing(mine), Backing(orders)>>
<1>1. /\ pc[a] = "clear" /\ pc'[a] \in {"clear", "done"}
      /\ \A b \in Attempts : b # a => pc'[b] = pc[b]
      /\ UNCHANGED <<shown, charged, draft, mine, orders>>
  BY DEF ClearLine, At, storeVars, TypeInv, FlowInv, OwnTypeOK
<1> QED
  BY <1>1, PaidLedger DEF PaidStages, WritingStages, Backing

(* A tap starts an attempt, a page step none; neither is seen by the ledger. *)
LEMMA TapLedger ==
  ASSUME TypeInv, LedgerInv, NEW p \in Pages, NEW a \in Attempts, Tap(p, a)
  PROVE  LedgerInv' /\ UNCHANGED <<charged, Backing(mine), Backing(orders)>>
<1>1. /\ pc[a] = "idle" /\ pc' = [pc EXCEPT ![a] = "calling"]
      /\ UNCHANGED <<shown, charged, draft, mine, orders>>
  BY DEF Tap, At, storeVars
<1> QED
  BY <1>1, UnpaidLedger DEF PaidStages, Backing

(* Nor are the steps that leave payments, orders and attempts alone. *)
LEMMA OtherLedger ==
  ASSUME TypeInv, LedgerInv,
         \/ Shop \/ EditCart \/ CartReply
         \/ \E p \in Pages : \/ OpenCart(p) \/ LeaveCart(p) \/ SelectAddress(p)
                             \/ \E c \in Cities : SelectCity(p, c)
         \/ \E a \in Attempts : Break(a)
         \/ \E d \in Devices : Kill(d)
         \/ UNCHANGED vars
  PROVE  LedgerInv' /\ UNCHANGED <<charged, Backing(mine), Backing(orders)>>
<1>1. UNCHANGED <<pc, shown, charged, draft, mine, orders>>
  BY DEF Shop, EditCart, CartReply, OpenCart, LeaveCart, SelectAddress, SelectCity,
         Break, Kill, vars, attemptVars, storeVars
<1> QED
  BY <1>1, QuietLedger DEF Backing

(* Every step of the checkout is a step of the ledger, or none. *)
LEMMA NextLedger ==
  ASSUME TypeInv, LedgerInv, [Next]_vars
  PROVE  LedgerInv' /\ [Ledger!Next]_(Ledger!ledgerVars)
<1>1. ASSUME UNCHANGED <<charged, Backing(mine), Backing(orders)>>
      PROVE  [Ledger!Next]_(Ledger!ledgerVars)
  BY <1>1 DEF Ledger!ledgerVars
<1>2. ASSUME NEW a \in Attempts, Confirm(a)
      PROVE  LedgerInv' /\ [Ledger!Next]_(Ledger!ledgerVars)
  <2>1. shown[a] \in Attempts
    BY <1>2 DEF Confirm, At, TypeInv, FlowInv, Reached
  <2> QED
    BY <1>2, <2>1, ConfirmLedger DEF Ledger!Next
<1>3. ASSUME NEW a \in Attempts, BookOrder(a) \/ ShareOrder(a)
      PROVE  LedgerInv' /\ [Ledger!Next]_(Ledger!ledgerVars)
  <2>1. pc[a] \in {"book", "share"} /\ draft[a] \in Order
    BY <1>3 DEF BookOrder, ShareOrder, At, TypeInv, FlowInv, Reached
  <2>2. shown[a] \in Attempts /\ draft[a].kind \in Ledger!LedgerKinds
    BY <2>1 DEF PaidStages, LedgerInv, PaidOnce, TypeInv, FlowInv, LedgerTypeOK,
                Order, Kinds, Ledger!LedgerKinds
  <2> QED
    BY <1>3, <2>2, BookLedger, ShareLedger DEF Ledger!Next
<1>4. ASSUME NEW a \in Attempts, Pay(a) \/ Submit(a)
      PROVE  LedgerInv' /\ [Ledger!Next]_(Ledger!ledgerVars)
  BY <1>1, <1>2, <1>3, <1>4, PayLedger, ResumeLedger, ReadCartLedger, StockStepLedger,
     ClearLineLedger DEF Submit
<1> QED
  BY <1>1, <1>4, TapLedger, OtherLedger DEF Next

(* The checkout implements the ledger: one payment, at most one order of     *)
(* each kind, written for the customer first and for the shop next.          *)
THEOREM ImplementsLedger == Spec => LedgerSpec
<1>1. Init => LedgerInv /\ Ledger!Init
  BY InitLedger
<1>2. TypeInv /\ LedgerInv /\ [Next]_vars => LedgerInv' /\ [Ledger!Next]_(Ledger!ledgerVars)
  BY NextLedger
<1> QED
  BY <1>1, <1>2, InitFlow, NextFlow, PTL DEF Spec, LedgerSpec, Ledger!Spec

(* Every order stands on an intent that was paid, and no intent stands       *)
(* behind the orders of two attempts.                                        *)
THEOREM OneChargeHolds == Spec => []OneChargePerCheckout
<1>1. TypeInv /\ LedgerInv => OneChargePerCheckout
  <2> SUFFICES ASSUME TypeInv, LedgerInv, NEW o1 \in mine, NEW o2 \in mine
               PROVE  /\ shown[o1.attempt] \in charged
                      /\ shown[o1.attempt] = shown[o2.attempt] => o1.attempt = o2.attempt
    BY DEF OneChargePerCheckout
  <2>1. \A o \in mine : o.attempt \in Attempts /\ pc[o.attempt] \in PaidStages
    BY DEF TypeInv, FlowInv, LedgerTypeOK, Order, LedgerInv, Booked, Mine,
           WritingStages, PaidStages
  <2> QED
    BY <2>1 DEF LedgerInv, PaidOnce
<1> QED
  BY <1>1, InitLedger, NextLedger, InitFlow, NextFlow, PTL DEF Spec

-----------------------------------------------------------------------------
(***************************************************************************)
(* What an order says of its delivery.  It is written from the fields of a  *)
(* page, which are filled in before the tap and never emptied.             *)
(***************************************************************************)
MealsOnly(lines) == MealIds(lines) = Ids(lines)

(* The page of an attempt can be delivered to, for as long as it is read. *)
PageKnown ==
  \A a \in Attempts : pc[a] # "idle" =>
    /\ page[owner[a]].city # NoCity
    /\ MealsOnly(quote[a].lines) => page[owner[a]].address

(* And so can the order an attempt is about to write. *)
DraftKnown ==
  \A a \in Attempts : pc[a] \in {"book", "share"} =>
    /\ draft[a].attempt = a
    /\ draft[a].city # NoCity
    /\ draft[a].kind = "restaurant" /\ MealsOnly(quote[a].lines) => draft[a].address

DeliveryInv == PageKnown /\ DraftKnown /\ DeliveryKnown

(* A page keeps its city and its address, but for new ones. *)
LEMMA PagesKeep ==
  ASSUME TypeInv, [Next]_vars, NEW p \in Pages
  PROVE  /\ page[p].city # NoCity => page'[p].city # NoCity
         /\ page[p].address => page'[p].address
<1>1. page[p] \in PageState
  BY DEF TypeInv, FlowInv, OwnTypeOK
<1>2. ASSUME NEW q, NEW s, page' = [page EXCEPT ![q].stage = s]
      PROVE  page'[p].city = page[p].city /\ page'[p].address = page[p].address
  <2>1. DOMAIN page = Pages
    BY DEF TypeInv, FlowInv, OwnTypeOK
  <2>2. page'[p] = page[p] \/ page'[p] = [page[p] EXCEPT !.stage = s]
    BY <1>2, <2>1
  <2> QED
    BY <1>1, <2>2 DEF PageState
<1>3. ASSUME NEW q \in Pages, NEW c \in Cities, SelectCity(q, c)
      PROVE  /\ page[p].city # NoCity => page'[p].city # NoCity
             /\ page[p].address => page'[p].address
  BY <1>1, <1>3, CheckoutAssumption DEF SelectCity, PageState, TypeInv, FlowInv, OwnTypeOK
<1>4. ASSUME NEW q \in Pages, OpenCart(q) \/ LeaveCart(q) \/ SelectAddress(q)
      PROVE  /\ page[p].city # NoCity => page'[p].city # NoCity
             /\ page[p].address => page'[p].address
  <2>1. CASE OpenCart(q) \/ LeaveCart(q)
    BY <1>2, <2>1 DEF OpenCart, LeaveCart, Unmounted
  <2>2. CASE SelectAddress(q)
    BY <1>1, <2>2 DEF SelectAddress, PageState, TypeInv, FlowInv, OwnTypeOK
  <2> QED
    BY <1>4, <2>1, <2>2
<1>5. ASSUME NEW d \in Devices, Kill(d)
      PROVE  /\ page[p].city # NoCity => page'[p].city # NoCity
             /\ page[p].address => page'[p].address
  BY <1>1, <1>5 DEF Kill, PageState, TypeInv, FlowInv, OwnTypeOK
<1>6. ASSUME NEW a \in Attempts, ClearLine(a)
      PROVE  /\ page[p].city # NoCity => page'[p].city # NoCity
             /\ page[p].address => page'[p].address
  <2>1. page' = page \/ page' = Unmounted(owner[a])
    BY <1>6 DEF ClearLine
  <2> QED
    BY <1>2, <2>1 DEF Unmounted
<1>7. ASSUME NEW a \in Attempts, Pay(a) \/ Submit(a) \/ Break(a)
      PROVE  page' = page \/ ClearLine(a)
  BY <1>7 DEF Pay, CreateIntent, InitSheet, Present, Confirm, Fail, Submit, Resume,
              ReadCart, BookOrder, ShareOrder, StockStep, Break
<1>8. \/ page' = page
      \/ \E q \in Pages : \/ OpenCart(q) \/ LeaveCart(q) \/ SelectAddress(q)
                          \/ \E c \in Cities : SelectCity(q, c)
      \/ \E a \in Attempts : ClearLine(a)
      \/ \E d \in Devices : Kill(d)
  BY <1>7 DEF Next, Shop, EditCart, CartReply, Tap, vars
<1> QED
  BY <1>3, <1>4, <1>5, <1>6, <1>8

(* The page and the quote of an attempt are set by its tap, and kept. *)
LEMMA AttemptKeeps ==
  ASSUME TypeInv, [Next]_vars, NEW a \in Attempts, pc[a] # "idle"
  PROVE  owner'[a] = owner[a] /\ quote'[a] = quote[a] /\ pc'[a] # "idle"
<1>1. ASSUME NEW p \in Pages, NEW b \in Attempts, Tap(p, b)
      PROVE  owner'[a] = owner[a] /\ quote'[a] = quote[a] /\ pc'[a] # "idle"
  BY <1>1 DEF Tap, At, TypeInv, FlowInv, OwnTypeOK
<1>2. ASSUME NEW b \in Attempts, Pay(b) \/ Submit(b) \/ Break(b)
      PROVE  owner'[a] = owner[a] /\ quote'[a] = quote[a] /\ pc'[a] # "idle"
  BY <1>2 DEF Pay, CreateIntent, InitSheet, Present, Confirm, Fail, Submit, Resume,
              ReadCart, BookOrder, ShareOrder, StockStep, ClearLine, Break, StartOrder,
              StartClear, TypeInv, FlowInv, OwnTypeOK
<1> QED
  BY <1>1, <1>2
     DEF Next, Shop, EditCart, CartReply, OpenCart, LeaveCart, SelectCity, SelectAddress,
         Kill, vars, attemptVars

(* A tap finds a page that can be delivered to; every other step keeps it so. *)
LEMMA PageKnownStep ==
  ASSUME TypeInv, PageKnown, [Next]_vars
  PROVE  PageKnown'
<1> SUFFICES ASSUME NEW a \in Attempts, pc'[a] # "idle"
             PROVE  /\ page'[owner'[a]].city # NoCity
                    /\ MealsOnly(quote'[a].lines) => page'[owner'[a]].address
  BY DEF PageKnown, MealsOnly, MealIds, Ids, IsMeal
<1>1. CASE pc[a] # "idle"
  <2>1. owner'[a] = owner[a] /\ quote'[a] = quote[a] /\ owner[a] \in Pages
    BY <1>1, AttemptKeeps DEF TypeInv, FlowInv, Reached
  <2> QED
    BY <1>1, <2>1, PagesKeep DEF PageKnown
<1>2. CASE pc[a] = "idle"
  <2>1. PICK p \in Pages : Tap(p, a)
    <3>1. ASSUME NEW b \in Attempts, Pay(b) \/ Submit(b) \/ Break(b)
          PROVE  FALSE
      <4>1. pc[b] # "idle"
        BY <3>1 DEF Pay, CreateIntent, InitSheet, Present, Confirm, Fail, Submit, Resume,
                    ReadCart, BookOrder, ShareOrder, StockStep, ClearLine, Break, At
      <4>2. b # a
        BY <1>2, <4>1
      <4>3. pc'[a] = pc[a]
        BY <3>1, <4>2
           DEF Pay, CreateIntent, InitSheet, Present, Confirm, Fail, Submit, Resume,
               ReadCart, BookOrder, ShareOrder, StockStep, ClearLine, Break, StartOrder,
               StartClear, TypeInv, FlowInv, OwnTypeOK
      <4> QED
        BY <1>2, <4>3
    <3>2. ASSUME NEW q \in Pages, NEW b \in Attempts, Tap(q, b)
          PROVE  b = a
      BY <1>2, <3>2 DEF Tap, TypeInv, FlowInv, OwnTypeOK
    <3>3. \E q \in Pages, b \in Attempts : Tap(q, b)
      BY <1>2, <3>1 DEF Next, Shop, EditCart, CartReply, OpenCart, LeaveCart, SelectCity,
                        SelectAddress, Kill, vars, attemptVars
    <3> QED
      BY <3>2, <3>3
  <2>2. /\ page[p].city # NoCity /\ (OnlyRestaurant => page[p].address)
        /\ page' = page /\ owner'[a] = p /\ quote'[a].lines = cart
    BY <2>1 DEF Tap, TypeInv, FlowInv, OwnTypeOK
  <2>3. MealsOnly(cart) => OnlyRestaurant
    BY DEF MealsOnly, OnlyRestaurant, MealIds, Ids, InCart
  <2> QED
    BY <2>2, <2>3
<1> QED
  BY <1>1, <1>2

(* A draft is made from the page of its attempt. *)
LEMMA OrderDataKnown ==
  ASSUME TypeInv, PageKnown, NEW a \in Attempts, pc[a] # "idle",
         NEW lines \in Lines, NEW kind \in Kinds
  PROVE  LET o == OrderData(a, lines, kind) IN
         /\ o.attempt = a /\ o.city # NoCity
         /\ o.kind = "restaurant" /\ MealsOnly(quote[a].lines) => o.address
         /\ o.lines = Part(lines, kind) /\ o.kind = kind
  BY DEF OrderData, PageKnown

(* What _submitOrder does to the drafts: it makes the one of its attempt, or none. *)
LEMMA DraftMade ==
  ASSUME TypeInv, [Next]_vars, NEW a \in Attempts, pc'[a] \in {"book", "share"}
  PROVE  \/ /\ pc[a] \in {"book", "share"} /\ draft'[a] = draft[a] /\ snap'[a] = snap[a]
            /\ pc[a] = pc'[a] \/ BookOrder(a)
         \/ /\ ReadCart(a) /\ InCart # {} /\ snap'[a] = cart /\ pc'[a] = "book"
            /\ draft'[a] = OrderData(a, cart, IF OnlyRestaurant THEN "restaurant" ELSE "course")
         \/ /\ pc[a] = "stock" /\ snap'[a] = snap[a] /\ pc'[a] = "book"
            /\ draft'[a] = OrderData(a, snap[a], "restaurant")
<1>1. ASSUME NEW b \in Attempts, b # a, Pay(b) \/ Submit(b) \/ Break(b)
      PROVE  pc[a] = pc'[a] /\ draft'[a] = draft[a] /\ snap'[a] = snap[a]
  BY <1>1 DEF Pay, CreateIntent, InitSheet, Present, Confirm, Fail, Submit, Resume,
              ReadCart, BookOrder, ShareOrder, StockStep, ClearLine, Break, StartOrder,
              StartClear, TypeInv, FlowInv, OwnTypeOK
<1>2. CASE ReadCart(a)
  BY <1>2 DEF ReadCart, StartOrder, TypeInv, FlowInv, OwnTypeOK
<1>3. CASE StockStep(a)
  BY <1>3 DEF StockStep, StartOrder, StartClear, At, TypeInv, FlowInv, OwnTypeOK
<1>4. CASE BookOrder(a)
  BY <1>4 DEF BookOrder, At
<1>5. CASE Pay(a) \/ Resume(a) \/ ShareOrder(a) \/ ClearLine(a) \/ Break(a)
  BY <1>5 DEF Pay, CreateIntent, InitSheet, Present, Confirm, Fail, Resume,
              ShareOrder, ClearLine, Break, StartClear, At, TypeInv, FlowInv, OwnTypeOK
<1>6. ASSUME NEW p \in Pages, NEW b \in Attempts, Tap(p, b)
      PROVE  pc[a] = pc'[a] /\ draft'[a] = draft[a] /\ snap'[a] = snap[a]
  BY <1>6 DEF Tap, TypeInv, FlowInv, OwnTypeOK
<1>7. ASSUME UNCHANGED <<pc, draft, snap>>
      PROVE  pc[a] = pc'[a] /\ draft'[a] = draft[a] /\ snap'[a] = snap[a]
  BY <1>7
<1>8. (\A b \in Attempts : ~(Pay(b) \/ Submit(b) \/ Break(b)))
        /\ (\A p \in Pages, b \in Attempts : ~Tap(p, b)) => UNCHANGED <<pc, draft, snap>>
  BY DEF Next, Shop, EditCart, CartReply, OpenCart, LeaveCart, SelectCity, SelectAddress,
         Kill, vars, attemptVars
<1> QED
  BY <1>1, <1>2, <1>3, <1>4, <1>5, <1>6, <1>7, <1>8 DEF Submit

(* So that it is deliverable when it is made. *)
LEMMA DraftKnownStep ==
  ASSUME TypeInv, PageKnown, DraftKnown, [Next]_vars
  PROVE  DraftKnown'
<1> SUFFICES ASSUME NEW a \in Attempts, pc'[a] \in {"book", "share"}
             PROVE  /\ draft'[a].attempt = a
                    /\ draft'[a].city # NoCity
                    /\ draft'[a].kind = "restaurant" /\ MealsOnly(quote'[a].lines)
                         => draft'[a].address
  BY DEF DraftKnown, MealsOnly, MealIds, Ids, IsMeal
<1>1. cart \in Lines /\ snap[a] \in Lines
  BY DEF TypeInv, FlowInv, OwnTypeOK, CartTypeOK, Lines
<1>2. CASE pc[a] \in {"book", "share"} /\ draft'[a] = draft[a]
  BY <1>2, AttemptKeeps DEF DraftKnown
<1>3. CASE ReadCart(a) /\ InCart # {}
           /\ draft'[a] = OrderData(a, cart, IF OnlyRestaurant THEN "restaurant" ELSE "course")
  <2> DEFINE kind == IF OnlyRestaurant THEN "restaurant" ELSE "course"
  <2>1. kind \in Kinds /\ pc[a] # "idle" /\ draft'[a] = OrderData(a, cart, kind)
    BY <1>3 DEF Kinds, ReadCart, At
  <2> HIDE DEF kind
  <2> QED
    BY <1>1, <2>1, OrderDataKnown, AttemptKeeps
<1>4. CASE pc[a] = "stock" /\ draft'[a] = OrderData(a, snap[a], "restaurant")
  <2>1. "restaurant" \in Kinds /\ pc[a] # "idle"
    BY <1>4 DEF Kinds
  <2> QED
    BY <1>1, <1>4, <2>1, OrderDataKnown, AttemptKeeps
<1> QED
  BY <1>2, <1>3, <1>4, DraftMade

(* Orders are added by BookOrder only, and never changed. *)
LEMMA MineGrows ==
  ASSUME TypeInv, [Next]_vars
  PROVE  /\ mine \subseteq mine' /\ orders \subseteq orders'
         /\ \A o \in mine' \ mine : \E a \in Attempts : BookOrder(a) /\ o = draft[a]
  BY DEF Next, Shop, EditCart, CartReply, OpenCart, LeaveCart, SelectCity, SelectAddress,
         Tap, Pay, CreateIntent, InitSheet, Present, Confirm, Fail, Submit, Resume,
         ReadCart, BookOrder, ShareOrder, StockStep, ClearLine, Break, Kill, vars, storeVars

(* The deliveries stay known. *)
LEMMA DeliveryStep ==
  ASSUME TypeInv, LedgerInv, DeliveryInv, [Next]_vars
  PROVE  DeliveryInv'
<1>1. PageKnown' /\ DraftKnown'
  BY PageKnownStep, DraftKnownStep DEF DeliveryInv
<1>2. ASSUME NEW o \in mine'
      PROVE  /\ o.city # NoCity
             /\ o.kind = "restaurant" /\ MealsOnly(quote'[o.attempt].lines) => o.address
  <2>1. CASE o \in mine
    <3>1. o.attempt \in Attempts /\ pc[o.attempt] # "idle"
      BY <2>1 DEF TypeInv, FlowInv, LedgerTypeOK, Order, LedgerInv, Booked, Mine, WritingStages
    <3>2. quote'[o.attempt] = quote[o.attempt]
      BY <3>1, AttemptKeeps
    <3> QED
      BY <2>1, <3>2 DEF DeliveryInv, DeliveryKnown, MealsOnly
  <2>2. CASE o \notin mine
    <3>1. PICK a \in Attempts : BookOrder(a) /\ o = draft[a]
      BY <1>2, <2>2, MineGrows
    <3>2. pc[a] = "book" /\ quote' = quote
      BY <3>1 DEF BookOrder, At
    <3> QED
      BY <3>1, <3>2 DEF DeliveryInv, DraftKnown
  <2> QED
    BY <2>1, <2>2
<1> QED
  BY <1>1, <1>2 DEF DeliveryInv, DeliveryKnown, MealsOnly, MealIds, Ids, IsMeal

(* Every order can be delivered: it has a city, and a meal that was ordered  *)
(* from a cart of meals only has an address.                                 *)
THEOREM DeliveryKnownHolds == Spec => []DeliveryKnown
<1>1. Init => DeliveryInv
  BY DEF Init, DeliveryInv, PageKnown, DraftKnown, DeliveryKnown
<1>2. DeliveryInv => DeliveryKnown
  BY DEF DeliveryInv
<1> QED
  BY <1>1, <1>2, DeliveryStep, InitLedger, NextLedger, InitFlow, NextFlow, PTL DEF Spec

-----------------------------------------------------------------------------
(***************************************************************************)
(* What becomes of the lines.  The lines an attempt has read are ordered   *)
(* part by part, and those that are ordered are taken out; in between they *)
(* may be edited or removed, but they do not come back, nor do they turn   *)
(* into lines of other goods, for their ids are used up.                   *)
(***************************************************************************)
Bought(a, l) == \E o \in mine \cap orders : o.attempt = a /\ o.lines[l] = snap[a][l]

Plain(a) == Ids(snap[a]) \ MealIds(snap[a])

CartSpent == InCart \subseteq spent

(* What is left in the cart of the lines read is of the goods read. *)
SameGoods(a) ==
  /\ Ids(snap[a]) \subseteq spent
  /\ \A l \in Ids(snap[a]) : cart[l] # NoLine => cart[l].good = snap[a][l].good

(* How far the lines read have come at each stage. *)
Progress(a) ==
  /\ pc[a] \in {"book", "share"} =>
       /\ draft[a].lines = Part(snap[a], draft[a].kind)
       /\ draft[a].kind = "restaurant" => \A l \in Plain(a) : Bought(a, l)
  /\ pc[a] = "stock" => \A l \in Plain(a) : Bought(a, l)
  /\ pc[a] \in {"clear", "done"} => \A l \in Ids(snap[a]) : Bought(a, l)
  /\ pc[a] = "clear" => /\ rest[a] \subseteq Ids(snap[a])
                        /\ \A l \in Ids(snap[a]) \ rest[a] : cart[l] = NoLine
  /\ pc[a] = "done" => \A l \in Ids(snap[a]) : cart[l] = NoLine

LinesInv ==
  /\ CartSpent
  /\ \A a \in Attempts : pc[a] \in WritingStages => SameGoods(a) /\ Progress(a)

(* One step of the cart: an id that was used does not get a line again, and a *)
(* line stays of the same goods.                                            *)
LEMMA CartMoves ==
  ASSUME TypeInv, CartSpent, CartNext
  PROVE  /\ spent \subseteq spent' /\ CartSpent'
         /\ \A l \in spent : /\ cart[l] = NoLine => cart'[l] = NoLine
                             /\ cart'[l] # NoLine => cart'[l].good = cart[l].good
<1>1. CartTypeOK /\ spent \subseteq LineIds
  BY DEF TypeInv, CartTypeOK
<1>2. ASSUME NEW k \in LineIds, NEW g \in Goods, NEW q, PutLine(k, g, q)
      PROVE  /\ spent \subseteq spent' /\ CartSpent'
             /\ \A l \in spent : cart'[l] = cart[l]
  BY <1>1, <1>2 DEF PutLine, CartTypeOK, CartSpent, InCart
<1>3. ASSUME NEW w \in writes, Commit(w)
      PROVE  /\ spent \subseteq spent' /\ CartSpent'
             /\ \A l \in spent : /\ cart[l] = NoLine => cart'[l] = NoLine
                                 /\ cart'[l] # NoLine => cart'[l].good = cart[l].good
  <2>1. w \in Write /\ spent' = spent
    BY <1>1, <1>3 DEF CartTypeOK, Commit
  <2>2. \A l \in LineIds : l # w.line => cart'[l] = cart[l]
    BY <1>1, <1>3 DEF CartTypeOK, Commit
  <2>3. w.line \in LineIds /\ cart'[w.line] = Written(w)
    BY <1>1, <1>3, <2>1 DEF CartTypeOK, Commit, Write
  <2>4. Written(w) # NoLine => Written(w).good = cart[w.line].good
    <3> SUFFICES ASSUME Written(w) # NoLine PROVE Written(w).good = cart[w.line].good
      OBVIOUS
    <3>1. w.line \in InCart
          /\ Written(w) = [cart[w.line] EXCEPT !.quantity = w.quantity, !.total = w.total]
      BY DEF Written
    <3>2. cart[w.line] \in Line
      BY <1>1, <2>3, <3>1 DEF CartTypeOK, InCart
    <3> QED
      BY <3>1, <3>2 DEF Line
  <2>5. cart[w.line] = NoLine => Written(w) = NoLine
    BY <2>3 DEF Written, InCart
  <2>6. CartSpent'
    BY <2>1, <2>2, <2>3, <2>5 DEF CartSpent, InCart
  <2> QED
    BY <1>1, <2>1, <2>2, <2>3, <2>4, <2>5, <2>6
<1>4. ASSUME cart' = cart, spent' = spent
      PROVE  /\ spent \subseteq spent' /\ CartSpent'
             /\ \A l \in spent : cart'[l] = cart[l]
  BY <1>4 DEF CartSpent, InCart
<1> QED
  BY <1>2, <1>3, <1>4
     DEF CartNext, CartTap, CartServer, ProductAddToCart, MenuAddToCart,
         UpdateQuantity, DeleteItem, GetReturns

(* The same of every step of the checkout. *)
LEMMA LinesMove ==
  ASSUME TypeInv, CartSpent, [Next]_vars
  PROVE  /\ spent \subseteq spent' /\ CartSpent'
         /\ \A l \in spent : /\ cart[l] = NoLine => cart'[l] = NoLine
                             /\ cart'[l] # NoLine => cart'[l].good = cart[l].good
<1>1. spent \subseteq LineIds /\ cart \in [LineIds -> Line \cup {NoLine}]
  BY DEF TypeInv, CartTypeOK
<1>2. ASSUME NEW a \in Attempts, ClearLine(a)
      PROVE  /\ spent \subseteq spent' /\ CartSpent'
             /\ \A l \in spent : /\ cart[l] = NoLine => cart'[l] = NoLine
                                 /\ cart'[l] # NoLine => cart'[l].good = cart[l].good
  <2>1. PICK k \in rest[a] : cart' = [cart EXCEPT ![k] = NoLine]
    BY <1>2 DEF ClearLine
  <2>2. spent' = spent
    BY <1>2 DEF ClearLine
  <2>3. \A l \in LineIds : cart'[l] = cart[l] \/ cart'[l] = NoLine
    BY <1>1, <2>1
  <2> QED
    BY <1>1, <2>2, <2>3 DEF CartSpent, InCart
<1>3. ASSUME UNCHANGED cartVars
      PROVE  /\ spent \subseteq spent' /\ CartSpent'
             /\ \A l \in spent : cart'[l] = cart[l]
  BY <1>3 DEF cartVars, CartSpent, InCart
<1> QED
  BY <1>2, <1>3, CartMoves, CartPartOfStep

(* What is ordered stays ordered. *)
LEMMA BoughtStays ==
  ASSUME TypeInv, [Next]_vars, NEW a \in Attempts, NEW l, snap'[a] = snap[a], Bought(a, l)
  PROVE  Bought(a, l)'
  BY MineGrows DEF Bought

(* So do the goods of the lines read. *)
LEMMA GoodsStay ==
  ASSUME TypeInv, CartSpent, [Next]_vars, NEW a \in Attempts, snap'[a] = snap[a], SameGoods(a)
  PROVE  /\ SameGoods(a)' /\ Ids(snap[a])' = Ids(snap[a]) /\ Plain(a)' = Plain(a)
         /\ \A l \in Ids(snap[a]) : cart[l] = NoLine => cart'[l] = NoLine
<1>1. Ids(snap[a])' = Ids(snap[a]) /\ Plain(a)' = Plain(a)
  BY DEF Ids, Plain, MealIds, IsMeal
<1>2. \A l \in Ids(snap[a]) : /\ cart[l] = NoLine => cart'[l] = NoLine
                              /\ cart'[l] # NoLine => cart'[l].good = cart[l].good
  BY LinesMove DEF SameGoods
<1>3. SameGoods(a)'
  BY <1>1, <1>2, LinesMove DEF SameGoods
<1> QED
  BY <1>1, <1>2, <1>3

(* An attempt that does not move keeps what it has, whoever else moves. *)
LEMMA OthersProgress ==
  ASSUME TypeInv, LinesInv, [Next]_vars, NEW a \in Attempts, pc[a] \in WritingStages,
         pc'[a] = pc[a], snap'[a] = snap[a], draft'[a] = draft[a], rest'[a] = rest[a]
  PROVE  SameGoods(a)' /\ Progress(a)'
<1>1. CartSpent /\ SameGoods(a) /\ Progress(a)
  BY DEF LinesInv
<1>2. \A l : Bought(a, l) => Bought(a, l)'
  BY BoughtStays
<1>3. Part(snap[a], draft[a].kind)' = Part(snap[a], draft[a].kind)
  BY DEF Part, Ids, IsMeal
<1> QED
  BY <1>1, <1>2, <1>3, GoodsStay DEF Progress

(* The order drafted first is of the lines just read. *)
LEMMA ReadCartProgress ==
  ASSUME TypeInv, LinesInv, NEW a \in Attempts, ReadCart(a), pc'[a] \in WritingStages
  PROVE  SameGoods(a)' /\ Progress(a)'
<1> DEFINE kind == IF OnlyRestaurant THEN "restaurant" ELSE "course"
<1>1. /\ pc'[a] = "book" /\ snap'[a] = cart /\ cart' = cart /\ spent' = spent
      /\ draft'[a] = OrderData(a, cart, kind)
  BY DEF ReadCart, StartOrder, TypeInv, FlowInv, OwnTypeOK, WritingStages, cartVars
<1>2. draft'[a].lines = Part(cart, kind) /\ draft'[a].kind = kind
  BY <1>1 DEF OrderData
<1>3. Ids(snap[a])' = InCart
  BY <1>1 DEF Ids, InCart
<1>4. SameGoods(a)'
  BY <1>1, <1>3 DEF SameGoods, LinesInv, CartSpent
<1>5. kind = "restaurant" => Plain(a)' = {}
  BY <1>1, <1>3 DEF Plain, MealIds, OnlyRestaurant, Ids, InCart, IsMeal
<1>6. Part(snap[a], kind)' = Part(cart, kind)
  BY <1>1 DEF Part, Ids, IsMeal, OnlyRestaurant, InCart
<1> HIDE DEF kind
<1> QED
  BY <1>1, <1>2, <1>4, <1>5 DEF Progress, Part, Ids, IsMeal

(* Writing it for the customer changes nothing of it. *)
LEMMA BookOrderProgress ==
  ASSUME TypeInv, LinesInv, [Next]_vars, NEW a \in Attempts, BookOrder(a)
  PROVE  SameGoods(a)' /\ Progress(a)'
<1>1. pc[a] = "book" /\ pc'[a] = "share" /\ UNCHANGED <<snap, draft>>
  BY DEF BookOrder, At, TypeInv, FlowInv, OwnTypeOK
<1>2. CartSpent /\ SameGoods(a) /\ Progress(a)
  BY <1>1 DEF LinesInv, WritingStages
<1>3. \A l : Bought(a, l) => Bought(a, l)'
  BY <1>1, BoughtStays
<1>4. Part(snap[a], draft[a].kind)' = Part(snap[a], draft[a].kind)
  BY <1>1 DEF Part, Ids, IsMeal
<1> QED
  BY <1>1, <1>2, <1>3, <1>4, GoodsStay DEF Progress

(* Written for the shop too, its lines are bought. *)
LEMMA ShareOrderProgress ==
  ASSUME TypeInv, LedgerInv, LinesInv, [Next]_vars, NEW a \in Attempts, ShareOrder(a)
  PROVE  SameGoods(a)' /\ Progress(a)'
<1>1. /\ pc[a] = "share" /\ UNCHANGED <<snap, mine, cart>> /\ orders' = orders \cup {draft[a]}
      /\ \/ draft[a].kind = "course" /\ pc'[a] = "stock"
         \/ draft[a].kind = "restaurant" /\ pc'[a] = "clear" /\ rest'[a] = Ids(snap[a])
  BY DEF ShareOrder, StartClear, At, TypeInv, FlowInv, OwnTypeOK, cartVars
<1>2. CartSpent /\ SameGoods(a) /\ Progress(a)
  BY <1>1 DEF LinesInv, WritingStages
<1>3. draft[a] \in mine' \cap orders' /\ draft[a].attempt = a
  BY <1>1 DEF LedgerInv, Booked, Mine
<1>4. \A l : Bought(a, l) => Bought(a, l)'
  BY <1>1, BoughtStays
<1>5. draft[a].lines = Part(snap[a], draft[a].kind)
  BY <1>1, <1>2 DEF Progress
<1>6. /\ Ids(snap[a])' = Ids(snap[a]) /\ Plain(a)' = Plain(a) /\ SameGoods(a)'
      /\ Plain(a) \subseteq Ids(snap[a])
  BY <1>1, <1>2, GoodsStay DEF Plain
<1>7. CASE draft[a].kind = "course"
  <2>1. \A l \in Plain(a) : draft[a].lines[l] = snap[a][l]
    BY <1>5, <1>7 DEF Plain, MealIds, Part, Ids, IsMeal
  <2>2. \A l \in Plain(a) : Bought(a, l)'
    BY <1>1, <1>3, <2>1 DEF Bought
  <2> QED
    BY <1>1, <1>6, <1>7, <2>2 DEF Progress
<1>8. CASE draft[a].kind = "restaurant"
  <2>1. \A l \in MealIds(snap[a]) : draft[a].lines[l] = snap[a][l]
    BY <1>5, <1>8 DEF MealIds, Part, Ids, IsMeal
  <2>2. \A l \in MealIds(snap[a]) : Bought(a, l)'
    BY <1>1, <1>3, <2>1 DEF Bought
  <2>3. \A l \in Plain(a) : Bought(a, l)'
    BY <1>1, <1>2, <1>4, <1>8 DEF Progress
  <2>4. \A l \in Ids(snap[a]) : Bought(a, l)'
    BY <2>2, <2>3 DEF Plain
  <2> QED
    BY <1>1, <1>6, <1>8, <2>4 DEF Progress
<1> QED
  BY <1>1, <1>7, <1>8

(* The products are bought when the meals are drafted, or all is cleared. *)
LEMMA StockStepProgress ==
  ASSUME TypeInv, LinesInv, [Next]_vars, NEW a \in Attempts, StockStep(a)
  PROVE  SameGoods(a)' /\ Progress(a)'
<1>1. /\ pc[a] = "stock" /\ snap' = snap
      /\ \/ pc'[a] = "stock"
         \/ pc'[a] = "book" /\ draft'[a] = OrderData(a, snap[a], "restaurant")
         \/ pc'[a] = "clear" /\ rest'[a] = Ids(snap[a]) /\ MealIds(snap[a]) = {}
  BY DEF StockStep, StartOrder, StartClear, At, TypeInv, FlowInv, OwnTypeOK
<1>2. CartSpent /\ SameGoods(a) /\ Progress(a)
  BY <1>1 DEF LinesInv, WritingStages
<1>3. Ids(snap[a])' = Ids(snap[a]) /\ Plain(a)' = Plain(a) /\ SameGoods(a)'
  BY <1>1, <1>2, GoodsStay
<1>4. \A l \in Plain(a) : Bought(a, l)'
  BY <1>1, <1>2, BoughtStays DEF Progress
<1>5. CASE pc'[a] = "stock"
  BY <1>3, <1>4, <1>5 DEF Progress
<1>6. CASE pc'[a] = "book" /\ draft'[a] = OrderData(a, snap[a], "restaurant")
  <2>1. draft'[a].lines = Part(snap[a], "restaurant") /\ draft'[a].kind = "restaurant"
    BY <1>6 DEF OrderData
  <2>2. Part(snap[a], "restaurant")' = Part(snap[a], "restaurant")
    BY <1>1 DEF Part, Ids, IsMeal
  <2>3. (draft[a].lines = Part(snap[a], draft[a].kind))'
    BY <2>1, <2>2, <1>1 DEF Part, Ids, IsMeal
  <2> QED
    BY <1>3, <1>4, <1>6, <2>3 DEF Progress
<1>7. CASE pc'[a] = "clear" /\ rest'[a] = Ids(snap[a]) /\ MealIds(snap[a]) = {}
  <2>1. Plain(a) = Ids(snap[a])
    BY <1>7 DEF Plain
  <2> QED
    BY <1>3, <1>4, <1>7, <2>1 DEF Progress
<1> QED
  BY <1>1, <1>5, <1>6, <1>7

(* A line that is cleared is one that is bought. *)
LEMMA ClearLineProgress ==
  ASSUME TypeInv, LinesInv, [Next]_vars, NEW a \in Attempts, ClearLine(a)
  PROVE  SameGoods(a)' /\ Progress(a)'
<1>1. pc[a] = "clear" /\ snap' = snap
  BY DEF ClearLine, At
<1>2. CartSpent /\ SameGoods(a) /\ Progress(a)
  BY <1>1 DEF LinesInv, WritingStages
<1>3. PICK k \in rest[a] :
        /\ cart' = [cart EXCEPT ![k] = NoLine] /\ rest' = [rest EXCEPT ![a] = @ \ {k}]
        /\ \/ rest[a] # {k} /\ pc' = pc
           \/ rest[a] = {k} /\ pc' = [pc EXCEPT ![a] = "done"]
  BY DEF ClearLine
<1>4. k \in LineIds /\ cart'[k] = NoLine /\ rest'[a] = rest[a] \ {k}
  BY <1>3 DEF TypeInv, FlowInv, OwnTypeOK, CartTypeOK
<1>5. /\ Ids(snap[a])' = Ids(snap[a]) /\ SameGoods(a)'
      /\ \A l \in Ids(snap[a]) : cart[l] = NoLine => cart'[l] = NoLine
  BY <1>1, <1>2, GoodsStay
<1>6. \A l \in Ids(snap[a]) : Bought(a, l)'
  BY <1>1, <1>2, BoughtStays DEF Progress
<1>7. \A l \in Ids(snap[a]) \ rest'[a] : cart'[l] = NoLine
  BY <1>1, <1>2, <1>4, <1>5 DEF Progress
<1>8. CASE pc' = pc
  BY <1>1, <1>2, <1>4, <1>5, <1>6, <1>7, <1>8 DEF Progress
<1>9. CASE rest[a] = {k} /\ pc' = [pc EXCEPT ![a] = "done"]
  <2>1. pc'[a] = "done" /\ rest'[a] = {}
    BY <1>4, <1>9 DEF TypeInv, FlowInv, OwnTypeOK
  <2> QED
    BY <1>5, <1>6, <1>7, <2>1 DEF Progress
<1> QED
  BY <1>3, <1>8, <1>9

(* Who can move an attempt that writes. *)
LEMMA WhoMoves ==
  ASSUME TypeInv, [Next]_vars, NEW a \in Attempts, pc'[a] \in WritingStages
  PROVE  \/ /\ pc[a] \in WritingStages /\ pc'[a] = pc[a] /\ snap'[a] = snap[a]
            /\ draft'[a] = draft[a] /\ rest'[a] = rest[a]
         \/ ReadCart(a) \/ BookOrder(a) \/ ShareOrder(a) \/ StockStep(a) \/ ClearLine(a)
<1>1. ASSUME NEW b \in Attempts, b # a, Pay(b) \/ Submit(b) \/ Break(b)
      PROVE  pc'[a] = pc[a] /\ snap'[a] = snap[a] /\ draft'[a] = draft[a] /\ rest'[a] = rest[a]
  BY <1>1 DEF Pay, CreateIntent, InitSheet, Present, Confirm, Fail, Submit, Resume,
              ReadCart, BookOrder, ShareOrder, StockStep, ClearLine, Break, StartOrder,
              StartClear, TypeInv, FlowInv, OwnTypeOK
<1>2. CASE Pay(a) \/ Resume(a)
  BY <1>2 DEF Pay, CreateIntent, InitSheet, Present, Confirm, Fail, Resume,
              WritingStages, TypeInv, FlowInv, OwnTypeOK
<1>3. ASSUME NEW p \in Pages, NEW b \in Attempts, Tap(p, b)
      PROVE  pc'[a] = pc[a] /\ snap'[a] = snap[a] /\ draft'[a] = draft[a] /\ rest'[a] = rest[a]
  BY <1>3 DEF Tap, WritingStages, TypeInv, FlowInv, OwnTypeOK
<1>4. ASSUME UNCHANGED <<pc, snap, draft, rest>>
      PROVE  pc'[a] = pc[a] /\ snap'[a] = snap[a] /\ draft'[a] = draft[a] /\ rest'[a] = rest[a]
  BY <1>4
<1>5. CASE Break(a)
  BY <1>4, <1>5 DEF Break
<1>6. (\A b \in Attempts : ~(Pay(b) \/ Submit(b) \/ Break(b)))
        /\ (\A p \in Pages, b \in Attempts : ~Tap(p, b)) => UNCHANGED <<pc, snap, draft, rest>>
  BY DEF Next, Shop, EditCart, CartReply, OpenCart, LeaveCart, SelectCity, SelectAddress,
         Kill, vars, attemptVars
<1> QED
  BY <1>1, <1>2, <1>3, <1>4, <1>5, <1>6 DEF Submit

(* Every step keeps the lines where their attempt has brought them. *)
LEMMA LinesStep ==
  ASSUME TypeInv, LedgerInv, LinesInv, [Next]_vars
  PROVE  LinesInv'
<1>1. CartSpent'
  BY LinesMove DEF LinesInv
<1>2. ASSUME NEW a \in Attempts, pc'[a] \in WritingStages
      PROVE  SameGoods(a)' /\ Progress(a)'
  BY <1>2, WhoMoves, OthersProgress, ReadCartProgress, BookOrderProgress,
     ShareOrderProgress, StockStepProgress, ClearLineProgress
<1> QED
  BY <1>1, <1>2 DEF LinesInv

(* There are no lines at the start. *)
LEMMA InitLines == Init => LinesInv
  BY DEF Init, CartInit, LinesInv, CartSpent, InCart, WritingStages

(* What a finished attempt has read is ordered in both collections and out   *)
(* of the cart, and no edit that was on its way brings it back.              *)
THEOREM DoneLeavesNothing == Spec => []DoneLeavesNoLineBehind
<1>1. LinesInv => DoneLeavesNoLineBehind
  BY DEF LinesInv, Progress, Bought, DoneLeavesNoLineBehind, WritingStages
<1> QED
  BY <1>1, InitLines, LinesStep, InitLedger, NextLedger, InitFlow, NextFlow, PTL DEF Spec

(* No line is lost: what an attempt takes out of the cart is in an order of  *)
(* its own, in both collections.                                             *)
THEOREM ClearedOnlyOnceOrderedHolds == Spec => ClearedOnlyOnceOrdered
<1> DEFINE Cleared ==
      \A a \in Attempts, l \in LineIds :
        ClearLine(a) /\ cart[l] # NoLine /\ cart'[l] = NoLine =>
          \E o \in mine \cap orders :
             o.attempt = a /\ o.lines[l] # NoLine /\ o.lines[l].good = cart[l].good
<1>1. TypeInv /\ LinesInv => Cleared
  <2> SUFFICES ASSUME TypeInv, LinesInv, NEW a \in Attempts, NEW l \in LineIds,
                      ClearLine(a), cart[l] # NoLine, cart'[l] = NoLine
               PROVE  \E o \in mine \cap orders :
                        o.attempt = a /\ o.lines[l] # NoLine /\ o.lines[l].good = cart[l].good
    OBVIOUS
  <2>1. pc[a] = "clear" /\ l \in rest[a]
    BY DEF ClearLine, At, TypeInv, CartTypeOK
  <2>2. SameGoods(a) /\ Progress(a)
    BY <2>1 DEF LinesInv, WritingStages
  <2>3. l \in Ids(snap[a]) /\ Bought(a, l) /\ cart[l].good = snap[a][l].good
    BY <2>1, <2>2 DEF Progress, SameGoods
  <2> QED
    BY <2>3 DEF Bought, Ids
<1>2. TypeInv /\ LinesInv => [Cleared]_vars
  BY <1>1
<1> HIDE DEF Cleared
<1>3. Spec => [][Cleared]_vars
  BY <1>2, InitLines, LinesStep, InitLedger, NextLedger, InitFlow, NextFlow, PTL DEF Spec
<1> QED
  BY <1>3 DEF ClearedOnlyOnceOrdered, Cleared

-----------------------------------------------------------------------------
(***************************************************************************)
(* What the orders of an attempt cost.  They are parts of what it has      *)
(* read, one of each kind at most, so that they add up to all it has read  *)
(* once every line is in one of them.  Sums are over finite sets: the cart *)
(* never had more than finitely many lines.                                *)
(***************************************************************************)
OrdersArePartsOf(a) ==
  /\ \A o \in Mine(a) : o.lines = Part(snap[a], o.kind)
  /\ \A o1, o2 \in Mine(a) : o1.kind = o2.kind => o1 = o2

AccountInv ==
  /\ IsFiniteSet(spent)
  /\ \A a \in Attempts : pc[a] \in WritingStages => OrdersArePartsOf(a)

(* An id is handed out at a time. *)
LEMMA SpentFinite ==
  ASSUME TypeInv, IsFiniteSet(spent), [Next]_vars
  PROVE  IsFiniteSet(spent')
<1>1. ASSUME NEW l, spent' = spent \cup {l}
      PROVE  IsFiniteSet(spent')
  BY <1>1, FS_AddElement
<1>2. CASE spent' = spent
  BY <1>2
<1>3. CASE [CartNext]_cartVars
  BY <1>1, <1>2, <1>3
     DEF CartNext, CartTap, CartServer, ProductAddToCart, MenuAddToCart, PutLine,
         UpdateQuantity, DeleteItem, GetReturns, Commit, cartVars
<1>4. ASSUME NEW a \in Attempts, ClearLine(a)
      PROVE  spent' = spent
  BY <1>4 DEF ClearLine
<1> QED
  BY <1>2, <1>3, <1>4, CartPartOfStep

(* BookOrder(a) adds the drafted part; no other step adds to the orders of a. *)
LEMMA MineMoves ==
  ASSUME TypeInv, LedgerInv, [Next]_vars, NEW a \in Attempts
  PROVE  \/ Mine(a)' = Mine(a)
         \/ BookOrder(a) /\ Mine(a)' = Mine(a) \cup {draft[a]}
<1>1. ASSUME NEW b \in Attempts, BookOrder(b)
      PROVE  draft[b].attempt = b /\ mine' = mine \cup {draft[b]}
  BY <1>1 DEF BookOrder, At, LedgerInv, Booked
<1>2. CASE \E b \in Attempts : b # a /\ BookOrder(b)
  BY <1>1, <1>2 DEF Mine
<1>3. CASE BookOrder(a)
  BY <1>1, <1>3 DEF Mine
<1>4. CASE \A b \in Attempts : ~BookOrder(b)
  BY <1>4, MineGrows DEF Mine
<1> QED
  BY <1>2, <1>3, <1>4

(* The orders stay parts of what was read, and of different kinds. *)
LEMMA AccountStep ==
  ASSUME TypeInv, LedgerInv, LinesInv, AccountInv, [Next]_vars
  PROVE  AccountInv'
<1>1. IsFiniteSet(spent)'
  BY SpentFinite DEF AccountInv
<1>2. ASSUME NEW a \in Attempts, pc'[a] \in WritingStages
      PROVE  OrdersArePartsOf(a)'
  <2>1. CASE BookOrder(a) /\ Mine(a)' = Mine(a) \cup {draft[a]}
    <3>1. pc[a] = "book" /\ snap' = snap
      BY <2>1 DEF BookOrder, At
    <3>2. draft[a].lines = Part(snap[a], draft[a].kind)
      BY <3>1 DEF LinesInv, Progress, WritingStages
    <3>3. \A o \in Mine(a) : o.kind = "course" /\ draft[a].kind = "restaurant"
      BY <3>1 DEF LedgerInv, Booked
    <3>4. OrdersArePartsOf(a)
      BY <3>1 DEF AccountInv, WritingStages
    <3>5. \A o \in Mine(a)' : o.lines = Part(snap[a], o.kind)
      BY <2>1, <3>2, <3>4 DEF OrdersArePartsOf
    <3>6. \A o1, o2 \in Mine(a)' : o1.kind = o2.kind => o1 = o2
      BY <2>1, <3>3, <3>4 DEF OrdersArePartsOf
    <3> QED
      BY <3>1, <3>5, <3>6 DEF OrdersArePartsOf, Part, Ids, IsMeal
  <2>2. CASE Mine(a)' = Mine(a) /\ ReadCart(a)
    <3>1. Mine(a) = {}
      BY <2>2 DEF ReadCart, At, LedgerInv, Booked, WritingStages
    <3> QED
      BY <2>2, <3>1 DEF OrdersArePartsOf
  <2>3. CASE Mine(a)' = Mine(a) /\ ~ReadCart(a)
    <3>1. pc[a] \in WritingStages /\ snap'[a] = snap[a]
      BY <1>2, <2>3, WhoMoves
         DEF BookOrder, ShareOrder, StockStep, ClearLine, At, WritingStages
    <3>2. OrdersArePartsOf(a)
      BY <3>1 DEF AccountInv
    <3> QED
      BY <2>3, <3>1, <3>2 DEF OrdersArePartsOf, Part, Ids, IsMeal
  <2> QED
    BY <2>1, <2>2, <2>3, MineMoves
<1> QED
  BY <1>1, <1>2 DEF AccountInv

(* The cart starts empty, and so do the orders. *)
LEMMA InitAccount == Init => AccountInv
  BY FS_EmptySet DEF Init, CartInit, AccountInv, WritingStages

(* What a finished attempt has ordered: a course order if there was anything *)
(* but meals, a restaurant order if there were meals, and nothing else.      *)
LEMMA DoneOrders ==
  ASSUME TypeInv, LedgerInv, LinesInv, AccountInv, NEW a \in Attempts, pc[a] = "done"
  PROVE  /\ \A o \in OrdersOf(a) : o \in Order /\ o.lines = Part(snap[a], o.kind)
         /\ \A o1, o2 \in OrdersOf(a) : o1.kind = o2.kind => o1 = o2
         /\ Plain(a) # {} => \E o \in OrdersOf(a) : o.kind = "course"
         /\ MealIds(snap[a]) # {} => \E o \in OrdersOf(a) : o.kind = "restaurant"
<1>1. OrdersOf(a) \subseteq Mine(a) /\ OrdersOf(a) \subseteq Order
  BY DEF OrdersOf, Mine, LedgerInv, Booked, TypeInv, FlowInv, LedgerTypeOK
<1>2. OrdersArePartsOf(a) /\ \A l \in Ids(snap[a]) : Bought(a, l)
  BY DEF AccountInv, LinesInv, Progress, WritingStages
<1>3. ASSUME NEW l \in Ids(snap[a])
      PROVE  \E o \in OrdersOf(a) : (o.kind = "restaurant") = IsMeal(snap[a][l])
  <2>1. PICK o \in mine \cap orders : o.attempt = a /\ o.lines[l] = snap[a][l]
    BY <1>2, <1>3 DEF Bought
  <2>2. o \in OrdersOf(a)
    BY <2>1 DEF OrdersOf
  <2>3. Part(snap[a], o.kind)[l] # NoLine
    BY <1>1, <1>2, <1>3, <2>1, <2>2 DEF OrdersArePartsOf, Ids
  <2> QED
    BY <1>3, <2>2, <2>3 DEF Part, Ids, IsMeal
<1>4. \A o \in OrdersOf(a) : o.kind \in {"course", "restaurant"}
  BY <1>1 DEF Order, Kinds
<1> QED
  BY <1>1, <1>2, <1>3, <1>4 DEF OrdersArePartsOf, Plain, MealIds, IsMeal

(* So that they are at most two, and their totals are those of the parts. *)
LEMMA DoneTotals ==
  ASSUME TypeInv, LedgerInv, LinesInv, AccountInv, NEW a \in Attempts, pc[a] = "done",
         NEW fee \in Nat, \A o \in OrdersOf(a) : o.fee = fee
  PROVE  Total(snap[a]) + fee = MapThenSumSet(OrderTotal, OrdersOf(a))
           + (IF {o \in OrdersOf(a) : o.kind = "course"} = {} THEN fee ELSE 0)
<1> DEFINE S == OrdersOf(a)
           C == Total(Part(snap[a], "course"))
           R == Total(Part(snap[a], "restaurant"))
           sum(U) == MapThenSumSet(OrderTotal, U)
<1>1. snap[a] \in Lines /\ Part(snap[a], "course") \in Lines /\ Part(snap[a], "restaurant") \in Lines
  BY PartType DEF TypeInv, FlowInv, OwnTypeOK
<1>2. /\ Ids(Part(snap[a], "course")) = Plain(a)
      /\ Ids(Part(snap[a], "restaurant")) = MealIds(snap[a])
  BY DEF Plain, MealIds, Ids, Part, IsMeal
<1>3. IsFiniteSet(Ids(snap[a])) /\ IsFiniteSet(Plain(a)) /\ IsFiniteSet(MealIds(snap[a]))
  <2>1. Ids(snap[a]) \subseteq spent /\ Plain(a) \subseteq spent /\ MealIds(snap[a]) \subseteq spent
    BY DEF LinesInv, SameGoods, Plain, MealIds, WritingStages
  <2> QED
    BY <2>1, FS_Subset DEF AccountInv
<1>4. C \in Nat /\ R \in Nat /\ Total(snap[a]) = C + R
  BY <1>1, <1>2, <1>3, PartsAddUp, TotalType
<1>5. (Plain(a) = {} => C = 0) /\ (MealIds(snap[a]) = {} => R = 0)
  BY <1>1, <1>2, <1>3, TotalType
<1>6. \A o \in S : \/ o.kind = "course" /\ OrderTotal(o) = C + fee
                   \/ o.kind = "restaurant" /\ OrderTotal(o) = R
  <2>1. \A o \in S : o.kind \in {"course", "restaurant"} /\ o.lines = Part(snap[a], o.kind)
    BY DoneOrders DEF Order, Kinds
  <2> QED
    BY <1>4, <2>1 DEF OrderTotal
<1>7. /\ \A o1, o2 \in S : o1.kind = o2.kind => o1 = o2
      /\ (\A o \in S : o.kind # "course") => C = 0
      /\ (\A o \in S : o.kind # "restaurant") => R = 0
  BY <1>5, DoneOrders
<1>8. \A o \in S : OrderTotal(o) \in Nat
  BY <1>4, <1>6
<1> HIDE DEF S, C, R
<1>9. ASSUME NEW U \in SUBSET S, IsFiniteSet(U)
      PROVE  (U = {} => sum(U) = 0) /\ (\A o \in U : sum(U) = OrderTotal(o) + sum(U \ {o}))
  BY <1>8, <1>9, OrdersAddUp
<1> HIDE DEF sum
<1>10. \A o \in S : sum({o}) = OrderTotal(o)
  <2> TAKE o \in S
  <2>1. IsFiniteSet({o}) /\ IsFiniteSet({}) /\ {o} \ {o} = {}
    BY FS_Singleton, FS_EmptySet
  <2>2. sum({}) = 0 /\ sum({o}) = OrderTotal(o) + sum({o} \ {o})
    BY <2>1, <1>9
  <2>3. sum({o} \ {o}) = 0
    BY <2>1, <2>2, Zenon
  <2> QED
    BY <1>8, <2>2, <2>3
<1>11. CASE \A o \in S : o.kind # "course"
  <2>1. {o \in S : o.kind = "course"} = {}
    BY <1>11
  <2>2. CASE S = {}
    <3>1. sum(S) = 0
      BY <2>2, <1>9, FS_EmptySet
    <3> QED
      BY <1>4, <1>7, <2>1, <2>2, <3>1 DEF S, sum
  <2>3. CASE S # {}
    <3>1. PICK r \in S : r.kind = "restaurant" /\ OrderTotal(r) = R
      BY <1>6, <1>11, <2>3
    <3>2. S = {r}
      BY <1>6, <1>7, <1>11, <3>1
    <3>3. sum(S) = R
      BY <1>10, <3>1, <3>2
    <3> QED
      BY <1>4, <1>7, <1>11, <2>1, <3>3 DEF S, sum
  <2> QED
    BY <2>2, <2>3
<1>12. CASE \E o \in S : o.kind = "course"
  <2>1. {o \in S : o.kind = "course"} # {}
    BY <1>12
  <2>2. PICK c \in S : c.kind = "course" /\ OrderTotal(c) = C + fee
    BY <1>6, <1>12
  <2>3. CASE \A o \in S : o.kind # "restaurant"
    <3>1. S = {c}
      BY <1>6, <1>7, <2>2, <2>3
    <3>2. sum(S) = C + fee
      BY <1>10, <2>2, <3>1
    <3> QED
      BY <1>4, <1>7, <2>1, <2>3, <3>2 DEF S, sum
  <2>4. CASE \E o \in S : o.kind = "restaurant"
    <3>1. PICK r \in S : r.kind = "restaurant" /\ OrderTotal(r) = R
      BY <1>6, <2>4
    <3>2. S = {c, r} /\ S \ {c} = {r}
      BY <1>6, <1>7, <2>2, <3>1
    <3>3. IsFiniteSet(S)
      <4>1. IsFiniteSet({r}) /\ {c, r} = {r} \cup {c}
        BY FS_Singleton
      <4>2. IsFiniteSet({r} \cup {c})
        BY <4>1, FS_AddElement
      <4> QED
        BY <3>2, <4>1, <4>2
    <3>4. sum(S) = OrderTotal(c) + sum(S \ {c})
      BY <1>9, <3>3
    <3>5. sum(S \ {c}) = R
      BY <1>10, <3>1, <3>2
    <3> QED
      BY <1>4, <2>1, <2>2, <3>4, <3>5 DEF S, sum
  <2> QED
    BY <2>3, <2>4
<1> QED
  BY <1>11, <1>12

(* The customer pays for what is ordered: the orders of a finished attempt   *)
(* add up to the amount of the intent that was paid, the fee of a purely     *)
(* restaurant order apart.                                                   *)
THEOREM ChargeAccountsHolds == Spec => []ChargeAccountsForOrders
<1>1. TypeInv /\ LedgerInv /\ LinesInv /\ AccountInv => ChargeAccountsForOrders
  <2> SUFFICES ASSUME TypeInv, LedgerInv, LinesInv, AccountInv, NEW a \in Attempts,
                      pc[a] = "done", snap[a] = quote[shown[a]].lines,
                      \A o \in OrdersOf(a) : o.fee = quote[shown[a]].fee
               PROVE  Amount(shown[a]) = MapThenSumSet(OrderTotal, OrdersOf(a))
                        + (IF {o \in OrdersOf(a) : o.kind = "course"} = {}
                           THEN quote[shown[a]].fee ELSE 0)
    BY DEF ChargeAccountsForOrders
  <2>1. shown[a] \in Attempts
    BY DEF LedgerInv, PaidOnce, PaidStages, TypeInv, FlowInv, LedgerTypeOK
  <2>2. quote[shown[a]].fee \in Nat
    BY <2>1 DEF TypeInv, FlowInv, OwnTypeOK
  <2>3. Amount(shown[a]) = Total(snap[a]) + quote[shown[a]].fee
    BY DEF Amount
  <2> QED
    BY <2>2, <2>3, DoneTotals
<1> QED
  BY <1>1, InitAccount, AccountStep, InitLines, LinesStep, InitLedger, NextLedger,
     InitFlow, NextFlow, PTL DEF Spec

-----------------------------------------------------------------------------
(***************************************************************************)
(* A submission always has something to do, and less of it after every     *)
(* answer: what liveness needs beside the fairness of its calls.           *)
(***************************************************************************)
(* An attempt reads a cart that is not empty, drafts orders that are not     *)
(* empty, and is in a loop only while the loop has rounds left.              *)
WorkLeft(a) ==
  /\ pc[a] \in {"book", "share", "stock"} => Ids(snap[a]) # {}
  /\ pc[a] \in {"book", "share"} => Ids(draft[a].lines) # {}
  /\ pc[a] \in {"stock", "clear"} => rest[a] # {}

WorkInv == NoEmptyOrder /\ \A a \in Attempts : WorkLeft(a)

(* Nobody works at the start. *)
LEMMA InitWork == Init => WorkInv
  BY DEF Init, WorkInv, WorkLeft, NoEmptyOrder

(* The part of each kind is not empty if there is a line of that kind. *)
LEMMA PartNotEmpty ==
  ASSUME NEW lines
  PROVE  /\ MealIds(lines) # {} => Ids(Part(lines, "restaurant")) # {}
         /\ Ids(lines) # MealIds(lines) => Ids(Part(lines, "course")) # {}
  BY DEF MealIds, Part, Ids, IsMeal

(* The kind of the first order is that of a line of the cart. *)
LEMMA ReadCartWork ==
  ASSUME TypeInv, NEW a \in Attempts, ReadCart(a), pc'[a] \in WritingStages
  PROVE  WorkLeft(a)'
<1> DEFINE kind == IF OnlyRestaurant THEN "restaurant" ELSE "course"
<1>1. /\ pc'[a] = "book" /\ snap'[a] = cart /\ InCart # {}
      /\ draft'[a] = OrderData(a, cart, kind)
  BY DEF ReadCart, StartOrder, TypeInv, FlowInv, OwnTypeOK, WritingStages
<1>2. draft'[a].lines = Part(cart, kind)
  BY <1>1 DEF OrderData
<1>3. Ids(cart) = InCart
  BY DEF Ids, InCart
<1>4. \/ kind = "restaurant" /\ MealIds(cart) # {}
      \/ kind = "course" /\ Ids(cart) # MealIds(cart)
  BY <1>1, <1>3 DEF MealIds, OnlyRestaurant, IsMeal
<1>5. Ids(draft'[a].lines) # {}
  BY <1>2, <1>4, PartNotEmpty
<1>6. Ids(draft[a].lines)' = Ids(draft'[a].lines) /\ Ids(snap[a])' = Ids(cart)
  BY <1>1 DEF Ids
<1> QED
  BY <1>1, <1>3, <1>5, <1>6 DEF WorkLeft

(* Booking an order keeps what there is to do. *)
LEMMA BookOrderWork ==
  ASSUME TypeInv, NEW a \in Attempts, BookOrder(a), WorkLeft(a)
  PROVE  WorkLeft(a)'
<1>1. pc[a] = "book" /\ pc'[a] = "share" /\ UNCHANGED <<snap, draft, rest>>
  BY DEF BookOrder, At, TypeInv, FlowInv, OwnTypeOK
<1>2. Ids(snap[a])' = Ids(snap[a]) /\ Ids(draft[a].lines)' = Ids(draft[a].lines)
  BY <1>1 DEF Ids
<1> QED
  BY <1>1, <1>2 DEF WorkLeft

(* The loop that follows a shared order has a round at least. *)
LEMMA ShareOrderWork ==
  ASSUME TypeInv, NEW a \in Attempts, ShareOrder(a), WorkLeft(a)
  PROVE  WorkLeft(a)'
<1>1. /\ pc[a] = "share" /\ snap' = snap
      /\ \/ pc'[a] = "stock" /\ rest'[a] = Ids(draft[a].lines)
         \/ pc'[a] = "clear" /\ rest'[a] = Ids(snap[a])
  BY DEF ShareOrder, StartClear, At, TypeInv, FlowInv, OwnTypeOK
<1>2. Ids(snap[a])' = Ids(snap[a])
  BY <1>1 DEF Ids
<1> QED
  BY <1>1, <1>2 DEF WorkLeft

(* One round less, or what follows the last one. *)
LEMMA StockStepMoves ==
  ASSUME TypeInv, NEW a \in Attempts, StockStep(a)
  PROVE  /\ pc[a] = "stock" /\ snap' = snap
         /\ \/ /\ pc'[a] = "stock" /\ draft' = draft
               /\ \E l \in rest[a] : rest'[a] = rest[a] \ {l} /\ rest[a] # {l}
            \/ /\ pc'[a] = "book" /\ draft'[a] = OrderData(a, snap[a], "restaurant")
               /\ MealIds(snap[a]) # {}
            \/ pc'[a] = "clear" /\ rest'[a] = Ids(snap[a])
<1>1. pc[a] = "stock" /\ snap' = snap
  BY DEF StockStep, At
<1>2. PICK l \in rest[a] :
        \/ /\ rest[a] # {l}
           /\ rest' = [rest EXCEPT ![a] = @ \ {l}]
           /\ UNCHANGED <<pc, draft>>
        \/ MealIds(snap[a]) # {} /\ StartOrder(a, snap[a], "restaurant")
        \/ StartClear(a)
  BY DEF StockStep
<1> QED
  BY <1>1, <1>2 DEF StartOrder, StartClear, TypeInv, FlowInv, OwnTypeOK

(* There is always another round, an order with meals, or lines to clear. *)
LEMMA StockStepWork ==
  ASSUME TypeInv, NEW a \in Attempts, StockStep(a), WorkLeft(a)
  PROVE  WorkLeft(a)'
<1>1. pc[a] = "stock" /\ snap' = snap /\ Ids(snap[a]) # {} /\ Ids(snap[a])' = Ids(snap[a])
  BY StockStepMoves DEF WorkLeft, Ids
<1>2. CASE pc'[a] = "stock" /\ \E l \in rest[a] : rest'[a] = rest[a] \ {l} /\ rest[a] # {l}
  BY <1>1, <1>2 DEF WorkLeft
<1>3. CASE /\ pc'[a] = "book" /\ draft'[a] = OrderData(a, snap[a], "restaurant")
           /\ MealIds(snap[a]) # {}
  <2>1. draft'[a].lines = Part(snap[a], "restaurant")
    BY <1>3 DEF OrderData
  <2>2. Ids(draft'[a].lines) # {}
    BY <1>3, <2>1, PartNotEmpty
  <2>3. Ids(draft[a].lines)' = Ids(draft'[a].lines)
    BY DEF Ids
  <2> QED
    BY <1>1, <1>3, <2>2, <2>3 DEF WorkLeft
<1>4. CASE pc'[a] = "clear" /\ rest'[a] = Ids(snap[a])
  BY <1>1, <1>4 DEF WorkLeft
<1> QED
  BY <1>2, <1>3, <1>4, StockStepMoves

(* One line less, and the end after the last one. *)
LEMMA ClearLineMoves ==
  ASSUME TypeInv, NEW a \in Attempts, ClearLine(a)
  PROVE  /\ pc[a] = "clear"
         /\ \/ /\ pc'[a] = "clear"
               /\ \E l \in rest[a] : rest'[a] = rest[a] \ {l} /\ rest[a] # {l}
            \/ pc'[a] = "done"
<1>1. pc[a] = "clear"
  BY DEF ClearLine, At
<1>2. PICK l \in rest[a] : /\ rest' = [rest EXCEPT ![a] = @ \ {l}]
                           /\ \/ rest[a] # {l} /\ pc' = pc
                              \/ pc' = [pc EXCEPT ![a] = "done"]
  BY DEF ClearLine
<1> QED
  BY <1>1, <1>2 DEF TypeInv, FlowInv, OwnTypeOK

(* Who books an order, and which. *)
LEMMA WhoBooks ==
  ASSUME [Next]_vars
  PROVE  mine' = mine \/ \E a \in Attempts : BookOrder(a)
  BY DEF Next, Shop, EditCart, CartReply, OpenCart, LeaveCart, SelectCity, SelectAddress,
         Tap, Pay, CreateIntent, InitSheet, Present, Confirm, Fail, Submit, Resume, ReadCart,
         ShareOrder, StockStep, ClearLine, Break, Kill, vars, storeVars

(* Every step leaves work to those who are not done. *)
LEMMA WorkStep ==
  ASSUME TypeInv, WorkInv, [Next]_vars
  PROVE  WorkInv'
<1>1. ASSUME NEW a \in Attempts, pc'[a] \in WritingStages
      PROVE  WorkLeft(a)'
  <2>1. WorkLeft(a)
    BY DEF WorkInv
  <2>2. CASE /\ pc'[a] = pc[a] /\ snap'[a] = snap[a]
             /\ draft'[a] = draft[a] /\ rest'[a] = rest[a]
    <3>1. Ids(snap[a])' = Ids(snap[a]) /\ Ids(draft[a].lines)' = Ids(draft[a].lines)
      BY <2>2 DEF Ids
    <3> QED
      BY <2>1, <2>2, <3>1 DEF WorkLeft
  <2>3. CASE ClearLine(a)
    BY <2>3, ClearLineMoves DEF WorkLeft
  <2> QED
    BY <1>1, <2>1, <2>2, <2>3, WhoMoves, ReadCartWork, BookOrderWork, ShareOrderWork,
       StockStepWork
<1>2. \A a \in Attempts : WorkLeft(a)'
  BY <1>1 DEF WorkLeft, WritingStages
<1>3. NoEmptyOrder'
  <2>1. \A o \in mine : Ids(o.lines) # {}
    BY DEF WorkInv, NoEmptyOrder
  <2>2. ASSUME NEW a \in Attempts, BookOrder(a)
        PROVE  mine' = mine \cup {draft[a]} /\ Ids(draft[a].lines) # {}
    BY <2>2 DEF BookOrder, At, WorkInv, WorkLeft
  <2> QED
    BY <2>1, <2>2, WhoBooks DEF NoEmptyOrder, Ids
<1> QED
  BY <1>2, <1>3 DEF WorkInv

(* Every order lists something to deliver, though an empty cart can be paid. *)
THEOREM NoEmptyOrderHolds == Spec => []NoEmptyOrder
<1>1. WorkInv => NoEmptyOrder
  BY DEF WorkInv
<1> QED
  BY <1>1, InitWork, WorkStep, InitFlow, NextFlow, PTL DEF Spec

(* Each answer brings a submission nearer to its end. *)
LEMMA SubmitFurther ==
  ASSUME TypeInv, NEW a \in Attempts, Submit(a)
  PROVE  Further(a)
<1>1. CASE Resume(a)
  BY <1>1 DEF Resume, At, Further, Ahead, TypeInv, FlowInv, OwnTypeOK
<1>2. CASE ReadCart(a)
  <2>1. pc[a] = "reading" /\ pc'[a] \in {"empty", "book"}
    BY <1>2 DEF ReadCart, StartOrder, At, TypeInv, FlowInv, OwnTypeOK
  <2> QED
    BY <2>1 DEF Further, Ahead
<1>3. CASE BookOrder(a)
  <2>1. pc[a] = "book" /\ pc'[a] = "share" /\ draft' = draft
    BY <1>3 DEF BookOrder, At, TypeInv, FlowInv, OwnTypeOK
  <2> QED
    BY <2>1 DEF Further, Ahead
<1>4. CASE ShareOrder(a)
  <2>1. /\ pc[a] = "share"
        /\ \/ draft[a].kind = "course" /\ pc'[a] = "stock"
           \/ pc'[a] = "clear"
    BY <1>4 DEF ShareOrder, StartClear, At, TypeInv, FlowInv, OwnTypeOK
  <2> QED
    BY <2>1 DEF Further, Ahead
<1>5. CASE StockStep(a)
  <2>1. CASE pc'[a] = "book" /\ draft'[a] = OrderData(a, snap[a], "restaurant")
    <3>1. draft'[a].kind = "restaurant"
      BY <2>1 DEF OrderData
    <3> QED
      BY <1>5, <2>1, <3>1, StockStepMoves DEF Further, Ahead
  <2> QED
    BY <1>5, <2>1, StockStepMoves DEF Further, Ahead
<1>6. CASE ClearLine(a)
  BY <1>6, ClearLineMoves DEF Further, Ahead
<1> QED
  BY <1>1, <1>2, <1>3, <1>4, <1>5, <1>6 DEF Submit

(* Nobody else moves it. *)
LEMMA OthersLeaveAlone ==
  ASSUME TypeInv, [Next]_vars, NEW a \in Attempts, Ahead(a) > 0, ~Submit(a)
  PROVE  UNCHANGED <<Ahead(a), rest[a]>>
<1>1. pc[a] \in {"confirmed", "reading", "book", "share", "stock", "clear"}
  BY DEF Ahead
<1>2. ASSUME NEW b \in Attempts, b # a, Pay(b) \/ Submit(b) \/ Break(b)
      PROVE  pc'[a] = pc[a] /\ draft'[a] = draft[a] /\ rest'[a] = rest[a]
  BY <1>2 DEF Pay, CreateIntent, InitSheet, Present, Confirm, Fail, Submit, Resume,
              ReadCart, BookOrder, ShareOrder, StockStep, ClearLine, Break, StartOrder,
              StartClear, TypeInv, FlowInv, OwnTypeOK
<1>3. ~Pay(a)
  BY <1>1 DEF Pay, CreateIntent, InitSheet, Present, Confirm, Fail, At
<1>4. ASSUME NEW p \in Pages, NEW b \in Attempts, Tap(p, b)
      PROVE  pc'[a] = pc[a] /\ draft'[a] = draft[a] /\ rest'[a] = rest[a]
  BY <1>1, <1>4 DEF Tap, At, TypeInv, FlowInv, OwnTypeOK
<1>5. \/ \E b \in Attempts : Pay(b) \/ Submit(b) \/ Break(b)
      \/ \E p \in Pages, b \in Attempts : Tap(p, b)
      \/ UNCHANGED <<pc, draft, rest>>
  BY DEF Next, Shop, EditCart, CartReply, OpenCart, LeaveCart, SelectCity, SelectAddress,
         Kill, vars, attemptVars
<1>6. pc'[a] = pc[a] /\ draft'[a] = draft[a] /\ rest'[a] = rest[a]
  BY <1>2, <1>3, <1>4, <1>5 DEF Break
<1>7. Ahead(a)' = Ahead(a)
  BY <1>1, <1>6, SMT DEF Ahead
<1> QED
  BY <1>6, <1>7

(* Every answer brings a submission nearer to its end, and nothing else sets *)
(* it back or gives it more to do.                                           *)
THEOREM SubmissionAdvancesHolds == Spec => SubmissionAdvances
<1> DEFINE Advance == \A a \in Attempts :
             /\ Submit(a) => Further(a)
             /\ Ahead(a) > 0 => Further(a) \/ UNCHANGED <<Ahead(a), rest[a]>>
<1>1. TypeInv /\ [Next]_vars => [Advance]_vars
  BY SubmitFurther, OthersLeaveAlone
<1> HIDE DEF Advance
<1>2. Spec => [][Advance]_vars
  BY <1>1, InitFlow, NextFlow, PTL DEF Spec
<1> QED
  BY <1>2 DEF SubmissionAdvances, Advance

=============================================================================
