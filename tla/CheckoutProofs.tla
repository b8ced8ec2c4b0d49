--------------------------- MODULE CheckoutProofs ---------------------------
(***************************************************************************)
(* Proofs about Checkout, for every number of devices, pages, attempts,    *)
(* lines and cities.                                                       *)
(***************************************************************************)
EXTENDS Checkout, CartProofs, FiniteSetTheorems, WellFoundedInduction

(* TypeOK without the part on the cart, which has its own proof. *)
OwnTypeOK ==
  /\ page \in [Pages -> PageState]
  /\ pc \in [Attempts -> Stages]
  /\ stopped \subseteq Attempts
  /\ owner \in [Attempts -> Pages \cup {NoPage}]
  /\ quote \in [Attempts -> [lines : Lines, fee : Nat]]
  /\ sheet \in [Devices -> Attempts \cup {NoAttempt}]
  /\ shown \in [Attempts -> Attempts \cup {NoAttempt}]
  /\ snap \in [Attempts -> Lines]
  /\ draft \in [Attempts -> Order \cup {NoOrder}]
  /\ rest \in [Attempts -> SUBSET LineIds]
  /\ stock \in [Documents -> Nat]

(* The three sets a step can only put well-formed elements into. *)
LedgerTypeOK == charged \subseteq Attempts /\ mine \subseteq Order /\ orders \subseteq Order

-----------------------------------------------------------------------------
(* TypeOK in the three parts the proof deals with one by one. *)
LEMMA SplitType == TypeOK <=> CartTypeOK /\ OwnTypeOK /\ LedgerTypeOK
  BY DEF TypeOK, OwnTypeOK, LedgerTypeOK

(* The types at the start, before any page is opened. *)
LEMMA InitType == Init => TypeOK
<1> SUFFICES ASSUME Init PROVE TypeOK
  OBVIOUS
<1>1. CartTypeOK
  BY CartInitType DEF Init
<1>2. NoLines \in Lines
  BY DEF NoLines, Lines
<1>3. OwnTypeOK
  BY <1>2, CheckoutAssumption DEF Init, OwnTypeOK, PageState, Stages, Documents
<1>4. LedgerTypeOK
  BY DEF Init, LedgerTypeOK
<1> QED
  BY <1>1, <1>3, <1>4, SplitType

(* The cart part: only the cart's own steps and ClearLine touch it. *)
LEMMA CartStepType ==
  ASSUME TypeOK, [Next]_vars
  PROVE  CartTypeOK'
<1>1. CASE CartNext
  BY <1>1, CartNextType DEF TypeOK
<1>2. CASE UNCHANGED cartVars
  BY <1>2 DEF TypeOK, CartTypeOK, cartVars
<1>3. ASSUME NEW a \in Attempts, ClearLine(a)
      PROVE  CartTypeOK'
  BY <1>3 DEF TypeOK, CartTypeOK, ClearLine
<1> QED
  BY <1>1, <1>2, <1>3
     DEF Next, Shop, EditCart, CartReply, CartNext, CartTap, OpenCart, LeaveCart,
         SelectCity, SelectAddress, Tap, Pay, CreateIntent, InitSheet, Present,
         Confirm, Fail, Submit, Resume, ReadCart, BookOrder, ShareOrder, StockStep,
         Break, Kill, vars

-----------------------------------------------------------------------------
(* What the types need to know of the stage an attempt has reached. *)
Reached ==
  \A a \in Attempts :
    /\ pc[a] # "idle" => owner[a] \in Pages
    /\ At(a, "ready") => sheet[DeviceOf[owner[a]]] \in Attempts
    /\ pc[a] = "sheet" => shown[a] \in Attempts
    /\ pc[a] \in {"book", "share"} => draft[a] \in Order

FlowInv == OwnTypeOK /\ LedgerTypeOK /\ Reached
TypeInv == CartTypeOK /\ FlowInv

(* courseItems and restaurantItems are lines of the cart. *)
LEMMA PartType ==
  ASSUME NEW lines \in Lines, NEW kind
  PROVE  Part(lines, kind) \in Lines
  BY DEF Part, Lines

(* The record written by add() is an order document. *)
LEMMA OrderDataType ==
  ASSUME OwnTypeOK, NEW a \in Attempts, owner[a] \in Pages,
         NEW lines \in Lines, NEW kind \in Kinds
  PROVE  /\ OrderData(a, lines, kind) \in Order
         /\ OrderData(a, lines, kind).attempt = a
         /\ OrderData(a, lines, kind).kind = kind
<1> DEFINE p == page[owner[a]]
<1>1. p.fee \in Nat /\ p.city \in Cities \cup {NoCity} /\ p.address \in BOOLEAN
  BY DEF OwnTypeOK, PageState
<1>2. (kind = "restaurant" /\ p.address) \in BOOLEAN
  OBVIOUS
<1> HIDE DEF p
<1>3. OrderData(a, lines, kind) =
        [attempt |-> a, kind |-> kind, lines |-> Part(lines, kind), fee |-> p.fee,
         city |-> p.city, address |-> (kind = "restaurant" /\ p.address)]
  BY DEF OrderData, p
<1> QED
  BY <1>1, <1>2, <1>3, PartType DEF Order

(* What each of them does to a page leaves a page. *)
LEMMA PageChangeType ==
  ASSUME NEW r \in PageState
  PROVE  /\ [r EXCEPT !.stage = "gone"] \in PageState
         /\ [r EXCEPT !.stage = "mounted"] \in PageState
         /\ [r EXCEPT !.address = TRUE] \in PageState
         /\ \A c \in Cities, f \in Nat : [r EXCEPT !.city = c, !.fee = f] \in PageState
  BY DEF PageState

(* A page that is disposed of is still a page. *)
LEMMA UnmountedType ==
  ASSUME page \in [Pages -> PageState], NEW p
  PROVE  Unmounted(p) \in [Pages -> PageState]
  BY PageChangeType DEF Unmounted

(* The steps outside an attempt: they touch pages at most. *)
LEMMA ShopFlow ==
  ASSUME TypeInv, Shop
  PROVE  FlowInv'
  BY CheckoutAssumption
     DEF TypeInv, FlowInv, OwnTypeOK, LedgerTypeOK, Reached, At, cartVars, attemptVars, storeVars,
         Shop

(* Taps on a line. *)
LEMMA EditCartFlow ==
  ASSUME TypeInv, EditCart
  PROVE  FlowInv'
  BY CheckoutAssumption
     DEF TypeInv, FlowInv, OwnTypeOK, LedgerTypeOK, Reached, At, cartVars, attemptVars, storeVars,
         EditCart

(* Answers and commits of these taps. *)
LEMMA CartReplyFlow ==
  ASSUME TypeInv, CartReply
  PROVE  FlowInv'
  BY CheckoutAssumption
     DEF TypeInv, FlowInv, OwnTypeOK, LedgerTypeOK, Reached, At, cartVars, attemptVars, storeVars,
         CartReply

(* A page is mounted. *)
LEMMA OpenCartFlow ==
  ASSUME TypeInv, NEW p \in Pages, OpenCart(p)
  PROVE  FlowInv'
<1>1. page' \in [Pages -> PageState]
  BY PageChangeType DEF OpenCart, TypeInv, FlowInv, OwnTypeOK
<1> QED
  BY <1>1 DEF TypeInv, FlowInv, OwnTypeOK, LedgerTypeOK, Reached, At, cartVars, attemptVars, storeVars,
             OpenCart

(* A page is left. *)
LEMMA LeaveCartFlow ==
  ASSUME TypeInv, NEW p \in Pages, LeaveCart(p)
  PROVE  FlowInv'
<1>1. page' \in [Pages -> PageState]
  BY UnmountedType DEF LeaveCart, TypeInv, FlowInv, OwnTypeOK
<1> QED
  BY <1>1 DEF TypeInv, FlowInv, OwnTypeOK, LedgerTypeOK, Reached, At, cartVars, attemptVars, storeVars,
             LeaveCart

(* A city and the fee that goes with it. *)
LEMMA SelectCityFlow ==
  ASSUME TypeInv, NEW p \in Pages, NEW c \in Cities, SelectCity(p, c)
  PROVE  FlowInv'
<1>1. (IF OnlyRestaurant THEN RestaurantFee[c] ELSE CourseFee[c]) \in Nat
  BY CheckoutAssumption
<1>2. page' \in [Pages -> PageState]
  BY <1>1, PageChangeType DEF SelectCity, TypeInv, FlowInv, OwnTypeOK
<1> QED
  BY <1>2 DEF TypeInv, FlowInv, OwnTypeOK, LedgerTypeOK, Reached, At, cartVars, attemptVars, storeVars,
             SelectCity

(* An address. *)
LEMMA SelectAddressFlow ==
  ASSUME TypeInv, NEW p \in Pages, SelectAddress(p)
  PROVE  FlowInv'
<1>1. page' \in [Pages -> PageState]
  BY PageChangeType DEF SelectAddress, TypeInv, FlowInv, OwnTypeOK
<1> QED
  BY <1>1 DEF TypeInv, FlowInv, OwnTypeOK, LedgerTypeOK, Reached, At, cartVars, attemptVars, storeVars,
             SelectAddress

(* The app is killed: its attempts stop where they are. *)
LEMMA KillFlow ==
  ASSUME TypeInv, NEW d \in Devices, Kill(d)
  PROVE  FlowInv'
<1>1. page' \in [Pages -> PageState]
  BY PageChangeType DEF Kill, TypeInv, FlowInv, OwnTypeOK
<1>2. \A a \in Attempts : At(a, "ready")' =>
        At(a, "ready") /\ DeviceOf[owner[a]] # d
  BY DEF Kill, At, Final
<1> QED
  BY <1>1, <1>2 DEF TypeInv, FlowInv, OwnTypeOK, LedgerTypeOK, Reached, At, cartVars, attemptVars, storeVars,
             Kill

(* The steps of an attempt before it is paid. *)
LEMMA TapFlow ==
  ASSUME TypeInv, NEW p \in Pages, NEW a \in Attempts, Tap(p, a)
  PROVE  FlowInv'
  BY CheckoutAssumption
     DEF TypeInv, FlowInv, OwnTypeOK, LedgerTypeOK, Reached, At, cartVars, attemptVars, storeVars,
         Tap, CartTypeOK, Lines, PageState, Stages

(* The intent. *)
LEMMA CreateIntentFlow ==
  ASSUME TypeInv, NEW a \in Attempts, CreateIntent(a)
  PROVE  FlowInv'
  BY CheckoutAssumption
     DEF TypeInv, FlowInv, OwnTypeOK, LedgerTypeOK, Reached, At, cartVars, attemptVars, storeVars,
         CreateIntent, Stages

(* The sheet is configured with an attempt. *)
LEMMA InitSheetFlow ==
  ASSUME TypeInv, NEW a \in Attempts, InitSheet(a)
  PROVE  FlowInv'
  BY CheckoutAssumption
     DEF TypeInv, FlowInv, OwnTypeOK, LedgerTypeOK, Reached, At, cartVars, attemptVars, storeVars,
         InitSheet, Stages

(* The sheet shown is one that was configured, which Reached knows. *)
LEMMA PresentFlow ==
  ASSUME TypeInv, NEW a \in Attempts, Present(a)
  PROVE  FlowInv'
  BY CheckoutAssumption
     DEF TypeInv, FlowInv, OwnTypeOK, LedgerTypeOK, Reached, At, cartVars, attemptVars, storeVars,
         Present, Stages

(* A payment is of the intent shown. *)
LEMMA ConfirmFlow ==
  ASSUME TypeInv, NEW a \in Attempts, Confirm(a)
  PROVE  FlowInv'
  BY CheckoutAssumption
     DEF TypeInv, FlowInv, OwnTypeOK, LedgerTypeOK, Reached, At, cartVars, attemptVars, storeVars,
         Confirm, Stages

(* An attempt that fails is final. *)
LEMMA FailFlow ==
  ASSUME TypeInv, NEW a \in Attempts, Fail(a)
  PROVE  FlowInv'
  BY CheckoutAssumption
     DEF TypeInv, FlowInv, OwnTypeOK, LedgerTypeOK, Reached, At, cartVars, attemptVars, storeVars,
         Fail, Stages

(* The attempt goes on or is lost. *)
LEMMA ResumeFlow ==
  ASSUME TypeInv, NEW a \in Attempts, Resume(a)
  PROVE  FlowInv'
  BY CheckoutAssumption
     DEF TypeInv, FlowInv, OwnTypeOK, LedgerTypeOK, Reached, At, cartVars, attemptVars, storeVars,
         Resume, Stages

(* The two ways a step of _submitOrder goes on. *)
LEMMA StartOrderFlow ==
  ASSUME TypeInv, NEW a \in Attempts, owner[a] \in Pages,
         NEW lines \in Lines, NEW kind \in Kinds, StartOrder(a, lines, kind)
  PROVE  /\ draft' \in [Attempts -> Order \cup {NoOrder}]
         /\ draft'[a] \in Order
         /\ \A b \in Attempts : b # a => draft'[b] = draft[b]
         /\ pc' \in [Attempts -> Stages] /\ pc'[a] = "book"
         /\ \A b \in Attempts : b # a => pc'[b] = pc[b]
         /\ rest' \in [Attempts -> SUBSET LineIds]
<1>1. OrderData(a, lines, kind) \in Order
  BY OrderDataType DEF TypeInv, FlowInv
<1> QED
  BY <1>1 DEF StartOrder, TypeInv, FlowInv, OwnTypeOK, Stages

(* What is left to clear is lines of the snapshot. *)
LEMMA StartClearFlow ==
  ASSUME TypeInv, NEW a \in Attempts, StartClear(a)
  PROVE  /\ draft' = draft
         /\ pc' \in [Attempts -> Stages] /\ pc'[a] = "clear"
         /\ \A b \in Attempts : b # a => pc'[b] = pc[b]
         /\ rest' \in [Attempts -> SUBSET LineIds]
  BY DEF StartClear, TypeInv, FlowInv, OwnTypeOK, Stages, Ids

(* The steps of _submitOrder. *)
LEMMA ReadCartFlow ==
  ASSUME TypeInv, NEW a \in Attempts, ReadCart(a)
  PROVE  FlowInv'
<1>1. owner[a] \in Pages /\ pc[a] = "reading"
  BY DEF ReadCart, At, TypeInv, FlowInv, Reached
<1>2. cart \in Lines
  BY DEF TypeInv, CartTypeOK, Lines
<1>3. snap' \in [Attempts -> Lines]
  BY <1>2 DEF ReadCart, TypeInv, FlowInv, OwnTypeOK
<1>4. CASE InCart = {}
  BY <1>1, <1>3, <1>4 DEF TypeInv, FlowInv, OwnTypeOK, LedgerTypeOK, Reached, At, cartVars, attemptVars, storeVars,
             ReadCart, Stages
<1>5. CASE InCart # {}
  <2> DEFINE kind == IF OnlyRestaurant THEN "restaurant" ELSE "course"
  <2>1. kind \in Kinds
    BY DEF Kinds
  <2>2. StartOrder(a, cart, kind)
    BY <1>5 DEF ReadCart
  <2> HIDE DEF kind
  <2> QED
    BY <1>1, <1>2, <1>3, <2>1, <2>2, StartOrderFlow
    DEF TypeInv, FlowInv, OwnTypeOK, LedgerTypeOK, Reached, At, cartVars, attemptVars, storeVars,
        ReadCart
<1> QED
  BY <1>4, <1>5

(* The draft written is an order, which Reached knows. *)
LEMMA BookOrderFlow ==
  ASSUME TypeInv, NEW a \in Attempts, BookOrder(a)
  PROVE  FlowInv'
  BY CheckoutAssumption
     DEF TypeInv, FlowInv, OwnTypeOK, LedgerTypeOK, Reached, At, cartVars, attemptVars, storeVars,
         BookOrder, Stages

(* So is the one written for the shop. *)
LEMMA ShareOrderFlow ==
  ASSUME TypeInv, NEW a \in Attempts, ShareOrder(a)
  PROVE  FlowInv'
<1>1. /\ pc[a] = "share" /\ owner[a] \in Pages /\ draft[a] \in Order
      /\ orders' = orders \cup {draft[a]}
      /\ UNCHANGED <<page, stopped, owner, quote, sheet, shown, charged, snap, draft, mine, stock>>
  BY DEF ShareOrder, StartClear, At, TypeInv, FlowInv, Reached
<1>2. /\ pc' \in [Attempts -> Stages] /\ pc'[a] \in {"stock", "clear"}
      /\ \A b \in Attempts : b # a => pc'[b] = pc[b]
      /\ rest' \in [Attempts -> SUBSET LineIds]
  <2>1. CASE StartClear(a)
    BY <2>1, StartClearFlow
  <2>2. CASE /\ pc' = [pc EXCEPT ![a] = "stock"]
             /\ rest' = [rest EXCEPT ![a] = Ids(draft[a].lines)]
    BY <2>2 DEF Ids, Stages, TypeInv, FlowInv, OwnTypeOK
  <2> QED
    BY <2>1, <2>2 DEF ShareOrder
<1>3. OwnTypeOK' /\ LedgerTypeOK'
  BY <1>1, <1>2 DEF TypeInv, FlowInv, OwnTypeOK, LedgerTypeOK
<1>4. Reached'
  BY <1>1, <1>2 DEF TypeInv, FlowInv, Reached, At
<1> QED
  BY <1>3, <1>4 DEF FlowInv

(* The stock stays a number, and the next order is drafted from the snapshot. *)
LEMMA StockStepFlow ==
  ASSUME TypeInv, NEW a \in Attempts, StockStep(a)
  PROVE  FlowInv'
<1>1. owner[a] \in Pages /\ pc[a] = "stock" /\ snap[a] \in Lines
  BY DEF StockStep, At, TypeInv, FlowInv, OwnTypeOK, Reached
<1>2. PICK l \in rest[a] :
        /\ stock' = IF StockRef(snap[a][l]) \in DOMAIN stock
                    THEN [stock EXCEPT ![StockRef(snap[a][l])] =
                            IF @ >= snap[a][l].quantity THEN @ - snap[a][l].quantity ELSE 0]
                    ELSE stock
        /\ \/ /\ rest' = [rest EXCEPT ![a] = @ \ {l}]
              /\ UNCHANGED <<pc, draft>>
           \/ StartOrder(a, snap[a], "restaurant")
           \/ StartClear(a)
  BY DEF StockStep
<1>3. stock' \in [Documents -> Nat]
  BY <1>2 DEF StockRef, Documents, TypeInv, FlowInv, OwnTypeOK
<1>4. CASE rest' = [rest EXCEPT ![a] = @ \ {l}] /\ UNCHANGED <<pc, draft>>
  BY <1>3, <1>4 DEF TypeInv, FlowInv, OwnTypeOK, LedgerTypeOK, Reached, At, cartVars, attemptVars, storeVars,
             StockStep
<1>5. CASE StartOrder(a, snap[a], "restaurant")
  <2>1. "restaurant" \in Kinds
    BY DEF Kinds
  <2> QED
    BY <1>1, <1>3, <1>5, <2>1, StartOrderFlow
    DEF TypeInv, FlowInv, OwnTypeOK, LedgerTypeOK, Reached, At, cartVars, attemptVars, storeVars,
        StockStep
<1>6. CASE StartClear(a)
  BY <1>1, <1>3, <1>6, StartClearFlow
  DEF TypeInv, FlowInv, OwnTypeOK, LedgerTypeOK, Reached, At, cartVars, attemptVars, storeVars,
      StockStep
<1> QED
  BY <1>2, <1>4, <1>5, <1>6

(* A line goes, and with the last one the page. *)
LEMMA ClearLineFlow ==
  ASSUME TypeInv, NEW a \in Attempts, ClearLine(a)
  PROVE  FlowInv'
<1>1. page' \in [Pages -> PageState]
  BY UnmountedType DEF ClearLine, TypeInv, FlowInv, OwnTypeOK
<1>2. rest' \in [Attempts -> SUBSET LineIds]
  BY DEF ClearLine, TypeInv, FlowInv, OwnTypeOK
<1>3. /\ pc' \in [Attempts -> Stages] /\ pc'[a] \in {"clear", "done"}
      /\ \A b \in Attempts : b # a => pc'[b] = pc[b]
  BY DEF ClearLine, At, TypeInv, FlowInv, OwnTypeOK, Stages
<1>4. owner[a] \in Pages
  BY DEF ClearLine, At, TypeInv, FlowInv, Reached
<1> QED
  BY <1>1, <1>2, <1>3, <1>4 DEF TypeInv, FlowInv, OwnTypeOK, LedgerTypeOK, Reached, At, cartVars, attemptVars, storeVars,
             ClearLine

(* An await that throws stops its attempt. *)
LEMMA BreakFlow ==
  ASSUME TypeInv, NEW a \in Attempts, Break(a)
  PROVE  FlowInv'
  BY CheckoutAssumption
     DEF TypeInv, FlowInv, OwnTypeOK, LedgerTypeOK, Reached, At, cartVars, attemptVars, storeVars,
         Break

-----------------------------------------------------------------------------
(* The types and the stages at the start. *)
LEMMA InitFlow == Init => TypeInv
<1> SUFFICES ASSUME Init PROVE TypeInv
  OBVIOUS
<1>1. Reached
  BY DEF Init, Reached, At
<1> QED
  BY <1>1, InitType, SplitType DEF TypeInv, FlowInv

(* Every step keeps them: one case per action. *)
LEMMA NextFlow == TypeInv /\ [Next]_vars => TypeInv'
<1> SUFFICES ASSUME TypeInv, [Next]_vars PROVE TypeInv'
  OBVIOUS
<1>1. TypeOK
  BY SplitType DEF TypeInv, FlowInv
<1>2. CartTypeOK'
  BY <1>1, CartStepType
<1>3. ASSUME UNCHANGED vars PROVE FlowInv'
  BY <1>3 DEF TypeInv, FlowInv, OwnTypeOK, LedgerTypeOK, Reached, At, vars, attemptVars, storeVars
<1>4. ASSUME NEW p \in Pages, OpenCart(p) \/ LeaveCart(p) \/ SelectAddress(p)
      PROVE  FlowInv'
  BY <1>4, OpenCartFlow, LeaveCartFlow, SelectAddressFlow
<1>5. ASSUME NEW a \in Attempts, Pay(a) \/ Submit(a) \/ Break(a)
      PROVE  FlowInv'
  BY <1>5, CreateIntentFlow, InitSheetFlow, PresentFlow, ConfirmFlow, FailFlow,
     ResumeFlow, ReadCartFlow, BookOrderFlow, ShareOrderFlow, StockStepFlow,
     ClearLineFlow, BreakFlow DEF Pay, Submit
<1>6. ASSUME Next PROVE FlowInv'
  BY <1>4, <1>5, <1>6, ShopFlow, EditCartFlow, CartReplyFlow, SelectCityFlow, TapFlow, KillFlow
     DEF Next
<1> QED
  BY <1>2, <1>3, <1>6 DEF TypeInv

(* The types of the whole checkout hold in every state. *)
THEOREM TypeCorrect == Spec => []TypeOK
<1>1. TypeInv => TypeOK
  BY SplitType DEF TypeInv, FlowInv
<1> QED
  BY <1>1, InitFlow, NextFlow, PTL DEF Spec

-----------------------------------------------------------------------------
(***************************************************************************)
(* The cart inside the checkout: besides the steps of CartProofs there is  *)
(* the clearing of a line by _submitOrder.                                 *)
(***************************************************************************)

(* Every step is a step of the cart, or none of it, or such a clearing. *)
LEMMA CartPartOfStep ==
  ASSUME [Next]_vars
  PROVE  [CartNext]_cartVars \/ \E a \in Attempts : ClearLine(a)
  BY DEF Next, Shop, EditCart, CartReply, CartNext, CartTap, OpenCart, LeaveCart,
         SelectCity, SelectAddress, Tap, Pay, CreateIntent, InitSheet, Present,
         Confirm, Fail, Submit, Resume, ReadCart, BookOrder, ShareOrder, StockStep,
         Break, Kill, vars

(* Clearing takes a line out and touches no other, nor any call in flight. *)
LEMMA ClearLineCart ==
  ASSUME TypeInv, NEW a \in Attempts, ClearLine(a)
  PROVE  /\ UNCHANGED <<spent, gets, writes>>
         /\ \A l \in LineIds : cart'[l] = cart[l] \/ cart'[l] = NoLine
<1>1. PICK k \in rest[a] : cart' = [cart EXCEPT ![k] = NoLine]
  BY DEF ClearLine
<1> QED
  BY <1>1 DEF ClearLine, TypeInv, CartTypeOK

(* Calls in flight still agree with the lines they will find. *)
LEMMA NextLines ==
  ASSUME TypeInv, LineInv, [Next]_vars
  PROVE  LineInv'
<1>1. CASE CartNext
  BY <1>1, CartNextLines DEF TypeInv
<1>2. CASE UNCHANGED cartVars
  BY <1>2 DEF LineInv, IdsSpent, GetsPositive, WritesAgree, LineTotals, InCart, cartVars
<1>3. ASSUME NEW a \in Attempts, ClearLine(a)
      PROVE  LineInv'
  BY <1>3, ClearLineCart DEF LineInv, IdsSpent, GetsPositive, WritesAgree, LineTotals, InCart
<1> QED
  BY <1>1, <1>2, <1>3, CartPartOfStep

(* A line out of the cart stays out, and so does one that is to be removed. *)
LEMMA NextRemoves ==
  ASSUME TypeInv, [Next]_vars, NEW l \in LineIds
  PROVE  /\ cart[l] = NoLine /\ l \in spent => cart'[l] = NoLine
         /\ Removed(l) => Removed(l)'
<1>1. CartTypeOK
  BY DEF TypeInv
<1>2. CASE [CartNext]_cartVars
  BY <1>1, <1>2, GoneStaysGone, RemovedStays
<1>3. ASSUME NEW a \in Attempts, ClearLine(a)
      PROVE  /\ cart[l] = NoLine /\ l \in spent => cart'[l] = NoLine
             /\ Removed(l) => Removed(l)'
  BY <1>3, ClearLineCart DEF Removed
<1> QED
  BY <1>2, <1>3, CartPartOfStep

(* What CartProofs shows of the cart holds of the cart of the checkout too,  *)
(* which several attempts may be clearing while it is edited.                *)
THEOREM CartKeptByCheckout == Spec => []LineTotals /\ NoResurrection /\ RemovalWins
<1> DEFINE Gone == \A l \in LineIds : cart[l] = NoLine /\ l \in spent => cart'[l] = NoLine
           Out  == \A l \in LineIds : Removed(l) => Removed(l)'
<1>1. Init => LineInv
  BY CartInitLines DEF Init
<1>2. LineInv => LineTotals
  BY DEF LineInv
<1>3. TypeInv /\ [Next]_vars => [Gone]_cartVars /\ [Out]_cartVars
  BY NextRemoves
<1> HIDE DEF Gone, Out
<1>4. Spec => []LineTotals /\ [][Gone]_cartVars /\ [][Out]_cartVars
  BY <1>1, <1>2, <1>3, NextLines, InitFlow, NextFlow, PTL DEF Spec
<1> QED
  BY <1>4 DEF NoResurrection, RemovalWins, Gone, Out

(* Clearing a line strikes it out of the book, if it still is in it. *)
LEMMA ClearLineBook ==
  ASSUME TypeInv, LineInv, BookInv, NEW a \in Attempts, ClearLine(a)
  PROVE  BookInv' /\ [Promised!Next]_(Promised!bookVars)
<1>1. CartTypeOK
  BY DEF TypeInv
<1>2. PICK k \in rest[a] : cart' = [cart EXCEPT ![k] = NoLine]
  BY DEF ClearLine
<1>3. /\ spent' = spent /\ gets' = gets /\ writes' = writes
      /\ \A l \in LineIds : cart'[l] = cart[l] \/ cart'[l] = NoLine
  BY ClearLineCart
<1>4. BookInv'
  BY <1>3 DEF BookInv, PricesKept, CallsBounded, InCart
<1>5. CASE k \in InCart
  <2>1. Promised!Strike(k)
    BY <1>1, <1>2, <1>3, <1>5, LineStruck
  <2> QED
    BY <1>4, <1>5, <2>1 DEF Promised!Next, InCart
<1>6. CASE k \notin InCart
  <2>1. cart' = cart
    BY <1>1, <1>2, <1>6 DEF CartTypeOK, InCart
  <2> QED
    BY <1>3, <1>4, <2>1, SameBook DEF Promised!bookVars
<1> QED
  BY <1>5, <1>6

(* Every step of the checkout is a step of the book of lines or none. *)
LEMMA NextBook ==
  ASSUME TypeInv, LineInv, BookInv, [Next]_vars
  PROVE  BookInv' /\ [Promised!Next]_(Promised!bookVars)
<1>1. CASE [CartNext]_cartVars
  BY <1>1, CartNextBook DEF TypeInv
<1> QED
  BY <1>1, ClearLineBook, CartPartOfStep

(* The cart of the checkout implements the book of lines too, whatever the   *)
(* number of attempts that read and clear it while it is edited.             *)
THEOREM CartPromiseKept == Spec => CartPromise
<1>1. Init => LineInv /\ BookInv /\ Promised!Init
  BY CartInitLines, CartInitBook DEF Init
<1>2. TypeInv /\ LineInv /\ BookInv /\ [Next]_vars
        => BookInv' /\ [Promised!Next]_(Promised!bookVars)
  BY NextBook
<1> QED
  BY <1>1, <1>2, NextLines, InitFlow, NextFlow, PTL DEF Spec, CartPromise, Promised!Spec

-----------------------------------------------------------------------------
(***************************************************************************)
(* Totals.  MapThenSumSet is defined by recursion over the subsets of a    *)
(* set.  What it computes is counted here instead: x stands for F[x]       *)
(* units, and the sum over S is the number of units of the elements of S,  *)
(* so that what is known of the cardinality of unions applies to sums.     *)
(***************************************************************************)
(* As many elements as F adds up to over S. *)
Units(F, S) == UNION {{x} \X (1..F[x]) : x \in S}

Picked(S) == CHOOSE x \in S : TRUE

(* g[s] is what MapThenSumSet computes of each s, the element chosen first. *)
SumsUp(g, F, S) ==
  g = [s \in SUBSET S |-> IF s = {} THEN 0 ELSE F[Picked(s)] + g[s \ {Picked(s)}]]

(* One element stands for n units. *)
LEMMA OneUnits ==
  ASSUME NEW x, NEW n \in Nat
  PROVE  IsFiniteSet({x} \X (1..n)) /\ Cardinality({x} \X (1..n)) = n
<1>1. IsFiniteSet(1..n) /\ Cardinality(1..n) = n
  BY FS_Interval
<1>2. IsFiniteSet({x}) /\ Cardinality({x}) = 1
  BY FS_Singleton
<1> QED
  BY <1>1, <1>2, FS_Product

(* Finitely many elements stand for finitely many units. *)
LEMMA UnitsFinite ==
  ASSUME NEW S, IsFiniteSet(S), NEW F, \A x \in S : F[x] \in Nat
  PROVE  IsFiniteSet(Units(F, S))
<1> DEFINE T == {{x} \X (1..F[x]) : x \in S}
           f == [x \in S |-> {x} \X (1..F[x])]
<1>1. f \in Surjection(S, T)
  BY DEF Surjection
<1>2. IsFiniteSet(T)
  BY <1>1, FS_Surjection
<1>3. ASSUME NEW t \in T PROVE IsFiniteSet(t)
  <2>1. PICK x \in S : t = {x} \X (1..F[x])
    OBVIOUS
  <2>2. F[x] \in Nat
    OBVIOUS
  <2> QED
    BY <2>1, <2>2, OneUnits
<1> QED
  BY <1>2, <1>3, FS_UNION DEF Units

(* The units of one element come on top of those of the others. *)
LEMMA UnitsOfOne ==
  ASSUME NEW S, IsFiniteSet(S), NEW F, \A x \in S : F[x] \in Nat, NEW x \in S
  PROVE  Cardinality(Units(F, S)) = F[x] + Cardinality(Units(F, S \ {x}))
<1> DEFINE A == {x} \X (1..F[x])
           B == Units(F, S \ {x})
<1>1. IsFiniteSet(A) /\ Cardinality(A) = F[x]
  BY OneUnits
<1>2. IsFiniteSet(S \ {x})
  BY FS_Subset
<1>3. IsFiniteSet(B) /\ Cardinality(B) \in Nat
  BY <1>2, UnitsFinite, FS_CardinalityType
<1>4. Units(F, S) = A \cup B /\ A \cap B = {}
  BY DEF Units
<1>5. Cardinality({}) = 0
  BY FS_EmptySet
<1>6. Cardinality(A \cup B) = Cardinality(A) + Cardinality(B)
  <2> HIDE DEF A, B
  <2>1. Cardinality(A \cup B) = Cardinality(A) + Cardinality(B) - Cardinality(A \cap B)
    BY <1>1, <1>3, FS_Union
  <2>2. Cardinality(A) \in Nat /\ Cardinality(B) \in Nat
    BY <1>1, <1>3
  <2>3. Cardinality(A \cap B) = 0
    BY <1>4, <1>5, Zenon
  <2> QED
    BY <2>1, <2>2, <2>3
<1> QED
  BY <1>1, <1>4, <1>6

(* So that counting units follows the equation of the sum, *)
LEMMA UnitsSumUp ==
  ASSUME NEW S, IsFiniteSet(S), NEW F, \A x \in S : F[x] \in Nat
  PROVE  SumsUp([s \in SUBSET S |-> Cardinality(Units(F, s))], F, S)
<1> DEFINE g == [s \in SUBSET S |-> Cardinality(Units(F, s))]
<1>1. Cardinality(Units(F, {})) = 0
  BY FS_EmptySet DEF Units
<1>2. ASSUME NEW s \in SUBSET S, s # {}
      PROVE  g[s] = F[Picked(s)] + g[s \ {Picked(s)}]
  <2>1. IsFiniteSet(s) /\ Picked(s) \in s
    BY <1>2, FS_Subset DEF Picked
  <2> QED
    BY <2>1, UnitsOfOne
<1> QED
  BY <1>1, <1>2 DEF SumsUp

(* which has one solution: two of them differ on no smallest set. *)
LEMMA SumsUpOnce ==
  ASSUME NEW S, IsFiniteSet(S), NEW F, NEW g, NEW h, SumsUp(g, F, S), SumsUp(h, F, S)
  PROVE  g = h
<1>1. \A s \in SUBSET S : g[s] = h[s]
  <2> DEFINE R == StrictSubsetOrdering(S)
             T == {s \in SUBSET S : g[s] # h[s]}
  <2>1. IsWellFoundedOn(R, SUBSET S)
    BY FS_StrictSubsetOrderingWellFounded, FS_FiniteSubsetsOfFinite
  <2>2. SUFFICES ASSUME T # {} PROVE FALSE
    OBVIOUS
  <2>3. PICK s \in T : \A t \in T : <<t, s>> \notin R
    <3> HIDE DEF R
    <3> QED
      BY <2>1, <2>2, WFMin
  <2>4. s # {}
    BY <2>3 DEF SumsUp
  <2>5. Picked(s) \in s
    BY <2>4 DEF Picked
  <2> DEFINE t == s \ {Picked(s)}
  <2>6. t \in SUBSET S /\ <<t, s>> \in R
    BY <2>5 DEF StrictSubsetOrdering
  <2>7. g[t] = h[t]
    BY <2>3, <2>6
  <2> QED
    BY <2>3, <2>4, <2>7 DEF SumsUp
<1> QED
  BY <1>1 DEF SumsUp

(* The sum is the number of units. *)
LEMMA SumIsUnits ==
  ASSUME NEW S, IsFiniteSet(S), NEW F, \A x \in S : F[x] \in Nat
  PROVE  (CHOOSE g : SumsUp(g, F, S))[S] = Cardinality(Units(F, S))
<1> DEFINE u == [s \in SUBSET S |-> Cardinality(Units(F, s))]
           c == CHOOSE g : SumsUp(g, F, S)
<1>1. SumsUp(u, F, S)
  BY UnitsSumUp
<1>2. SumsUp(c, F, S)
  BY <1>1
<1>3. c = u
  BY <1>1, <1>2, SumsUpOnce
<1> QED
  BY <1>3

-----------------------------------------------------------------------------
LineTotal(lines) == [l \in LineIds |-> lines[l].total]

(* 'cart_total' is the number of cents of the lines. *)
LEMMA TotalIsUnits ==
  ASSUME NEW lines \in Lines, IsFiniteSet(Ids(lines))
  PROVE  Total(lines) = Cardinality(Units(LineTotal(lines), Ids(lines)))
<1> DEFINE S == Ids(lines)
           F == LineTotal(lines)
           raw(g) == [s \in SUBSET S |-> IF s = {} THEN 0
                                         ELSE lines[Picked(s)].total + g[s \ {Picked(s)}]]
           u == [s \in SUBSET S |-> Cardinality(Units(F, s))]
           c == CHOOSE g : g = raw(g)
<1>1. Total(lines) = c[S]
  BY DEF Total, MapThenSumSet, MapThenFoldSet, Picked
<1>2. \A x \in S : F[x] = lines[x].total /\ F[x] \in Nat
  BY DEF LineTotal, Ids, Lines, Line
<1>3. \A s \in SUBSET S : s # {} => Picked(s) \in S
  BY DEF Picked
<1>4. \A g : g = raw(g) <=> SumsUp(g, F, S)
  <2> HIDE DEF S, F
  <2> QED
    BY <1>2, <1>3 DEF SumsUp
<1>5. SumsUp(u, F, S)
  BY <1>2, UnitsSumUp
<1>6. SumsUp(c, F, S)
  <2> HIDE DEF raw, u, F, S
  <2>1. u = raw(u)
    BY <1>4, <1>5
  <2>2. c = raw(c)
    BY <2>1
  <2> QED
    BY <1>4, <2>2
<1>7. c = u
  <2> HIDE DEF u, c, F
  <2> QED
    BY <1>5, <1>6, SumsUpOnce
<1> QED
  BY <1>1, <1>7

(* A total is a natural number, and none without lines. *)
LEMMA TotalType ==
  ASSUME NEW lines \in Lines, IsFiniteSet(Ids(lines))
  PROVE  Total(lines) \in Nat /\ (Ids(lines) = {} => Total(lines) = 0)
<1>1. \A x \in Ids(lines) : LineTotal(lines)[x] \in Nat
  BY DEF LineTotal, Ids, Lines, Line
<1>2. Total(lines) \in Nat
  BY <1>1, TotalIsUnits, UnitsFinite, FS_CardinalityType
<1>3. Ids(lines) = {} => Total(lines) = 0
  BY TotalIsUnits, FS_EmptySet DEF Units
<1> QED
  BY <1>2, <1>3

(* The products and the meals of a cart add up to the cart. *)
LEMMA PartsAddUp ==
  ASSUME NEW lines \in Lines, IsFiniteSet(Ids(lines))
  PROVE  Total(Part(lines, "course")) + Total(Part(lines, "restaurant")) = Total(lines)
<1> DEFINE C == Part(lines, "course")
           R == Part(lines, "restaurant")
           F == LineTotal(lines)
<1>1. C \in Lines /\ R \in Lines
  BY PartType
<1>2. Ids(C) \cup Ids(R) = Ids(lines) /\ Ids(C) \cap Ids(R) = {}
  BY DEF Ids, Part, IsMeal
<1>3. IsFiniteSet(Ids(C)) /\ IsFiniteSet(Ids(R))
  BY <1>2, FS_Subset
<1>4. /\ \A l \in Ids(C) : LineTotal(C)[l] = F[l]
      /\ \A l \in Ids(R) : LineTotal(R)[l] = F[l]
  BY DEF LineTotal, Ids, Part
<1>5. \A x \in Ids(lines) : F[x] \in Nat
  BY DEF LineTotal, Ids, Lines, Line
<1> HIDE DEF C, R, F
<1>6. /\ Units(LineTotal(C), Ids(C)) = Units(F, Ids(C))
      /\ Units(LineTotal(R), Ids(R)) = Units(F, Ids(R))
  BY <1>4 DEF Units
<1> DEFINE A == Units(F, Ids(C))
           B == Units(F, Ids(R))
<1>7. Units(F, Ids(lines)) = A \cup B /\ A \cap B = {}
  BY <1>2 DEF Units
<1>8. IsFiniteSet(A) /\ IsFiniteSet(B)
  BY <1>2, <1>3, <1>5, UnitsFinite
<1>9. Total(C) = Cardinality(A) /\ Total(R) = Cardinality(B)
  BY <1>1, <1>3, <1>6, TotalIsUnits
<1>10. Total(lines) = Cardinality(A \cup B)
  BY <1>7, TotalIsUnits DEF F
<1> HIDE DEF A, B
<1>11. Cardinality(A \cap B) = 0
  BY <1>7, FS_EmptySet, Zenon
<1>12. Cardinality(A \cup B) = Cardinality(A) + Cardinality(B) - Cardinality(A \cap B)
  BY <1>8, FS_Union
<1>13. Cardinality(A) \in Nat /\ Cardinality(B) \in Nat
  BY <1>8, FS_CardinalityType
<1> QED
  BY <1>9, <1>10, <1>11, <1>12, <1>13 DEF C, R

(* The total of a set of orders: one comes on top of the others. *)
LEMMA OrdersAddUp ==
  ASSUME NEW S, IsFiniteSet(S), \A o \in S : OrderTotal(o) \in Nat
  PROVE  /\ S = {} => MapThenSumSet(OrderTotal, S) = 0
         /\ \A o \in S : MapThenSumSet(OrderTotal, S)
                          = OrderTotal(o) + MapThenSumSet(OrderTotal, S \ {o})
<1> DEFINE F == [o \in S |-> OrderTotal(o)]
<1>1. ASSUME NEW U \in SUBSET S
      PROVE  MapThenSumSet(OrderTotal, U) = Cardinality(Units(F, U))
  <2> DEFINE raw(g) == [s \in SUBSET U |-> IF s = {} THEN 0
                                           ELSE OrderTotal(Picked(s)) + g[s \ {Picked(s)}]]
             u == [s \in SUBSET U |-> Cardinality(Units(F, s))]
             c == CHOOSE g : g = raw(g)
  <2>1. MapThenSumSet(OrderTotal, U) = c[U]
    BY DEF MapThenSumSet, MapThenFoldSet, Picked
  <2>2. \A x \in U : F[x] = OrderTotal(x) /\ F[x] \in Nat
    OBVIOUS
  <2>3. \A s \in SUBSET U : s # {} => Picked(s) \in U
    BY DEF Picked
  <2>4. \A g : g = raw(g) <=> SumsUp(g, F, U)
    <3> HIDE DEF F
    <3> QED
      BY <2>2, <2>3 DEF SumsUp
  <2>5. IsFiniteSet(U)
    BY FS_Subset
  <2>6. SumsUp(u, F, U)
    <3> HIDE DEF F
    <3> QED
      BY <2>2, <2>5, UnitsSumUp
  <2>7. SumsUp(c, F, U)
    <3> HIDE DEF raw, u, F
    <3>1. u = raw(u)
      BY <2>4, <2>6
    <3>2. c = raw(c)
      BY <3>1
    <3> QED
      BY <2>4, <3>2
  <2>8. c = u
    <3> HIDE DEF u, c, F
    <3> QED
      BY <2>5, <2>6, <2>7, SumsUpOnce
  <2> QED
    BY <2>1, <2>8
<1>2. Cardinality(Units(F, {})) = 0
  BY FS_EmptySet DEF Units
<1>3. \A o \in S : F[o] = OrderTotal(o) /\ F[o] \in Nat
  OBVIOUS
<1> HIDE DEF F
<1>4. \A o \in S : Cardinality(Units(F, S)) = F[o] + Cardinality(Units(F, S \ {o}))
  BY <1>3, UnitsOfOne
<1> QED
  BY <1>1, <1>2, <1>3, <1>4

=============================================================================
