------------------------------ MODULE Checkout ------------------------------
(***************************************************************************)
(* From the cart to the order: CartPage, payWithStripe and _submitOrder of *)
(* one customer signed in on several devices.                              *)
(*                                                                         *)
(* A tap on "Commander maintenant" starts an attempt: a chain of awaited   *)
(* calls (create the payment intent, configure the payment sheet, show it, *)
(* read the cart again, write the orders, take the stock, clear the cart). *)
(* Nothing disables the button meanwhile, so that attempts of one page,    *)
(* and of several devices, run interleaved; the customer may edit the cart *)
(* or leave the page between two awaits, and the app may be killed.        *)
(***************************************************************************)
EXTENDS Cart, FiniteSetsExt

CONSTANTS
  Devices, Pages, DeviceOf,  \* each page is one life of the CartPage widget
  Attempts,                  \* taps on the order button; also names the intent
  Cities, CourseFee, RestaurantFee,   \* the collection 'delivery_zone'
  InitialStock,              \* 'quantity' of the documents of 'product'
  AutoId,                    \* the id that doc(null) generates
  NoCity, NoAttempt, NoPage, NoOrder

Kinds == {"course", "restaurant"}
Lines == [LineIds -> Line \cup {NoLine}]

(* An order document. attempt is not in the code: it names the submission.  *)
Order == [attempt : Attempts, kind : Kinds, lines : Lines,
          fee : Nat, city : Cities \cup {NoCity}, address : BOOLEAN]
Documents == {"product"} \X Products

ASSUME CheckoutAssumption ==
  /\ Products \cap Menus = {}
  /\ DeviceOf \in [Pages -> Devices]
  /\ CourseFee \in [Cities -> Nat] /\ RestaurantFee \in [Cities -> Nat]
  /\ InitialStock \in [Products -> Nat]
  /\ NoCity \notin Cities /\ NoPage \notin Pages
  /\ NoAttempt \notin Attempts /\ NoOrder \notin Order

VARIABLES
  page,      \* the fields of each _CartPageState and whether it is mounted
  pc,        \* the await each attempt has reached
  stopped,   \* attempts cut there: an await of _submitOrder threw, or the app died
  owner,     \* the page each attempt was started from
  quote,     \* what was on the screen when the button was tapped
  sheet,     \* the intent Stripe.instance is configured with on each device
  shown,     \* the intent each attempt's payment sheet was opened for
  charged,   \* the intents the customer has paid
  snap,      \* cartSnapshot of _submitOrder
  draft,     \* orderData of _submitOrder
  rest,      \* what is left of the loop that an attempt is in
  mine,      \* users/{uid}/orderedProduct
  orders,    \* the collection 'orders'
  stock      \* the collection 'product'

attemptVars == <<pc, stopped, owner, quote, shown, snap, draft, rest>>
storeVars   == <<mine, orders, stock>>
vars == <<cartVars, page, attemptVars, sheet, charged, storeVars>>

Stages == {"idle", "calling", "intent", "ready", "sheet", "confirmed",
           "reading", "book", "share", "stock", "clear",
           "done", "empty", "lost", "failed"}
Final == {"done", "empty", "lost", "failed"}

-----------------------------------------------------------------------------
NoLines == [l \in LineIds |-> NoLine]
Ids(lines) == {l \in LineIds : lines[l] # NoLine}
MealIds(lines) == {l \in Ids(lines) : IsMeal(lines[l])}

(* Mutant: the lines are not split. *)
WholeCart(lines, kind) == lines

(* courseItems and restaurantItems. *)
Part(lines, kind) ==
  [l \in LineIds |->
     IF l \in Ids(lines) /\ (kind = "restaurant") = IsMeal(lines[l])
     THEN lines[l] ELSE NoLine]

Total(lines) == MapThenSumSet(LAMBDA l : lines[l].total, Ids(lines))

(* 'order_total': the delivery fee is in the total of a course order only. *)
OrderTotal(o) == Total(o.lines) + (IF o.kind = "course" THEN o.fee ELSE 0)

(* The amount of an intent: what the screen showed, in cents. *)
Amount(i) == Total(quote[i].lines) + quote[i].fee

At(a, stage) == pc[a] = stage /\ a \notin stopped

SheetUp(d) == \E a \in Attempts : At(a, "sheet") /\ DeviceOf[owner[a]] = d
Mounted(p) == page[p].stage = "mounted"
CartOpen(d) == \E p \in Pages : Mounted(p) /\ DeviceOf[p] = d

(* The customer can touch page p: the payment sheet is modal. *)
Touch(p) == Mounted(p) /\ ~SheetUp(DeviceOf[p])
Elsewhere(d) == ~CartOpen(d) /\ ~SheetUp(d)

Unmounted(p) == [page EXCEPT ![p].stage = "gone"]

-----------------------------------------------------------------------------
Init ==
  /\ CartInit
  /\ page = [p \in Pages |-> [stage |-> "new", city |-> NoCity,
                              fee |-> 0, address |-> FALSE]]
  /\ pc = [a \in Attempts |-> "idle"]
  /\ stopped = {}
  /\ owner = [a \in Attempts |-> NoPage]
  /\ quote = [a \in Attempts |-> [lines |-> NoLines, fee |-> 0]]
  /\ sheet = [d \in Devices |-> NoAttempt]
  /\ shown = [a \in Attempts |-> NoAttempt]
  /\ charged = {}
  /\ snap = [a \in Attempts |-> NoLines]
  /\ draft = [a \in Attempts |-> NoOrder]
  /\ rest = [a \in Attempts |-> {}]
  /\ mine = {}
  /\ orders = {}
  /\ stock = [d \in Documents |-> InitialStock[d[2]]]

(***************************************************************************)
(* The customer.  Adding to the cart happens on the pages of another tab,  *)
(* editing it on the cart page; switching tabs disposes of the page.       *)
(***************************************************************************)
Shop ==
  /\ \E d \in Devices : Elsewhere(d)
  /\ \/ \E l \in LineIds, g \in Goods, q \in 1..MaxQty : ProductAddToCart(l, g, q)
     \/ \E l \in LineIds, g \in Goods : MenuAddToCart(l, g)
  /\ UNCHANGED <<page, attemptVars, sheet, charged, storeVars>>

EditCart ==
  /\ \E p \in Pages : Touch(p)
  /\ \/ \E l \in LineIds, n \in 1..MaxQty : UpdateQuantity(l, n)
     \/ \E l \in LineIds : DeleteItem(l)
  /\ UNCHANGED <<page, attemptVars, sheet, charged, storeVars>>

CartReply ==
  /\ CartServer
  /\ UNCHANGED <<page, attemptVars, sheet, charged, storeVars>>

OpenCart(p) ==
  /\ page[p].stage = "new"
  /\ Elsewhere(DeviceOf[p])
  /\ page' = [page EXCEPT ![p].stage = "mounted"]
  /\ UNCHANGED <<cartVars, attemptVars, sheet, charged, storeVars>>

LeaveCart(p) ==
  /\ Touch(p)
  /\ page' = Unmounted(p)
  /\ UNCHANGED <<cartVars, attemptVars, sheet, charged, storeVars>>

(* The fee is chosen by what the cart holds now; it stays when that changes. *)
SelectCity(p, c) ==
  /\ Touch(p)
  /\ page' = [page EXCEPT ![p].city = c,
                          ![p].fee = IF OnlyRestaurant THEN RestaurantFee[c]
                                                       ELSE CourseFee[c]]
  /\ UNCHANGED <<cartVars, attemptVars, sheet, charged, storeVars>>

(* AddressSelection is on the page only while the cart has no product. *)
SelectAddress(p) ==
  /\ Touch(p)
  /\ OnlyRestaurant
  /\ page' = [page EXCEPT ![p].address = TRUE]
  /\ UNCHANGED <<cartVars, attemptVars, sheet, charged, storeVars>>

(***************************************************************************)
(* payWithStripe, from the tap to onSuccess.                               *)
(***************************************************************************)
(* Mutant: the address is not asked for. *)
TapWithoutAddress(p, a) ==
  /\ Touch(p)
  /\ At(a, "idle")
  /\ page[p].city # NoCity
  /\ pc' = [pc EXCEPT ![a] = "calling"]
  /\ owner' = [owner EXCEPT ![a] = p]
  /\ quote' = [quote EXCEPT ![a] = [lines |-> cart, fee |-> page[p].fee]]
  /\ UNCHANGED <<cartVars, page, stopped, sheet, shown, charged, snap, draft, rest, storeVars>>

Tap(p, a) ==
  /\ Touch(p)
  /\ At(a, "idle")
  /\ page[p].city # NoCity
  /\ OnlyRestaurant => page[p].address
  /\ pc' = [pc EXCEPT ![a] = "calling"]
  /\ owner' = [owner EXCEPT ![a] = p]
  /\ quote' = [quote EXCEPT ![a] = [lines |-> cart, fee |-> page[p].fee]]
  /\ UNCHANGED <<cartVars, page, stopped, sheet, shown, charged, snap, draft, rest, storeVars>>

(* initStripePayment creates the intent and returns its client secret. *)
CreateIntent(a) ==
  /\ At(a, "calling")
  /\ pc' = [pc EXCEPT ![a] = "intent"]
  /\ UNCHANGED <<cartVars, page, stopped, owner, quote, sheet, shown, charged,
                 snap, draft, rest, storeVars>>

(* Stripe.instance is one object per app: the last configuration stands. *)
InitSheet(a) ==
  /\ At(a, "intent")
  /\ pc' = [pc EXCEPT ![a] = "ready"]
  /\ sheet' = [sheet EXCEPT ![DeviceOf[owner[a]]] = a]
  /\ UNCHANGED <<cartVars, page, stopped, owner, quote, shown, charged,
                 snap, draft, rest, storeVars>>

Present(a) ==
  LET d == DeviceOf[owner[a]] IN
  /\ At(a, "ready")
  /\ ~SheetUp(d)
  /\ pc' = [pc EXCEPT ![a] = "sheet"]
  /\ shown' = [shown EXCEPT ![a] = sheet[d]]
  /\ UNCHANGED <<cartVars, page, stopped, owner, quote, sheet, charged,
                 snap, draft, rest, storeVars>>

(* The customer pays. Stripe refuses an intent that has succeeded already. *)
Confirm(a) ==
  /\ At(a, "sheet")
  /\ shown[a] \notin charged
  /\ charged' = charged \cup {shown[a]}
  /\ pc' = [pc EXCEPT ![a] = "confirmed"]
  /\ UNCHANGED <<cartVars, page, stopped, owner, quote, sheet, shown,
                 snap, draft, rest, storeVars>>

(* Mutant: the catch block falls through to onSuccess. *)
FailIntoSuccess(a) ==
  /\ At(a, "sheet")
  /\ pc' = [pc EXCEPT ![a] = "confirmed"]
  /\ UNCHANGED <<cartVars, page, stopped, owner, quote, sheet, shown, charged,
                 snap, draft, rest, storeVars>>

(* One of the awaits threw or the customer closed the sheet: the catch block. *)
Fail(a) ==
  /\ \E s \in {"calling", "intent", "ready", "sheet"} : At(a, s)
  /\ pc' = [pc EXCEPT ![a] = "failed"]
  /\ UNCHANGED <<cartVars, page, stopped, owner, quote, sheet, shown, charged,
                 snap, draft, rest, storeVars>>

(* After the sheet: ScaffoldMessenger.of(context) throws on a page that is   *)
(* no longer mounted, and the catch block with it: onSuccess is not reached. *)
Resume(a) ==
  /\ At(a, "confirmed")
  /\ pc' = [pc EXCEPT ![a] = IF Mounted(owner[a]) THEN "reading" ELSE "lost"]
  /\ UNCHANGED <<cartVars, page, stopped, owner, quote, sheet, shown, charged,
                 snap, draft, rest, storeVars>>

(***************************************************************************)
(* _submitOrder.                                                           *)
(***************************************************************************)
(* orderData, built from the snapshot and from the fields of the page. *)
OrderData(a, lines, kind) ==
  LET p == page[owner[a]] IN
  [attempt |-> a, kind |-> kind, lines |-> Part(lines, kind), fee |-> p.fee,
   city |-> p.city, address |-> (kind = "restaurant" /\ p.address)]

StartOrder(a, lines, kind) ==
  /\ draft' = [draft EXCEPT ![a] = OrderData(a, lines, kind)]
  /\ pc' = [pc EXCEPT ![a] = "book"]
  /\ rest' = [rest EXCEPT ![a] = {}]

StartClear(a) ==
  /\ pc' = [pc EXCEPT ![a] = "clear"]
  /\ rest' = [rest EXCEPT ![a] = Ids(snap[a])]
  /\ UNCHANGED draft

(* Mutant: the order data is not built. *)
ReadCartOnly(a) ==
  /\ At(a, "reading")
  /\ snap' = [snap EXCEPT ![a] = cart]
  /\ pc' = [pc EXCEPT ![a] = IF InCart = {} THEN "empty" ELSE "book"]
  /\ UNCHANGED <<cartVars, page, stopped, owner, quote, sheet, shown, charged,
                 draft, rest, storeVars>>

(* Mutant: the cart is cleared before the orders are written. *)
ReadThenClear(a) ==
  /\ At(a, "reading")
  /\ snap' = [snap EXCEPT ![a] = cart]
  /\ pc' = [pc EXCEPT ![a] = IF InCart = {} THEN "empty" ELSE "clear"]
  /\ rest' = [rest EXCEPT ![a] = InCart]
  /\ UNCHANGED <<cartVars, page, stopped, owner, quote, sheet, shown, charged,
                 draft, storeVars>>

(* cartRef.get() answers: the cart is read again, whatever was charged. *)
ReadCart(a) ==
  /\ At(a, "reading")
  /\ snap' = [snap EXCEPT ![a] = cart]
  /\ \/ /\ InCart = {}
        /\ pc' = [pc EXCEPT ![a] = "empty"]
        /\ UNCHANGED <<draft, rest>>
     \/ /\ InCart # {}
        /\ StartOrder(a, cart, IF OnlyRestaurant THEN "restaurant" ELSE "course")
  /\ UNCHANGED <<cartVars, page, stopped, owner, quote, sheet, shown, charged, storeVars>>

(* Mutant: the shop's copy first. *)
BookForShop(a) ==
  /\ At(a, "book")
  /\ orders' = orders \cup {draft[a]}
  /\ pc' = [pc EXCEPT ![a] = "share"]
  /\ UNCHANGED <<cartVars, page, stopped, owner, quote, sheet, shown, charged,
                 snap, draft, rest, mine, stock>>

(* await orderRef.add(orderData) *)
BookOrder(a) ==
  /\ At(a, "book")
  /\ mine' = mine \cup {draft[a]}
  /\ pc' = [pc EXCEPT ![a] = "share"]
  /\ UNCHANGED <<cartVars, page, stopped, owner, quote, sheet, shown, charged,
                 snap, draft, rest, orders, stock>>

(* Mutant: the stock is decremented after an order of either kind. *)
ShareThenStock(a) ==
  /\ At(a, "share")
  /\ orders' = orders \cup {draft[a]}
  /\ pc' = [pc EXCEPT ![a] = "stock"]
  /\ rest' = [rest EXCEPT ![a] = Ids(draft[a].lines)]
  /\ UNCHANGED <<cartVars, page, stopped, owner, quote, sheet, shown, charged,
                 snap, draft, mine, stock>>

(* await ordersRef.add(orderData) *)
ShareOrder(a) ==
  /\ At(a, "share")
  /\ orders' = orders \cup {draft[a]}
  /\ \/ /\ draft[a].kind = "course"
        /\ pc' = [pc EXCEPT ![a] = "stock"]
        /\ rest' = [rest EXCEPT ![a] = Ids(draft[a].lines)]
        /\ UNCHANGED draft
     \/ /\ draft[a].kind = "restaurant"
        /\ StartClear(a)
  /\ UNCHANGED <<cartVars, page, stopped, owner, quote, sheet, shown, charged,
                 snap, mine, stock>>

(* The document _decrementProductQuantities takes a line's stock from: a    *)
(* line has no field 'id', and the collection is spelt 'products'.          *)
StockRef(line) == <<"products", AutoId>>

(* Mutant: the transaction waits for a document that does not exist. *)
StockStepWaits(a) ==
  /\ At(a, "stock")
  /\ \E l \in rest[a] : StockRef(snap[a][l]) \in DOMAIN stock
  /\ UNCHANGED vars

(* Mutant: the order of the meals is written even if there are none. *)
StockStepThenMeals(a) ==
  /\ At(a, "stock")
  /\ \E l \in rest[a] :
       \/ /\ rest[a] # {l}
          /\ rest' = [rest EXCEPT ![a] = @ \ {l}]
          /\ UNCHANGED <<pc, draft>>
       \/ /\ rest[a] = {l}
          /\ StartOrder(a, snap[a], "restaurant")
  /\ UNCHANGED <<cartVars, page, stopped, owner, quote, sheet, shown, charged,
                 snap, mine, orders, stock>>

(* One transaction of the loop: nothing is written when !snapshot.exists. *)
StockStep(a) ==
  /\ At(a, "stock")
  /\ \E l \in rest[a] :
       LET line == snap[a][l]
           ref  == StockRef(line)
       IN  /\ stock' = IF ref \in DOMAIN stock
                       THEN [stock EXCEPT ![ref] = IF @ >= line.quantity
                                                   THEN @ - line.quantity ELSE 0]
                       ELSE stock
           /\ \/ /\ rest[a] # {l}
                 /\ rest' = [rest EXCEPT ![a] = @ \ {l}]
                 /\ UNCHANGED <<pc, draft>>
              \/ /\ rest[a] = {l}
                 /\ MealIds(snap[a]) # {}
                 /\ StartOrder(a, snap[a], "restaurant")
              \/ /\ rest[a] = {l}
                 /\ MealIds(snap[a]) = {}
                 /\ StartClear(a)
  /\ UNCHANGED <<cartVars, page, stopped, owner, quote, sheet, shown, charged,
                 snap, mine, orders>>

(* One delete() of the last loop; after the last one the page is popped. *)
ClearLine(a) ==
  /\ At(a, "clear")
  /\ \E l \in rest[a] :
       /\ cart' = [cart EXCEPT ![l] = NoLine]
       /\ rest' = [rest EXCEPT ![a] = @ \ {l}]
       /\ \/ /\ rest[a] # {l}
             /\ UNCHANGED <<pc, page>>
          \/ /\ rest[a] = {l}
             /\ pc' = [pc EXCEPT ![a] = "done"]
             /\ page' = Unmounted(owner[a])
  /\ UNCHANGED <<spent, gets, writes, stopped, owner, quote, sheet, shown, charged,
                 snap, draft, storeVars>>

(* An await of _submitOrder throws: nobody catches it, nothing is undone. *)
Break(a) ==
  /\ \E s \in {"reading", "book", "share", "stock", "clear"} : At(a, s)
  /\ stopped' = stopped \cup {a}
  /\ UNCHANGED <<cartVars, page, pc, owner, quote, sheet, shown, charged,
                 snap, draft, rest, storeVars>>

(* The app is killed on device d and takes with it whatever ran there. *)
Kill(d) ==
  /\ \E p \in Pages : DeviceOf[p] = d /\ page[p].stage # "new"
  /\ page' = [p \in Pages |-> IF Mounted(p) /\ DeviceOf[p] = d
                              THEN [page[p] EXCEPT !.stage = "gone"] ELSE page[p]]
  /\ stopped' = stopped \cup
                {a \in Attempts : /\ pc[a] \notin Final \cup {"idle"}
                                  /\ DeviceOf[owner[a]] = d}
  /\ sheet' = [sheet EXCEPT ![d] = NoAttempt]
  /\ UNCHANGED <<cartVars, pc, owner, quote, shown, charged, snap, draft, rest, storeVars>>

-----------------------------------------------------------------------------
Pay(a) ==
  \/ CreateIntent(a) \/ InitSheet(a) \/ Present(a) \/ Confirm(a) \/ Fail(a)

(* The steps of an attempt that has been paid, none of which needs the customer. *)
Submit(a) ==
  \/ Resume(a) \/ ReadCart(a) \/ BookOrder(a) \/ ShareOrder(a)
  \/ StockStep(a) \/ ClearLine(a)

Next ==
  \/ Shop \/ EditCart \/ CartReply
  \/ \E p \in Pages : \/ OpenCart(p) \/ LeaveCart(p) \/ SelectAddress(p)
                      \/ \E c \in Cities : SelectCity(p, c)
                      \/ \E a \in Attempts : Tap(p, a)
  \/ \E a \in Attempts : Pay(a) \/ Submit(a) \/ Break(a)
  \/ \E d \in Devices : Kill(d)

Spec == Init /\ [][Next]_vars

Fairness == \A a \in Attempts : WF_vars(Submit(a))

FairSpec == Spec /\ Fairness

-----------------------------------------------------------------------------
(* The promise of OrderLedger, kept on the intents that were really paid. *)
Backing(set) == {<<shown[o.attempt], o.kind>> : o \in set}
Ledger == INSTANCE OrderLedger WITH Intents <- Attempts, paid <- charged,
                                    booked <- Backing(mine), shared <- Backing(orders)
LedgerSpec == Ledger!Spec

PageState == [stage : {"new", "mounted", "gone"}, city : Cities \cup {NoCity},
              fee : Nat, address : BOOLEAN]

TypeOK ==
  /\ CartTypeOK
  /\ page \in [Pages -> PageState]
  /\ pc \in [Attempts -> Stages]
  /\ stopped \subseteq Attempts
  /\ owner \in [Attempts -> Pages \cup {NoPage}]
  /\ quote \in [Attempts -> [lines : Lines, fee : Nat]]
  /\ sheet \in [Devices -> Attempts \cup {NoAttempt}]
  /\ shown \in [Attempts -> Attempts \cup {NoAttempt}]
  /\ charged \subseteq Attempts
  /\ snap \in [Attempts -> Lines]
  /\ draft \in [Attempts -> Order \cup {NoOrder}]
  /\ rest \in [Attempts -> SUBSET LineIds]
  /\ mine \subseteq Order
  /\ orders \subseteq Order
  /\ stock \in [Documents -> Nat]

(* However taps on one or several devices interleave around the one payment *)
(* sheet of each app, every order stands on an intent that was paid, and no *)
(* intent stands behind the orders of two attempts.                         *)
OneChargePerCheckout ==
  \A o1, o2 \in mine :
    /\ shown[o1.attempt] \in charged
    /\ shown[o1.attempt] = shown[o2.attempt] => o1.attempt = o2.attempt

OrdersOf(a) == {o \in orders : o.attempt = a}

(* The orders of a finished attempt add up to what was paid, the fee of a    *)
(* purely restaurant order apart ('order_total' leaves it out), provided the *)
(* cart and the fee did not change between the tap and the second reading.   *)
ChargeAccountsForOrders ==
  \A a \in Attempts :
    LET i == shown[a]
        course == {o \in OrdersOf(a) : o.kind = "course"}
    IN  /\ pc[a] = "done"
        /\ snap[a] = quote[i].lines
        /\ \A o \in OrdersOf(a) : o.fee = quote[i].fee
        => Amount(i) = MapThenSumSet(OrderTotal, OrdersOf(a))
                       + (IF course = {} THEN quote[i].fee ELSE 0)

(* No line is lost: a step that takes lines out of the cart to clear it has   *)
(* an order in both collections, of the same attempt, that lists them.        *)
ClearedOnlyOnceOrdered ==
  [][\A a \in Attempts, l \in LineIds :
       ClearLine(a) /\ cart[l] # NoLine /\ cart'[l] = NoLine =>
         \E o \in mine \cap orders :
            o.attempt = a /\ o.lines[l] # NoLine /\ o.lines[l].good = cart[l].good]_vars

(* An empty cart can be paid, and the cart be emptied while it is being paid; *)
(* all the same every order written lists something to deliver.               *)
NoEmptyOrder == \A o \in mine : Ids(o.lines) # {}

(* The calls a submission still has to make, but for the rounds of the loop   *)
(* it is in, which rest counts.                                               *)
Ahead(a) ==
  CASE pc[a] = "confirmed" -> 8
    [] pc[a] = "reading"   -> 7
    [] pc[a] = "book"      -> IF draft[a].kind = "course" THEN 6 ELSE 3
    [] pc[a] = "share"     -> IF draft[a].kind = "course" THEN 5 ELSE 2
    [] pc[a] = "stock"     -> 4
    [] pc[a] = "clear"     -> 1
    [] OTHER               -> 0

Further(a) ==
  \/ Ahead(a)' < Ahead(a)
  \/ Ahead(a)' = Ahead(a) /\ rest'[a] \subseteq rest[a] /\ rest'[a] # rest[a]

(* A submission comes to an end: each answer it gets brings it nearer to it,  *)
(* and nothing that other attempts, pages or edits of the cart do sets it     *)
(* back or gives it more to do.                                               *)
SubmissionAdvances ==
  [][\A a \in Attempts :
       /\ Submit(a) => Further(a)
       /\ Ahead(a) > 0 => Further(a) \/ UNCHANGED <<Ahead(a), rest[a]>>]_vars

(* Nothing is paid for twice by the same cart: the lines a finished attempt   *)
(* has ordered are out of the cart and stay out, though edits of them may     *)
(* still be on their way.                                                     *)
DoneLeavesNoLineBehind ==
  \A a \in Attempts : pc[a] = "done" =>
    \A l \in Ids(snap[a]) :
      /\ cart[l] = NoLine
      /\ \E o \in mine \cap orders : o.attempt = a /\ o.lines[l] = snap[a][l]

(* The courier can deliver: every order has a city, and a meal whose attempt  *)
(* was started from a cart of meals only has an address.                      *)
DeliveryKnown ==
  \A o \in mine :
    /\ o.city # NoCity
    /\ o.kind = "restaurant" /\ MealIds(quote[o.attempt].lines) = Ids(quote[o.attempt].lines)
         => o.address

(* A paid attempt is carried through: unless an await throws, the app is      *)
(* killed, the page is left or the cart found empty, everything it read ends  *)
(* up ordered in both collections and out of the cart.                        *)
PaidIsOrdered ==
  \A a \in Attempts :
    At(a, "confirmed") ~>
      \/ a \in stopped
      \/ pc[a] \in {"lost", "empty"}
      \/ /\ pc[a] = "done"
         /\ \A l \in Ids(snap[a]) : cart[l] = NoLine /\
              \E o \in mine \cap orders : o.attempt = a /\ o.lines[l] = snap[a][l]

(* What the comment "Decrementer les stocks" says: once an attempt is done,   *)
(* the products it ordered have less in stock than they had.                  *)
StockTaken ==
  \A a \in Attempts : pc[a] = "done" =>
    \A l \in Ids(snap[a]) \ MealIds(snap[a]) :
      LET p == snap[a][l].good IN
      InitialStock[p] > 0 => stock[<<"product", p>>] < InitialStock[p]

=============================================================================
