-------------------------------- MODULE Cart --------------------------------
(***************************************************************************)
(* The cart of one customer: the Firestore collection users/{uid}/cart,    *)
(* filled by ProductDetailPage and RestaurantMenuPage and edited by the    *)
(* buttons of CartPage.                                                    *)
(*                                                                         *)
(* Firestore is reached through asynchronous calls that CartPage does not  *)
(* await.  A change of quantity is three steps, between which anything may *)
(* happen: the tap starts a get(), the answer of the get() starts an       *)
(* update(), and the update() is committed.  A removal is two: tap, commit.*)
(***************************************************************************)
EXTENDS Integers, FiniteSets

CONSTANTS
  LineIds,    \* document ids of the cart, each generated afresh by doc(null) or add()
  Products,   \* documents of the collection 'product'
  Menus,      \* documents of the collection 'menu'
  Price,      \* the price of each of them, in cents
  MaxQty,     \* bound: units of a line
  MaxEdits,   \* bound: taps whose effect is not committed yet
  NoLine      \* the id is not a document of the cart

Goods == Products \cup Menus

(* One line of the cart; kind is the field 'type', absent on a product. *)
Line == [good : Goods, price : Nat, quantity : Nat, total : Nat]

ASSUME CartAssumption ==
  /\ Price \in [Goods -> Nat]
  /\ NoLine \notin Line
  /\ MaxQty \in Nat \ {0}
  /\ MaxEdits \in Nat

VARIABLES
  cart,     \* the documents of users/{uid}/cart
  spent,    \* the ids handed out so far: an auto-generated id never comes twice
  gets,     \* get() calls of _updateQuantity that are not answered yet
  writes    \* update() and delete() calls that are not committed yet

cartVars == <<cart, spent, gets, writes>>

Get   == [line : LineIds, quantity : Nat]
Write == [line : LineIds, quantity : Nat, total : Nat]   \* quantity 0: delete()

InCart == {l \in LineIds : cart[l] # NoLine}

IsMeal(line) == line.good \in Menus

(* docs.every((doc) => doc['type'] == 'restaurant'): true of an empty cart. *)
OnlyRestaurant == \A l \in InCart : IsMeal(cart[l])

(* The quantities a screen may show for l: the committed one, and those of  *)
(* its own updates, which the snapshot listener shows before the commit.    *)
Rendered(l) == {cart[l].quantity} \cup
               {w.quantity : w \in {v \in writes : v.line = l /\ v.quantity > 0}}

MayTap == Cardinality(gets) + Cardinality(writes) < MaxEdits

-----------------------------------------------------------------------------
CartInit ==
  /\ cart = [l \in LineIds |-> NoLine]
  /\ spent = {}
  /\ gets = {}
  /\ writes = {}

(* Mutant: the id of the product serves as that of the line, and comes again. *)
PutLineAgain(l, g, q) ==
  /\ spent' = spent \cup {l}
  /\ cart' = [cart EXCEPT ![l] = [good |-> g, price |-> Price[g],
                                  quantity |-> q, total |-> Price[g] * q]]
  /\ UNCHANGED <<gets, writes>>

PutLine(l, g, q) ==
  /\ l \notin spent
  /\ spent' = spent \cup {l}
  /\ cart' = [cart EXCEPT ![l] = [good |-> g, price |-> Price[g],
                                  quantity |-> q, total |-> Price[g] * q]]
  /\ UNCHANGED <<gets, writes>>

(* ProductDetailPage._addToCart: the map has no 'id', so doc(product['id']) *)
(* is a fresh document every time and the merge never meets another line.   *)
ProductAddToCart(l, g, q) == g \in Products /\ q \in 1..MaxQty /\ PutLine(l, g, q)

(* RestaurantMenuPage.addToCart. *)
MenuAddToCart(l, g) == g \in Menus /\ PutLine(l, g, 1)

(* The - and + buttons of a line, when the new quantity is not below 1. *)
UpdateQuantity(l, n) ==
  /\ MayTap
  /\ l \in InCart
  /\ n \in 1..MaxQty
  /\ \E q \in Rendered(l) : n \in {q - 1, q + 1}
  /\ gets' = gets \cup {[line |-> l, quantity |-> n]}
  /\ UNCHANGED <<cart, spent, writes>>

(* The bin of a line, or its - button at 1. *)
DeleteItem(l) ==
  /\ MayTap
  /\ l \in InCart
  /\ writes' = writes \cup {[line |-> l, quantity |-> 0, total |-> 0]}
  /\ UNCHANGED <<cart, spent, gets>>

(* Mutant: the total is moved by one unit instead of computed afresh. *)
GetReturnsByOne(g) ==
  /\ gets' = gets \ {g}
  /\ writes' = IF g.line \in InCart
               THEN writes \cup {[line |-> g.line, quantity |-> g.quantity,
                                  total |-> cart[g.line].total + cart[g.line].price]}
               ELSE writes
  /\ UNCHANGED <<cart, spent>>

(* The continuation of get(): doc.data()! throws when the line is gone,     *)
(* otherwise the new total is computed from the price read.                 *)
GetReturns(g) ==
  /\ gets' = gets \ {g}
  /\ writes' = IF g.line \in InCart
               THEN writes \cup {[line |-> g.line, quantity |-> g.quantity,
                                  total |-> cart[g.line].price * g.quantity]}
               ELSE writes
  /\ UNCHANGED <<cart, spent>>

(* Mutants: set(..., merge) instead of update(), which creates the document *)
(* when it is absent, with its two fields only or with a full line.         *)
WrittenInPart(w) ==
  IF w.quantity = 0 THEN NoLine
  ELSE IF w.line \in InCart
       THEN [cart[w.line] EXCEPT !.quantity = w.quantity, !.total = w.total]
       ELSE [quantity |-> w.quantity, total |-> w.total]

WrittenInFull(w) ==
  IF w.quantity = 0 THEN NoLine
  ELSE [good |-> CHOOSE g \in Products : TRUE, price |-> w.total \div w.quantity,
        quantity |-> w.quantity, total |-> w.total]

(* The document a write leaves: update() fails on an absent document and    *)
(* changes two fields of a present one; delete() leaves none.               *)
Written(w) ==
  IF w.line \notin InCart \/ w.quantity = 0
  THEN NoLine
  ELSE [cart[w.line] EXCEPT !.quantity = w.quantity, !.total = w.total]

Commit(w) ==
  /\ writes' = writes \ {w}
  /\ cart' = [cart EXCEPT ![w.line] = Written(w)]
  /\ UNCHANGED <<spent, gets>>

CartTap ==
  \/ \E l \in LineIds, g \in Goods, q \in 1..MaxQty : ProductAddToCart(l, g, q)
  \/ \E l \in LineIds, g \in Goods : MenuAddToCart(l, g)
  \/ \E l \in LineIds, n \in 1..MaxQty : UpdateQuantity(l, n)
  \/ \E l \in LineIds : DeleteItem(l)

CartServer ==
  \/ \E g \in gets : GetReturns(g)
  \/ \E w \in writes : Commit(w)

CartNext == CartTap \/ CartServer

CartSpec == CartInit /\ [][CartNext]_cartVars

-----------------------------------------------------------------------------
CartTypeOK ==
  /\ cart \in [LineIds -> Line \cup {NoLine}]
  /\ spent \subseteq LineIds
  /\ gets \subseteq Get
  /\ writes \subseteq Write

(* Whatever the order in which concurrent changes of quantity are answered  *)
(* and committed, every line keeps total = price * quantity with at least   *)
(* one unit: what CartPage sums up and charges is what the lines say.       *)
LineTotals ==
  \A l \in InCart : /\ cart[l].quantity >= 1
                    /\ cart[l].total = cart[l].price * cart[l].quantity

(* The cart implements LineBook: whatever calls are in flight and in what    *)
(* order they land, a commit changes one line as a whole, strikes it out, or  *)
(* does nothing; an id names one line ever, of one good.                      *)
BookedLines == [l \in InCart |-> [good     |-> cart[l].good,
                                  quantity |-> cart[l].quantity,
                                  due      |-> cart[l].total]]
Promised == INSTANCE LineBook WITH Ids <- LineIds, lines <- BookedLines, used <- spent
CartPromise == Promised!Spec

(* A line that left the cart does not come back, however late an update     *)
(* of its quantity lands: update() is not set().                            *)
NoResurrection ==
  [][\A l \in LineIds : cart[l] = NoLine /\ l \in spent => cart'[l] = NoLine]_cartVars

(* The line is out of the cart, or its removal was asked for. *)
Removed(l) ==
  /\ l \in spent
  /\ cart[l] = NoLine \/ \E w \in writes : w.line = l /\ w.quantity = 0

(* The bin wins: once a removal was asked for it stays asked for until the  *)
(* line is out, and the line stays out, whichever edits of it are still on  *)
(* their way and whoever else clears the cart.                              *)
RemovalWins == [][\A l \in LineIds : Removed(l) => Removed(l)']_cartVars

=============================================================================
