----------------------------- MODULE CartProofs -----------------------------
(***************************************************************************)
(* Proofs about Cart, for every set of lines, products, menus and prices.  *)
(*                                                                         *)
(* LineTotals is not inductive: a pending update() carries a total that    *)
(* was computed earlier.  It is strengthened with what is known of the     *)
(* calls in flight: they name lines that existed, and the total of an      *)
(* update is that of the line it will find, if it still finds one.         *)
(***************************************************************************)
EXTENDS Cart, TLAPS

(* Every line of the cart, and every line a call names, has used up its id. *)
IdsSpent ==
  /\ InCart \subseteq spent
  /\ \A g \in gets : g.line \in spent
  /\ \A w \in writes : w.line \in spent

(* No get() is started for less than one unit. *)
GetsPositive == \A g \in gets : g.quantity >= 1

(* A pending update agrees with the price of the line it is meant for. *)
WritesAgree ==
  \A w \in writes : w.quantity # 0 /\ w.line \in InCart =>
                      w.total = cart[w.line].price * w.quantity

LineInv == IdsSpent /\ GetsPositive /\ WritesAgree /\ LineTotals

-----------------------------------------------------------------------------
(* An empty cart is typed. *)
LEMMA CartInitType == CartInit => CartTypeOK
  BY CartAssumption DEF CartInit, CartTypeOK

(* Adding a line keeps the types. *)
LEMMA PutLineType ==
  ASSUME CartTypeOK, NEW l \in LineIds, NEW g \in Goods, NEW q \in Nat,
         PutLine(l, g, q)
  PROVE  CartTypeOK'
<1>1. Price[g] * q \in Nat
  BY CartAssumption
<1>2. [good |-> g, price |-> Price[g], quantity |-> q, total |-> Price[g] * q] \in Line
  BY <1>1, CartAssumption DEF Line
<1> QED
  BY <1>2 DEF CartTypeOK, PutLine

(* So do the taps that edit a line, the answers and the commits. *)
LEMMA UpdateQuantityType ==
  ASSUME CartTypeOK, NEW l \in LineIds, NEW n \in 1..MaxQty, UpdateQuantity(l, n)
  PROVE  CartTypeOK'
  BY CartAssumption DEF CartTypeOK, UpdateQuantity, Get

(* A removal is a write of its own kind. *)
LEMMA DeleteItemType ==
  ASSUME CartTypeOK, NEW l \in LineIds, DeleteItem(l)
  PROVE  CartTypeOK'
  BY DEF CartTypeOK, DeleteItem, Write

(* The total computed from a price and a quantity is a number. *)
LEMMA GetReturnsType ==
  ASSUME CartTypeOK, NEW g \in gets, GetReturns(g)
  PROVE  CartTypeOK'
<1>1. g \in Get
  BY DEF CartTypeOK
<1>2. CASE g.line \in InCart
  <2>1. cart[g.line] \in Line
    BY <1>1, <1>2 DEF CartTypeOK, InCart, Get
  <2>2. cart[g.line].price * g.quantity \in Nat
    BY <1>1, <2>1 DEF Line, Get
  <2> QED
    BY <1>1, <1>2, <2>2 DEF CartTypeOK, GetReturns, Get, Write
<1>3. CASE g.line \notin InCart
  BY <1>3 DEF CartTypeOK, GetReturns
<1> QED
  BY <1>2, <1>3

(* A write leaves a line or none. *)
LEMMA CommitType ==
  ASSUME CartTypeOK, NEW w \in writes, Commit(w)
  PROVE  CartTypeOK'
<1>1. w \in Write
  BY DEF CartTypeOK
<1>2. Written(w) \in Line \cup {NoLine}
  BY <1>1 DEF Written, InCart, CartTypeOK, Line, Write
<1> QED
  BY <1>1, <1>2 DEF CartTypeOK, Commit, Write

(* The steps of the cart keep its types: one case per action. *)
LEMMA CartNextType == CartTypeOK /\ CartNext => CartTypeOK'
<1> SUFFICES ASSUME CartTypeOK, CartNext PROVE CartTypeOK'
  OBVIOUS
<1>1. ASSUME NEW l \in LineIds, NEW g \in Goods, NEW q \in 1..MaxQty,
             ProductAddToCart(l, g, q)
      PROVE  CartTypeOK'
  BY <1>1, PutLineType, CartAssumption DEF ProductAddToCart
<1>2. ASSUME NEW l \in LineIds, NEW g \in Goods, MenuAddToCart(l, g)
      PROVE  CartTypeOK'
  BY <1>2, PutLineType DEF MenuAddToCart
<1> QED
  BY <1>1, <1>2, UpdateQuantityType, DeleteItemType, GetReturnsType, CommitType
     DEF CartNext, CartTap, CartServer

(* The types of the cart and of the calls in flight hold in every state. *)
THEOREM CartTypeCorrect == CartSpec => []CartTypeOK
<1>1. CartTypeOK /\ UNCHANGED cartVars => CartTypeOK'
  BY DEF CartTypeOK, cartVars
<1> QED
  BY <1>1, CartInitType, CartNextType, PTL DEF CartSpec

-----------------------------------------------------------------------------
(* An empty cart has no line to be wrong. *)
LEMMA CartInitLines == CartInit => LineInv
  BY DEF CartInit, LineInv, IdsSpent, GetsPositive, WritesAgree, LineTotals, InCart

(* A new line has a fresh id, which no call in flight can name. *)
LEMMA PutLineLines ==
  ASSUME CartTypeOK, LineInv, NEW l \in LineIds, NEW g \in Goods,
         NEW q \in Nat, q >= 1, PutLine(l, g, q)
  PROVE  LineInv'
<1> DEFINE new == [good |-> g, price |-> Price[g], quantity |-> q, total |-> Price[g] * q]
<1>1. /\ cart' = [cart EXCEPT ![l] = new]
      /\ spent' = spent \cup {l} /\ l \notin spent
      /\ gets' = gets /\ writes' = writes
  BY DEF PutLine
<1>2. \A k \in LineIds : k # l => cart'[k] = cart[k]
  BY <1>1 DEF CartTypeOK
<1>3. cart'[l] = new
  BY <1>1 DEF CartTypeOK
<1>4. IdsSpent'
  BY <1>1, <1>2 DEF LineInv, IdsSpent, InCart
<1>5. GetsPositive'
  BY <1>1 DEF LineInv, GetsPositive
<1>6. WritesAgree'
  BY <1>1, <1>2 DEF LineInv, WritesAgree, IdsSpent, InCart, CartTypeOK, Write
<1>7. LineTotals'
  BY <1>2, <1>3 DEF LineInv, LineTotals, InCart
<1> QED
  BY <1>4, <1>5, <1>6, <1>7 DEF LineInv

(* A tap on + or - asks for at least one unit of a line there is. *)
LEMMA UpdateQuantityLines ==
  ASSUME CartTypeOK, LineInv, NEW l \in LineIds, NEW n \in 1..MaxQty,
         UpdateQuantity(l, n)
  PROVE  LineInv'
<1>1. IdsSpent'
  BY DEF UpdateQuantity, LineInv, IdsSpent, InCart
<1>2. GetsPositive'
  BY CartAssumption DEF UpdateQuantity, LineInv, GetsPositive
<1> QED
  BY <1>1, <1>2 DEF UpdateQuantity, LineInv, WritesAgree, LineTotals, InCart

(* A removal carries no total. *)
LEMMA DeleteItemLines ==
  ASSUME CartTypeOK, LineInv, NEW l \in LineIds, DeleteItem(l)
  PROVE  LineInv'
  BY DEF DeleteItem, LineInv, IdsSpent, GetsPositive, WritesAgree, LineTotals, InCart

(* The total of the update is computed from the price just read. *)
LEMMA GetReturnsLines ==
  ASSUME CartTypeOK, LineInv, NEW g \in gets, GetReturns(g)
  PROVE  LineInv'
  BY DEF GetReturns, LineInv, IdsSpent, GetsPositive, WritesAgree, LineTotals, InCart

(* A commit changes one line; the price of that line is what it was. *)
LEMMA CommitLines ==
  ASSUME CartTypeOK, LineInv, NEW w \in writes, Commit(w)
  PROVE  LineInv'
<1>1. w \in Write /\ w.line \in spent
  BY DEF CartTypeOK, LineInv, IdsSpent
<1>2. \A k \in LineIds : k # w.line => cart'[k] = cart[k]
  BY <1>1 DEF Commit, CartTypeOK, Write
<1>3. cart'[w.line] = Written(w)
  BY <1>1 DEF Commit, CartTypeOK, Write
<1>4. writes' \subseteq writes /\ spent' = spent /\ gets' = gets
  BY DEF Commit
<1>5. CASE w.line \notin InCart \/ w.quantity = 0
  <2>1. cart'[w.line] = NoLine
    BY <1>3, <1>5 DEF Written
  <2> QED
    BY <1>2, <1>4, <2>1
       DEF LineInv, IdsSpent, GetsPositive, WritesAgree, LineTotals, InCart, CartTypeOK, Write
<1>6. CASE w.line \in InCart /\ w.quantity # 0
  <2>1. cart[w.line] \in Line
    BY <1>1, <1>6 DEF CartTypeOK, InCart, Write
  <2>2. /\ cart'[w.line] \in Line
        /\ cart'[w.line].price = cart[w.line].price
        /\ cart'[w.line].quantity = w.quantity
        /\ cart'[w.line].total = w.total
    BY <1>1, <1>3, <1>6, <2>1 DEF Written, Line, Write
  <2>3. w.total = cart[w.line].price * w.quantity
    BY <1>6 DEF LineInv, WritesAgree
  <2>4. IdsSpent'
    BY <1>1, <1>2, <1>4 DEF LineInv, IdsSpent, InCart
  <2>5. GetsPositive'
    BY <1>4 DEF LineInv, GetsPositive
  <2>6. WritesAgree'
    BY <1>2, <1>4, <1>6, <2>2 DEF LineInv, WritesAgree, InCart, CartTypeOK, Write
  <2>7. LineTotals'
    BY <1>1, <1>2, <1>6, <2>2, <2>3 DEF LineInv, LineTotals, InCart, Write
  <2> QED
    BY <2>4, <2>5, <2>6, <2>7 DEF LineInv
<1> QED
  BY <1>5, <1>6

(* Every step of the cart keeps LineInv: one case per action. *)
LEMMA CartNextLines == CartTypeOK /\ LineInv /\ CartNext => LineInv'
<1> SUFFICES ASSUME CartTypeOK, LineInv, CartNext PROVE LineInv'
  OBVIOUS
<1>1. ASSUME NEW l \in LineIds, NEW g \in Goods, NEW q \in 1..MaxQty,
             ProductAddToCart(l, g, q)
      PROVE  LineInv'
  BY <1>1, PutLineLines, CartAssumption DEF ProductAddToCart
<1>2. ASSUME NEW l \in LineIds, NEW g \in Goods, MenuAddToCart(l, g)
      PROVE  LineInv'
  BY <1>2, PutLineLines DEF MenuAddToCart
<1> QED
  BY <1>1, <1>2, UpdateQuantityLines, DeleteItemLines, GetReturnsLines, CommitLines
     DEF CartNext, CartTap, CartServer

(* Whatever the order of answers and commits, total = price * quantity and  *)
(* quantity >= 1 on every line of the cart.                                 *)
THEOREM LineTotalsHold == CartSpec => []LineTotals
<1>1. LineInv /\ UNCHANGED cartVars => LineInv'
  BY DEF LineInv, IdsSpent, GetsPositive, WritesAgree, LineTotals, InCart, cartVars
<1>2. LineInv => LineTotals
  BY DEF LineInv
<1> QED
  BY <1>1, <1>2, CartInitLines, CartNextLines, CartTypeCorrect, PTL DEF CartSpec

-----------------------------------------------------------------------------
(* One step: no action puts a line back under an id that was used. *)
LEMMA GoneStaysGone ==
  ASSUME CartTypeOK, [CartNext]_cartVars, NEW l \in LineIds, cart[l] = NoLine, l \in spent
  PROVE  cart'[l] = NoLine
<1>1. ASSUME NEW k \in LineIds, NEW g \in Goods, NEW q, PutLine(k, g, q)
      PROVE  cart'[l] = NoLine
  BY <1>1 DEF PutLine, CartTypeOK
<1>2. ASSUME NEW w \in writes, Commit(w)
      PROVE  cart'[l] = NoLine
  <2>1. w \in Write
    BY DEF CartTypeOK
  <2> QED
    BY <1>2, <2>1 DEF Commit, Written, InCart, CartTypeOK, Write
<1> QED
  BY <1>1, <1>2
     DEF CartNext, CartTap, CartServer, ProductAddToCart, MenuAddToCart,
         UpdateQuantity, DeleteItem, GetReturns, cartVars

(* A line that left the cart does not come back. *)
THEOREM NoResurrectionHolds == CartSpec => NoResurrection
<1>1. CartTypeOK /\ [CartNext]_cartVars
        => [\A l \in LineIds : cart[l] = NoLine /\ l \in spent => cart'[l] = NoLine]_cartVars
  BY GoneStaysGone
<1> QED
  BY <1>1, CartTypeCorrect, PTL DEF CartSpec, NoResurrection

(* One step: the ids used stay used. *)
LEMMA SpentGrows == [CartNext]_cartVars => spent \subseteq spent'
  BY DEF CartNext, CartTap, CartServer, ProductAddToCart, MenuAddToCart, PutLine,
         UpdateQuantity, DeleteItem, GetReturns, Commit, cartVars

(* One step: a removal on its way stays there, or takes the line out. *)
LEMMA RemovalStays ==
  ASSUME CartTypeOK, [CartNext]_cartVars, NEW w \in writes, w.quantity = 0
  PROVE  w \in writes' \/ cart'[w.line] = NoLine
<1>1. ASSUME NEW v \in writes, Commit(v)
      PROVE  w \in writes' \/ cart'[w.line] = NoLine
  <2>1. w \in Write
    BY DEF CartTypeOK
  <2>2. CASE v = w
    BY <1>1, <2>1, <2>2 DEF Commit, Written, CartTypeOK, Write
  <2>3. CASE v # w
    BY <1>1, <2>3 DEF Commit
  <2> QED
    BY <2>2, <2>3
<1> QED
  BY <1>1
     DEF CartNext, CartTap, CartServer, ProductAddToCart, MenuAddToCart, PutLine,
         UpdateQuantity, DeleteItem, GetReturns, cartVars

(* One step: a line whose removal was asked for is still on its way out, or out. *)
LEMMA RemovedStays ==
  ASSUME CartTypeOK, [CartNext]_cartVars, NEW l \in LineIds, Removed(l)
  PROVE  Removed(l)'
<1>1. l \in spent'
  BY SpentGrows DEF Removed
<1>2. CASE cart[l] = NoLine
  BY <1>1, <1>2, GoneStaysGone DEF Removed
<1>3. ASSUME NEW w \in writes, w.line = l, w.quantity = 0
      PROVE  Removed(l)'
  BY <1>1, <1>3, RemovalStays DEF Removed
<1> QED
  BY <1>2, <1>3 DEF Removed

(* The bin wins over every edit that is under way. *)
THEOREM RemovalWinsHolds == CartSpec => RemovalWins
<1>1. CartTypeOK /\ [CartNext]_cartVars
        => [\A l \in LineIds : Removed(l) => Removed(l)']_cartVars
  BY RemovedStays
<1> QED
  BY <1>1, CartTypeCorrect, PTL DEF CartSpec, RemovalWins

-----------------------------------------------------------------------------
(***************************************************************************)
(* The refinement of LineBook.  Beyond LineInv it needs the price of a     *)
(* line to be that of its good, and the calls in flight to ask for no more *)
(* units than a line may have.                                             *)
(***************************************************************************)
PricesKept == \A l \in InCart : cart[l].price = Price[cart[l].good]

CallsBounded ==
  /\ \A g \in gets : g.quantity \in 1..MaxQty
  /\ \A w \in writes : w.quantity \in 0..MaxQty

BookInv == PricesKept /\ CallsBounded

(* The empty cart is the empty book. *)
LEMMA CartInitBook == CartInit => BookInv /\ Promised!Init
<1> SUFFICES ASSUME CartInit PROVE BookInv /\ Promised!Init
  OBVIOUS
<1>1. InCart = {} /\ gets = {} /\ writes = {} /\ spent = {}
  BY DEF CartInit, InCart
<1>2. BookInv
  BY <1>1 DEF BookInv, PricesKept, CallsBounded
<1>3. BookedLines = [l \in {} |-> {}]
  BY <1>1 DEF BookedLines
<1> QED
  BY <1>1, <1>2, <1>3 DEF Promised!Init

(* A line of the cart as the book has it. *)
LEMMA BookedAsEntry ==
  ASSUME CartTypeOK, LineInv, BookInv, NEW l \in InCart
  PROVE  BookedLines[l] = Promised!Entry(cart[l].good, cart[l].quantity)
  BY DEF LineInv, LineTotals, BookInv, PricesKept, BookedLines, Promised!Entry

(* What is booked depends on the cart alone. *)
LEMMA SameBook == cart' = cart => BookedLines' = BookedLines
  BY DEF BookedLines, InCart

(* A line entered in the cart is a line entered in the book. *)
LEMMA PutLineBook ==
  ASSUME CartTypeOK, LineInv, BookInv, NEW l \in LineIds, NEW g \in Goods,
         NEW q \in 1..MaxQty, PutLine(l, g, q)
  PROVE  BookInv' /\ Promised!Put(l, g, q)
<1> DEFINE new == [good |-> g, price |-> Price[g], quantity |-> q, total |-> Price[g] * q]
<1>1. /\ cart' = [cart EXCEPT ![l] = new]
      /\ spent' = spent \cup {l} /\ l \notin spent
      /\ gets' = gets /\ writes' = writes
  BY DEF PutLine
<1>2. new \in Line
  <2>1. Price[g] * q \in Nat
    BY CartAssumption
  <2> QED
    BY <2>1, CartAssumption DEF Line
<1>3. cart'[l] = new /\ \A k \in LineIds : k # l => cart'[k] = cart[k]
  BY <1>1 DEF CartTypeOK
<1>4. new # NoLine
  BY <1>2, CartAssumption
<1>5. InCart' = InCart \cup {l}
  BY <1>3, <1>4 DEF InCart
<1>6. l \notin InCart
  BY <1>1 DEF LineInv, IdsSpent
<1>7. BookInv'
  BY <1>1, <1>3, <1>5 DEF BookInv, PricesKept, CallsBounded, InCart
<1>8. BookedLines' = [k \in DOMAIN BookedLines \cup {l} |->
                        IF k = l THEN Promised!Entry(g, q) ELSE BookedLines[k]]
  <2>1. BookedLines' = [k \in InCart \cup {l} |-> [good     |-> cart'[k].good,
                                                  quantity |-> cart'[k].quantity,
                                                  due      |-> cart'[k].total]]
    BY <1>5 DEF BookedLines
  <2>2. DOMAIN BookedLines = InCart
    BY DEF BookedLines
  <2>3. [good |-> cart'[l].good, quantity |-> cart'[l].quantity, due |-> cart'[l].total]
          = Promised!Entry(g, q)
    BY <1>3 DEF Promised!Entry
  <2>4. ASSUME NEW k \in InCart
        PROVE  /\ k # l
               /\ [good |-> cart'[k].good, quantity |-> cart'[k].quantity,
                   due |-> cart'[k].total] = BookedLines[k]
    BY <1>3, <1>6 DEF BookedLines, InCart
  <2> QED
    BY <2>1, <2>2, <2>3, <2>4
<1> QED
  BY <1>1, <1>7, <1>8 DEF Promised!Put

(* Clearing a line, as a commit or the checkout does, strikes it out. *)
LEMMA LineStruck ==
  ASSUME CartTypeOK, NEW l \in InCart, cart' = [cart EXCEPT ![l] = NoLine], spent' = spent
  PROVE  Promised!Strike(l)
<1>1. l \in LineIds
  BY DEF InCart
<1>2. cart'[l] = NoLine /\ \A k \in LineIds : k # l => cart'[k] = cart[k]
  BY <1>1 DEF CartTypeOK
<1>3. InCart' = InCart \ {l}
  BY <1>1, <1>2 DEF InCart
<1>4. DOMAIN BookedLines = InCart
  BY DEF BookedLines
<1>5. BookedLines' = [k \in InCart \ {l} |-> BookedLines[k]]
  <2>1. ASSUME NEW k \in InCart \ {l}
        PROVE  [good |-> cart'[k].good, quantity |-> cart'[k].quantity,
                due |-> cart'[k].total] = BookedLines[k]
    BY <1>2 DEF BookedLines, InCart
  <2> QED
    BY <1>3, <2>1 DEF BookedLines
<1> QED
  BY <1>4, <1>5 DEF Promised!Strike

(* An update changes the quantity of one line as a whole. *)
LEMMA LineChanged ==
  ASSUME CartTypeOK, LineInv, BookInv, NEW w \in writes, Commit(w),
         w.line \in InCart, w.quantity # 0
  PROVE  Promised!Change(w.line, w.quantity)
<1> DEFINE l == w.line
<1>1. w \in Write /\ l \in LineIds /\ cart[l] \in Line
  BY DEF CartTypeOK, InCart, Write
<1>2. /\ cart'[l] = [cart[l] EXCEPT !.quantity = w.quantity, !.total = w.total]
      /\ \A k \in LineIds : k # l => cart'[k] = cart[k]
  BY <1>1 DEF Commit, CartTypeOK, Written
<1>3. /\ cart'[l] \in Line
      /\ cart'[l].good = cart[l].good
      /\ cart'[l].quantity = w.quantity
      /\ cart'[l].total = w.total
  BY <1>1, <1>2 DEF Line, Write
<1>4. InCart' = InCart
  BY <1>1, <1>2, <1>3, CartAssumption DEF InCart
<1>5. w.total = Price[cart[l].good] * w.quantity
  BY DEF LineInv, WritesAgree, BookInv, PricesKept
<1>6. DOMAIN BookedLines = InCart /\ BookedLines[l].good = cart[l].good
  BY DEF BookedLines
<1>7. BookedLines' = [BookedLines EXCEPT ![l] = Promised!Entry(@.good, w.quantity)]
  <2>1. BookedLines' = [k \in InCart |-> [good     |-> cart'[k].good,
                                          quantity |-> cart'[k].quantity,
                                          due      |-> cart'[k].total]]
    BY <1>4 DEF BookedLines
  <2>2. [good |-> cart'[l].good, quantity |-> cart'[l].quantity, due |-> cart'[l].total]
          = Promised!Entry(BookedLines[l].good, w.quantity)
    BY <1>3, <1>5, <1>6 DEF Promised!Entry
  <2>3. ASSUME NEW k \in InCart, k # l
        PROVE  [good |-> cart'[k].good, quantity |-> cart'[k].quantity,
                due |-> cart'[k].total] = BookedLines[k]
    BY <1>2, <2>3 DEF BookedLines, InCart
  <2> QED
    BY <1>6, <2>1, <2>2, <2>3 DEF BookedLines
<1> QED
  BY <1>6, <1>7 DEF Promised!Change, Commit

(* A commit is a change, a removal, or comes too late and does nothing. *)
LEMMA CommitBook ==
  ASSUME CartTypeOK, LineInv, BookInv, NEW w \in writes, Commit(w)
  PROVE  BookInv' /\ [Promised!Next]_(Promised!bookVars)
<1>1. w \in Write /\ w.line \in LineIds /\ w.quantity \in 0..MaxQty
  BY DEF CartTypeOK, Write, BookInv, CallsBounded
<1>2. /\ cart' = [cart EXCEPT ![w.line] = Written(w)]
      /\ gets' = gets /\ writes' \subseteq writes /\ spent' = spent
  BY DEF Commit
<1>3. PricesKept'
  <2>1. ASSUME NEW k \in LineIds, cart'[k] # NoLine
        PROVE  /\ cart[k] # NoLine
               /\ cart'[k].price = cart[k].price
               /\ cart'[k].good = cart[k].good
    <3>1. CASE k # w.line
      BY <1>1, <1>2, <2>1, <3>1 DEF CartTypeOK
    <3>2. CASE k = w.line
      <4>1. cart'[k] = Written(w)
        BY <1>1, <1>2, <3>2 DEF CartTypeOK
      <4>2. cart[k] # NoLine /\ cart[k] \in Line
        BY <1>1, <2>1, <3>2, <4>1 DEF Written, InCart, CartTypeOK
      <4>3. cart'[k] = [cart[k] EXCEPT !.quantity = w.quantity, !.total = w.total]
        BY <2>1, <3>2, <4>1 DEF Written
      <4> QED
        BY <4>2, <4>3 DEF Line
    <3> QED
      BY <3>1, <3>2
  <2> QED
    BY <2>1 DEF BookInv, PricesKept, InCart
<1>4. CallsBounded'
  BY <1>2 DEF BookInv, CallsBounded
<1>5. CASE w.line \notin InCart
  <2>1. cart' = cart
    BY <1>1, <1>2, <1>5 DEF Written, InCart, CartTypeOK
  <2> QED
    BY <1>2, <1>3, <1>4, <2>1, SameBook DEF BookInv, Promised!bookVars
<1>6. CASE w.line \in InCart /\ w.quantity = 0
  <2>1. Promised!Strike(w.line)
    BY <1>2, <1>6, LineStruck DEF Written
  <2> QED
    BY <1>1, <1>3, <1>4, <2>1 DEF BookInv, Promised!Next
<1>7. CASE w.line \in InCart /\ w.quantity # 0
  <2>1. Promised!Change(w.line, w.quantity)
    BY <1>7, LineChanged
  <2>2. w.quantity \in 1..MaxQty
    BY <1>1, <1>7, CartAssumption
  <2> QED
    BY <1>1, <1>3, <1>4, <2>1, <2>2 DEF BookInv, Promised!Next
<1> QED
  BY <1>5, <1>6, <1>7

(* A step that only starts or answers calls leaves the book alone. *)
LEMMA CallsBook ==
  ASSUME CartTypeOK, BookInv,
         \/ \E l \in LineIds, n \in 1..MaxQty : UpdateQuantity(l, n)
         \/ \E l \in LineIds : DeleteItem(l)
         \/ \E g \in gets : GetReturns(g)
  PROVE  BookInv' /\ UNCHANGED (Promised!bookVars)
<1>1. cart' = cart /\ spent' = spent
  BY DEF UpdateQuantity, DeleteItem, GetReturns
<1>2. PricesKept'
  BY <1>1 DEF BookInv, PricesKept, InCart
<1>3. CallsBounded'
  BY CartAssumption DEF BookInv, CallsBounded, UpdateQuantity, DeleteItem, GetReturns
<1> QED
  BY <1>1, <1>2, <1>3, SameBook DEF BookInv, Promised!bookVars

(* Every step of the cart is a step of the book or none. *)
LEMMA CartNextBook ==
  ASSUME CartTypeOK, LineInv, BookInv, [CartNext]_cartVars
  PROVE  BookInv' /\ [Promised!Next]_(Promised!bookVars)
<1>1. ASSUME NEW l \in LineIds, NEW g \in Goods, NEW q \in 1..MaxQty, PutLine(l, g, q)
      PROVE  BookInv' /\ [Promised!Next]_(Promised!bookVars)
  BY <1>1, PutLineBook DEF Promised!Next
<1>2. 1 \in 1..MaxQty
  BY CartAssumption
<1>3. CASE UNCHANGED cartVars
  BY <1>3, SameBook DEF cartVars, BookInv, PricesKept, CallsBounded, InCart, Promised!bookVars
<1> QED
  BY <1>1, <1>2, <1>3, CallsBook, CommitBook
     DEF CartNext, CartTap, CartServer, ProductAddToCart, MenuAddToCart

(* The cart implements the book of lines. *)
THEOREM CartKeepsPromise == CartSpec => CartPromise
<1>1. LineInv /\ UNCHANGED cartVars => LineInv'
  BY DEF LineInv, IdsSpent, GetsPositive, WritesAgree, LineTotals, InCart, cartVars
<1>2. CartTypeOK /\ LineInv /\ [CartNext]_cartVars => LineInv'
  BY <1>1, CartNextLines
<1>3. CartTypeOK /\ LineInv /\ BookInv /\ [CartNext]_cartVars
        => BookInv' /\ [Promised!Next]_(Promised!bookVars)
  BY CartNextBook
<1> QED
  BY <1>2, <1>3, CartInitLines, CartInitBook, CartTypeCorrect, PTL
     DEF CartSpec, CartPromise, Promised!Spec

=============================================================================
