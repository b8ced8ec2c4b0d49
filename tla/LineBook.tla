------------------------------ MODULE LineBook ------------------------------
(***************************************************************************)
(* What the cart promises, without calls in flight: a book of lines.  A    *)
(* line is entered once, under an id of its own; it keeps its good for     *)
(* life, its quantity may be changed as a whole, and what is due for it is *)
(* always the price of the good times the quantity.  A line struck out     *)
(* stays out.                                                              *)
(***************************************************************************)
EXTENDS Naturals

CONSTANTS
  Ids,      \* names of lines
  Goods,    \* what can be bought
  Price,    \* the price of each good
  MaxQty    \* units of a line

VARIABLES
  lines,    \* the lines of the book, by id
  used      \* the ids that were ever given to a line

bookVars == <<lines, used>>

Entry(g, n) == [good |-> g, quantity |-> n, due |-> Price[g] * n]

Init == lines = [l \in {} |-> {}] /\ used = {}

Put(l, g, n) ==
  /\ l \notin used
  /\ used' = used \cup {l}
  /\ lines' = [k \in DOMAIN lines \cup {l} |-> IF k = l THEN Entry(g, n) ELSE lines[k]]

Change(l, n) ==
  /\ l \in DOMAIN lines
  /\ lines' = [lines EXCEPT ![l] = Entry(@.good, n)]
  /\ UNCHANGED used

Strike(l) ==
  /\ l \in DOMAIN lines
  /\ lines' = [k \in DOMAIN lines \ {l} |-> lines[k]]
  /\ UNCHANGED used

Next ==
  \E l \in Ids :
    \/ Strike(l)
    \/ \E n \in 1..MaxQty : Change(l, n) \/ \E g \in Goods : Put(l, g, n)

Spec == Init /\ [][Next]_bookVars

=============================================================================
