----------------------------- MODULE MCCheckout -----------------------------
(* Model-checking instances of Checkout.  Prices and fees are chosen so that *)
(* no two sums of them are equal by accident.                                *)
EXTENDS Checkout, TLC

CONSTANTS apple, pizza, here, there, l1, l2, p1, p2, a1, a2

MCPrice == apple :> 100 @@ pizza :> 1000
MCCourseFee == [c \in Cities |-> IF c = here THEN 3 ELSE 5]
MCRestaurantFee == [c \in Cities |-> IF c = here THEN 20 ELSE 30]
MCStock == apple :> 4

\* All pages on the same device.
SameDevice == [p \in Pages |-> CHOOSE d \in Devices : TRUE]

LineSymmetry == Permutations(LineIds)

(* Lines, pages and attempts are interchangeable, but TLC's symmetry is not  *)
(* sound for liveness.  Ids are taken in one order instead: of the behaviours *)
(* that differ by the names of ids only, one is kept.                        *)
InOrder ==
  /\ l2 \in spent => l1 \in spent
  /\ page[p2].stage # "new" => page[p1].stage # "new"
  /\ pc[a2] # "idle" => pc[a1] # "idle"

OrderedSpec == Init /\ [][Next /\ InOrder']_vars /\ Fairness
=============================================================================
