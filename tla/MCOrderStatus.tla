--------------------------- MODULE MCOrderStatus ---------------------------
(* Model-checking instances of OrderStatus. *)
EXTENDS OrderStatus

CONSTANTS livree, u1, u2, o1, o2, a1, a2

=============================================================================
