------------------------------ MODULE MCSession ------------------------------
(* Model-checking instances of Session. *)
EXTENDS Session, TLC
=============================================================================
