------------------------------- MODULE MCUsers -------------------------------
(* Model-checking instances of Users. *)
EXTENDS Users, TLC

CONSTANTS ann

\* All phones are Ann's.
OneHolder == [p \in Phones |-> ann]
=============================================================================
