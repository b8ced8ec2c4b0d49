---------------------------- MODULE MCImageForm ----------------------------
(* Model-checking instances of ImageForm. *)
EXTENDS ImageForm

CONSTANTS f1, f2, r1, r2, i1, i2, i3, t1, t2

=============================================================================
