------------------------------ MODULE MCMylist ------------------------------
(* f1 covers two episodes by its name, f2 the first of them.                  *)
EXTENDS Mylist, TLC

CONSTANTS f1, f2, e1, e2

MCSpan == (f1 :> <<e1, e2>>) @@ (f2 :> <<e1>>)
=============================================================================
