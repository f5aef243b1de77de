------------------------------ MODULE MCReadline ------------------------------
(* Two files of at most five bytes, blocks of two, lines of up to three.  "n" is
   the newline. *)
EXTENDS Readline, TLC

CONSTANTS t1, t2, f1, f2

MCContent == f1 :> <<"a", "b", "n", "c", "n">> @@ f2 :> <<"d", "n", "e">>
OneEach == t1 :> {f1} @@ t2 :> {f2}
===============================================================================
