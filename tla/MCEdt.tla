------------------------------- MODULE MCEdt --------------------------------
(* Instances of Edt for TLC: the horizon is longer than the delay of one packet *)
(* and as long as that of two; a packet may come stamped within the horizon or  *)
(* at it.                                                                       *)
EXTENDS Edt, TLC

Symmetric == Permutations(CPU) \cup Permutations(Elements)
=============================================================================
